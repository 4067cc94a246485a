--------------------------- MODULE ServicesProofs ----------------------------
(***************************************************************************)
(* Proofs about three services beside the streams.                         *)
(*                                                                         *)
(* Motion, for every setting of its times and any number of regions and    *)
(* restarts: the types, and that the script is told of motion by turns.    *)
(*                                                                         *)
(* JpegWorker, for any number of clients, restarts and changes of the idle *)
(* rate: the file of a single channel is whole.                            *)
(*                                                                         *)
(* WsSession, for any limits: the types, with the limit of the queue, that *)
(* a promised preview is on its way, and that responses come one by one    *)
(* and in order.                                                           *)
(***************************************************************************)
EXTENDS Motion, JpegWorker, WsSession,
        SequenceTheorems, FiniteSetTheorems, WellFoundedInduction, TLAPS

-----------------------------------------------------------------------------
(* The longest of the times is one of them.                                *)
LEMMA LongestIsTime == Longest \in Nat
<1>1. \E t \in Settings : \A u \in Settings : u <= t
  <2> DEFINE Of(S) == \E t \in S : \A u \in S : u <= t
  <2>1. Of({debounce_time, min_time})
    BY MotionAssumption DEF Settings
  <2>2. Of({debounce_time, min_time, post_time})
    BY <2>1, MotionAssumption DEF Settings
  <2>3. Of({debounce_time, min_time, post_time, cooldown_time})
    BY <2>2, MotionAssumption DEF Settings
  <2> QED
    BY <2>3, MotionAssumption DEF Settings
<1>2. Longest \in Settings
  BY <1>1 DEF Longest
<1> QED
  BY <1>2, MotionAssumption

(* While a result is looked at, it is held.                                *)
HeldWhileUsed == thread \in {"starting", "stopping", "release"} => held > 0

(* What the script was told while it runs.                                 *)
ScriptRuns ==
  /\ thread = "starting" => moving
  /\ thread = "stopping" => recording = 0

IInv == TypeOK /\ HeldWhileUsed /\ ScriptFollowsMotion /\ ScriptRuns

(* The settings one by one.                                                *)
LEMMA BoundsAreNat ==
  /\ debounce_time \in Nat /\ Regions \in Nat /\ MaxStarts \in Nat
  /\ MaxHeld \in Nat /\ MaxHeld > 0
BY MotionAssumption DEF Settings

LEMMA InitOK == Init => IInv
<1> SUFFICES ASSUME Init PROVE IInv
  OBVIOUS
<1>1. 0 \in 0 .. Longest
  BY LongestIsTime
<1>2. age \in [{"start", "motion", "cooldown"} -> 0 .. Longest]
  BY <1>1 DEF Init
<1>3. /\ signal \in BOOLEAN /\ ignoreInitialPeriod \in BOOLEAN /\ moving \in BOOLEAN
      /\ indicator \in BOOLEAN /\ isInCooldown \in BOOLEAN
  BY Zenon DEF Init
<1>4. /\ scene \in 0 .. Regions /\ starts \in 0 .. MaxStarts
      /\ debounce \in 0 .. debounce_time /\ held \in 0 .. MaxHeld
  BY BoundsAreNat DEF Init
<1>5. TypeOK
  BY <1>2, <1>3, <1>4 DEF TypeOK, Init
<1> QED
  BY <1>5 DEF Init, IInv, HeldWhileUsed, ScriptFollowsMotion, ScriptRuns

(* A further result is counted within the bound.                           *)
LEMMA GotOneHolds == TypeOK /\ GotOne => held' \in 1 .. MaxHeld
BY BoundsAreNat DEF TypeOK, GotOne, Least

(* Ages keep within the longest time, whether one starts anew or all grow. *)
LEMMA AgeKeeps ==
  ASSUME TypeOK,
         \/ UNCHANGED age
         \/ age' = [start |-> 0, motion |-> 0, cooldown |-> 0]
         \/ \E x \in {"start", "motion", "cooldown"} : age' = [age EXCEPT ![x] = 0]
         \/ age' = [x \in DOMAIN age |-> Least(age[x] + 1, Longest)]
  PROVE  age' \in [{"start", "motion", "cooldown"} -> 0 .. Longest]
<1>1. 0 \in 0 .. Longest
  BY LongestIsTime
<1>2. \A n \in 0 .. Longest : Least(n + 1, Longest) \in 0 .. Longest
  BY LongestIsTime DEF Least
<1> QED
  BY <1>1, <1>2 DEF TypeOK

(* The flags, the numbers and the ages, apart.                             *)
MotionFlags ==
  /\ signal \in BOOLEAN /\ ignoreInitialPeriod \in BOOLEAN /\ moving \in BOOLEAN
  /\ indicator \in BOOLEAN /\ isInCooldown \in BOOLEAN

Numbers ==
  /\ thread \in {"off", "born", "loop", "starting", "stopping", "release"}
  /\ scene \in 0 .. Regions /\ starts \in 0 .. MaxStarts
  /\ debounce \in 0 .. debounce_time /\ held \in 0 .. MaxHeld

Ages == age \in [{"start", "motion", "cooldown"} -> 0 .. Longest]

LEMMA TypesApart == TypeOK <=> MotionFlags /\ Numbers /\ Ages
BY DEF TypeOK, MotionFlags, Numbers, Ages

LEMMA FlagsKeep ==
  ASSUME MotionFlags, [Next]_vars
  PROVE  MotionFlags'
<1> USE DEF MotionFlags, settings, Considers
<1>1. CASE InitSucceeds
  BY Zenon, <1>1 DEF InitSucceeds
<1>2. CASE InitFails
  BY Zenon, <1>2 DEF InitFails
<1>3. CASE End
  BY Zenon, <1>3 DEF End
<1>4. CASE Discard
  BY Zenon, <1>4 DEF Discard, TooEarly
<1>5. CASE StartMotion
  BY Zenon, <1>5 DEF StartMotion
<1>6. CASE GoOnMoving
  BY Zenon, <1>6 DEF GoOnMoving
<1>7. CASE Debounce
  BY Zenon, <1>7 DEF Debounce
<1>8. CASE Rest
  BY Zenon, <1>8 DEF Rest
<1>9. CASE StopMotion
  BY Zenon, <1>9 DEF StopMotion
<1>10. CASE Started
  BY Zenon, <1>10 DEF Started
<1>11. CASE Stopped
  BY Zenon, <1>11 DEF Stopped
<1>12. CASE Release
  BY Zenon, <1>12 DEF Release
<1>13. CASE Start
  BY Zenon, <1>13 DEF Start
<1>14. CASE TellToStop
  BY Zenon, <1>14 DEF TellToStop
<1>15. CASE Changes
  BY Zenon, <1>15 DEF Changes
<1>16. CASE Tick
  BY Zenon, <1>16 DEF Tick
<1>17. CASE UNCHANGED vars
  BY Zenon, <1>17 DEF vars
<1> QED
  BY <1>1, <1>2, <1>3, <1>4, <1>5, <1>6, <1>7, <1>8, <1>9,
     <1>10, <1>11, <1>12, <1>13, <1>14, <1>15, <1>16, <1>17
     DEF Next, ThreadStep, Judge

LEMMA AgesKeep ==
  ASSUME TypeOK, [Next]_vars
  PROVE  Ages'
<1>1. \/ UNCHANGED age
      \/ age' = [start |-> 0, motion |-> 0, cooldown |-> 0]
      \/ \E x \in {"start", "motion", "cooldown"} : age' = [age EXCEPT ![x] = 0]
      \/ age' = [x \in DOMAIN age |-> Least(age[x] + 1, Longest)]
  BY DEF Next, ThreadStep, Judge, InitSucceeds, InitFails, End, Discard, StartMotion, GoOnMoving,
         Debounce, Rest, StopMotion, Started, Stopped, Release, Start, TellToStop, Changes, Tick, vars
<1> QED
  BY <1>1, AgeKeeps DEF Ages

(* The bounds of the numbers, with a result in hand wherever one is used.  *)
LEMMA NumbersKeep ==
  ASSUME TypeOK, Numbers, HeldWhileUsed, [Next]_vars
  PROVE  Numbers' /\ HeldWhileUsed'
<1> USE BoundsAreNat DEF Numbers, HeldWhileUsed, settings, Turn, Considers, Debounced
<1>1. CASE InitSucceeds
  BY <1>1 DEF InitSucceeds
<1>2. CASE InitFails
  BY <1>2 DEF InitFails
<1>3. CASE End
  BY <1>3 DEF End
<1>4. CASE Discard
  BY <1>4, GotOneHolds DEF Discard
<1>5. CASE StartMotion
  BY <1>5, GotOneHolds DEF StartMotion
<1>6. CASE GoOnMoving
  BY <1>6, GotOneHolds DEF GoOnMoving
<1>7. CASE Debounce
  BY <1>7, GotOneHolds DEF Debounce
<1>8. CASE Rest
  BY <1>8, GotOneHolds DEF Rest
<1>9. CASE StopMotion
  BY <1>9, GotOneHolds DEF StopMotion
<1>10. CASE Started
  BY <1>10 DEF Started
<1>11. CASE Stopped
  BY <1>11 DEF Stopped
<1>12. CASE Release
  BY <1>12 DEF Release
<1>13. CASE Start
  BY <1>13 DEF Start
<1>14. CASE TellToStop
  BY <1>14 DEF TellToStop
<1>15. CASE Changes
  BY <1>15 DEF Changes
<1>16. CASE Tick
  BY <1>16 DEF Tick
<1>17. CASE UNCHANGED vars
  BY <1>17 DEF vars
<1> QED
  BY <1>1, <1>2, <1>3, <1>4, <1>5, <1>6, <1>7, <1>8, <1>9,
     <1>10, <1>11, <1>12, <1>13, <1>14, <1>15, <1>16, <1>17
     DEF Next, ThreadStep, Judge

(* What the script was told, and what moving says.                         *)
LEMMA ScriptKeeps ==
  ASSUME MotionFlags, ScriptFollowsMotion, ScriptRuns, [Next]_vars
  PROVE  ScriptFollowsMotion' /\ ScriptRuns'
<1> USE DEF MotionFlags, ScriptFollowsMotion, ScriptRuns, settings, Turn, Considers
<1>1. CASE InitSucceeds
  BY <1>1 DEF InitSucceeds
<1>2. CASE InitFails
  BY <1>2 DEF InitFails
<1>3. CASE End
  BY <1>3 DEF End
<1>4. CASE Discard
  BY <1>4 DEF Discard
<1>5. CASE StartMotion
  BY <1>5 DEF StartMotion
<1>6. CASE GoOnMoving
  BY <1>6 DEF GoOnMoving
<1>7. CASE Debounce
  BY <1>7 DEF Debounce
<1>8. CASE Rest
  BY <1>8 DEF Rest
<1>9. CASE StopMotion
  BY <1>9 DEF StopMotion, IsOver
<1>10. CASE Started
  BY <1>10 DEF Started
<1>11. CASE Stopped
  BY <1>11 DEF Stopped
<1>12. CASE Release
  BY <1>12 DEF Release
<1>13. CASE Start
  BY <1>13 DEF Start
<1>14. CASE TellToStop
  BY <1>14 DEF TellToStop
<1>15. CASE Changes
  BY <1>15 DEF Changes
<1>16. CASE Tick
  BY <1>16 DEF Tick
<1>17. CASE UNCHANGED vars
  BY <1>17 DEF vars
<1> QED
  BY <1>1, <1>2, <1>3, <1>4, <1>5, <1>6, <1>7, <1>8, <1>9,
     <1>10, <1>11, <1>12, <1>13, <1>14, <1>15, <1>16, <1>17
     DEF Next, ThreadStep, Judge

LEMMA StepOK == IInv /\ [Next]_vars => IInv'
<1> SUFFICES ASSUME IInv, [Next]_vars PROVE IInv'
  OBVIOUS
<1>1. MotionFlags /\ Numbers /\ TypeOK
  BY TypesApart DEF IInv
<1>2. MotionFlags' /\ Ages'
  BY <1>1, FlagsKeep, AgesKeep
<1>3. Numbers' /\ HeldWhileUsed'
  BY <1>1, NumbersKeep DEF IInv
<1>4. ScriptFollowsMotion' /\ ScriptRuns'
  BY <1>1, ScriptKeeps DEF IInv
<1>5. TypeOK'
  BY <1>2, <1>3, TypesApart DEF TypeOK, MotionFlags, Numbers, Ages
<1> QED
  BY <1>3, <1>4, <1>5 DEF IInv

(* The invariant holds in every behaviour.                                 *)
THEOREM MotionInductive == Spec => []IInv
BY InitOK, StepOK, PTL DEF Spec

(* The fields keep their types.                                            *)
THEOREM MotionTypes == Spec => []TypeOK
<1>1. IInv => TypeOK
  BY DEF IInv
<1> QED
  BY MotionInductive, <1>1, PTL

(* For all times and any number of restarts the script is told to start    *)
(* and to stop by turns, and moving says what it was told last.            *)
THEOREM ScriptAlternates == Spec => []ScriptFollowsMotion
<1>1. IInv => ScriptFollowsMotion
  BY DEF IInv
<1> QED
  BY MotionInductive, <1>1, PTL

-----------------------------------------------------------------------------
(* JpegWorker.  With one channel the temporary file is there only while    *)
(* the worker writes it, it is then not the file at jpeg_path, and main    *)
(* starts a worker only when the one before has ended.                     *)

FileTypes ==
  /\ worker \in [Channels -> States] /\ tmp \in Inodes \cup {NoFile}
  /\ path \in [Channels -> Inodes \cup {NoFile}] /\ open \in [Channels -> Inodes \cup {NoFile}]
  /\ content \in [Inodes -> SUBSET Channels]

Writing == worker[0] \in {"write", "written"}

TempFile ==
  /\ ~Writing => tmp = NoFile
  /\ Writing => tmp # NoFile /\ open[0] = tmp /\ path[0] # tmp
  /\ worker[0] = "written" => content[tmp] = {0}

StartsWhenOff == main = At("create", 0) => worker[0] = "off"

FileInv == FileTypes /\ TempFile /\ StartsWhenOff /\ FileIsWhole

LEMMA OneChannel ==
  ASSUME LastChannel = 0
  PROVE  Channels = {0} /\ NoFile \notin Inodes /\ NoFile = 0
BY DEF Channels, Inodes, NoFile

LEMMA FileInit ==
  ASSUME LastChannel = 0, JpegInit
  PROVE  FileInv
<1> USE OneChannel
<1>1. FileTypes
  BY DEF JpegInit, FileTypes, States
<1>2. TempFile /\ StartsWhenOff
  BY DEF JpegInit, TempFile, StartsWhenOff, Writing
<1>3. FileIsWhole
  BY DEF JpegInit, FileIsWhole
<1> QED
  BY <1>1, <1>2, <1>3 DEF FileInv

(* Steps of a thread that does not write, while main does not go on.       *)
LEMMA FileAlone ==
  ASSUME LastChannel = 0, FileInv, UNCHANGED files,
         worker' \in [Channels -> States], ~Writing, ~Writing',
         main' = At("create", 0) => worker'[0] = "off"
  PROVE  FileInv'
<1> USE OneChannel
<1>1. FileTypes'
  BY DEF FileInv, FileTypes, files
<1>2. TempFile'
  BY DEF FileInv, TempFile, files, Writing
<1>3. FileIsWhole'
  BY DEF FileInv, FileIsWhole, files
<1> QED
  BY <1>1, <1>2, <1>3 DEF FileInv, StartsWhenOff

(* Steps that leave the worker and its files alone.                        *)
LEMMA FileSame ==
  ASSUME LastChannel = 0, FileInv, UNCHANGED << worker, files >>,
         main' = main \/ main' # At("create", 0) \/ worker[0] = "off"
  PROVE  FileInv'
BY OneChannel DEF FileInv, FileTypes, TempFile, StartsWhenOff, FileIsWhole, files, Writing

(* Waking a worker that sleeps.                                            *)
LEMMA NotifiedWorker ==
  ASSUME LastChannel = 0, FileInv, worker' = Notified(0)
  PROVE  /\ worker' \in [Channels -> States]
         /\ worker'[0] = worker[0] \/ (worker[0] = "asleep" /\ worker'[0] = "woken")
BY OneChannel DEF FileInv, FileTypes, Notified, States

LEMMA FileNotified ==
  ASSUME LastChannel = 0, FileInv, worker' = Notified(0), UNCHANGED files,
         main' = main \/ main' # At("create", 0)
  PROVE  FileInv'
<1>1. CASE worker' = worker
  BY <1>1, FileSame
<1>2. CASE worker[0] = "asleep" /\ worker'[0] = "woken"
  BY <1>2, NotifiedWorker, FileAlone DEF Writing, FileInv, StartsWhenOff
<1>3. worker' = worker \/ (worker[0] = "asleep" /\ worker'[0] = "woken")
  BY NotifiedWorker, OneChannel DEF FileInv, FileTypes
<1> QED
  BY <1>1, <1>2, <1>3

LEMMA FileOpenTemp ==
  ASSUME LastChannel = 0, FileInv, OpenTemp(0)
  PROVE  FileInv'
<1> USE OneChannel
<1>1. PICK file \in Inodes :
        /\ IF tmp = NoFile
           THEN file \notin NamedFiles /\ \A i \in 1 .. file - 1 : i \in NamedFiles
           ELSE file = tmp
        /\ OpenAs(0, file) /\ tmp' = file
  BY DEF OpenTemp
<1>2. /\ worker[0] = "captured" /\ worker' = [worker EXCEPT ![0] = "write"]
      /\ path' = path /\ main' = main
  BY DEF OpenTemp, Go, mainState
<1>3. tmp = NoFile
  BY <1>2 DEF FileInv, TempFile, Writing
<1>4. file # path[0]
  BY <1>1, <1>3 DEF NamedFiles
<1>5. /\ open' = [open EXCEPT ![0] = file] /\ content' = [content EXCEPT ![file] = {}]
      /\ tmp' = file
  BY <1>1 DEF OpenAs
<1>6. worker'[0] = "write"
  BY <1>2 DEF FileInv, FileTypes
<1>7. FileTypes'
  BY <1>2, <1>5 DEF FileInv, FileTypes, States
<1>8. TempFile'
  BY <1>2, <1>4, <1>5, <1>6 DEF FileInv, FileTypes, TempFile, Writing
<1>9. FileIsWhole'
  BY <1>2, <1>4, <1>5 DEF FileInv, FileTypes, FileIsWhole
<1> QED
  BY <1>2, <1>6, <1>7, <1>8, <1>9 DEF FileInv, StartsWhenOff

LEMMA FileWrite ==
  ASSUME LastChannel = 0, FileInv, Write(0)
  PROVE  FileInv'
<1> USE OneChannel
<1>1. /\ worker[0] = "write" /\ worker' = [worker EXCEPT ![0] = "written"]
      /\ content' = [content EXCEPT ![open[0]] = @ \cup {0}]
      /\ UNCHANGED << tmp, path, open, main >>
  BY DEF Write, Go, mainState
<1>2. tmp # NoFile /\ open[0] = tmp /\ path[0] # tmp /\ tmp \in Inodes
  BY <1>1 DEF FileInv, FileTypes, TempFile, Writing
<1>3. worker'[0] = "written"
  BY <1>1 DEF FileInv, FileTypes
<1>4. content[tmp] \subseteq {0}
  BY <1>2 DEF FileInv, FileTypes
<1>5. content'[tmp] = {0} /\ content'[path[0]] = content[path[0]]
  BY <1>1, <1>2, <1>4 DEF FileInv, FileTypes
<1>6. FileTypes'
  BY <1>1, <1>2, <1>4 DEF FileInv, FileTypes, States
<1>7. TempFile'
  BY <1>1, <1>2, <1>3, <1>5 DEF TempFile, Writing
<1>8. FileIsWhole'
  BY <1>1, <1>5 DEF FileInv, FileIsWhole
<1> QED
  BY <1>1, <1>3, <1>6, <1>7, <1>8 DEF FileInv, StartsWhenOff

LEMMA FileWriteFails ==
  ASSUME LastChannel = 0, FileInv, WriteFails(0)
  PROVE  FileInv'
<1> USE OneChannel
<1>1. /\ worker[0] = "write" /\ worker' = [worker EXCEPT ![0] = "head"]
      /\ tmp' = NoFile /\ open' = [open EXCEPT ![0] = NoFile]
      /\ UNCHANGED << path, content, main >>
  BY DEF WriteFails, Go, mainState
<1>2. worker'[0] = "head"
  BY <1>1 DEF FileInv, FileTypes
<1>3. FileTypes'
  BY <1>1 DEF FileInv, FileTypes, States
<1>4. TempFile' /\ FileIsWhole'
  BY <1>1, <1>2 DEF FileInv, TempFile, FileIsWhole, Writing
<1> QED
  BY <1>1, <1>2, <1>3, <1>4 DEF FileInv, StartsWhenOff

LEMMA FileRename ==
  ASSUME LastChannel = 0, FileInv, Rename(0)
  PROVE  FileInv'
<1> USE OneChannel
<1>1. /\ worker[0] = "written" /\ worker' = [worker EXCEPT ![0] = "head"]
      /\ path' = path \/ path' = [path EXCEPT ![0] = tmp]
      /\ tmp' = NoFile /\ open' = [open EXCEPT ![0] = NoFile]
      /\ UNCHANGED << content, main >>
  BY DEF Rename, Go, mainState
<1>2. content[tmp] = {0} /\ tmp \in Inodes
  BY <1>1 DEF FileInv, FileTypes, TempFile, Writing
<1>3. worker'[0] = "head"
  BY <1>1 DEF FileInv, FileTypes
<1>4. FileTypes'
  BY <1>1, <1>2 DEF FileInv, FileTypes, States
<1>5. TempFile'
  BY <1>1, <1>3 DEF TempFile, Writing
<1>6. FileIsWhole'
  <2>1. CASE path' = path
    BY <1>1, <2>1 DEF FileInv, FileIsWhole
  <2>2. CASE path' = [path EXCEPT ![0] = tmp]
    <3>1. path'[0] = tmp
      BY <2>2 DEF FileInv, FileTypes
    <3> QED
      BY <1>1, <1>2, <3>1 DEF FileIsWhole
  <2> QED
    BY <1>1, <2>1, <2>2
<1> QED
  BY <1>1, <1>3, <1>4, <1>5, <1>6 DEF FileInv, StartsWhenOff

(* The worker does something else.                                         *)
LEMMA FileMoves ==
  ASSUME LastChannel = 0, FileInv,
         \/ Begin(0) \/ BeginFails(0) \/ LoopHead(0) \/ Evaluate(0) \/ Sleep(0) \/ SpuriousWakeup(0)
         \/ NoPicture(0) \/ Capture(0) \/ OpenFails(0)
  PROVE  FileInv'
<1>1. /\ UNCHANGED files /\ main' = main /\ worker[0] # "off" /\ ~Writing
      /\ \E to \in States \ {"write", "written"} : worker' = [worker EXCEPT ![0] = to]
  BY DEF Begin, BeginFails, LoopHead, Evaluate, Awake, Sleep, SpuriousWakeup, NoPicture, Capture,
         OpenFails, Go, States, mainState, Writing
<1>2. worker' \in [Channels -> States] /\ ~Writing'
  BY <1>1, OneChannel DEF FileInv, FileTypes, Writing
<1>3. main # At("create", 0)
  BY <1>1 DEF FileInv, StartsWhenOff
<1> QED
  BY <1>1, <1>2, <1>3, FileAlone

LEMMA FileClient ==
  ASSUME LastChannel = 0, FileInv, NEW k \in Clients, ClientStep(k, 0) \/ Ask(k, 0)
  PROVE  FileInv'
<1>1. CASE Look(k, 0) /\ worker' = Notified(0)
  <2>1. UNCHANGED files /\ main' = main
    BY <1>1 DEF Look, mainState
  <2> QED
    BY <1>1, <2>1, FileNotified
<1>2. CASE ~(Look(k, 0) /\ worker' = Notified(0))
  <2>1. UNCHANGED << worker, files >> /\ main' = main
    BY <1>2 DEF ClientStep, Look, Acquire, GiveUp, ReadBuffer, ReadFile, TryAgain, Ask, threads,
                mainState
  <2> QED
    BY <2>1, FileSame
<1> QED
  BY <1>1, <1>2

LEMMA FileMain ==
  ASSUME LastChannel = 0, FileInv, MainStep \/ RequestRestart
  PROVE  FileInv'
<1> USE OneChannel
<1>1. CASE Test \/ Settle \/ RequestRestart
  <2>1. UNCHANGED << worker, files >>
        /\ (main' = main \/ main' = At("tell", 0) \/ main' = Waiting)
    BY <1>1 DEF Test, Settle, RequestRestart, threads
  <2>2. At("tell", 0) # At("create", 0) /\ Waiting # At("create", 0)
    BY DEF At, Waiting
  <2> QED
    BY <2>1, <2>2, FileSame
<1>2. CASE Tell(0)
  <2>1. CASE worker[0] = "off"
    BY <1>2, <2>1, FileSame DEF Tell
  <2>2. CASE worker[0] # "off"
    <3>1. At("join", 0) # At("create", 0)
      BY DEF At
    <3> QED
      BY <1>2, <2>2, <3>1, FileNotified DEF Tell
  <2> QED
    BY <2>1, <2>2
<1>3. CASE Join(0)
  BY <1>3, FileSame DEF Join, threads
<1>4. CASE Create(0)
  <2>1. /\ worker' = [worker EXCEPT ![0] = "starting"] /\ UNCHANGED files
        /\ main' = At("settle", 0) /\ worker[0] = "off"
    BY <1>4 DEF Create, FileInv, StartsWhenOff
  <2>2. At("settle", 0) # At("create", 0)
    BY DEF At
  <2>3. worker' \in [Channels -> States] /\ ~Writing /\ ~Writing'
    BY <2>1 DEF FileInv, FileTypes, States, Writing
  <2> QED
    BY <2>1, <2>2, <2>3, FileAlone
<1> QED
  BY <1>1, <1>2, <1>3, <1>4 DEF MainStep

LEMMA FileStep ==
  ASSUME LastChannel = 0, FileInv, [JpegNext]_jpegVars
  PROVE  FileInv'
<1> USE OneChannel
<1>1. CASE WorkerStep(0) \/ SpuriousWakeup(0)
  BY <1>1, FileOpenTemp, FileWrite, FileWriteFails, FileRename, FileMoves DEF WorkerStep
<1>2. CASE \E k \in Clients : ClientStep(k, 0) \/ Ask(k, 0)
  BY <1>2, FileClient
<1>3. CASE RequestRestart \/ MainStep
  BY <1>3, FileMain
<1>4. CASE Expire(0) \/ ChangeIdle(0) \/ UNCHANGED jpegVars
  <2>1. UNCHANGED << worker, files, main >>
    BY <1>4 DEF Expire, ChangeIdle, jpegVars, threads, mainState
  <2> QED
    BY <2>1, FileSame
<1> QED
  BY <1>1, <1>2, <1>3, <1>4 DEF JpegNext

(* With one JPEG channel what another program finds at jpeg_path is always *)
(* one whole picture, for any number of clients and restarts: the file is  *)
(* put there with its name when it is complete, and is not written to any  *)
(* more.  (With two channels that share the temporary name it is not.)     *)
THEOREM FileOfOneChannelIsWhole ==
  ASSUME LastChannel = 0
  PROVE  JpegSpec => []FileIsWhole
<1>1. JpegInit => FileInv
  BY FileInit
<1>2. FileInv /\ [JpegNext]_jpegVars => FileInv'
  BY FileStep
<1>3. FileInv => FileIsWhole
  BY DEF FileInv
<1> QED
  BY <1>1, <1>2, <1>3, PTL DEF JpegSpec

-----------------------------------------------------------------------------
(* WsSession.  The queue is looked at before a response is added to it, so *)
(* it is longer than its limit by one response at most.                    *)

Texted == 0 .. MaxRequests \cup {Separator}


SessionNumbers ==
  /\ rx \in 0 .. MaxPieces /\ asked \in 0 .. (MaxRequests + 1)
  /\ lost \subseteq 0 .. MaxRequests

SessionText == tx \in Seq(Texted) /\ Len(tx) <= MaxText + 3

SessionFlags ==
  /\ conn \in {"none", "ws", "http", "done", "closed"}
  /\ flags \subseteq Flags /\ sul \in BOOLEAN /\ writable \in BOOLEAN

(* A connection that was not taken yet promised nothing.                   *)
NothingYet == conn = "none" => flags = {} /\ ~sul

SessionInv ==
  SessionNumbers /\ SessionText /\ SessionFlags /\ NothingYet /\ PreviewOnItsWay

LEMMA SessionTypes == SessionInv => ApiTypeOK
BY DEF SessionInv, SessionNumbers, SessionText, SessionFlags, ApiTypeOK, Texted

LEMMA SessionInit == ApiInit => SessionInv
<1> SUFFICES ASSUME ApiInit PROVE SessionInv
  OBVIOUS
<1>1. SessionNumbers
  BY SessionAssumption DEF ApiInit, SessionNumbers
<1>2. SessionText
  BY SessionAssumption DEF ApiInit, SessionText, Texted
<1>3. SessionFlags
  BY DEF ApiInit, SessionFlags, Flags
<1>4. NothingYet /\ PreviewOnItsWay
  BY DEF ApiInit, NothingYet, PreviewOnItsWay
<1> QED
  BY <1>1, <1>2, <1>3, <1>4 DEF SessionInv

(* What waits, separated or given up: within the limit.                    *)
LEMMA QueuedFits ==
  ASSUME SessionText
  PROVE  Queued \in Seq(Texted) /\ Len(Queued) <= MaxText
<1>1. Separator \in Texted
  BY DEF Texted
<1>2. Separated \in Seq(Texted) /\ Len(Separated) \in Nat
  BY <1>1 DEF SessionText, Separated
<1>3. << >> \in Seq(Texted) /\ Len(<< >>) = 0
  OBVIOUS
<1> QED
  BY <1>2, <1>3, SessionAssumption DEF Queued, Cleared

(* What is given up with a queue are requests, or the greeting.            *)
LEMMA LostAreRequests ==
  ASSUME SessionText
  PROVE  LostNow \subseteq 0 .. MaxRequests
<1>1. Responses(tx) \subseteq 0 .. MaxRequests
  <2>1. \A i \in DOMAIN tx : tx[i] \in Texted
    BY ElementOfSeq, LenProperties DEF SessionText
  <2> QED
    BY <2>1 DEF Responses, Texted
<1> QED
  BY <1>1 DEF LostNow

LEMMA TextsFit ==
  ASSUME asked \in Nat, asked < MaxRequests, NEW text \in Texts(asked + 1)
  PROVE  text \in Seq(Texted) /\ Len(text) <= 3
<1>1. Separator \in Texted /\ asked + 1 \in Texted
  BY SessionAssumption DEF Texted
<1>2. CASE text = << asked + 1 >>
  BY <1>1, <1>2
<1>3. CASE text = << asked + 1, Separator, asked + 1 >>
  BY <1>1, <1>3
<1> QED
  BY <1>2, <1>3 DEF Texts

LEMMA RespondFits ==
  ASSUME SessionText, NEW text \in Seq(Texted), Len(text) <= 3, Respond(text)
  PROVE  SessionText'
<1> DEFINE q == Queued
<1>1. q \in Seq(Texted) /\ Len(q) <= MaxText
  BY QueuedFits
<1>2. tx' = q \o text
  BY DEF Respond
<1> HIDE DEF q
<1>3. q \o text \in Seq(Texted) /\ Len(q \o text) = Len(q) + Len(text)
  BY <1>1, ConcatProperties
<1>4. Len(q) \in Nat /\ Len(text) \in Nat
  BY <1>1, LenProperties
<1> QED
  BY <1>1, <1>2, <1>3, <1>4, SessionAssumption DEF SessionText, Texted

(* The handlers of a WebSocket, which are all that touch the text.         *)
LEMMA WsText ==
  ASSUME SessionNumbers, SessionText, WsNext
  PROVE  SessionText'
<1>1. CASE Established
  <2>1. tx' = << 0 >> /\ 0 \in Texted
    BY <1>1, SessionAssumption DEF Established, Texted
  <2>2. tx' \in Seq(Texted) /\ Len(tx') = 1
    BY <2>1
  <2> QED
    BY <2>2, SessionAssumption DEF SessionText, Texted
<1>2. CASE \E text \in Texts(asked + 1) : ReceivePlain(text) \/ ReceivePreview(text)
  <2>1. PICK text \in Texts(asked + 1) : Respond(text) /\ asked < MaxRequests
    BY <1>2 DEF ReceivePlain, ReceivePreview, Parse
  <2>2. text \in Seq(Texted) /\ Len(text) <= 3
    BY <2>1, TextsFit DEF SessionNumbers
  <2> QED
    BY <2>1, <2>2, RespondFits
<1>3. CASE ReceiveOverlapping
  <2>1. tx' = Queued
    BY <1>3 DEF ReceiveOverlapping
  <2>2. tx' \in Seq(Texted) /\ Len(tx') <= MaxText
    BY <2>1, QueuedFits
  <2> QED
    BY <2>2, SessionAssumption DEF SessionText, Texted
<1>4. CASE \E picture \in BOOLEAN : WsWriteable(picture)
  <2>1. tx' = << >>
    BY <1>4 DEF WsWriteable
  <2> QED
    BY <2>1, SessionAssumption DEF SessionText, Texted
<1>5. CASE SendWsSnapshot \/ Refused \/ \E first \in BOOLEAN : ReceivePiece(first)
  <2>1. tx' = tx
    BY <1>5 DEF SendWsSnapshot, Refused, ReceivePiece, Ends
  <2> QED
    BY <2>1 DEF SessionText, Texted
<1> QED
  BY <1>1, <1>2, <1>3, <1>4, <1>5 DEF WsNext

LEMMA WsNumbers ==
  ASSUME SessionNumbers, SessionText, WsNext
  PROVE  SessionNumbers'
<1> USE SessionAssumption DEF SessionNumbers
<1>1. CASE Established \/ SendWsSnapshot \/ \E picture \in BOOLEAN : WsWriteable(picture)
  BY <1>1 DEF Established, SendWsSnapshot, WsWriteable
<1>2. CASE Refused \/ \E first \in BOOLEAN : ReceivePiece(first)
  <2>1. UNCHANGED << asked, lost >>
    BY <1>2 DEF Refused, ReceivePiece, Ends
  <2>2. \/ rx' = rx
        \/ \E had \in {0, rx} : rx' = had + 1 /\ ~(had + 1 > MaxPieces)
    BY <1>2 DEF Refused, ReceivePiece, Ends
  <2> QED
    BY <2>1, <2>2
<1>3. CASE \/ \E text \in Texts(asked + 1) : ReceivePlain(text) \/ ReceivePreview(text)
           \/ ReceiveOverlapping
  <2>1. asked' = asked + 1 /\ asked < MaxRequests /\ rx' = 0
    BY <1>3 DEF ReceivePlain, ReceivePreview, ReceiveOverlapping, Parse
  <2>2. lost' = lost \cup LostNow \/ lost' = lost \cup LostNow \cup {asked + 1}
    BY <1>3 DEF ReceivePlain, ReceivePreview, ReceiveOverlapping, Respond
  <2>3. asked + 1 \in 0 .. MaxRequests
    BY <2>1
  <2>4. lost' \subseteq 0 .. MaxRequests
    BY <2>2, <2>3, LostAreRequests
  <2> QED
    BY <2>1, <2>4
<1> QED
  BY <1>1, <1>2, <1>3 DEF WsNext

LEMMA HttpNumbersAndText ==
  ASSUME SessionNumbers, SessionText, HttpNext \/ Closed \/ UNCHANGED apiVars
  PROVE  SessionNumbers' /\ SessionText'
<1>1. tx' = tx /\ lost' = lost
  BY DEF HttpNext, Closed, apiVars, HttpRefused, HttpPreview, HttpJson, HttpOther, HttpBody,
         HttpBodyCompletion, SendHttpSnapshot, HttpWriteable, Ends
<1>2. asked' = asked \/ asked' = 1
  BY DEF HttpNext, Closed, apiVars, HttpRefused, HttpPreview, HttpJson, HttpOther, HttpBody,
         HttpBodyCompletion, SendHttpSnapshot, HttpWriteable, Ends
<1>3. rx' = rx \/ rx' = 0 \/ (rx' = rx + 1 /\ ~(rx + 1 > MaxPieces))
  BY DEF HttpNext, Closed, apiVars, HttpRefused, HttpPreview, HttpJson, HttpOther, HttpBody,
         HttpBodyCompletion, SendHttpSnapshot, HttpWriteable, Ends
<1> QED
  BY <1>1, <1>2, <1>3, SessionAssumption DEF SessionNumbers, SessionText, Texted

(* The flags and the timer.                                                *)
LEMMA WsFlags ==
  ASSUME SessionFlags, NothingYet, PreviewOnItsWay, WsNext
  PROVE  SessionFlags' /\ NothingYet' /\ PreviewOnItsWay'
<1> USE DEF SessionFlags, NothingYet, PreviewOnItsWay, Flags
<1>1. CASE Established
  BY <1>1 DEF Established
<1>2. CASE Refused
  BY <1>2 DEF Refused, Ends
<1>3. CASE \E first \in BOOLEAN : ReceivePiece(first)
  BY <1>3 DEF ReceivePiece, Ends
<1>4. CASE \E text \in Texts(asked + 1) : ReceivePlain(text)
  BY <1>4 DEF ReceivePlain, Parse, Respond, Pending
<1>5. CASE \E text \in Texts(asked + 1) : ReceivePreview(text)
  BY <1>5 DEF ReceivePreview, Parse, Respond, Pending
<1>6. CASE ReceiveOverlapping
  BY <1>6 DEF ReceiveOverlapping, Parse, Pending
<1>7. CASE SendWsSnapshot
  BY <1>7 DEF SendWsSnapshot
<1>8. CASE \E picture \in BOOLEAN : WsWriteable(picture)
  <2>1. /\ conn = "ws" /\ writable' = FALSE /\ UNCHANGED << conn, sul >>
        /\ flags' = (IF tx = << >> THEN flags ELSE flags \ {"WS_REQUEST_PENDING"})
                    \ (IF "WS_SEND_PREVIEW" \in flags
                       THEN {"WS_SEND_PREVIEW", "WS_PREVIEW_PENDING"} ELSE {})
    BY <1>8 DEF WsWriteable
  <2>2. flags' \subseteq flags
    BY <2>1
  <2>3. "WS_SEND_PREVIEW" \notin flags'
    BY <2>1
  <2>4. CASE "WS_SEND_PREVIEW" \in flags
    BY <2>1, <2>2, <2>3, <2>4
  <2>5. CASE "WS_SEND_PREVIEW" \notin flags
    <3>1. "WS_PREVIEW_PENDING" \in flags' <=> "WS_PREVIEW_PENDING" \in flags
      BY <2>1, <2>5
    <3> QED
      BY <2>1, <2>2, <2>3, <2>5, <3>1
  <2> QED
    BY <2>4, <2>5
<1> QED
  BY <1>1, <1>2, <1>3, <1>4, <1>5, <1>6, <1>7, <1>8 DEF WsNext

LEMMA HttpFlags ==
  ASSUME SessionFlags, NothingYet, PreviewOnItsWay, HttpNext \/ Closed \/ UNCHANGED apiVars
  PROVE  SessionFlags' /\ NothingYet' /\ PreviewOnItsWay'
<1> USE DEF SessionFlags, NothingYet, PreviewOnItsWay, Flags
<1>1. CASE HttpRefused
  BY <1>1 DEF HttpRefused
<1>2. CASE HttpPreview
  <2>1. CASE conn' = "done" /\ UNCHANGED << flags, sul, writable >>
    BY <1>2, <2>1 DEF HttpPreview
  <2>2. CASE /\ conn' = "http" /\ flags' = {"HTTP_SEND_PREVIEW"}
             /\ \E wait \in BOOLEAN : sul' = wait /\ writable' = ~wait
    <3>1. PICK wait \in BOOLEAN : sul' = wait /\ writable' = ~wait
      BY <2>2
    <3>2. sul' \in BOOLEAN /\ writable' \in BOOLEAN
      BY <3>1, Zenon
    <3> QED
      BY <2>2, <3>2
  <2> QED
    BY <1>2, <2>1, <2>2 DEF HttpPreview
<1>3. CASE \E length \in BOOLEAN : HttpJson(length)
  BY <1>3 DEF HttpJson
<1>4. CASE HttpOther
  BY <1>4 DEF HttpOther
<1>5. CASE HttpBody
  BY <1>5 DEF HttpBody, Ends
<1>6. CASE HttpBodyCompletion
  BY <1>6 DEF HttpBodyCompletion
<1>7. CASE SendHttpSnapshot
  BY <1>7 DEF SendHttpSnapshot
<1>8. CASE HttpWriteable \/ Closed
  BY <1>8 DEF HttpWriteable, Closed, Ends
<1>9. CASE UNCHANGED apiVars
  BY <1>9 DEF apiVars
<1> QED
  BY <1>1, <1>2, <1>3, <1>4, <1>5, <1>6, <1>7, <1>8, <1>9 DEF HttpNext

LEMMA SessionStep == SessionInv /\ [ApiNext]_apiVars => SessionInv'
<1> SUFFICES ASSUME SessionInv, [ApiNext]_apiVars PROVE SessionInv'
  OBVIOUS
<1>1. SessionNumbers /\ SessionText /\ SessionFlags /\ NothingYet /\ PreviewOnItsWay
  BY DEF SessionInv
<1>2. CASE WsNext
  BY <1>1, <1>2, WsText, WsNumbers, WsFlags DEF SessionInv
<1>3. CASE HttpNext \/ Closed \/ UNCHANGED apiVars
  BY <1>1, <1>3, HttpNumbersAndText, HttpFlags DEF SessionInv
<1> QED
  BY <1>2, <1>3 DEF ApiNext

(* The fields of a connection keep their types, and its queue is never     *)
(* longer than its limit and one response, whatever the limits are and     *)
(* however many requests come.                                             *)
THEOREM QueueKeepsItsLimit == ApiSpec => []ApiTypeOK
<1>1. ApiInit => SessionInv
  BY SessionInit
<1>2. SessionInv /\ [ApiNext]_apiVars => SessionInv'
  BY SessionStep
<1> QED
  BY <1>1, <1>2, SessionTypes, PTL DEF ApiSpec

(* A preview that was promised is on its way, once, until it is sent or    *)
(* the connection ends, and a connection that is gone has no timer left.   *)
THEOREM PromisedPreviewIsOnItsWay == ApiSpec => []PreviewOnItsWay
<1>1. ApiInit => SessionInv
  BY SessionInit
<1>2. SessionInv /\ [ApiNext]_apiVars => SessionInv'
  BY SessionStep
<1>3. SessionInv => PreviewOnItsWay
  BY DEF SessionInv
<1> QED
  BY <1>1, <1>2, <1>3, PTL DEF ApiSpec
-----------------------------------------------------------------------------
(* WsSession: what a client reads.  A set of positions that is not empty   *)
(* has a first and a last one.                                             *)
LEMMA LeastExists ==
  ASSUME NEW T, T \subseteq Nat, T # {}
  PROVE  \E x \in T : \A y \in T : x =< y
<1> DEFINE R == OpToRel(<, Nat)
<1>1. R = {ss \in Nat \X Nat : ss[1] < ss[2]}
  BY DEF OpToRel
<1>2. IsWellFoundedOn(R, Nat)
  BY NatLessThanWellFounded
<1> HIDE DEF R
<1>3. PICK x \in T : \A y \in T : << y, x >> \notin R
  BY <1>2, WFMin
<1>4. \A y \in T : ~(y < x)
  BY <1>1, <1>3
<1> QED
  BY <1>3, <1>4

LEMMA MinMax ==
  ASSUME NEW n \in Nat, NEW T, T \subseteq 1 .. n, T # {}
  PROVE  /\ Min(T) \in T /\ \A y \in T : Min(T) <= y
         /\ Max(T) \in T /\ \A y \in T : y <= Max(T)
<1>1. \E x \in T : \A y \in T : x =< y
  <2>1. T \subseteq Nat
    OBVIOUS
  <2> QED
    BY <2>1, LeastExists
<1>2. \E x \in T : \A y \in T : x >= y
  <2> DEFINE U == {u \in 0 .. n : n - u \in T}
  <2>1. PICK y \in T : TRUE
    OBVIOUS
  <2>2. n - y \in U
    BY <2>1
  <2>3. U \subseteq Nat
    OBVIOUS
  <2>4. PICK u \in U : \A v \in U : u =< v
    BY <2>2, <2>3, LeastExists
  <2>5. ASSUME NEW z \in T PROVE n - u >= z
    <3>1. z \in 1 .. n /\ n - (n - z) = z
      OBVIOUS
    <3>2. n - z \in U
      BY <3>1
    <3>3. u \in 0 .. n
      BY <2>4
    <3>4. u =< n - z
      <4> HIDE DEF U
      <4> QED
        BY <2>4, <3>2
    <3> QED
      BY <3>1, <3>3, <3>4
  <2> QED
    BY <2>4, <2>5
<1> QED
  BY <1>1, <1>2 DEF Min, Max

(* The separators before a position are finitely many.                     *)
LEMMA CutsIsNat ==
  ASSUME NEW text, NEW i \in Int
  PROVE  /\ IsFiniteSet({j \in 1 .. i - 1 : text[j] = Separator})
         /\ Cuts(text, i) \in Nat
<1> DEFINE S == {j \in 1 .. i - 1 : text[j] = Separator}
<1>1. IsFiniteSet(1 .. i - 1)
  BY FS_Interval
<1>2. IsFiniteSet(S)
  BY <1>1, FS_Subset
<1>3. Cardinality(S) \in Nat
  BY <1>2, FS_CardinalityType
<1> QED
  BY <1>2, <1>3 DEF Cuts

(* They do not become fewer further on, and between two positions with as  *)
(* many before them there is none.                                         *)
LEMMA CutsGrow ==
  ASSUME NEW text, NEW p \in Int, NEW q \in Int, p <= q
  PROVE  /\ Cuts(text, p) <= Cuts(text, q)
         /\ Cuts(text, p) = Cuts(text, q) =>
              \A m \in 1 .. q - 1 : text[m] = Separator => m < p
<1> DEFINE S(i) == {j \in 1 .. i - 1 : text[j] = Separator}
<1>1. S(p) \subseteq S(q)
  OBVIOUS
<1>2. IsFiniteSet(S(q))
  BY CutsIsNat
<1>3. Cuts(text, p) = Cardinality(S(p)) /\ Cuts(text, q) = Cardinality(S(q))
  BY DEF Cuts
<1>4. \A m \in 1 .. q - 1 : text[m] = Separator => m \in S(q)
  OBVIOUS
<1>5. \A m \in S(p) : m < p
  OBVIOUS
<1> HIDE DEF S
<1>6. /\ Cardinality(S(p)) <= Cardinality(S(q))
      /\ Cardinality(S(q)) = Cardinality(S(p)) => S(q) = S(p)
  BY <1>1, <1>2, FS_Subset
<1> QED
  BY <1>3, <1>4, <1>5, <1>6

(* A part is a run of positions between which there is no separator.       *)
LEMMA PartIsRun ==
  ASSUME NEW text \in Seq(Texted), NEW n \in Int
  PROVE  /\ Part(text, n) \in Seq(Texted)
         /\ \E off \in Int : \A k \in DOMAIN Part(text, n) :
              off + k \in Stretch(text, n) /\ Part(text, n)[k] = text[off + k]
<1> DEFINE where == Stretch(text, n)
           lo    == Min(where)
           hi    == Max(where)
<1>1. Len(text) \in Nat /\ DOMAIN text = 1 .. Len(text)
  BY LenProperties
<1>2. where \subseteq 1 .. Len(text)
  BY <1>1 DEF Stretch
<1>3. \A i \in where : /\ i \in 1 .. Len(text) /\ text[i] # Separator
                       /\ Cuts(text, i) = n - 1
  BY <1>1 DEF Stretch
<1>4. CASE where = {}
  <2>1. Part(text, n) = << >>
    BY <1>4 DEF Part
  <2>2. DOMAIN Part(text, n) = {} /\ Part(text, n) \in Seq(Texted)
    BY <2>1
  <2> QED
    BY <2>2
<1>5. CASE where # {}
  <2>1. Part(text, n) = SubSeq(text, lo, hi)
    BY <1>5 DEF Part
  <2>2. lo \in where /\ hi \in where /\ lo <= hi
    BY <1>1, <1>2, <1>5, MinMax
  <2> HIDE DEF lo, hi
  <2>3. lo \in 1 .. Len(text) /\ hi \in 1 .. Len(text)
    BY <1>2, <2>2
  <2>4. \A i \in lo .. hi : text[i] \in Texted
    BY <2>3, ElementOfSeq
  <2>5. /\ SubSeq(text, lo, hi) \in Seq(Texted)
        /\ Len(SubSeq(text, lo, hi)) = hi - lo + 1
        /\ \A i \in 1 .. hi - lo + 1 : SubSeq(text, lo, hi)[i] = text[lo + i - 1]
    BY <2>2, <2>3, <2>4, SubSeqProperties
  <2>6. DOMAIN Part(text, n) = 1 .. hi - lo + 1
    BY <2>1, <2>5, LenProperties
  <2>7. Cuts(text, lo) = n - 1 /\ Cuts(text, hi) = n - 1 /\ text[hi] # Separator
    BY <1>3, <2>2
  <2>8. ASSUME NEW i \in lo .. hi PROVE i \in where
    <3>1. i \in Int /\ lo <= i /\ i <= hi /\ i \in 1 .. Len(text)
      BY <2>3
    <3>2. \A m \in 1 .. hi - 1 : text[m] = Separator => m < lo
      BY <2>2, <2>3, <2>7, CutsGrow
    <3>3. text[i] # Separator
      BY <2>3, <2>7, <3>1, <3>2
    <3>4. Cuts(text, lo) <= Cuts(text, i) /\ Cuts(text, i) <= Cuts(text, hi)
      BY <2>3, <3>1, CutsGrow
    <3>5. Cuts(text, i) = n - 1
      <4>1. Cuts(text, i) \in Nat
        BY <3>1, CutsIsNat
      <4> QED
        BY <2>7, <3>4, <4>1
    <3> QED
      BY <1>1, <3>1, <3>3, <3>5 DEF Stretch
  <2>9. \A k \in DOMAIN Part(text, n) :
          (lo - 1) + k \in where /\ Part(text, n)[k] = text[(lo - 1) + k]
    <3> TAKE k \in DOMAIN Part(text, n)
    <3>1. k \in 1 .. hi - lo + 1 /\ k \in Int
      BY <2>3, <2>6
    <3>2. (lo - 1) + k \in lo .. hi /\ (lo - 1) + k = lo + k - 1
      BY <2>3, <3>1
    <3> QED
      BY <2>1, <2>5, <2>8, <3>1, <3>2
  <2>10. lo - 1 \in Int
    BY <2>3
  <2> QED
    BY <2>1, <2>5, <2>9, <2>10
<1> QED
  BY <1>4, <1>5

(* A text in which two responses have a separator between them, and which  *)
(* holds them in order.                                                    *)
Apart(text) ==
  \A k, l \in DOMAIN text :
    k < l /\ text[k] > 0 /\ text[l] > 0 => \E m \in k .. l : text[m] = Separator

LEMMA PartsAreMessages ==
  ASSUME NEW text \in Seq(Texted)
  PROVE  /\ Parts(text) \in Seq(Seq(Texted))
         /\ \A n \in DOMAIN Parts(text) : n \in Nat /\ Parts(text)[n] = Part(text, n)
<1> DEFINE ended == text = << >> \/ text[Len(text)] = Separator
           count == Cuts(text, Len(text) + 1) + (IF ended THEN 0 ELSE 1)
<1>1. Len(text) + 1 \in Int
  BY LenProperties
<1>2. count \in Nat
  <2>1. Cuts(text, Len(text) + 1) \in Nat
    BY <1>1, CutsIsNat
  <2> QED
    BY <2>1
<1>3. Parts(text) = [n \in 1 .. count |-> Part(text, n)]
  BY DEF Parts
<1> HIDE DEF count
<1>4. \A n \in 1 .. count : Part(text, n) \in Seq(Texted)
  BY <1>2, PartIsRun
<1>5. Parts(text) \in Seq(Seq(Texted))
  BY <1>2, <1>3, <1>4
<1> QED
  BY <1>2, <1>3, <1>5

(* A part holds one response, in order.                                    *)
LEMMA PartIsSingle ==
  ASSUME NEW text \in Seq(Texted), Apart(text), Ascending(text), NEW n \in Int
  PROVE  Single(Part(text, n)) /\ Ascending(Part(text, n))
<1> DEFINE part == Part(text, n)
<1>1. PICK off \in Int : \A k \in DOMAIN part :
        off + k \in Stretch(text, n) /\ part[k] = text[off + k]
  BY PartIsRun
<1>2. \A k \in DOMAIN part : k \in Int /\ part[k] \in Texted
  <2>1. part \in Seq(Texted)
    BY PartIsRun
  <2> HIDE DEF part
  <2> QED
    BY <2>1, LenProperties, ElementOfSeq
<1>3. \A i \in Stretch(text, n) :
        i \in DOMAIN text /\ i \in 1 .. Len(text) /\ text[i] # Separator
        /\ Cuts(text, i) = n - 1
  BY LenProperties DEF Stretch
<1> HIDE DEF part
<1>4. Ascending(part)
  <2> SUFFICES ASSUME NEW k \in DOMAIN part, NEW l \in DOMAIN part, k < l,
                      IsResponse(part[k]), IsResponse(part[l])
               PROVE  part[k] <= part[l]
    BY DEF Ascending
  <2>1. off + k \in DOMAIN text /\ off + l \in DOMAIN text /\ off + k < off + l
    BY <1>1, <1>2, <1>3
  <2> QED
    BY <1>1, <2>1 DEF Ascending
<1>5. ASSUME NEW k \in DOMAIN part, NEW l \in DOMAIN part, k < l
      PROVE  0 \in {part[k], part[l]}
  <2> DEFINE p == off + k
             q == off + l
  <2>1. /\ p \in Stretch(text, n) /\ q \in Stretch(text, n)
        /\ part[k] = text[p] /\ part[l] = text[q]
    BY <1>1
  <2>2. p < q
    BY <1>2, <1>5
  <2> HIDE DEF p, q
  <2>3. p \in 1 .. Len(text) /\ q \in 1 .. Len(text) /\ p \in DOMAIN text /\ q \in DOMAIN text
    BY <1>3, <2>1
  <2>4. Len(text) \in Nat
    BY LenProperties
  <2>5. Cuts(text, p) = Cuts(text, q) /\ text[p] # Separator /\ text[q] # Separator
    BY <1>3, <2>1
  <2>6. \A m \in 1 .. q - 1 : text[m] = Separator => m < p
    BY <2>2, <2>3, <2>4, <2>5, CutsGrow
  <2>7. \A m \in p .. q : text[m] # Separator
    BY <2>3, <2>4, <2>5, <2>6
  <2>8. ~(text[p] > 0 /\ text[q] > 0)
    BY <2>2, <2>3, <2>7 DEF Apart
  <2>9. text[p] \in Texted \ {Separator} /\ text[q] \in Texted \ {Separator}
    BY <1>2, <2>1, <2>5
  <2>10. text[p] = 0 \/ text[q] = 0
    BY <2>8, <2>9, SessionAssumption DEF Texted
  <2> QED
    BY <2>1, <2>10
<1>6. Single(part)
  <2> SUFFICES ASSUME NEW k \in DOMAIN part, NEW l \in DOMAIN part, k # l
               PROVE  0 \in {part[k], part[l]}
    BY DEF Single
  <2>1. k < l \/ l < k
    BY <1>2
  <2> QED
    BY <1>5, <2>1
<1> QED
  BY <1>4, <1>6 DEF part

(* The parts come in the order of the text.                                *)
LEMMA PartsInOrder ==
  ASSUME NEW text \in Seq(Texted), Ascending(text),
         NEW i \in Int, NEW j \in Int, i < j
  PROVE  InOrder(Part(text, i), Part(text, j))
<1> DEFINE a == Part(text, i)
           b == Part(text, j)
<1>1. \A k \in DOMAIN a : \E p \in Stretch(text, i) : a[k] = text[p]
  BY PartIsRun
<1>2. \A k \in DOMAIN b : \E q \in Stretch(text, j) : b[k] = text[q]
  BY PartIsRun
<1> HIDE DEF a, b
<1>3. ASSUME NEW p \in Stretch(text, i), NEW q \in Stretch(text, j)
      PROVE  p \in DOMAIN text /\ q \in DOMAIN text /\ p < q
  <2>1. /\ p \in DOMAIN text /\ q \in DOMAIN text /\ p \in Int /\ q \in Int
        /\ Cuts(text, p) = i - 1 /\ Cuts(text, q) = j - 1
    BY LenProperties DEF Stretch
  <2>2. CASE q <= p
    <3>1. Cuts(text, q) <= Cuts(text, p)
      BY <2>1, <2>2, CutsGrow
    <3> QED
      BY <2>1, <3>1
  <2> QED
    BY <2>1, <2>2
<1>4. InOrder(a, b)
  BY <1>1, <1>2, <1>3 DEF InOrder, Ascending
<1> QED
  BY <1>4 DEF a, b

(* What is said in a part is said in the text.                             *)
LEMMA PartsSayTheSame ==
  ASSUME NEW text \in Seq(Texted), NEW n \in Int, NEW k \in DOMAIN Part(text, n)
  PROVE  \E p \in DOMAIN text : Part(text, n)[k] = text[p]
BY PartIsRun DEF Stretch

(* The text that waits: numbers of requests made, in order and apart, and  *)
(* none of a response unless the flag says so.  What was sent, each        *)
(* message with one response, comes before what waits.                     *)
UpTo(text, n) == \A k \in DOMAIN text : text[k] <= n

AnswerText ==
  /\ UpTo(tx, asked) /\ Ascending(tx) /\ Apart(tx)
  /\ "WS_REQUEST_PENDING" \notin flags => UpTo(tx, 0)

Said(sent, text, n) ==
  \A i \in DOMAIN sent :
    /\ UpTo(sent[i], n) /\ Single(sent[i]) /\ Ascending(sent[i]) /\ InOrder(sent[i], text)
    /\ \A j \in DOMAIN sent : i < j => InOrder(sent[i], sent[j])

AnswerSent ==
  /\ got \in Seq(Seq(Int))
  /\ conn = "none" => got = << >> /\ tx = << >>
  /\ conn = "ws" => Said(got, tx, asked)

AnswerInv == AnswerText /\ AnswerSent

LEMMA AnswerInit == ApiInit => AnswerInv
BY DEF ApiInit, AnswerInv, AnswerText, AnswerSent, UpTo, Ascending, Apart

(* Handlers that touch neither the text nor what was sent.                 *)
LEMMA AnswersAlone ==
  ASSUME AnswerInv, tx' = tx, got' \in Seq(Seq(Int)),
         conn = "none" \/ (asked' = asked /\ flags \subseteq flags'),
         conn' = "none" => conn = "none" /\ got' = got,
         conn' = "ws" => conn = "ws" /\ got' = got
  PROVE  AnswerInv'
<1>1. CASE conn = "none"
  <2>1. tx = << >> /\ DOMAIN tx = {}
    BY <1>1 DEF AnswerInv, AnswerSent
  <2>2. AnswerText'
    BY <2>1 DEF AnswerText, UpTo, Ascending, Apart
  <2>3. AnswerSent'
    BY <1>1, <2>1 DEF AnswerInv, AnswerSent
  <2> QED
    BY <2>2, <2>3 DEF AnswerInv
<1>2. CASE conn # "none"
  <2>1. asked' = asked /\ flags \subseteq flags'
    BY <1>2
  <2>2. AnswerText'
    BY <2>1 DEF AnswerInv, AnswerText, UpTo, Ascending, Apart
  <2>3. AnswerSent'
    BY <1>2, <2>1 DEF AnswerInv, AnswerSent, Said, UpTo, Single, Ascending, InOrder
  <2> QED
    BY <2>2, <2>3 DEF AnswerInv
<1> QED
  BY <1>1, <1>2

LEMMA HttpAnswers ==
  ASSUME AnswerInv, HttpNext \/ Closed \/ UNCHANGED apiVars
  PROVE  AnswerInv'
<1>1. tx' = tx
  BY DEF HttpNext, Closed, apiVars, HttpRefused, HttpPreview, HttpJson, HttpOther, HttpBody,
         HttpBodyCompletion, SendHttpSnapshot, HttpWriteable, Ends
<1>2. conn = "none" \/ (asked' = asked /\ flags \subseteq flags')
  BY DEF HttpNext, Closed, apiVars, HttpRefused, HttpPreview, HttpJson, HttpOther, HttpBody,
         HttpBodyCompletion, SendHttpSnapshot, HttpWriteable, Ends
<1>3. got' = got \/ \E status \in {200, 403, 501, 503} : Answers(status)
  BY DEF HttpNext, Closed, apiVars, HttpRefused, HttpPreview, HttpJson, HttpOther, HttpBody,
         HttpBodyCompletion, SendHttpSnapshot, HttpWriteable
<1>4. conn' \in {"done", "http", "closed"} \/ (conn' = conn /\ got' = got)
  BY DEF HttpNext, Closed, apiVars, HttpRefused, HttpPreview, HttpJson, HttpOther, HttpBody,
         HttpBodyCompletion, SendHttpSnapshot, HttpWriteable, Ends
<1>5. got' \in Seq(Seq(Int))
  <2>1. got \in Seq(Seq(Int))
    BY DEF AnswerInv, AnswerSent
  <2>2. ASSUME NEW status \in {200, 403, 501, 503}, Answers(status)
        PROVE  got' \in Seq(Seq(Int))
    <3>1. << status >> \in Seq(Int)
      OBVIOUS
    <3> QED
      BY <2>1, <2>2, <3>1, AppendProperties DEF Answers
  <2> QED
    BY <1>3, <2>1, <2>2
<1> QED
  BY <1>1, <1>2, <1>4, <1>5, AnswersAlone

(* The queue, as a response finds it.                                      *)
LEMMA QueueIsInOrder ==
  ASSUME SessionText, AnswerText, asked \in Nat
  PROVE  /\ Queued \in Seq(Texted)
         /\ UpTo(Queued, asked) /\ Ascending(Queued) /\ Apart(Queued)
         /\ UpTo(Queued, 0) \/ (Queued # << >> /\ Queued[Len(Queued)] = Separator)
         /\ \A k \in DOMAIN Queued : Queued[k] # Separator => \E p \in DOMAIN tx : Queued[k] = tx[p]
<1>1. Queued \in Seq(Texted)
  BY QueuedFits
<1>2. CASE Queued = << >>
  <2>1. DOMAIN Queued = {}
    BY <1>2
  <2> HIDE DEF Queued
  <2> QED
    BY <1>1, <2>1 DEF UpTo, Ascending, Apart
<1>3. CASE Queued = tx /\ "WS_REQUEST_PENDING" \notin flags
  BY <1>1, <1>3 DEF AnswerText
<1>4. CASE Queued = Append(tx, Separator)
  <2> DEFINE q == Queued
  <2>1. tx \in Seq(Texted) /\ Separator \in Texted /\ Len(tx) \in Nat
        /\ DOMAIN tx = 1 .. Len(tx)
    BY LenProperties DEF SessionText, Texted
  <2>2. /\ q # << >> /\ Len(q) = Len(tx) + 1 /\ DOMAIN q = 1 .. Len(tx) + 1
        /\ q[Len(q)] = Separator
        /\ \A k \in 1 .. Len(tx) : q[k] = tx[k]
    BY <1>4, <2>1, AppendProperties, LenProperties
  <2>3. \A k \in DOMAIN q : IF k \in DOMAIN tx THEN q[k] = tx[k] ELSE q[k] = Separator
    BY <2>1, <2>2
  <2>4. \A k \in DOMAIN tx : k \in DOMAIN q /\ q[k] = tx[k]
    BY <2>1, <2>2
  <2>5. Separator = -1
    BY DEF Separator
  <2> HIDE DEF q
  <2>6. UpTo(q, asked)
    BY <2>3, <2>5 DEF AnswerText, UpTo
  <2>7. Ascending(q)
    BY <2>3 DEF AnswerText, Ascending, IsResponse
  <2>8. Apart(q)
    <3> SUFFICES ASSUME NEW k \in DOMAIN q, NEW l \in DOMAIN q, k < l, q[k] > 0, q[l] > 0
                 PROVE  \E m \in k .. l : q[m] = Separator
      BY DEF Apart
    <3>1. k \in DOMAIN tx /\ l \in DOMAIN tx /\ q[k] = tx[k] /\ q[l] = tx[l]
      BY <2>3, <2>5
    <3>2. PICK m \in k .. l : tx[m] = Separator
      BY <3>1 DEF AnswerText, Apart
    <3>3. m \in DOMAIN tx
      BY <2>1, <3>1, <3>2
    <3> QED
      BY <2>4, <3>2, <3>3
  <2> QED
    BY <1>1, <2>2, <2>3, <2>6, <2>7, <2>8 DEF q
<1> QED
  BY <1>2, <1>3, <1>4 DEF Queued, Separated

(* A response that is added to such a queue.                               *)
LEMMA ResponseIsAdded ==
  ASSUME NEW n \in Nat, n > 0, n <= MaxRequests, NEW q \in Seq(Texted),
         UpTo(q, n - 1), Ascending(q), Apart(q),
         UpTo(q, 0) \/ (q # << >> /\ q[Len(q)] = Separator),
         NEW text \in Texts(n)
  PROVE  /\ UpTo(q \o text, n) /\ Ascending(q \o text) /\ Apart(q \o text)
         /\ \A k \in DOMAIN (q \o text) :
              (q \o text)[k] \in {Separator, n} \/ \E p \in DOMAIN q : (q \o text)[k] = q[p]
<1> DEFINE t == q \o text
<1>1. Len(q) \in Nat /\ DOMAIN q = 1 .. Len(q)
  BY LenProperties
<1>2. \A k \in DOMAIN q : q[k] \in Int /\ q[k] <= n - 1
  <2>1. \A k \in DOMAIN q : q[k] \in Texted
    BY <1>1, ElementOfSeq
  <2> QED
    BY <2>1, SessionAssumption DEF UpTo, Texted, Separator
<1>3. /\ text \in Seq(Texted)
      /\ \/ Len(text) = 1 /\ text[1] = n
         \/ Len(text) = 3 /\ text[1] = n /\ text[2] = Separator /\ text[3] = n
  <2>1. n \in Texted /\ Separator \in Texted
    BY SessionAssumption DEF Texted
  <2>2. CASE text = << n >>
    BY <2>1, <2>2
  <2>3. CASE text = << n, Separator, n >>
    BY <2>1, <2>3
  <2> QED
    BY <2>2, <2>3 DEF Texts
<1>4. /\ Len(t) = Len(q) + Len(text) /\ t \in Seq(Texted)
      /\ \A i \in 1 .. Len(q) + Len(text) :
           t[i] = IF i <= Len(q) THEN q[i] ELSE text[i - Len(q)]
  BY <1>3, ConcatProperties
<1>5. Len(text) \in Nat /\ (Len(text) = 1 \/ Len(text) = 3)
  BY <1>3
<1>6. DOMAIN t = 1 .. Len(q) + Len(text)
  BY <1>4, LenProperties
<1> HIDE DEF t
<1>7. \A k \in DOMAIN t :
        \/ k \in DOMAIN q /\ t[k] = q[k]
        \/ k > Len(q) /\ t[k] \in {Separator, n}
  <2> TAKE k \in DOMAIN t
  <2>1. k \in 1 .. Len(q) + Len(text) /\ k \in Int
    BY <1>1, <1>3, <1>6
  <2>2. CASE k <= Len(q)
    BY <1>1, <1>4, <2>1, <2>2
  <2>3. CASE k > Len(q)
    <3>1. t[k] = text[k - Len(q)]
      BY <1>1, <1>4, <2>1, <2>3
    <3>2. k - Len(q) \in 1 .. Len(text)
      BY <1>1, <1>3, <2>1, <2>3
    <3>3. k - Len(q) \in {1, 2, 3} /\ (Len(text) = 1 => k - Len(q) = 1)
      <4> DEFINE b == Len(text)
                 i == k - Len(q)
      <4>1. (b = 1 \/ b = 3) /\ i \in 1 .. b
        BY <1>5, <3>2
      <4> HIDE DEF b, i
      <4>2. i \in {1, 2, 3} /\ (b = 1 => i = 1)
        BY <4>1
      <4> QED
        BY <4>2 DEF b, i
    <3>4. text[k - Len(q)] \in {Separator, n}
      BY <1>3, <3>3
    <3> QED
      BY <2>3, <3>1, <3>4
  <2> QED
    BY <1>1, <2>1, <2>2, <2>3
<1>8. UpTo(t, n)
  BY <1>2, <1>7 DEF UpTo, Separator
<1>9. Ascending(t)
  <2> SUFFICES ASSUME NEW k \in DOMAIN t, NEW l \in DOMAIN t, k < l,
                      IsResponse(t[k]), IsResponse(t[l])
               PROVE  t[k] <= t[l]
    BY DEF Ascending
  <2>1. k \in Int /\ l \in Int
    BY <1>1, <1>3, <1>6
  <2>2. CASE l \in DOMAIN q /\ t[l] = q[l]
    <3>1. k \in DOMAIN q /\ t[k] = q[k]
      BY <1>1, <1>7, <2>1, <2>2
    <3> QED
      BY <2>2, <3>1 DEF Ascending
  <2>3. CASE t[l] \in {Separator, n}
    <3>1. t[l] = n
      BY <2>3 DEF IsResponse
    <3>2. t[k] <= n
      BY <1>8 DEF UpTo
    <3> QED
      BY <3>1, <3>2
  <2> QED
    BY <1>7, <2>2, <2>3
<1>10. Apart(t)
  <2> SUFFICES ASSUME NEW k \in DOMAIN t, NEW l \in DOMAIN t, k < l, t[k] > 0, t[l] > 0
               PROVE  \E m \in k .. l : t[m] = Separator
    BY DEF Apart
  <2>1. k \in Int /\ l \in Int /\ k >= 1 /\ l <= Len(q) + Len(text)
    BY <1>1, <1>3, <1>6
  <2>2. CASE l <= Len(q)
    <3>1. k \in DOMAIN q /\ l \in DOMAIN q /\ t[k] = q[k] /\ t[l] = q[l]
      BY <1>1, <1>7, <2>1, <2>2
    <3>2. PICK m \in k .. l : q[m] = Separator
      BY <3>1 DEF Apart
    <3>3. m \in 1 .. Len(q) + Len(text) /\ m <= Len(q)
      BY <1>1, <1>3, <2>1, <2>2, <3>2
    <3> QED
      BY <1>4, <3>2, <3>3
  <2>3. CASE k <= Len(q) /\ l > Len(q)
    <3>1. k \in DOMAIN q /\ q[k] > 0
      BY <1>1, <1>7, <2>1, <2>3
    <3>2. q # << >> /\ q[Len(q)] = Separator
      BY <1>2, <3>1 DEF UpTo
    <3>3. Len(q) \in k .. l /\ Len(q) \in 1 .. Len(q) + Len(text)
      BY <1>1, <1>3, <2>1, <2>3
    <3>4. t[Len(q)] = Separator
      BY <1>1, <1>4, <3>2, <3>3
    <3> QED
      BY <3>3, <3>4
  <2>4. CASE k > Len(q)
    <3>1. Len(text) = 3 /\ text[2] = Separator /\ l \in Len(q) + 1 .. Len(q) + 3
      <4>1. k >= Len(q) + 1 /\ l >= Len(q) + 2
        BY <1>1, <2>1, <2>4
      <4>2. Len(text) # 1
        <5> DEFINE a == Len(q)
                   b == Len(text)
        <5>1. a \in Nat /\ b \in Nat /\ l \in Int /\ l <= a + b /\ l >= a + 2
          BY <1>1, <1>5, <2>1, <4>1
        <5> HIDE DEF a, b
        <5>2. b # 1
          BY <5>1
        <5> QED
          BY <5>2 DEF b
      <4>3. Len(text) = 3 /\ text[2] = Separator
        BY <1>3, <4>2
      <4> QED
        BY <1>1, <2>1, <4>1, <4>3
    <3>2. t[Len(q) + 2] = Separator
      BY <1>1, <1>4, <3>1
    <3>3. CASE k = Len(q) + 2 \/ l = Len(q) + 2
      BY <1>1, <2>1, <3>2, <3>3
    <3>4. CASE k # Len(q) + 2 /\ l # Len(q) + 2
      <4>1. Len(q) + 2 \in k .. l
        BY <1>1, <2>1, <2>4, <3>1, <3>4
      <4> QED
        BY <3>2, <4>1
    <3> QED
      BY <3>3, <3>4
  <2> QED
    BY <1>1, <2>1, <2>2, <2>3, <2>4
<1>11. \A k \in DOMAIN t : t[k] \in {Separator, n} \/ \E p \in DOMAIN q : t[k] = q[p]
  BY <1>7
<1> QED
  BY <1>8, <1>9, <1>10, <1>11 DEF t

(* Messages after messages.                                                *)
LEMMA SaidAfter ==
  ASSUME NEW n \in Nat, NEW a \in Seq(Seq(Int)), NEW b \in Seq(Seq(Int)),
         Said(a, << >>, n), Said(b, << >>, n),
         \A i \in DOMAIN a, j \in DOMAIN b : InOrder(a[i], b[j])
  PROVE  a \o b \in Seq(Seq(Int)) /\ Said(a \o b, << >>, n)
<1> DEFINE s == a \o b
           La == Len(a)
           Lb == Len(b)
<1>1. /\ s \in Seq(Seq(Int)) /\ Len(s) = La + Lb
      /\ \A i \in 1 .. La + Lb : s[i] = IF i <= La THEN a[i] ELSE b[i - La]
  BY ConcatProperties
<1>2. /\ La \in Nat /\ Lb \in Nat /\ DOMAIN a = 1 .. La /\ DOMAIN b = 1 .. Lb
      /\ DOMAIN s = 1 .. La + Lb
  BY <1>1, LenProperties
<1> HIDE DEF s, La, Lb
<1>3. \A i \in DOMAIN s :
        \/ i \in DOMAIN a /\ s[i] = a[i]
        \/ i > La /\ i - La \in DOMAIN b /\ s[i] = b[i - La]
  <2> TAKE i \in DOMAIN s
  <2>1. i \in 1 .. La + Lb /\ i \in Int
    BY <1>2
  <2>2. CASE i <= La
    BY <1>1, <1>2, <2>1, <2>2
  <2>3. CASE i > La
    <3>1. i - La \in 1 .. Lb
      BY <1>2, <2>1, <2>3
    <3> QED
      BY <1>1, <1>2, <2>1, <2>3, <3>1
  <2> QED
    BY <1>2, <2>1, <2>2, <2>3
<1>4. ASSUME NEW i \in DOMAIN s
      PROVE  UpTo(s[i], n) /\ Single(s[i]) /\ Ascending(s[i]) /\ InOrder(s[i], << >>)
  BY <1>3 DEF Said
<1>5. ASSUME NEW i \in DOMAIN s, NEW j \in DOMAIN s, i < j
      PROVE  InOrder(s[i], s[j])
  <2>1. CASE i \in DOMAIN a /\ s[i] = a[i] /\ j \in DOMAIN a /\ s[j] = a[j]
    BY <1>5, <2>1 DEF Said
  <2>2. CASE i \in DOMAIN a /\ s[i] = a[i] /\ j > La /\ j - La \in DOMAIN b /\ s[j] = b[j - La]
    BY <2>2
  <2>3. CASE /\ i > La /\ i - La \in DOMAIN b /\ s[i] = b[i - La]
             /\ j > La /\ j - La \in DOMAIN b /\ s[j] = b[j - La]
    <3>1. i - La < j - La
      BY <1>2, <1>5
    <3> QED
      BY <2>3, <3>1 DEF Said
  <2>4. CASE i > La /\ j \in DOMAIN a
    BY <1>2, <1>5, <2>4
  <2> QED
    BY <1>3, <2>1, <2>2, <2>3, <2>4
<1>6. Said(s, << >>, n)
  BY <1>4, <1>5 DEF Said
<1> QED
  BY <1>1, <1>6 DEF s

(* What is written when the socket is writable.                            *)
LEMMA WrittenIsSaid ==
  ASSUME NEW n \in Nat, NEW sent \in Seq(Seq(Int)), NEW text \in Seq(Texted),
         Said(sent, text, n), UpTo(text, n), Ascending(text), Apart(text),
         NEW picture \in {<< >>, << << Picture >> >>}
  PROVE  /\ sent \o Parts(text) \o picture \in Seq(Seq(Int))
         /\ Said(sent \o Parts(text) \o picture, << >>, n)
<1> DEFINE P == Parts(text)
           s == sent \o P
<1>1. \A k \in DOMAIN << >> : FALSE
  OBVIOUS
<1>2. P \in Seq(Seq(Texted)) /\ \A i \in DOMAIN P : i \in Nat /\ P[i] = Part(text, i)
  BY PartsAreMessages
<1>3. P \in Seq(Seq(Int))
  <2>1. Texted \subseteq Int
    BY SessionAssumption DEF Texted, Separator
  <2> HIDE DEF P
  <2>2. ASSUME NEW x \in Seq(Texted) PROVE x \in Seq(Int)
    <3>1. Len(x) \in Nat /\ x \in [1 .. Len(x) -> Texted]
      BY LenProperties
    <3>2. x \in [1 .. Len(x) -> Int]
      BY <2>1, <3>1
    <3> QED
      BY <3>1, <3>2
  <2>3. Len(P) \in Nat /\ P \in [1 .. Len(P) -> Seq(Texted)]
    BY <1>2, LenProperties
  <2>4. P \in [1 .. Len(P) -> Seq(Int)]
    BY <2>2, <2>3
  <2> QED
    BY <2>3, <2>4
<1> HIDE DEF P
<1>4. Said(P, << >>, n)
  <2>1. ASSUME NEW i \in DOMAIN P PROVE UpTo(P[i], n)
    BY <1>2, PartsSayTheSame DEF UpTo
  <2>2. ASSUME NEW i \in DOMAIN P PROVE Single(P[i]) /\ Ascending(P[i])
    BY <1>2, PartIsSingle
  <2>3. ASSUME NEW i \in DOMAIN P, NEW j \in DOMAIN P, i < j PROVE InOrder(P[i], P[j])
    BY <1>2, <2>3, PartsInOrder
  <2>4. ASSUME NEW i \in DOMAIN P PROVE InOrder(P[i], << >>)
    BY DEF InOrder
  <2> QED
    BY <2>1, <2>2, <2>3, <2>4 DEF Said
<1>5. Said(sent, << >>, n)
  BY <1>1 DEF Said, InOrder
<1>6. ASSUME NEW i \in DOMAIN sent, NEW j \in DOMAIN P PROVE InOrder(sent[i], P[j])
  <2>1. InOrder(sent[i], text)
    BY DEF Said
  <2>2. \A k \in DOMAIN P[j] : \E p \in DOMAIN text : P[j][k] = text[p]
    BY <1>2, PartsSayTheSame
  <2> QED
    BY <2>1, <2>2 DEF InOrder
<1>7. s \in Seq(Seq(Int)) /\ Said(s, << >>, n)
  BY <1>3, <1>4, <1>5, <1>6, SaidAfter
<1> HIDE DEF s
<1>8. picture \in Seq(Seq(Int)) /\ Said(picture, << >>, n)
      /\ \A i \in DOMAIN s, j \in DOMAIN picture : InOrder(s[i], picture[j])
  <2>1. CASE picture = << >>
    <3>1. DOMAIN picture = {} /\ picture \in Seq(Seq(Int))
      BY <2>1
    <3> QED
      BY <3>1 DEF Said
  <2>2. CASE picture = << << Picture >> >>
    <3>1. /\ << Picture >> \in Seq(Int) /\ DOMAIN << Picture >> = {1}
          /\ << Picture >>[1] = -2
      BY DEF Picture
    <3>2. /\ picture \in Seq(Seq(Int)) /\ DOMAIN picture = {1}
          /\ picture[1] = << Picture >>
      BY <2>2, <3>1
    <3>3. UpTo(picture[1], n)
      BY <3>1, <3>2 DEF UpTo
    <3>4. Single(picture[1]) /\ Ascending(picture[1])
      BY <3>1, <3>2 DEF Single, Ascending
    <3>5. InOrder(picture[1], << >>)
      BY DEF InOrder
    <3>6. Said(picture, << >>, n)
      <4>1. \A i \in DOMAIN picture : i = 1
        BY <3>2
      <4> QED
        BY <3>3, <3>4, <3>5, <4>1 DEF Said
    <3>7. \A i \in DOMAIN s : InOrder(s[i], picture[1])
      BY <3>1, <3>2 DEF InOrder, IsResponse, Picture
    <3> QED
      BY <3>2, <3>6, <3>7
  <2> QED
    BY <2>1, <2>2
<1>9. s \o picture \in Seq(Seq(Int)) /\ Said(s \o picture, << >>, n)
  BY <1>7, <1>8, SaidAfter
<1> QED
  BY <1>9 DEF s, P

(* What was sent stays before what waits when a request is added.          *)
LEMMA SentComesBefore ==
  ASSUME AnswerInv, conn = "ws", asked \in Nat, got' = got, asked' = asked + 1,
         \A k \in DOMAIN tx' :
           tx'[k] \in {Separator, asked + 1} \/ \E p \in DOMAIN tx : tx'[k] = tx[p]
  PROVE  Said(got', tx', asked')
<1>1. Said(got, tx, asked) /\ got \in Seq(Seq(Int))
  BY DEF AnswerInv, AnswerSent
<1>2. ASSUME NEW i \in DOMAIN got, NEW k \in DOMAIN got[i]
      PROVE  got[i][k] \in Int /\ got[i][k] <= asked
  <2>1. got[i] \in Seq(Int)
    BY <1>1, LenProperties, ElementOfSeq
  <2>2. got[i][k] \in Int
    BY <2>1, LenProperties, ElementOfSeq
  <2> QED
    BY <1>1, <2>2 DEF Said, UpTo
<1>3. ASSUME NEW i \in DOMAIN got PROVE UpTo(got[i], asked + 1) /\ InOrder(got[i], tx')
  <2>1. UpTo(got[i], asked + 1)
    BY <1>2 DEF UpTo
  <2>2. ASSUME NEW k \in DOMAIN got[i], NEW l \in DOMAIN tx',
               IsResponse(got[i][k]), IsResponse(tx'[l])
        PROVE  got[i][k] <= tx'[l]
    <3>1. CASE tx'[l] = asked + 1
      BY <1>2, <3>1
    <3>2. CASE \E p \in DOMAIN tx : tx'[l] = tx[p]
      BY <1>1, <2>2, <3>2 DEF Said, InOrder
    <3> QED
      BY <2>2, <3>1, <3>2 DEF IsResponse
  <2> QED
    BY <2>1, <2>2 DEF InOrder
<1> QED
  BY <1>1, <1>3 DEF Said

LEMMA WsAnswers ==
  ASSUME SessionInv, AnswerInv, WsNext
  PROVE  AnswerInv'
<1>1. asked \in Nat /\ SessionText /\ tx \in Seq(Texted) /\ AnswerText /\ AnswerSent
  BY DEF SessionInv, SessionNumbers, SessionText, AnswerInv
<1>2. CASE Established
  <2>1. got = << >> /\ got' = << >> /\ tx' = << 0 >> /\ conn' = "ws" /\ asked' \in Nat
    BY <1>1, <1>2 DEF Established, AnswerSent
  <2>2. DOMAIN tx' = {1} /\ tx'[1] = 0 /\ DOMAIN got' = {} /\ got' \in Seq(Seq(Int))
    BY <2>1
  <2>3. AnswerText'
    BY <2>1, <2>2 DEF AnswerText, UpTo, Ascending, Apart
  <2>4. AnswerSent'
    BY <2>1, <2>2 DEF AnswerSent, Said
  <2> QED
    BY <2>3, <2>4 DEF AnswerInv
<1>3. CASE SendWsSnapshot \/ Refused \/ \E first \in BOOLEAN : ReceivePiece(first)
  <2>1. /\ tx' = tx /\ got' = got /\ asked' = asked /\ flags \subseteq flags'
        /\ conn' = conn \/ conn' = "closed"
    BY <1>3 DEF SendWsSnapshot, Refused, ReceivePiece, Ends
  <2> QED
    BY <1>1, <2>1, AnswersAlone DEF AnswerSent
<1>4. CASE \/ \E text \in Texts(asked + 1) : ReceivePlain(text) \/ ReceivePreview(text)
           \/ ReceiveOverlapping
  <2> DEFINE q == Queued
             n == asked + 1
  <2>1. /\ conn = "ws" /\ conn' = conn /\ got' = got /\ asked' = n /\ asked < MaxRequests
        /\ "WS_REQUEST_PENDING" \in flags'
        /\ \/ tx' = q
           \/ \E text \in Texts(n) : tx' = q \o text
    BY <1>4 DEF ReceivePlain, ReceivePreview, ReceiveOverlapping, Parse, Respond, Pending
  <2>2. /\ q \in Seq(Texted) /\ UpTo(q, asked) /\ Ascending(q) /\ Apart(q)
        /\ UpTo(q, 0) \/ (q # << >> /\ q[Len(q)] = Separator)
        /\ \A k \in DOMAIN q : q[k] # Separator => \E p \in DOMAIN tx : q[k] = tx[p]
    BY <1>1, QueueIsInOrder
  <2>3. n \in Nat /\ n > 0 /\ n <= MaxRequests /\ n - 1 = asked
    BY <1>1, <2>1, SessionAssumption
  <2>4. UpTo(q, n)
    <3>1. \A k \in DOMAIN q : q[k] \in Int
      BY <2>2, LenProperties, ElementOfSeq, SessionAssumption DEF Texted, Separator
    <3> QED
      BY <1>1, <2>2, <3>1 DEF UpTo
  <2> HIDE DEF q
  <2>5. /\ UpTo(tx', n) /\ Ascending(tx') /\ Apart(tx')
        /\ \A k \in DOMAIN tx' :
             tx'[k] \in {Separator, n} \/ \E p \in DOMAIN tx : tx'[k] = tx[p]
    <3>1. CASE tx' = q
      BY <2>2, <2>4, <3>1
    <3>2. CASE \E text \in Texts(n) : tx' = q \o text
      <4>1. PICK text \in Texts(n) : tx' = q \o text
        BY <3>2
      <4> HIDE DEF n
      <4>2. UpTo(q, n - 1)
        BY <2>2, <2>3
      <4>3. /\ UpTo(tx', n) /\ Ascending(tx') /\ Apart(tx')
            /\ \A k \in DOMAIN tx' :
                 tx'[k] \in {Separator, n} \/ \E p \in DOMAIN q : tx'[k] = q[p]
        BY <2>2, <2>3, <4>1, <4>2, ResponseIsAdded
      <4> QED
        BY <2>2, <4>3
    <3> QED
      BY <2>1, <3>1, <3>2
  <2>6. AnswerText'
    BY <2>1, <2>5 DEF AnswerText, UpTo, Ascending, Apart
  <2>7. Said(got', tx', asked')
    BY <1>1, <2>1, <2>5, SentComesBefore
  <2> QED
    BY <1>1, <2>1, <2>6, <2>7 DEF AnswerInv, AnswerSent
<1>5. CASE \E picture \in BOOLEAN : WsWriteable(picture)
  <2>1. PICK picture \in BOOLEAN : WsWriteable(picture)
    BY <1>5
  <2> DEFINE shown == IF picture THEN << << Picture >> >> ELSE << >>
  <2>2. /\ conn = "ws" /\ conn' = "ws" /\ asked' = asked /\ tx' = << >>
        /\ got' = got \o Parts(tx) \o shown
    BY <2>1 DEF WsWriteable
  <2>3. shown \in {<< >>, << << Picture >> >>}
    OBVIOUS
  <2>4. got \in Seq(Seq(Int)) /\ Said(got, tx, asked)
    BY <1>1, <2>2 DEF AnswerSent
  <2>5. UpTo(tx, asked) /\ Ascending(tx) /\ Apart(tx)
    BY <1>1 DEF AnswerText
  <2> HIDE DEF shown
  <2>6. got' \in Seq(Seq(Int)) /\ Said(got', << >>, asked)
    BY <1>1, <2>2, <2>3, <2>4, <2>5, WrittenIsSaid
  <2>7. AnswerSent'
    BY <2>2, <2>6 DEF AnswerSent
  <2>8. AnswerText'
    BY <2>2 DEF AnswerText, UpTo, Ascending, Apart
  <2> QED
    BY <2>7, <2>8 DEF AnswerInv
<1> QED
  BY <1>2, <1>3, <1>4, <1>5 DEF WsNext

LEMMA AnswerStep ==
  ASSUME SessionInv, AnswerInv, [ApiNext]_apiVars
  PROVE  AnswerInv'
BY WsAnswers, HttpAnswers DEF ApiNext

LEMMA AnswersAreSingle == AnswerInv => OneResponseAtATime
BY DEF AnswerInv, AnswerText, AnswerSent, Said, OneResponseAtATime

(* However fast requests come and whatever is dropped, a WebSocket message *)
(* holds one response, and responses come in the order of their requests:  *)
(* for any number of requests and any limit of the queue.                  *)
THEOREM ResponsesComeOneByOne == ApiSpec => []OneResponseAtATime
<1>1. ApiInit => SessionInv /\ AnswerInv
  BY SessionInit, AnswerInit
<1>2. (SessionInv /\ AnswerInv) /\ [ApiNext]_apiVars => (SessionInv /\ AnswerInv)'
  BY SessionStep, AnswerStep
<1>3. SessionInv /\ AnswerInv => OneResponseAtATime
  BY AnswersAreSingle
<1> QED
  BY <1>1, <1>2, <1>3, PTL DEF ApiSpec

=============================================================================
