----------------------------- MODULE JpegWorker -----------------------------
(***************************************************************************)
(* The JPEG workers (JPEGWorker.cpp, jpeg_stream in globals.hpp), the      *)
(* clients that ask them for a picture (get_snapshot_bytes, the preview of *)
(* WS.cpp and the SNAPSHOT and MJPEG commands of IPCServer.cpp), and the   *)
(* part of main that stops and starts them.                                *)
(*                                                                         *)
(* A worker without requests and without an idle rate sleeps on            *)
(* should_grab_frames.  Clients wake it without the mutex of that wait and *)
(* then wait for is_activated.  Each picture goes into snapshot_buf and,   *)
(* through a temporary file, to jpeg_path.  Pictures of a channel are all  *)
(* alike.                                                                  *)
(***************************************************************************)
EXTENDS Integers, FiniteSets

CONSTANTS
  LastChannel,      \* channels are 0 .. LastChannel
  Clients,          \* threads and connections that ask for pictures
  SourceActive,     \* channels whose video stream is active
  MaxRestarts,      \* bound on requests to restart the video group
  MaxSurprises,     \* bound on changes of jpeg_idle_fps and spurious wakeups
  MaxTokens         \* the semaphore is looked at up to this count

Channels == 0 .. LastChannel

(* Enough names of files: the temporary one, and for every channel the one *)
(* at its path and the one its worker has open.                            *)
Inodes == 1 .. 2 * LastChannel + 3
NoFile == 0

ASSUME JpegAssumption ==
  /\ LastChannel \in Nat /\ SourceActive \subseteq Channels
  /\ {MaxRestarts, MaxSurprises, MaxTokens} \subseteq Nat
  /\ MaxTokens > 0

VARIABLES
  worker,      \* [Channels -> state of the thread]
  running, active,
  fresh,       \* request_or_overrun: somebody asked within the last second
  idle,        \* jpeg_idle_fps > 0
  tokens,      \* count of is_activated
  buffered,    \* snapshot_buf is not empty
  tmp,         \* the file at /tmp/snapshot.tmp
  path,        \* [Channels -> file at jpeg_path]
  open,        \* [Channels -> file the worker has open]
  content,     \* [Inodes -> channels whose pictures the file holds data of]
  client,      \* [Clients -> phase and channel of the present request]
  restart,     \* global_restart_video
  main,        \* what main does, and with which channel
  restarts, surprises

files       == << tmp, path, open, content >>
threads     == << worker, running, active, tokens, buffered >>
mainState   == << restart, main, restarts >>
jpegVars == << threads, files, client, mainState, idle, fresh, surprises >>

At(what, c) == [at |-> what, channel |-> c]
Waiting == At("waits", 0)
Idle    == [at |-> "idle", channel |-> 0]

JpegInit ==
  /\ worker = [c \in Channels |-> "off"]
  /\ running = [c \in Channels |-> FALSE] /\ active = [c \in Channels |-> FALSE]
  /\ fresh = [c \in Channels |-> FALSE] /\ idle = [c \in Channels |-> FALSE]
  /\ tokens = [c \in Channels |-> 0] /\ buffered = [c \in Channels |-> FALSE]
  /\ tmp = NoFile
  /\ path = [c \in Channels |-> NoFile] /\ open = [c \in Channels |-> NoFile]
  /\ content = [i \in Inodes |-> {}]
  /\ client = [k \in Clients |-> Idle]
  /\ restart = FALSE /\ main = At("create", 0)
  /\ restarts = 0 /\ surprises = 0

Go(c, from, to) == worker[c] = from /\ worker' = [worker EXCEPT ![c] = to]

(* mutex_main is held for longer than a step only by a worker between its  *)
(* predicate and its sleep.                                                *)
MutexFree == \A c \in Channels : worker[c] # "checked"

Notified(c) == [worker EXCEPT ![c] = IF @ = "asleep" THEN "woken" ELSE @]

-----------------------------------------------------------------------------
(* The worker: the head of its loop and its sleep.                         *)

(* thread_entry after has_started.                                         *)
Begin(c) ==
  /\ Go(c, "starting", "head")
  /\ running' = [running EXCEPT ![c] = TRUE]
  /\ active' = [active EXCEPT ![c] = TRUE]
  /\ UNCHANGED << tokens, buffered, files, client, mainState, idle,
                  fresh, surprises >>

(* The encoder does not start receiving.  What the thread leaves behind    *)
(* main joins and overwrites, which is as if there were nothing.           *)
BeginFails(c) ==
  /\ Go(c, "starting", "off")
  /\ UNCHANGED << running, active, tokens, buffered, files, client,
                  mainState, idle, fresh, surprises >>

Wanted(c) == fresh[c] \/ idle[c]

LoopHead(c) ==
  /\ worker[c] = "head"
  /\ worker' = [worker EXCEPT ![c] = IF ~running[c] THEN "off"
                                     ELSE IF Wanted(c) THEN "capture" ELSE "lock"]
  /\ UNCHANGED << running, active, tokens, buffered, files, client,
                  mainState, idle, fresh, surprises >>

(* The predicate of the wait.                                              *)
MutantNotAwake(c) == running[c] /\ ~Wanted(c)
MaySleep(c) == running[c] /\ ~restart /\ ~Wanted(c)

(* The semaphore is released even when its count is one.                   *)
Released(c) == [tokens EXCEPT ![c] = IF @ < MaxTokens THEN @ + 1 ELSE @]

(* What follows the wait, with the mutex held.                             *)
Awake(c) ==
  /\ worker' = [worker EXCEPT ![c] = IF running[c] THEN "head" ELSE "off"]
  /\ tokens' = IF running[c] THEN Released(c) ELSE tokens
  /\ active' = [active EXCEPT ![c] = running[c]]

(* From the lock, or from a wakeup, to the predicate.                      *)
Evaluate(c) ==
  /\ worker[c] \in {"lock", "woken"} /\ MutexFree
  /\ \/ /\ MaySleep(c)
        /\ worker' = [worker EXCEPT ![c] = "checked"]
        /\ active' = [active EXCEPT ![c] = FALSE]
        /\ UNCHANGED tokens
     \/ ~MaySleep(c) /\ Awake(c)
  /\ UNCHANGED << running, buffered, files, client, mainState, idle,
                  fresh, surprises >>

Sleep(c) ==
  /\ Go(c, "checked", "asleep")
  /\ UNCHANGED << running, active, tokens, buffered, files, client,
                  mainState, idle, fresh, surprises >>

SpuriousWakeup(c) ==
  /\ surprises < MaxSurprises /\ surprises' = surprises + 1
  /\ Go(c, "asleep", "woken")
  /\ UNCHANGED << running, active, tokens, buffered, files, client,
                  mainState, idle, fresh >>

-----------------------------------------------------------------------------
(* The worker: a picture.                                                  *)

(* The video stream is not active, the next picture is not yet due, or the *)
(* encoder has none.                                                       *)
NoPicture(c) ==
  /\ Go(c, "capture", "head")
  /\ UNCHANGED << running, active, tokens, buffered, files, client,
                  mainState, idle, fresh, surprises >>

Capture(c) ==
  /\ c \in SourceActive /\ MutexFree
  /\ Go(c, "capture", "captured")
  /\ buffered' = [buffered EXCEPT ![c] = TRUE]
  /\ UNCHANGED << running, active, tokens, files, client, mainState,
                  idle, fresh, surprises >>

NamedFiles == {tmp} \cup {path[c] : c \in Channels} \cup {open[c] : c \in Channels}

(* O_CREAT | O_TRUNC, or no descriptor.                                    *)
OpenAs(c, file) ==
  /\ open' = [open EXCEPT ![c] = file]
  /\ content' = [content EXCEPT ![file] = {}]

MutantOpensPath(c) ==
  /\ Go(c, "captured", "write")
  /\ \E file \in Inodes :
       /\ IF path[c] = NoFile THEN file \notin NamedFiles ELSE file = path[c]
       /\ OpenAs(c, file) /\ path' = [path EXCEPT ![c] = file]
  /\ UNCHANGED << running, active, tokens, buffered, tmp, client,
                  mainState, idle, fresh, surprises >>

OpenTemp(c) ==
  /\ Go(c, "captured", "write")
  /\ \E file \in Inodes :
       /\ IF tmp = NoFile
          THEN file \notin NamedFiles /\ \A i \in 1 .. file - 1 : i \in NamedFiles
          ELSE file = tmp
       /\ OpenAs(c, file) /\ tmp' = file
  /\ UNCHANGED << running, active, tokens, buffered, path, client,
                  mainState, idle, fresh, surprises >>

OpenFails(c) ==
  /\ Go(c, "captured", "head")
  /\ UNCHANGED << running, active, tokens, buffered, files, client,
                  mainState, idle, fresh, surprises >>

(* save_jpeg_stream writes into whatever file the descriptor stands for.   *)
Write(c) ==
  /\ Go(c, "write", "written")
  /\ content' = [content EXCEPT ![open[c]] = @ \cup {c}]
  /\ UNCHANGED << running, active, tokens, buffered, tmp, path, open,
                  client, mainState, idle, fresh, surprises >>

(* The disk is full: what has the temporary name is removed.               *)
WriteFails(c) ==
  /\ Go(c, "write", "head")
  /\ tmp' = NoFile /\ open' = [open EXCEPT ![c] = NoFile]
  /\ UNCHANGED << running, active, tokens, buffered, path, content,
                  client, mainState, idle, fresh, surprises >>

(* rename moves whatever has the temporary name, and fails if nothing has, *)
(* or for reasons of its own; the temporary name is gone either way.       *)
Rename(c) ==
  /\ Go(c, "written", "head")
  /\ path' \in {path, IF tmp = NoFile THEN path ELSE [path EXCEPT ![c] = tmp]}
  /\ tmp' = NoFile /\ open' = [open EXCEPT ![c] = NoFile]
  /\ UNCHANGED << running, active, tokens, buffered, content,
                  client, mainState, idle, fresh, surprises >>

-----------------------------------------------------------------------------
(* A client: get_snapshot_bytes.                                           *)

Becomes(k, phase) == client' = [client EXCEPT ![k] = phase]

(* request()                                                               *)
Ask(k, c) ==
  /\ client[k] = Idle /\ Becomes(k, At("look", c))
  /\ fresh' = [fresh EXCEPT ![c] = TRUE]
  /\ UNCHANGED << threads, files, mainState, idle, surprises >>

(* A sleeping worker is notified, without the mutex.                       *)
MutantLooksOnly(k, c) ==
  /\ client[k] = At("look", c)
  /\ Becomes(k, At(IF active[c] THEN "poll" ELSE "acquire", c))
  /\ UNCHANGED << threads, files, mainState, idle, fresh, surprises >>

Look(k, c) ==
  /\ client[k] = At("look", c)
  /\ \/ active[c] /\ Becomes(k, At("poll", c)) /\ UNCHANGED worker
     \/ ~active[c] /\ Becomes(k, At("acquire", c)) /\ worker' = Notified(c)
  /\ UNCHANGED << running, active, tokens, buffered, files, mainState,
                  idle, fresh, surprises >>

Acquire(k, c) ==
  /\ client[k] = At("acquire", c) /\ tokens[c] > 0
  /\ tokens' = [tokens EXCEPT ![c] = @ - 1]
  /\ Becomes(k, At("poll", c))
  /\ UNCHANGED << worker, running, active, buffered, files, mainState,
                  idle, fresh, surprises >>

(* The wait for the worker, or for a picture, takes too long.              *)
GiveUp(k, c) ==
  /\ client[k] \in {At("acquire", c), At("again", c)} /\ Becomes(k, Idle)
  /\ client[k] = At("acquire", c) => tokens[c] = 0
  /\ UNCHANGED << threads, files, mainState, idle, fresh, surprises >>

(* get_snapshot: the buffer first, and when it is empty the file.          *)
ReadBuffer(k, c) ==
  /\ client[k] = At("poll", c) /\ MutexFree
  /\ Becomes(k, IF buffered[c] THEN Idle ELSE At("file", c))
  /\ UNCHANGED << threads, files, mainState, idle, fresh, surprises >>

ReadFile(k, c) ==
  /\ client[k] = At("file", c)
  /\ Becomes(k, IF path[c] = NoFile \/ content[path[c]] = {}
                THEN At("again", c) ELSE Idle)
  /\ UNCHANGED << threads, files, mainState, idle, fresh, surprises >>

TryAgain(k, c) ==
  /\ client[k] = At("again", c) /\ Becomes(k, At("poll", c))
  /\ UNCHANGED << threads, files, mainState, idle, fresh, surprises >>

(* A second without a request.  It is long against a client that has just  *)
(* asked, and against a worker on its way from the wakeup to the encoder.  *)
Expire(c) ==
  /\ fresh[c] /\ worker[c] \notin {"woken", "checked", "head", "lock"}
  /\ \A k \in Clients : client[k] # At("look", c)
  /\ fresh' = [fresh EXCEPT ![c] = FALSE]
  /\ UNCHANGED << threads, files, client, mainState, idle, surprises >>

(* The watcher reloads the configuration, and tells no worker; the restart *)
(* it asks for next is RequestRestart.                                     *)
ChangeIdle(c) ==
  /\ surprises < MaxSurprises /\ surprises' = surprises + 1
  /\ idle' = [idle EXCEPT ![c] = ~@]
  /\ UNCHANGED << threads, files, client, mainState, fresh >>

-----------------------------------------------------------------------------
(* Main: restart of the video group, as far as the JPEG workers see it.    *)

(* Some requests are made with the mutex, some without; main is notified.  *)
RequestRestart ==
  /\ restarts < MaxRestarts /\ restarts' = restarts + 1
  /\ restart' = TRUE
  /\ UNCHANGED << threads, files, client, main, idle, fresh, surprises >>

Test ==
  /\ main = Waiting /\ restart /\ MutexFree /\ main' = At("tell", 0)
  /\ UNCHANGED << threads, files, client, restart, restarts, idle,
                  fresh, surprises >>

NextTold(c) == IF c = LastChannel THEN At("create", 0) ELSE At("tell", c + 1)

(* running is cleared and the worker notified without the mutex; there is  *)
(* nothing to stop when there is no encoder.                               *)
Tell(c) ==
  /\ main = At("tell", c)
  /\ IF worker[c] = "off"
     THEN main' = NextTold(c) /\ UNCHANGED << worker, running >>
     ELSE /\ main' = At("join", c)
          /\ running' = [running EXCEPT ![c] = FALSE]
          /\ worker' = Notified(c)
  /\ UNCHANGED << active, tokens, buffered, files, client, restart,
                  restarts, idle, fresh, surprises >>

Join(c) ==
  /\ main = At("join", c) /\ worker[c] = "off" /\ main' = NextTold(c)
  /\ UNCHANGED << threads, files, client, restart, restarts, idle,
                  fresh, surprises >>

Create(c) ==
  /\ main = At("create", c)
  /\ worker' = [worker EXCEPT ![c] = "starting"]
  /\ main' = IF c = LastChannel THEN At("settle", 0) ELSE At("create", c + 1)
  /\ UNCHANGED << running, active, tokens, buffered, files, client,
                  restart, restarts, idle, fresh, surprises >>

(* Main sleeps for 250 ms, which outlast the start of the workers, and     *)
(* clears the flag.                                                        *)
Settle ==
  /\ main.at = "settle" /\ MutexFree /\ \A c \in Channels : worker[c] # "starting"
  /\ restart' = FALSE /\ main' = Waiting
  /\ UNCHANGED << threads, files, client, restarts, idle, fresh, surprises >>

-----------------------------------------------------------------------------
WorkerStep(c) ==
  \/ Begin(c) \/ BeginFails(c) \/ LoopHead(c) \/ Evaluate(c) \/ Sleep(c)
  \/ NoPicture(c) \/ Capture(c) \/ OpenTemp(c) \/ OpenFails(c)
  \/ Write(c) \/ WriteFails(c) \/ Rename(c)

ClientStep(k, c) ==
  \/ Look(k, c) \/ Acquire(k, c) \/ GiveUp(k, c)
  \/ ReadBuffer(k, c) \/ ReadFile(k, c) \/ TryAgain(k, c)

MainStep == Test \/ Settle \/ \E c \in Channels : Tell(c) \/ Join(c) \/ Create(c)

JpegNext ==
  \/ \E c \in Channels :
       \/ WorkerStep(c) \/ SpuriousWakeup(c) \/ Expire(c) \/ ChangeIdle(c)
       \/ \E k \in Clients : ClientStep(k, c)
  \/ \E c \in Channels, k \in Clients : Ask(k, c)
  \/ RequestRestart \/ MainStep

JpegSpec == JpegInit /\ [][JpegNext]_jpegVars

(* Threads are scheduled and get the mutex, which nobody holds for long;   *)
(* the encoder has a picture now and then; the time a client waits is      *)
(* limited, and one who was given no picture asks again.                   *)
AsksAgain(k) == ~buffered[0] /\ Ask(k, 0)

JpegFairSpec ==
  /\ JpegSpec /\ SF_jpegVars(MainStep)
  /\ \A c \in Channels : WF_jpegVars(WorkerStep(c)) /\ SF_jpegVars(Capture(c))
  /\ \A k \in Clients :
       /\ SF_jpegVars(\E c \in Channels : ClientStep(k, c)) /\ WF_jpegVars(AsksAgain(k))
       /\ SF_jpegVars(\E c \in Channels : GiveUp(k, c))

-----------------------------------------------------------------------------
(* Properties.                                                             *)

States == {"off", "starting", "head", "lock", "checked", "asleep", "woken",
           "capture", "captured", "write", "written"}

(* The fields keep their types.                                            *)
JpegTypeOK ==
  /\ worker \in [Channels -> States]
  /\ {running, active, fresh, idle, buffered} \subseteq [Channels -> BOOLEAN]
  /\ tokens \in [Channels -> 0 .. MaxTokens]
  /\ tmp \in Inodes \cup {NoFile}
  /\ {path, open} \subseteq [Channels -> Inodes \cup {NoFile}]
  /\ content \in [Inodes -> SUBSET Channels]
  /\ restart \in BOOLEAN
  /\ \A k \in Clients : client[k].channel \in Channels
  /\ main.channel \in Channels

(* What is at jpeg_path is one whole picture of that channel, at every     *)
(* moment another program may read it.                                     *)
FileIsWhole == \A c \in Channels : path[c] # NoFile => content[path[c]] = {c}

(* Main gets through the stop of the workers, though it tells them without *)
(* the mutex they sleep with: the flag it saw under the mutex keeps them   *)
(* from falling asleep once more.                                          *)
StopCompletes == \A c \in Channels : (main = At("join", c)) ~> (main # At("join", c))

(* While somebody keeps asking a picture is taken, as long as the worker   *)
(* runs, though clients notify it without the mutex it sleeps with, and    *)
(* take each other's releases of is_activated.                             *)
PictureIsTaken ==
  (\E k \in Clients : client[k] = At("look", 0))
    ~> (buffered[0] \/ worker[0] = "off")
=============================================================================
