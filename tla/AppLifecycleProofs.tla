-------------------------- MODULE AppLifecycleProofs --------------------------
(***************************************************************************)
(* Theorems about AppLifecycle, for every set of images that captures may  *)
(* hold, every command line and every bound, and about the debug session   *)
(* that main() waits for, ViewerDump.                                      *)
(***************************************************************************)
EXTENDS AppLifecycle, ViewerDump, SortedQueues, TLAPS

\* What the capture side lets through suits the store and the builder: the store's
\* own check asks for less than a row of pixels, and the aligned depth takes its
\* size from the color image.
LEMMA AssembledFit ==
  ASSUME NEW color \in ColorImages, NEW depth \in DepthImages,
         NEW built \in Assembled(color, depth)
  PROVE  StoreAccepts(built) /\ ConvertibleToView(built) /\ ReadInside(built)
<1> DEFINE aligned == AlignDepthToColor(color, depth)
<1>1. built = [rgb |-> color, depth |-> aligned]
      /\ ValidColor(color) /\ ValidDepth(aligned)
  BY DEF Assembled
<1>2. /\ color.width \in Nat /\ color.height \in Nat
      /\ color.stride \in Nat /\ color.bytes \in Nat
  BY ImagesAssumption DEF ImagesAssumption
<1>3. /\ aligned.width = color.width /\ aligned.height = color.height
      /\ aligned.stride = color.width * 2
      /\ aligned.bytes = color.width * 2 * color.height
  BY DEF AlignDepthToColor, DepthPixel
<1> HIDE DEF aligned
<1>4. /\ SaneSize(color) /\ color.stride > 0 /\ color.bytes > 0
      /\ color.stride >= color.width * 4 /\ HoldsRows(color)
  BY <1>1 DEF ValidColor, SaneShape, ColorPixel
<1>5. /\ SaneSize(aligned) /\ aligned.stride > 0 /\ aligned.bytes > 0
      /\ aligned.stride >= aligned.width * 2 /\ HoldsRows(aligned)
  BY <1>1 DEF ValidDepth, SaneShape, DepthPixel
<1>6. StoreAccepts(built)
  <2>1. color.stride >= color.width
    BY <1>2, <1>4
  <2>2. aligned.stride >= aligned.width
    BY <1>2, <1>3
  <2> QED BY <1>1, <1>4, <1>5, <2>1, <2>2 DEF StoreAccepts, SaneImageBytes
<1>7. ConvertibleToView(built)
  BY <1>1, <1>3, <1>4, <1>5 DEF ConvertibleToView, ColorPixel, DepthPixel
<1>8. RowsRead(color, 4) <= color.bytes
  <2>1. color.stride * color.height <= color.bytes
    BY <1>4 DEF HoldsRows
  <2>2. (color.height - 1) * color.stride = color.stride * color.height - color.stride
    BY <1>2
  <2> QED BY <1>2, <1>4, <2>1, <2>2 DEF RowsRead
<1>9. RowsRead(aligned, 2) <= aligned.bytes
  <2>1. (color.height - 1) * (color.width * 2) + color.width * 2
          = color.width * 2 * color.height
    BY <1>2
  <2>2. aligned.bytes \in Nat
    BY <1>2, <1>3
  <2> QED BY <1>2, <1>3, <2>1, <2>2 DEF RowsRead
<1> QED
  BY <1>1, <1>6, <1>7, <1>8, <1>9 DEF ReadInside, ColorPixel, DepthPixel

-----------------------------------------------------------------------------
(* The inductive invariant                                                 *)

\* The capture thread runs only between main's start of it and its join.
CaptureBracketed ==
  /\ ingestor \notin {"none", "ended"} <=> threads["ingestor"] = "running"
  /\ main.phase = "parse" => threads["ingestor"] = "none"
  /\ main.phase = "start" /\ main.next <= 4 => threads["ingestor"] = "none"
  /\ main.phase = "stop" /\ main.next = 5 => threads["ingestor"] # "running"

\* Ids and timestamps taken lie below the counters, and a frame under way is newer
\* than those accepted.
TicketsOrdered ==
  /\ newest.frameId < nextFrameId /\ newest.timestamp <= lastTimestamp
  /\ ingestor \in {"build", "submit"} =>
       /\ Newer(frame, newest)
       /\ frame.frameId < nextFrameId /\ frame.timestamp <= lastTimestamp

ImagesFit ==
  ingestor = "submit" =>
    StoreAccepts(images) /\ ConvertibleToView(images) /\ ReadInside(images)

\* The inductive invariant of main and the capture thread.
IInv ==
  /\ TypeOK
  /\ CaptureBracketed /\ CameraUsedWhileStarted
  /\ TicketsOrdered /\ ImagesFit

\* Before main opens the camera the invariant holds.
LEMMA InitInvariant == Init => IInv
  BY DEF Init, IInv, TypeOK, CaptureBracketed, CameraUsedWhileStarted, TicketsOrdered,
     ImagesFit, Threads, NoFrame, Frame

\* The places of main's steps that the invariant names.
LEMMA StartPlaces ==
  ASSUME main.next \in 1..9
  PROVE  /\ Starting("open") => main.next = 1
         /\ Starting("serve") <=> main.phase = "start" /\ main.next = 9
         /\ Starting("ingestor") => main.next = 4
         /\ \A step \in {"builder", "viewer", "webrtc", "seed"} :
              Starting(step) => main.next \in 5..8
         /\ \A step \in {"configure", "cameras"} : Starting(step) => main.next \in 2..3
<1>1. main.next \in {1, 2, 3, 4, 5, 6, 7, 8, 9}
  OBVIOUS
<1> QED BY <1>1 DEF Starting, StartOrder

\* The camera is stopped and closed last, behind the join of the capture thread.
LEMMA StopPlaces ==
  /\ Stopping("camera") => main.next = 5
  /\ Stopping("ingestor") => main.next = 4
  /\ \A step \in {"builder", "viewer", "webrtc"} : Stopping(step) => main.next \in 1..3
<1>1. DOMAIN StopOrder = {1, 2, 3, 4, 5}
  BY DEF StopOrder
<1> QED BY <1>1 DEF Stopping, StopOrder

\* Steps of main and of the other threads leave the frames alone.
LEMMA FramesUntouched ==
  ASSUME TicketsOrdered, ImagesFit, UNCHANGED <<frame, images, nextFrameId,
         lastTimestamp, newest>>,
         ingestor' = ingestor \/ ingestor' \notin {"build", "submit"}
  PROVE  TicketsOrdered' /\ ImagesFit'
  BY DEF TicketsOrdered, ImagesFit, Newer

\* While main parses the command line no thread runs.
LEMMA ParseStepPreserves == IInv /\ ParseStep => IInv'
<1> SUFFICES ASSUME IInv, ParseStep PROVE IInv'
  OBVIOUS
<1> USE DEF IInv, TypeOK, CaptureBracketed, CameraUsedWhileStarted
<1>1. CASE ParseOption
  BY <1>1, FramesUntouched DEF ParseOption, mainVars, ingestVars
<1>2. CASE Refuse
  BY <1>2, FramesUntouched DEF Refuse, ingestVars
<1>3. CASE Configured
  BY <1>3, FramesUntouched DEF Configured, ingestVars
<1> QED BY <1>1, <1>2, <1>3 DEF ParseStep

\* main starts the capture thread at the fourth step and no earlier.
LEMMA StartStepPreserves == IInv /\ StartStep => IInv'
<1> SUFFICES ASSUME IInv, StartStep PROVE IInv'
  OBVIOUS
<1> USE DEF IInv, TypeOK, CaptureBracketed, CameraUsedWhileStarted
<1>1. main.next \in 1..9 /\ main.next + 1 \in Nat
  OBVIOUS
<1>2. CASE OpenCamera
  <2>1. main.next = 1 /\ main.phase = "start" /\ ingestor \in {"none", "ended"}
    BY <1>1, <1>2, StartPlaces DEF OpenCamera, Starting
  <2> QED
    BY <1>2, <2>1, FramesUntouched DEF OpenCamera, NextStep, CleanUp, ingestVars
<1>3. CASE Configure
  <2>1. main.next \in 2..3 /\ main.phase = "start"
    BY <1>1, <1>3, StartPlaces DEF Configure, Starting
  <2> QED
    BY <1>3, <2>1, FramesUntouched DEF Configure, NextStep, CleanUp, ingestVars
<1>4. CASE StartCameras
  <2>1. main.next \in 2..3 /\ main.phase = "start"
    BY <1>1, <1>4, StartPlaces DEF StartCameras, Starting
  <2> QED
    BY <1>4, <2>1, FramesUntouched DEF StartCameras, NextStep, CleanUp, ingestVars
<1>5. CASE SeedOnce
  <2>1. main.next \in 5..8 /\ main.phase = "start"
    BY <1>1, <1>5, StartPlaces DEF SeedOnce, Starting
  <2> QED
    BY <1>5, <2>1, FramesUntouched DEF SeedOnce, NextStep, CleanUp, ingestVars
<1>6. CASE Serve
  BY <1>6, FramesUntouched DEF Serve, CleanUp, ingestVars
<1>7. ASSUME NEW t \in Threads, StartThread(t) PROVE IInv'
  <2>1. /\ main.phase = "start"
        /\ t = "ingestor" => main.next = 4
        /\ t # "ingestor" => main.next \in 5..8
    BY <1>1, <1>7, StartPlaces DEF StartThread, Starting, Threads
  <2>2. CASE t = "ingestor"
    BY <1>7, <2>1, <2>2, FramesUntouched DEF StartThread, NextStep, Threads
  <2>3. CASE t # "ingestor"
    BY <1>7, <2>1, <2>3, FramesUntouched DEF StartThread, NextStep, Threads
  <2> QED BY <2>2, <2>3
<1> QED BY <1>2, <1>3, <1>4, <1>5, <1>6, <1>7 DEF StartStep

\* main touches the camera again only after it has joined the capture thread.
LEMMA StopStepPreserves == IInv /\ StopStep => IInv'
<1> SUFFICES ASSUME IInv, StopStep PROVE IInv'
  OBVIOUS
<1> USE DEF IInv, TypeOK, CaptureBracketed, CameraUsedWhileStarted
<1>1. ASSUME NEW t \in Threads, RequestStop(t) PROVE IInv'
  BY <1>1, FramesUntouched DEF RequestStop, ingestVars
<1>2. ASSUME NEW t \in Threads, Join(t) PROVE IInv'
  <2>1. /\ main.phase = "stop"
        /\ t = "ingestor" => main.next = 4
        /\ t # "ingestor" => main.next \in 1..3
    BY <1>2, StopPlaces DEF Join, Stopping, Threads
  <2> QED
    BY <1>2, <2>1, FramesUntouched DEF Join, NextStep, ingestVars, Threads
<1>3. CASE StopCamera
  <2>1. main.next = 5 /\ main.phase = "stop"
    BY <1>3, StopPlaces DEF StopCamera, Stopping
  <2> QED BY <1>3, <2>1, FramesUntouched DEF StopCamera, ingestVars
<1>4. CASE CloseCamera
  <2>1. main.next = 5 /\ main.phase = "stop"
    BY <1>4, StopPlaces DEF CloseCamera, Stopping
  <2> QED BY <1>4, <2>1, FramesUntouched DEF CloseCamera, NextStep, ingestVars
<1>5. CASE Return
  BY <1>5, FramesUntouched DEF Return, ingestVars
<1> QED BY <1>1, <1>2, <1>3, <1>4, <1>5 DEF StopStep

\* The largest of three numbers is at least the last of them.
LEMMA NextTimestampNewer ==
  ASSUME clock \in Nat, lastTimestamp \in Nat
  PROVE  NextTimestamp \in Nat /\ NextTimestamp > lastTimestamp
<1> DEFINE S == {1, clock, lastTimestamp + 1}
<1>1. \E x \in S : \A y \in S : x >= y
  OBVIOUS
<1>2. Max(S) \in S /\ \A y \in S : Max(S) >= y
  BY <1>1 DEF Max
<1> QED BY <1>2 DEF NextTimestamp

\* The capture thread takes fresh tickets, and builds frames that fit.
LEMMA IngestStepPreserves == IInv /\ IngestStep => IInv'
<1> SUFFICES ASSUME IInv, IngestStep PROVE IInv'
  OBVIOUS
<1> USE DEF IInv, TypeOK, CaptureBracketed, CameraUsedWhileStarted, MoveTo, mainVars
<1>1. CASE LoopCheck
  BY <1>1, FramesUntouched DEF LoopCheck, Threads
<1>2. CASE EnterCapture
  BY <1>2, FramesUntouched DEF EnterCapture
<1>3. CASE CaptureEnds
  BY <1>3, FramesUntouched DEF CaptureEnds
<1>4. CASE Calibrate
  <2>1. CASE MoveTo("loop") /\ UNCHANGED <<frame, nextFrameId, lastTimestamp>>
    BY <1>4, <2>1, FramesUntouched DEF Calibrate
  <2>2. CASE /\ MoveTo("build") /\ frame' = Frame(nextFrameId, NextTimestamp)
             /\ nextFrameId' = nextFrameId + 1 /\ lastTimestamp' = NextTimestamp
    BY <1>4, <2>2, NextTimestampNewer
       DEF Calibrate, Frame, TicketsOrdered, ImagesFit, Newer
  <2> QED BY <1>4, <2>1, <2>2 DEF Calibrate
<1>5. CASE Build
  <2>1. ImagesFit'
    BY <1>5, AssembledFit DEF Build, ImagesFit
  <2> QED
    BY <1>5, <2>1 DEF Build, TicketsOrdered, Newer
<1>6. CASE BuildFails
  BY <1>6, FramesUntouched DEF BuildFails
<1>7. CASE Submit
  <2>1. newest' \in {newest, frame}
    BY <1>7 DEF Submit
  <2> QED
    BY <1>7, <2>1 DEF Submit, TicketsOrdered, ImagesFit
<1> QED BY <1>1, <1>2, <1>3, <1>4, <1>5, <1>6, <1>7 DEF IngestStep

\* Every step of the program preserves the invariant.
LEMMA StepPreserves == IInv /\ [Next]_vars => IInv'
<1> SUFFICES ASSUME IInv, [Next]_vars PROVE IInv'
  OBVIOUS
<1> USE DEF IInv, TypeOK, CaptureBracketed, CameraUsedWhileStarted
<1>1. ASSUME NEW t \in Threads, EndThread(t) PROVE IInv'
  BY <1>1, FramesUntouched DEF EndThread, ingestVars, Threads
<1>2. CASE Tick
  BY <1>2, FramesUntouched, BoundsAssumption DEF Tick, mainVars, ingestVars
<1>3. CASE UNCHANGED vars
  BY <1>3, FramesUntouched DEF vars, mainVars, ingestVars
<1> QED
  BY <1>1, <1>2, <1>3, ParseStepPreserves, StartStepPreserves, StopStepPreserves,
     IngestStepPreserves
  DEF Next

-----------------------------------------------------------------------------
(* The theorems                                                            *)

\* The invariant holds in every state the program reaches.
THEOREM Invariance == Spec => []IInv
  BY InitInvariant, StepPreserves, PTL DEF Spec

\* main neither stops nor closes the camera while the capture thread uses it,
\* whichever step of the start failed (main.cpp:101-121).
THEOREM CameraSafe == Spec => []CameraUsedWhileStarted
  BY Invariance, PTL DEF IInv

\* A frame that the capture thread submits is newer than every accepted one and has
\* images that the store and the builder can take, for all images that a camera may
\* deliver (FrameIngestor.cpp:37-48).
THEOREM SubmittedFit == Spec => []SubmittedFramesFit
<1>1. IInv => SubmittedFramesFit
  BY DEF IInv, TicketsOrdered, ImagesFit, SubmittedFramesFit
<1> QED BY <1>1, Invariance, PTL

\* Type correctness of main and the capture thread.
THEOREM TypeCorrect == Spec => []TypeOK
<1>1. IInv => TypeOK
  BY DEF IInv
<1> QED BY <1>1, Invariance, PTL

-----------------------------------------------------------------------------
(* What main leaves behind                                                 *)

\* No thread runs, the camera is closed, and the capture thread is not in the SDK.
AtRest ==
  /\ \A t \in Threads : threads[t] # "running"
  /\ camera = "closed"
  /\ ingestor \in {"none", "ended"}

\* Before it starts anything and once it has returned, main has nothing running.
RestsOutside == main.phase \in {"parse", "refused", "returned"} => AtRest

\* While main cleans up, what it has dealt with stays down.
ClearedSoFar ==
  main.phase = "stop" =>
    /\ main.next > 1 => threads["webrtc"] # "running"
    /\ main.next > 2 => threads["viewer"] # "running"
    /\ main.next > 3 => threads["builder"] # "running"
    /\ main.next > 4 => threads["ingestor"] # "running"
    /\ main.next > 5 => camera = "closed"

\* The threads that do not run, and the camera: what the invariants are about.
Quiet ==
  main.phase \in {"parse", "refused", "returned"} =>
    camera = "closed" /\ \A t \in Threads : threads[t] # "running"

\* The places of the steps of the cleanup.
LEMMA StopPlace ==
  ASSUME NEW step, Stopping(step)
  PROVE  /\ main.phase = "stop" /\ main.next \in 1..5
         /\ step = <<"webrtc", "viewer", "builder", "ingestor", "camera">>[main.next]
BY DEF Stopping, StopOrder

\* A step that starts no thread and leaves main and the camera alone.
LEMMA NothingStarted ==
  ASSUME Quiet, ClearedSoFar, UNCHANGED <<main, camera>>,
         \A t \in Threads : threads'[t] = "running" => threads[t] = "running"
  PROVE  Quiet' /\ ClearedSoFar'
BY DEF Quiet, ClearedSoFar, Threads

\* A join leaves one thread more behind it.
LEMMA JoinClears ==
  ASSUME TypeOK, Quiet, ClearedSoFar, NEW t \in Threads, Join(t)
  PROVE  Quiet' /\ ClearedSoFar'
<1>1. /\ main.phase = "stop" /\ main.next \in 1..5
      /\ t = <<"webrtc", "viewer", "builder", "ingestor", "camera">>[main.next]
  BY StopPlace DEF Join
<1>2. /\ main'.phase = "stop" /\ main'.next = main.next + 1
      /\ threads[t] # "running" /\ UNCHANGED <<threads, camera>>
  BY <1>1 DEF Join, NextStep, TypeOK
<1>3. t # "camera"
  BY DEF Threads
<1>4. \/ main.next = 1 /\ t = "webrtc"
      \/ main.next = 2 /\ t = "viewer"
      \/ main.next = 3 /\ t = "builder"
      \/ main.next = 4 /\ t = "ingestor"
  BY <1>1, <1>3
<1> QED BY <1>1, <1>2, <1>4 DEF Quiet, ClearedSoFar

\* Every step of the program keeps what was cleared down.
LEMMA RestKept == TypeOK /\ Quiet /\ ClearedSoFar /\ [Next]_vars => (Quiet /\ ClearedSoFar)'
<1> SUFFICES ASSUME TypeOK, Quiet, ClearedSoFar, [Next]_vars
             PROVE  Quiet' /\ ClearedSoFar'
  OBVIOUS
<1>1. CASE ParseStep
  <2>1. /\ main.phase = "parse" /\ UNCHANGED <<threads, camera>>
        /\ main' = main \/ main'.phase \in {"refused", "start"}
    BY <1>1 DEF ParseStep, ParseOption, Refuse, Configured, mainVars
  <2> QED BY <2>1 DEF Quiet, ClearedSoFar
<1>2. CASE StartStep
  <2>1. main.phase = "start" /\ (NextStep \/ CleanUp)
    BY <1>2 DEF StartStep, OpenCamera, Configure, StartCameras, StartThread, SeedOnce,
       Serve, Starting
  <2>2. main'.phase = "start" \/ (main'.phase = "stop" /\ main'.next = 1)
    BY <2>1 DEF NextStep, CleanUp, TypeOK
  <2> QED BY <2>2 DEF Quiet, ClearedSoFar
<1>3. ASSUME NEW t \in Threads, Join(t) PROVE Quiet' /\ ClearedSoFar'
  BY <1>3, JoinClears
<1>4. CASE StopCamera
  <2>1. main.next = 5 /\ main.phase = "stop" /\ UNCHANGED <<main, threads>>
    BY <1>4, StopPlaces DEF StopCamera, Stopping
  <2> QED BY <2>1 DEF Quiet, ClearedSoFar
<1>5. CASE CloseCamera
  <2>1. main.next = 5 /\ main.phase = "stop" /\ camera' = "closed" /\ UNCHANGED threads
    BY <1>5, StopPlaces DEF CloseCamera, Stopping
  <2>2. main'.phase = "stop" /\ main'.next = 6
    BY <1>5, <2>1 DEF CloseCamera, NextStep, TypeOK
  <2> QED BY <2>1, <2>2 DEF Quiet, ClearedSoFar
<1>6. CASE Return
  <2>1. main.phase = "stop" /\ main.next > 5 /\ main.next \in 1..6
    BY <1>6 DEF Return, StopOrder, TypeOK
  <2>2. main'.phase = "returned" /\ UNCHANGED <<threads, camera>>
    BY <1>6 DEF Return
  <2> QED BY <2>1, <2>2 DEF Quiet, ClearedSoFar, Threads
<1>7. CASE \/ \E t \in Threads : RequestStop(t) \/ EndThread(t)
           \/ IngestStep \/ Tick \/ UNCHANGED vars
  <2>1. /\ UNCHANGED <<main, camera>>
        /\ \/ threads' = threads
           \/ \E t \in Threads : threads' = [threads EXCEPT ![t] = "ended"]
    BY <1>7 DEF RequestStop, EndThread, IngestStep, LoopCheck, EnterCapture, CaptureEnds,
       Calibrate, Build, BuildFails, Submit, Tick, vars, mainVars, Threads
  <2>2. \A t \in Threads : threads'[t] = "running" => threads[t] = "running"
    BY <2>1 DEF TypeOK
  <2> QED BY <2>1, <2>2, NothingStarted
<1> QED BY <1>1, <1>2, <1>3, <1>4, <1>5, <1>6, <1>7 DEF Next, StopStep

\* From whichever step it cleaned up, main returns with no thread running and the camera
\* closed; and if it refuses its command line nothing was started: the safety that
\* CleanupEnds rests on (main.cpp:101-121).
THEOREM ReturnsAtRest == Spec => []RestsOutside
<1>1. Init => Quiet /\ ClearedSoFar
  BY DEF Init, Quiet, ClearedSoFar, Threads
<1>2. IInv => TypeOK
  BY DEF IInv
<1>3. IInv /\ Quiet => RestsOutside
  BY DEF IInv, TypeOK, CaptureBracketed, Quiet, RestsOutside, AtRest, Threads
<1> QED BY <1>1, <1>2, <1>3, RestKept, Invariance, PTL DEF Spec

-----------------------------------------------------------------------------
(* Which arguments are options                                             *)

\* Where a run of arguments that look like options wanting a value may begin that
\* ends right before i, and where the longest does.
RunStarts(i) == {s \in 1..i : \A k \in s..(i - 1) : argv[k] \in Valued}

\* An argument that looks like an option with a value makes the run longer, another ends it.
LEMMA RunsGrow ==
  ASSUME NEW i \in Nat \ {0}, i # 1
  PROVE  RunStarts(i) = IF argv[i - 1] \in Valued THEN RunStarts(i - 1) \cup {i} ELSE {i}
  BY DEF RunStarts

\* Where the longest one begins.
Run(i) == CHOOSE s \in RunStarts(i) : \A y \in RunStarts(i) : s <= y

\* The run of arguments that take values, right before i, begins somewhere.
LEMMA RunIsLeast ==
  ASSUME NEW i \in Nat \ {0}
  PROVE  Run(i) \in RunStarts(i) /\ Run(i) \in 1..i /\ \A y \in RunStarts(i) : Run(i) <= y
<1>1. RunStarts(i) \in SUBSET Nat /\ i \in RunStarts(i)
  BY DEF RunStarts
<1>2. \E s \in RunStarts(i) : \A y \in RunStarts(i) : s <= y
  BY <1>1, LeastElement
<1>3. Run(i) \in RunStarts(i) /\ \A y \in RunStarts(i) : Run(i) <= y
  BY <1>2, Zenon DEF Run
<1> QED BY <1>3 DEF RunStarts

\* Even numbers.
Even(n) == n % 2 = 0

\* Of a number and the next, one is even.
LEMMA EvenAlternates ==
  ASSUME NEW n \in Nat
  PROVE  Even(n + 1) <=> ~Even(n)
  BY DEF Even

\* A run one longer is even if the other is not.
LEMMA RunStep ==
  ASSUME NEW i \in Nat \ {0}, i # 1
  PROVE  Even(i - Run(i)) <=> ~(Even((i - 1) - Run(i - 1)) /\ argv[i - 1] \in Valued)
<1>1. /\ Run(i) \in RunStarts(i) /\ Run(i) \in 1..i
      /\ \A y \in RunStarts(i) : Run(i) <= y
  BY RunIsLeast
<1>2. i - 1 \in Nat \ {0}
  OBVIOUS
<1>3. /\ Run(i - 1) \in RunStarts(i - 1) /\ Run(i - 1) \in 1..(i - 1)
      /\ \A y \in RunStarts(i - 1) : Run(i - 1) <= y
  BY <1>2, RunIsLeast
<1>4. CASE argv[i - 1] \in Valued
  <2>1. Run(i) = Run(i - 1)
    BY <1>1, <1>3, <1>4, RunsGrow
  <2>2. (i - 1) - Run(i - 1) \in Nat /\ i - Run(i) = ((i - 1) - Run(i - 1)) + 1
    BY <1>3, <2>1
  <2>3. Even(i - Run(i)) <=> ~Even((i - 1) - Run(i - 1))
    BY <2>2, EvenAlternates
  <2> QED BY <1>4, <2>3, Zenon
<1>5. CASE argv[i - 1] \notin Valued
  <2>1. i - Run(i) = 0
    BY <1>1, <1>5, RunsGrow
  <2>2. Even(i - Run(i))
    BY <2>1 DEF Even
  <2> QED BY <1>5, <2>2, Zenon
<1> QED BY <1>4, <1>5

\* The definition of IsOption has a solution, that an argument is an option if the run of
\* arguments before it that look like options wanting a value is even.
LEMMA OptionsAlternate ==
  /\ IsOption[1]
  /\ \A i \in Nat \ {0} : IsOption[i + 1] <=> ~(IsOption[i] /\ argv[i] \in Valued)
<1> DEFINE f == [i \in Nat \ {0} |-> IF Even(i - Run(i)) THEN TRUE ELSE FALSE]
           Good(g) == g = [i \in Nat \ {0} |->
                        IF i = 1 THEN TRUE ELSE ~(g[i - 1] /\ argv[i - 1] \in Valued)]
<1>1. Even(1 - Run(1))
  <2>1. Run(1) = 1
    BY RunIsLeast
  <2> QED BY <2>1 DEF Even
<1>3. ASSUME NEW i \in Nat \ {0}
      PROVE  f[i] = IF i = 1 THEN TRUE ELSE ~(f[i - 1] /\ argv[i - 1] \in Valued)
  <2>0. f[i] = IF Even(i - Run(i)) THEN TRUE ELSE FALSE
    OBVIOUS
  <2>1. CASE i = 1
    BY <1>1, <2>0, <2>1, Zenon
  <2>2. CASE i # 1
    <3>1. i - 1 \in Nat \ {0}
      BY <2>2
    <3>2. f[i - 1] = IF Even((i - 1) - Run(i - 1)) THEN TRUE ELSE FALSE
      BY <3>1
    <3>3. Even(i - Run(i)) <=> ~(Even((i - 1) - Run(i - 1)) /\ argv[i - 1] \in Valued)
      BY <2>2, RunStep
    <3> HIDE DEF f
    <3>4. CASE Even((i - 1) - Run(i - 1))
      BY <2>0, <2>2, <3>2, <3>3, <3>4, Zenon
    <3>5. CASE ~Even((i - 1) - Run(i - 1))
      BY <2>0, <2>2, <3>2, <3>3, <3>5, Zenon
    <3> QED BY <3>4, <3>5
  <2> QED BY <2>1, <2>2
<1>4. Good(f)
  <2>1. f = [i \in Nat \ {0} |->
               IF i = 1 THEN TRUE ELSE ~(f[i - 1] /\ argv[i - 1] \in Valued)]
    BY <1>3, Zenon
  <2> QED BY <2>1
<1>5. Good(IsOption)
  <2>1. \E g : Good(g)
    BY <1>4
  <2> QED BY <2>1, Zenon DEF IsOption
<1> HIDE DEF f
<1>6. ASSUME NEW i \in Nat \ {0}
      PROVE  IsOption[i] = IF i = 1 THEN TRUE ELSE ~(IsOption[i - 1] /\ argv[i - 1] \in Valued)
  BY <1>5, Zenon
<1>7. IsOption[1]
  <2>1. 1 \in Nat \ {0}
    OBVIOUS
  <2> QED BY <1>6, <2>1, Zenon
<1>8. ASSUME NEW i \in Nat \ {0}
      PROVE  IsOption[i + 1] <=> ~(IsOption[i] /\ argv[i] \in Valued)
  <2>1. i + 1 \in Nat \ {0} /\ i + 1 # 1 /\ (i + 1) - 1 = i
    OBVIOUS
  <2>2. IsOption[i + 1] = IF i + 1 = 1 THEN TRUE
                          ELSE ~(IsOption[(i + 1) - 1] /\ argv[(i + 1) - 1] \in Valued)
    BY <1>6, <2>1
  <2> QED BY <2>1, <2>2, Zenon
<1> QED BY <1>7, <1>8

-----------------------------------------------------------------------------
(* The command line, parsed as far as the next argument                    *)

\* The uses of an option so far, whether there is one, and the value of the last.
UsesBefore(option) == {i \in 1..(argument - 1) : IsOption[i] /\ argv[i] = option}
Given(option) == UsesBefore(option) # {}
ValueOf(option) == argv[Max(UsesBefore(option)) + 1]

\* The arguments before the next one are dealt with, and that one is an option.
OptionsDealtWith ==
  /\ Len(argv) \in Nat /\ DOMAIN argv = 1..Len(argv)
  /\ argument \in 1..(Len(argv) + 1)
  /\ IsOption[argument]
  /\ viewerDumpCountExplicit = IF Given("--debug-frames") THEN TRUE ELSE FALSE

\* The fields of the configuration.
Fields ==
  {"capture", "tcp", "port", "webrtc", "webrtcPort", "stun", "readPolicy",
   "viewerPolicy", "dump", "maxFrames"}

\* The options that share the fields of the dump.
DumpOptions == {"--enable-debug", "--debug-frames"}

\* The field that each of the other options sets, and what it sets it to.
FieldOf(option) ==
  CASE option = "--disable-capture" -> "capture"
    [] option = "--enable-tcp-streaming" -> "tcp"
    [] option = "--disable-webrtc" -> "webrtc"
    [] option = "--port" -> "port"
    [] option = "--webrtc-port" -> "webrtcPort"
    [] option = "--webrtc-stun" -> "stun"
    [] option = "--read-policy" -> "readPolicy"
    [] option = "--viewer-policy" -> "viewerPolicy"

\* How the parser turns the argument of an option into a value.
MadeOf(option, value) ==
  CASE option \in {"--disable-capture", "--disable-webrtc"} -> FALSE
    [] option = "--enable-tcp-streaming" -> TRUE
    [] option \in {"--port", "--webrtc-port"} -> Number[value]
    [] option = "--webrtc-stun" -> IF value = "none" THEN "" ELSE value
    [] option \in {"--read-policy", "--viewer-policy"} -> value

\* The configuration is what the options dealt with ask for.
FieldsFollow ==
  \A o \in (Flags \cup Valued) \ DumpOptions :
    config[FieldOf(o)] = IF Given(o) THEN MadeOf(o, ValueOf(o)) ELSE Defaults[FieldOf(o)]

\* So are the fields of the dump, where an explicit number of frames wins.
DumpFollows ==
  /\ config.dump =
       IF Given("--enable-debug") \/ Given("--debug-frames") THEN TRUE ELSE FALSE
  /\ config.maxFrames =
       IF Given("--debug-frames") THEN Number[ValueOf("--debug-frames")]
       ELSE IF Given("--enable-debug") THEN 5 ELSE 1

\* The configuration has these fields and no other.
ConfigShape == config = [f \in Fields |-> config[f]]

\* What holds between two options.
ParsedSoFar == OptionsDealtWith /\ ConfigShape /\ FieldsFollow /\ DumpFollows

\* The inductive invariant of the parser.
ParseInv == main.phase = "parse" => ParsedSoFar

\* The largest of a set and a larger number.
LEMMA MaxOfNext ==
  ASSUME NEW n \in Nat, NEW S \in SUBSET (0..(n - 1))
  PROVE  Max(S \cup {n}) = n
<1> DEFINE T == S \cup {n}
<1> DEFINE m == Max(T)
<1>1. n \in T /\ (\A y \in T : n >= y) /\ T \subseteq Int
  OBVIOUS
<1>2. m \in T /\ \A y \in T : m >= y
  BY <1>1, Zenon DEF Max
<1> HIDE DEF T, m
<1>3. m = n
  BY <1>1, <1>2
<1> QED BY <1>3 DEF T, m

\* Taking an option, with its value if it wants one, leads to the next option, and only
\* that option is given, if again, and has another value.
LEMMA OptionTaken ==
  ASSUME NEW n \in Nat, argument \in 1..(n + 1), IsOption[argument], UNCHANGED argv,
         \/ argv[argument] \notin Valued /\ argument' = argument + 1
         \/ argv[argument] \in Valued /\ argument' = argument + 2,
         NEW option
  PROVE  /\ IsOption'[argument']
         /\ Given(option)' <=> Given(option) \/ argv[argument] = option
         /\ ValueOf(option)' = IF argv[argument] = option THEN argv[argument + 1]
                               ELSE ValueOf(option)
<1> DEFINE o == IsOption
           U == UsesBefore(option)
           T == {i \in 1..(argument' - 1) : o[i] /\ argv[i] = option}
<1>1. o = IsOption'
  BY DEF IsOption
<1>2. \A i \in Nat \ {0} : o[i + 1] <=> ~(o[i] /\ argv[i] \in Valued)
  BY OptionsAlternate
<1>3. UsesBefore(option)' = T
  BY <1>1, Zenon DEF UsesBefore
<1>4. U = {i \in 1..(argument - 1) : o[i] /\ argv[i] = option}
  BY DEF UsesBefore
<1>5. o[argument]
  OBVIOUS
<1> HIDE DEF o, U
<1>6. argument \in Nat \ {0} /\ argument + 1 \in Nat \ {0}
  OBVIOUS
<1>7. /\ o[argument']
      /\ \A i \in 1..(argument' - 1) : i \in 1..(argument - 1) \/ i = argument \/ ~o[i]
      /\ argument \in 1..(argument' - 1)
      /\ 1..(argument - 1) \subseteq 1..(argument' - 1)
  <2>1. CASE argv[argument] \notin Valued /\ argument' = argument + 1
    <3>1. o[argument + 1]
      BY <1>2, <1>6, <2>1, Zenon
    <3> QED BY <1>6, <2>1, <3>1
  <2>2. CASE argv[argument] \in Valued /\ argument' = argument + 2
    <3>1. ~o[argument + 1]
      BY <1>2, <1>5, <1>6, <2>2, Zenon
    <3>2. o[(argument + 1) + 1]
      BY <1>2, <1>6, <3>1, Zenon
    <3>3. (argument + 1) + 1 = argument' /\ argument' - 1 = argument + 1
      BY <2>2
    <3>4. o[argument']
      BY <3>2, <3>3
    <3> QED BY <1>6, <3>1, <3>3, <3>4
  <2> QED BY <2>1, <2>2
<1>8. T = IF argv[argument] = option THEN U \cup {argument} ELSE U
  BY <1>4, <1>5, <1>7
<1>9. U \in SUBSET (0..(argument - 1))
  BY <1>4
<1> HIDE DEF T
<1>10. IsOption'[argument']
  BY <1>1, <1>7, Zenon
<1>11. Given(option)' <=> T # {}
  BY <1>3, Zenon DEF Given
<1>12. Given(option) <=> U # {}
  BY Zenon DEF Given, U
<1>13. ValueOf(option)' = argv[Max(T) + 1]
  BY <1>3, Zenon DEF ValueOf
<1>14. ValueOf(option) = argv[Max(U) + 1]
  BY Zenon DEF ValueOf, U
<1>15. CASE argv[argument] = option
  <2>1. T = U \cup {argument}
    BY <1>8, <1>15
  <2>2. Max(T) = argument
    BY <1>6, <1>9, <2>1, MaxOfNext
  <2>3. T # {}
    BY <2>1
  <2> QED BY <1>10, <1>11, <1>13, <1>15, <2>2, <2>3, Zenon
<1>16. CASE argv[argument] # option
  <2>1. T = U
    BY <1>8, <1>16
  <2> QED BY <1>10, <1>11, <1>12, <1>13, <1>14, <1>16, <2>1, Zenon
<1> QED BY <1>15, <1>16

\* At first nothing is given.
LEMMA NothingTaken ==
  argument = 1 => /\ IsOption[argument]
                  /\ \A option : ~Given(option)
<1> SUFFICES ASSUME argument = 1, NEW option PROVE IsOption[argument] /\ ~Given(option)
  OBVIOUS
<1>1. 1..(argument - 1) = {}
  OBVIOUS
<1>2. UsesBefore(option) = {}
  BY <1>1 DEF UsesBefore
<1>3. IsOption[argument]
  BY OptionsAlternate, Zenon
<1> QED BY <1>2, <1>3 DEF Given

\* One field set.
LEMMA FieldsSet ==
  ASSUME ConfigShape, NEW f \in Fields, NEW v, config' = [config EXCEPT ![f] = v]
  PROVE  ConfigShape' /\ \A g \in Fields : config'[g] = IF g = f THEN v ELSE config[g]
<1> DEFINE c == config
           d == config'
<1>1. d = [g \in Fields |-> IF g = f THEN v ELSE c[g]]
  BY DEF ConfigShape
<1> HIDE DEF d
<1>2. \A g \in Fields : d[g] = IF g = f THEN v ELSE c[g]
  BY <1>1
<1>3. d = [g \in Fields |-> d[g]]
  BY <1>1
<1> QED BY <1>2, <1>3 DEF d, ConfigShape

\* Both fields of a dump set.
LEMMA DumpFieldsSet ==
  ASSUME ConfigShape, NEW v, config' = [config EXCEPT !.dump = TRUE, !.maxFrames = v]
  PROVE  /\ ConfigShape'
         /\ \A g \in Fields :
              config'[g] = IF g = "dump" THEN TRUE ELSE IF g = "maxFrames" THEN v ELSE config[g]
<1> DEFINE c == config
           d == config'
<1>1. d = [g \in Fields |-> IF g = "dump" THEN TRUE ELSE IF g = "maxFrames" THEN v ELSE c[g]]
  BY DEF ConfigShape, Fields
<1> HIDE DEF d
<1>2. \A g \in Fields :
        d[g] = IF g = "dump" THEN TRUE ELSE IF g = "maxFrames" THEN v ELSE c[g]
  BY <1>1
<1>3. d = [g \in Fields |-> d[g]]
  BY <1>1
<1> QED BY <1>2, <1>3 DEF d, ConfigShape

\* A record with the fields of a configuration is a function of them.
LEMMA RecordShape ==
  ASSUME NEW a, NEW b, NEW c, NEW d, NEW e, NEW f, NEW g, NEW h, NEW i, NEW j, NEW r,
         r = [capture |-> a, tcp |-> b, port |-> c, webrtc |-> d, webrtcPort |-> e,
              stun |-> f, readPolicy |-> g, viewerPolicy |-> h, dump |-> i,
              maxFrames |-> j]
  PROVE  r = [field \in Fields |-> r[field]]
<1>1. DOMAIN r = Fields
  BY DEF Fields
<1>2. r = [field \in DOMAIN r |-> r[field]]
  OBVIOUS
<1> QED BY <1>1, <1>2, Zenon

\* The defaults have these fields.
LEMMA DefaultsShape == Defaults = [f \in Fields |-> Defaults[f]]
<1>1. Defaults = [capture |-> Defaults.capture, tcp |-> Defaults.tcp, port |-> Defaults.port,
                  webrtc |-> Defaults.webrtc, webrtcPort |-> Defaults.webrtcPort,
                  stun |-> Defaults.stun, readPolicy |-> Defaults.readPolicy,
                  viewerPolicy |-> Defaults.viewerPolicy, dump |-> Defaults.dump,
                  maxFrames |-> Defaults.maxFrames]
  BY DEF Defaults
<1> QED BY <1>1, RecordShape

\* And so has the reference.
LEMMA AskedShape == Asked = [f \in Fields |-> Asked[f]]
<1>1. Asked = [capture |-> Asked.capture, tcp |-> Asked.tcp, port |-> Asked.port,
                  webrtc |-> Asked.webrtc, webrtcPort |-> Asked.webrtcPort,
                  stun |-> Asked.stun, readPolicy |-> Asked.readPolicy,
                  viewerPolicy |-> Asked.viewerPolicy, dump |-> Asked.dump,
                  maxFrames |-> Asked.maxFrames]
  BY DEF Asked
<1> QED BY <1>1, RecordShape

\* Options do not share fields, but for those of the dump.
LEMMA FieldsDiffer ==
  \A o, p \in (Flags \cup Valued) \ DumpOptions :
    /\ FieldOf(o) \in Fields \ {"dump", "maxFrames"}
    /\ o # p => FieldOf(o) # FieldOf(p)
  BY DEF Flags, Valued, DumpOptions, FieldOf, Fields

\* What each option does to the configuration, as an update of its field.
LEMMA FlagSets ==
  ASSUME NEW o \in Flags \ DumpOptions, NEW value
  PROVE  WithFlag(o) = [config EXCEPT ![FieldOf(o)] = MadeOf(o, value)]
<1>1. CASE o = "--disable-capture"
  BY <1>1, Zenon DEF WithFlag, FieldOf, MadeOf
<1>2. CASE o = "--enable-tcp-streaming"
  BY <1>2 DEF WithFlag, FieldOf, MadeOf
<1>3. CASE o = "--disable-webrtc"
  BY <1>3 DEF WithFlag, FieldOf, MadeOf
<1> QED BY <1>1, <1>2, <1>3 DEF Flags, DumpOptions

\* What each option with a value does to the configuration.
LEMMA ValueSets ==
  ASSUME NEW o \in Valued \ DumpOptions, NEW value
  PROVE  WithValue(o, value) = [config EXCEPT ![FieldOf(o)] = MadeOf(o, value)]
<1>1. CASE o = "--port"
  BY <1>1 DEF WithValue, FieldOf, MadeOf
<1>2. CASE o = "--webrtc-port"
  BY <1>2 DEF WithValue, FieldOf, MadeOf
<1>3. CASE o = "--webrtc-stun"
  BY <1>3 DEF WithValue, FieldOf, MadeOf
<1>4. CASE o = "--read-policy"
  BY <1>4 DEF WithValue, FieldOf, MadeOf
<1>5. CASE o = "--viewer-policy"
  BY <1>5 DEF WithValue, FieldOf, MadeOf
<1> QED BY <1>1, <1>2, <1>3, <1>4, <1>5 DEF Valued, DumpOptions

\* What holds of the arguments once the next one is taken.
OptionRead(x) ==
  /\ x = argv[argument] /\ argument \in 1..Len(argv)
  /\ UNCHANGED argv
  /\ \/ x \in Flags /\ argument' = argument + 1
     \/ x \in Valued /\ argument' = argument + 2 /\ argument < Len(argv)
  /\ viewerDumpCountExplicit' = (viewerDumpCountExplicit \/ x = "--debug-frames")

\* Taking an option keeps the place in the command line.
LEMMA ReadingAdvances ==
  ASSUME OptionsDealtWith, NEW x, OptionRead(x)
  PROVE  /\ OptionsDealtWith'
         /\ \A o \in Flags \cup Valued :
              /\ Given(o)' <=> Given(o) \/ x = o
              /\ ValueOf(o)' = IF x = o THEN argv[argument + 1] ELSE ValueOf(o)
<1>1. /\ Len(argv) \in Nat /\ argument \in 1..(Len(argv) + 1) /\ IsOption[argument]
      /\ UNCHANGED argv
      /\ \/ argv[argument] \notin Valued /\ argument' = argument + 1
         \/ argv[argument] \in Valued /\ argument' = argument + 2
  BY DEF OptionsDealtWith, OptionRead, Flags, Valued
<1>2. ASSUME NEW o
      PROVE  /\ IsOption'[argument']
             /\ Given(o)' <=> Given(o) \/ x = o
             /\ ValueOf(o)' = IF x = o THEN argv[argument + 1] ELSE ValueOf(o)
  <2>1. /\ IsOption'[argument']
        /\ Given(o)' <=> Given(o) \/ argv[argument] = o
        /\ ValueOf(o)' = IF argv[argument] = o THEN argv[argument + 1] ELSE ValueOf(o)
    BY <1>1, OptionTaken
  <2>2. x = argv[argument]
    BY DEF OptionRead
  <2> QED BY <2>1, <2>2
<1>3. OptionsDealtWith'
  <2>1. (viewerDumpCountExplicit = IF Given("--debug-frames") THEN TRUE ELSE FALSE)'
    <3>1. Given("--debug-frames")' <=> Given("--debug-frames") \/ x = "--debug-frames"
      BY <1>2
    <3>2. viewerDumpCountExplicit = IF Given("--debug-frames") THEN TRUE ELSE FALSE
      BY DEF OptionsDealtWith
    <3>3. viewerDumpCountExplicit' = (viewerDumpCountExplicit \/ x = "--debug-frames")
      BY DEF OptionRead
    <3>4. CASE Given("--debug-frames")
      BY <3>1, <3>2, <3>3, <3>4, Zenon
    <3>5. CASE ~Given("--debug-frames")
      BY <3>1, <3>2, <3>3, <3>5, Zenon
    <3> QED BY <3>4, <3>5
  <2>2. IsOption'[argument']
    BY <1>2, Zenon
  <2>3. Len(argv') \in Nat /\ DOMAIN argv' = 1..Len(argv') /\ argument' \in 1..(Len(argv') + 1)
    BY <1>1 DEF OptionRead, OptionsDealtWith
  <2> QED BY <2>1, <2>2, <2>3, Zenon DEF OptionsDealtWith
<1> QED BY <1>2, <1>3

\* An option that sets a field of its own leaves the others as they were.
LEMMA FieldOptionParsed ==
  ASSUME ParsedSoFar, NEW x \in (Flags \cup Valued) \ DumpOptions, OptionRead(x),
         config' = [config EXCEPT ![FieldOf(x)] = MadeOf(x, argv[argument + 1])]
  PROVE  ParsedSoFar'
<1> DEFINE v == MadeOf(x, argv[argument + 1])
<1>1. FieldOf(x) \in Fields \ {"dump", "maxFrames"}
  BY FieldsDiffer
<1>2. ConfigShape' /\ \A g \in Fields : config'[g] = IF g = FieldOf(x) THEN v ELSE config[g]
  BY <1>1, FieldsSet DEF ParsedSoFar
<1> HIDE DEF v
<1>3. /\ OptionsDealtWith'
      /\ \A o \in Flags \cup Valued :
           /\ Given(o)' <=> Given(o) \/ x = o
           /\ ValueOf(o)' = IF x = o THEN argv[argument + 1] ELSE ValueOf(o)
  BY ReadingAdvances DEF ParsedSoFar
<1>4. ASSUME NEW o \in (Flags \cup Valued) \ DumpOptions
      PROVE  (config[FieldOf(o)] =
                IF Given(o) THEN MadeOf(o, ValueOf(o)) ELSE Defaults[FieldOf(o)])'
  <2>1. FieldOf(o) \in Fields
    BY FieldsDiffer
  <2>2. config'[FieldOf(o)] = IF FieldOf(o) = FieldOf(x) THEN v ELSE config[FieldOf(o)]
    BY <1>2, <2>1
  <2>3. /\ Given(o)' <=> Given(o) \/ x = o
        /\ ValueOf(o)' = IF x = o THEN argv[argument + 1] ELSE ValueOf(o)
    BY <1>3
  <2>4. CASE o = x
    <3>1. config'[FieldOf(o)] = v
      BY <2>2, <2>4
    <3>2. ValueOf(o)' = argv[argument + 1] /\ Given(o)'
      BY <2>3, <2>4, Zenon
    <3>3. config'[FieldOf(o)] = MadeOf(o, argv[argument + 1])
      BY <2>4, <3>1, Zenon DEF v
    <3> QED BY <3>2, <3>3, Zenon
  <2>5. CASE o # x
    <3>1. config'[FieldOf(o)] = config[FieldOf(o)]
      BY <2>2, <2>5, FieldsDiffer
    <3>2. config[FieldOf(o)] = IF Given(o) THEN MadeOf(o, ValueOf(o)) ELSE Defaults[FieldOf(o)]
      BY Zenon DEF ParsedSoFar, FieldsFollow
    <3>3. (Given(o)' <=> Given(o)) /\ ValueOf(o)' = ValueOf(o)
      BY <2>3, <2>5, Zenon
    <3> QED BY <3>1, <3>2, <3>3, Zenon
  <2> QED BY <2>4, <2>5
<1>5. FieldsFollow'
  BY <1>4, Zenon DEF FieldsFollow
<1>6. DumpFollows'
  <2>1. config'.dump = config.dump /\ config'.maxFrames = config.maxFrames
    BY <1>1, <1>2 DEF Fields, Defaults
  <2>2. /\ Given("--enable-debug")' <=> Given("--enable-debug")
        /\ Given("--debug-frames")' <=> Given("--debug-frames")
        /\ ValueOf("--debug-frames")' = ValueOf("--debug-frames")
    BY <1>3 DEF Flags, Valued, DumpOptions
  <2> QED BY <2>1, <2>2, Zenon DEF ParsedSoFar, DumpFollows
<1> QED BY <1>2, <1>3, <1>5, <1>6 DEF ParsedSoFar

\* The two options that share the fields of the dump.
LEMMA DumpOptionParsed ==
  ASSUME ParsedSoFar, NEW x \in DumpOptions, OptionRead(x),
         config' = IF x = "--enable-debug" THEN WithFlag(x)
                   ELSE WithValue(x, argv[argument + 1])
  PROVE  ParsedSoFar'
<1> DEFINE v == IF x = "--enable-debug" THEN DebugFrames ELSE Number[argv[argument + 1]]
<1>1. config' = [config EXCEPT !.dump = TRUE, !.maxFrames = v]
  <2>1. CASE x = "--enable-debug"
    BY <2>1 DEF WithFlag
  <2>2. CASE x = "--debug-frames"
    BY <2>2 DEF WithValue
  <2> QED BY <2>1, <2>2 DEF DumpOptions
<1> HIDE DEF v
<1>2. /\ ConfigShape'
      /\ \A g \in Fields :
           config'[g] = IF g = "dump" THEN TRUE ELSE IF g = "maxFrames" THEN v ELSE config[g]
  BY <1>1, DumpFieldsSet DEF ParsedSoFar
<1>3. /\ OptionsDealtWith'
      /\ \A o \in Flags \cup Valued :
           /\ Given(o)' <=> Given(o) \/ x = o
           /\ ValueOf(o)' = IF x = o THEN argv[argument + 1] ELSE ValueOf(o)
  BY ReadingAdvances DEF ParsedSoFar
<1>4. ASSUME NEW o \in (Flags \cup Valued) \ DumpOptions
      PROVE  (config[FieldOf(o)] =
                IF Given(o) THEN MadeOf(o, ValueOf(o)) ELSE Defaults[FieldOf(o)])'
  <2>1. config'[FieldOf(o)] = config[FieldOf(o)]
    BY <1>2, FieldsDiffer
  <2>2. config[FieldOf(o)] = IF Given(o) THEN MadeOf(o, ValueOf(o)) ELSE Defaults[FieldOf(o)]
    BY Zenon DEF ParsedSoFar, FieldsFollow
  <2>3. x # o
    OBVIOUS
  <2>4. (Given(o)' <=> Given(o)) /\ ValueOf(o)' = ValueOf(o)
    BY <1>3, <2>3, Zenon
  <2> QED BY <2>1, <2>2, <2>4, Zenon
<1>5. FieldsFollow'
  BY <1>4, Zenon DEF FieldsFollow
<1>6. DumpFollows'
  <2>1. config'.dump = TRUE /\ config'.maxFrames = v
    BY <1>2 DEF Fields, Defaults
  <2>2. /\ Given("--enable-debug")' <=> Given("--enable-debug") \/ x = "--enable-debug"
        /\ Given("--debug-frames")' <=> Given("--debug-frames") \/ x = "--debug-frames"
        /\ ValueOf("--debug-frames")' = IF x = "--debug-frames" THEN argv[argument + 1]
                                        ELSE ValueOf("--debug-frames")
    BY <1>3, Zenon DEF Flags, Valued
  <2>3. CASE x = "--enable-debug"
    <3>1. v = DebugFrames /\ x # "--debug-frames"
      BY <2>3 DEF v
    <3>2. DebugFrames = IF Given("--debug-frames") THEN config.maxFrames ELSE 5
      BY Zenon DEF DebugFrames, ParsedSoFar, OptionsDealtWith
    <3>3. config.maxFrames =
            IF Given("--debug-frames") THEN Number[ValueOf("--debug-frames")]
            ELSE IF Given("--enable-debug") THEN 5 ELSE 1
      BY Zenon DEF ParsedSoFar, DumpFollows
    <3> QED BY <2>1, <2>2, <2>3, <3>1, <3>2, <3>3, Zenon DEF DumpFollows
  <2>4. CASE x = "--debug-frames"
    <3>1. v = Number[argv[argument + 1]]
      BY <2>4 DEF v
    <3> QED BY <2>1, <2>2, <2>4, <3>1, Zenon DEF DumpFollows
  <2> QED BY <2>3, <2>4 DEF DumpOptions
<1> QED BY <1>2, <1>3, <1>5, <1>6 DEF ParsedSoFar

\* Each step of the parser deals with one option.
LEMMA OptionParsed ==
  ASSUME ParsedSoFar, ParseFlag \/ ParseValue
  PROVE  ParsedSoFar'
<1> DEFINE x == argv[argument]
           value == argv[argument + 1]
<1>1. Len(argv) \in Nat /\ argument \in 1..(Len(argv) + 1)
  BY DEF ParsedSoFar, OptionsDealtWith
<1>2. CASE ParseFlag
  <2>1. /\ x \in Flags /\ ~ParsedAll /\ config' = WithFlag(x) /\ argument' = argument + 1
        /\ UNCHANGED <<argv, viewerDumpCountExplicit>>
    BY <1>2 DEF ParseFlag
  <2> HIDE DEF x
  <2>2. viewerDumpCountExplicit' = (viewerDumpCountExplicit \/ x = "--debug-frames")
    <3>1. x # "--debug-frames"
      BY <2>1 DEF Flags
    <3>2. viewerDumpCountExplicit \in BOOLEAN
      BY Zenon DEF ParsedSoFar, OptionsDealtWith
    <3> QED BY <2>1, <3>1, <3>2, Zenon
  <2>3. argument \in 1..Len(argv) /\ x = argv[argument]
    BY <1>1, <2>1 DEF ParsedAll, x
  <2>4. OptionRead(x)
    BY <2>1, <2>2, <2>3, Zenon DEF OptionRead
  <2>5. CASE x \in DumpOptions
    <3>1. x = "--enable-debug"
      BY <2>1, <2>5 DEF Flags, DumpOptions
    <3> QED BY <2>1, <2>4, <2>5, <3>1, DumpOptionParsed
  <2>6. CASE x \notin DumpOptions
    BY <2>1, <2>4, <2>6, FlagSets, FieldOptionParsed
  <2> QED BY <2>5, <2>6
<1>3. CASE ParseValue
  <2>1. /\ x \in Valued /\ HasValue /\ config' = WithValue(x, value)
        /\ argument' = argument + 2 /\ UNCHANGED argv
        /\ viewerDumpCountExplicit' = (viewerDumpCountExplicit \/ x = "--debug-frames")
    BY <1>3, Zenon DEF ParseValue
  <2> HIDE DEF x
  <2>2. argument \in 1..Len(argv) /\ argument < Len(argv) /\ x = argv[argument]
    BY <1>1, <2>1 DEF HasValue, x
  <2>3. OptionRead(x)
    BY <2>1, <2>2, Zenon DEF OptionRead
  <2>4. CASE x \in DumpOptions
    <3>1. x # "--enable-debug"
      BY <2>1 DEF Valued
    <3> QED BY <2>1, <2>3, <2>4, <3>1, DumpOptionParsed
  <2>5. CASE x \notin DumpOptions
    BY <2>1, <2>3, <2>5, ValueSets, FieldOptionParsed
  <2> QED BY <2>4, <2>5
<1> QED BY <1>2, <1>3

\* The parser starts with the defaults.
LEMMA NothingParsed ==
  ASSUME ParseInit, Len(argv) \in Nat, DOMAIN argv = 1..Len(argv)
  PROVE  ParsedSoFar
<1>1. /\ argument = 1 /\ config = Defaults /\ viewerDumpCountExplicit = FALSE
  BY DEF ParseInit
<1>2. IsOption[argument] /\ \A option : ~Given(option)
  BY <1>1, NothingTaken
<1>3. OptionsDealtWith
  <2>1. argument \in 1..(Len(argv) + 1)
    BY <1>1
  <2> QED BY <1>1, <1>2, <2>1, Zenon DEF OptionsDealtWith
<1>4. ConfigShape
  BY <1>1, DefaultsShape, Zenon DEF ConfigShape
<1>5. FieldsFollow
  BY <1>1, <1>2, Zenon DEF FieldsFollow
<1>6. DumpFollows
  <2>1. config.dump = FALSE /\ config.maxFrames = 1
    BY <1>1 DEF Defaults
  <2> QED BY <1>2, <2>1, Zenon DEF DumpFollows
<1> QED BY <1>3, <1>4, <1>5, <1>6 DEF ParsedSoFar

\* At the end of the command line, all options are dealt with.
LEMMA AllParsed ==
  ASSUME ParsedSoFar, ParsedAll
  PROVE  config = Asked
<1>1. Len(argv) \in Nat /\ DOMAIN argv = 1..Len(argv) /\ argument = Len(argv) + 1
  BY DEF ParsedSoFar, OptionsDealtWith, ParsedAll
<1>2. ASSUME NEW o PROVE UsesBefore(o) = Uses(o)
  BY <1>1 DEF UsesBefore, Uses
<1>3. ASSUME NEW o PROVE Given(o) <=> Uses(o) # {}
  BY <1>2 DEF Given
<1>4. ASSUME NEW o, Given(o), NEW d
      PROVE  LastValue(o, d) = ValueOf(o) /\ LastNumber(o, d) = Number[ValueOf(o)]
  BY <1>2, <1>3, <1>4, Zenon DEF LastValue, LastNumber, ValueOf
<1>5. ASSUME NEW o, ~Given(o), NEW d
      PROVE  LastValue(o, d) = d /\ LastNumber(o, d) = d
  BY <1>3, <1>5, Zenon DEF LastValue, LastNumber
<1>6. \A o \in (Flags \cup Valued) \ DumpOptions :
        config[FieldOf(o)] = IF Given(o) THEN MadeOf(o, ValueOf(o)) ELSE Defaults[FieldOf(o)]
  BY Zenon DEF ParsedSoFar, FieldsFollow
<1>7. config.capture = Asked.capture
  <2>1. /\ FieldOf("--disable-capture") = "capture" /\ Defaults["capture"] = TRUE
        /\ \A v : MadeOf("--disable-capture", v) = FALSE
        /\ "--disable-capture" \in (Flags \cup Valued) \ DumpOptions
    BY DEF FieldOf, MadeOf, Defaults, Flags, Valued, DumpOptions
  <2>2. Asked.capture = (Uses("--disable-capture") = {})
    BY DEF Asked
  <2>3. config["capture"] = IF Given("--disable-capture") THEN MadeOf("--disable-capture", ValueOf("--disable-capture")) ELSE TRUE
    BY <1>6, <2>1, Zenon
  <2>4. CASE Given("--disable-capture")
    BY <1>3, <2>1, <2>2, <2>3, <2>4
  <2>5. CASE ~Given("--disable-capture")
    BY <1>3, <2>1, <2>2, <2>3, <2>5
  <2> QED BY <2>4, <2>5
<1>8. config.tcp = Asked.tcp
  <2>1. /\ FieldOf("--enable-tcp-streaming") = "tcp" /\ Defaults["tcp"] = FALSE
        /\ \A v : MadeOf("--enable-tcp-streaming", v) = TRUE
        /\ "--enable-tcp-streaming" \in (Flags \cup Valued) \ DumpOptions
    BY DEF FieldOf, MadeOf, Defaults, Flags, Valued, DumpOptions
  <2>2. Asked.tcp = (Uses("--enable-tcp-streaming") # {})
    BY DEF Asked
  <2>3. config["tcp"] = IF Given("--enable-tcp-streaming") THEN MadeOf("--enable-tcp-streaming", ValueOf("--enable-tcp-streaming")) ELSE FALSE
    BY <1>6, <2>1, Zenon
  <2>4. CASE Given("--enable-tcp-streaming")
    BY <1>3, <2>1, <2>2, <2>3, <2>4
  <2>5. CASE ~Given("--enable-tcp-streaming")
    BY <1>3, <2>1, <2>2, <2>3, <2>5
  <2> QED BY <2>4, <2>5
<1>9. config.webrtc = Asked.webrtc
  <2>1. /\ FieldOf("--disable-webrtc") = "webrtc" /\ Defaults["webrtc"] = TRUE
        /\ \A v : MadeOf("--disable-webrtc", v) = FALSE
        /\ "--disable-webrtc" \in (Flags \cup Valued) \ DumpOptions
    BY DEF FieldOf, MadeOf, Defaults, Flags, Valued, DumpOptions
  <2>2. Asked.webrtc = (Uses("--disable-webrtc") = {})
    BY DEF Asked
  <2>3. config["webrtc"] = IF Given("--disable-webrtc") THEN MadeOf("--disable-webrtc", ValueOf("--disable-webrtc")) ELSE TRUE
    BY <1>6, <2>1, Zenon
  <2>4. CASE Given("--disable-webrtc")
    BY <1>3, <2>1, <2>2, <2>3, <2>4
  <2>5. CASE ~Given("--disable-webrtc")
    BY <1>3, <2>1, <2>2, <2>3, <2>5
  <2> QED BY <2>4, <2>5
<1>10. config.port = Asked.port
  <2>1. /\ FieldOf("--port") = "port"
        /\ \A v : MadeOf("--port", v) = Number[v]
        /\ "--port" \in (Flags \cup Valued) \ DumpOptions
    BY DEF FieldOf, MadeOf, Defaults, Flags, Valued, DumpOptions
  <2>2. Asked.port = LastNumber("--port", Defaults["port"])
    BY DEF Asked, Defaults
  <2>3. config["port"] = IF Given("--port") THEN MadeOf("--port", ValueOf("--port")) ELSE Defaults["port"]
    BY <1>6, <2>1, Zenon
  <2>4. CASE Given("--port")
    BY <1>4, <2>1, <2>2, <2>3, <2>4, Zenon
  <2>5. CASE ~Given("--port")
    BY <1>5, <2>1, <2>2, <2>3, <2>5, Zenon
  <2> QED BY <2>4, <2>5
<1>11. config.webrtcPort = Asked.webrtcPort
  <2>1. /\ FieldOf("--webrtc-port") = "webrtcPort"
        /\ \A v : MadeOf("--webrtc-port", v) = Number[v]
        /\ "--webrtc-port" \in (Flags \cup Valued) \ DumpOptions
    BY DEF FieldOf, MadeOf, Defaults, Flags, Valued, DumpOptions
  <2>2. Asked.webrtcPort = LastNumber("--webrtc-port", Defaults["webrtcPort"])
    BY DEF Asked, Defaults
  <2>3. config["webrtcPort"] = IF Given("--webrtc-port") THEN MadeOf("--webrtc-port", ValueOf("--webrtc-port")) ELSE Defaults["webrtcPort"]
    BY <1>6, <2>1, Zenon
  <2>4. CASE Given("--webrtc-port")
    BY <1>4, <2>1, <2>2, <2>3, <2>4, Zenon
  <2>5. CASE ~Given("--webrtc-port")
    BY <1>5, <2>1, <2>2, <2>3, <2>5, Zenon
  <2> QED BY <2>4, <2>5
<1>12. config.stun = Asked.stun
  <2>1. /\ FieldOf("--webrtc-stun") = "stun" /\ Defaults["stun"] = ""
        /\ \A v : MadeOf("--webrtc-stun", v) = IF v = "none" THEN "" ELSE v
        /\ "--webrtc-stun" \in (Flags \cup Valued) \ DumpOptions
    BY DEF FieldOf, MadeOf, Defaults, Flags, Valued, DumpOptions
  <2>2. Asked.stun = IF LastValue("--webrtc-stun", "none") = "none" THEN ""
                     ELSE LastValue("--webrtc-stun", "none")
    BY DEF Asked
  <2>3. config["stun"] = IF Given("--webrtc-stun") THEN MadeOf("--webrtc-stun", ValueOf("--webrtc-stun")) ELSE ""
    BY <1>6, <2>1, Zenon
  <2>4. CASE Given("--webrtc-stun")
    BY <1>4, <2>1, <2>2, <2>3, <2>4, Zenon
  <2>5. CASE ~Given("--webrtc-stun")
    BY <1>5, <2>1, <2>2, <2>3, <2>5, Zenon
  <2> QED BY <2>4, <2>5
<1>13. config.readPolicy = Asked.readPolicy
  <2>1. /\ FieldOf("--read-policy") = "readPolicy" /\ Defaults["readPolicy"] = "greedy"
        /\ \A v : MadeOf("--read-policy", v) = v
        /\ "--read-policy" \in (Flags \cup Valued) \ DumpOptions
    BY DEF FieldOf, MadeOf, Defaults, Flags, Valued, DumpOptions
  <2>2. Asked.readPolicy = LastValue("--read-policy", "greedy")
    BY DEF Asked
  <2>3. config["readPolicy"] = IF Given("--read-policy") THEN MadeOf("--read-policy", ValueOf("--read-policy")) ELSE "greedy"
    BY <1>6, <2>1, Zenon
  <2>4. CASE Given("--read-policy")
    BY <1>4, <2>1, <2>2, <2>3, <2>4, Zenon
  <2>5. CASE ~Given("--read-policy")
    BY <1>5, <2>1, <2>2, <2>3, <2>5, Zenon
  <2> QED BY <2>4, <2>5
<1>14. config.viewerPolicy = Asked.viewerPolicy
  <2>1. /\ FieldOf("--viewer-policy") = "viewerPolicy" /\ Defaults["viewerPolicy"] = "event"
        /\ \A v : MadeOf("--viewer-policy", v) = v
        /\ "--viewer-policy" \in (Flags \cup Valued) \ DumpOptions
    BY DEF FieldOf, MadeOf, Defaults, Flags, Valued, DumpOptions
  <2>2. Asked.viewerPolicy = LastValue("--viewer-policy", "event")
    BY DEF Asked
  <2>3. config["viewerPolicy"] = IF Given("--viewer-policy") THEN MadeOf("--viewer-policy", ValueOf("--viewer-policy")) ELSE "event"
    BY <1>6, <2>1, Zenon
  <2>4. CASE Given("--viewer-policy")
    BY <1>4, <2>1, <2>2, <2>3, <2>4, Zenon
  <2>5. CASE ~Given("--viewer-policy")
    BY <1>5, <2>1, <2>2, <2>3, <2>5, Zenon
  <2> QED BY <2>4, <2>5
<1>15. config.dump = Asked.dump
  <2> DEFINE G == Given("--enable-debug") \/ Given("--debug-frames")
             U == Uses("--enable-debug") \cup Uses("--debug-frames")
  <2>1. Asked.dump = (U # {})
    BY DEF Asked
  <2>2. config.dump = IF G THEN TRUE ELSE FALSE
    BY Zenon DEF ParsedSoFar, DumpFollows
  <2>3. G <=> U # {}
    BY <1>3
  <2> HIDE DEF G, U
  <2>4. CASE G
    BY <2>1, <2>2, <2>3, <2>4
  <2>5. CASE ~G
    BY <2>1, <2>2, <2>3, <2>5
  <2> QED BY <2>4, <2>5
<1>16. config.maxFrames = Asked.maxFrames
  <2> DEFINE d == IF Given("--enable-debug") THEN 5 ELSE 1
  <2>1. Asked.maxFrames = LastNumber("--debug-frames", d)
    BY <1>3 DEF Asked
  <2>2. config.maxFrames =
          IF Given("--debug-frames") THEN Number[ValueOf("--debug-frames")] ELSE d
    BY Zenon DEF ParsedSoFar, DumpFollows
  <2> HIDE DEF d
  <2>3. CASE Given("--debug-frames")
    BY <1>4, <2>1, <2>2, <2>3, Zenon
  <2>4. CASE ~Given("--debug-frames")
    BY <1>5, <2>1, <2>2, <2>4, Zenon
  <2> QED BY <2>3, <2>4
<1>17. config = [f \in Fields |-> config[f]]
  BY DEF ParsedSoFar, ConfigShape
<1>18. Asked = [f \in Fields |-> Asked[f]]
  BY AskedShape
<1>19. \A f \in Fields : config[f] = Asked[f]
  BY <1>7, <1>8, <1>9, <1>10, <1>11, <1>12, <1>13, <1>14, <1>15, <1>16 DEF Fields, Defaults
<1> QED BY <1>17, <1>18, <1>19, Zenon

\* The parser's state is all that its invariant is about.
LEMMA NoOptionRead ==
  ASSUME ParsedSoFar, UNCHANGED parseVars
  PROVE  ParsedSoFar'
<1>1. UNCHANGED <<argv, argument, config, viewerDumpCountExplicit>>
  BY DEF parseVars
<1>2. IsOption' = IsOption
  BY <1>1 DEF IsOption
<1>3. ASSUME NEW o
      PROVE  (Given(o)' <=> Given(o)) /\ ValueOf(o)' = ValueOf(o)
  <2>1. UsesBefore(o)' = UsesBefore(o)
    BY <1>1, <1>2, Zenon DEF UsesBefore
  <2> QED BY <1>1, <2>1, Zenon DEF Given, ValueOf
<1>4. OptionsDealtWith'
  BY <1>1, <1>2, <1>3, Zenon DEF ParsedSoFar, OptionsDealtWith
<1>5. FieldsFollow'
  BY <1>1, <1>3, Zenon DEF ParsedSoFar, FieldsFollow
<1>6. DumpFollows'
  BY <1>1, <1>3, Zenon DEF ParsedSoFar, DumpFollows
<1>7. ConfigShape'
  BY <1>1 DEF ParsedSoFar, ConfigShape
<1> QED BY <1>4, <1>5, <1>6, <1>7 DEF ParsedSoFar

\* The first state of the parser.
LEMMA ParsingInit == Init => ParseInv
<1> SUFFICES ASSUME Init PROVE ParsedSoFar
  BY DEF ParseInv
<1>1. argv \in Seq(STRING)
  BY CommandLinesAssumption DEF Init, ParseInit, CommandLinesAssumption
<1>2. Len(argv) \in Nat /\ DOMAIN argv = 1..Len(argv)
  BY <1>1
<1> QED BY <1>2, NothingParsed DEF Init

\* Only ParseOption moves the parser, and once main starts, parsing is over.
LEMMA ParsingKept == TypeOK /\ ParseInv /\ [Next]_vars => ParseInv'
<1> SUFFICES ASSUME TypeOK, ParseInv, [Next]_vars, main'.phase = "parse"
             PROVE  ParsedSoFar'
  BY DEF ParseInv
<1>1. CASE ParseOption
  BY <1>1, OptionParsed DEF ParseOption, mainVars, ParseInv
<1>2. ~Refuse /\ ~Configured
  BY DEF Refuse, Configured
<1>3. CASE UNCHANGED parseVars /\ main.phase = "parse"
  BY <1>3, NoOptionRead DEF ParseInv
<1>4. ~StartStep
  BY DEF TypeOK, StartStep, OpenCamera, Configure, StartCameras, SeedOnce, Serve, StartThread,
     Starting, NextStep, CleanUp
<1>5. StopStep => UNCHANGED parseVars /\ main.phase = "parse"
  BY DEF TypeOK, StopStep, RequestStop, Join, StopCamera, CloseCamera, Return,
     Stopping, NextStep, configVars
<1>6. IngestStep => UNCHANGED <<parseVars, main>>
  BY DEF IngestStep, LoopCheck, EnterCapture, CaptureEnds, Calibrate, Build, BuildFails,
     Submit, mainVars, configVars
<1>7. (\E t \in Threads : EndThread(t)) \/ Tick \/ UNCHANGED vars => UNCHANGED <<parseVars, main>>
  BY DEF EndThread, Tick, vars, mainVars, configVars
<1> QED BY <1>1, <1>2, <1>3, <1>4, <1>5, <1>6, <1>7 DEF Next, ParseStep

\* Whatever the order and the number of the options, the configuration parsed is the
\* one they ask for, the last of several winning, and an explicit number of frames
\* over that of --enable-debug on either side of it (CommandLineParser.cpp:77-214).
THEOREM ConfigFollows == Spec => []ConfigFollowsOptions
<1>1. ParseInv => ConfigFollowsOptions
  BY AllParsed DEF ParseInv, ConfigFollowsOptions
<1>2. IInv => TypeOK
  BY DEF IInv
<1> QED BY <1>1, <1>2, ParsingInit, ParsingKept, Invariance, PTL DEF Spec

-----------------------------------------------------------------------------
(* The debug session that main() waits for: theorems about ViewerDump, for *)
(* every set of pictures, every capacity and every number of frames.       *)

\* The types of what the session keeps.
DumpTypes ==
  /\ published \in Seq(Outputs)
  /\ batch \in Seq(Nat) /\ dumped \in Seq(Nat)
  /\ lastProcessed \in Nat /\ skipped \in Nat

\* The viewer counts each output soon, and the log reports what was counted.
OutputsCounted ==
  /\ counted \in [outputs : Nat, cached : Nat] /\ counted.cached <= counted.outputs
  /\ lastReported \in [outputs : Nat, cached : Nat] /\ logged = lastReported
  /\ Len(published) <= counted.outputs + 1
  /\ lastReported.outputs <= counted.outputs /\ lastReported.cached <= counted.cached

\* The summary is taken when all is done.
Summarised ==
  summary # NoSummary =>
    /\ Ended
    /\ summary \in [outputs : Nat, cached : Nat]
    /\ SummaryCoversDump

\* Each snapshot is processed in order and to its end, and goes on where the one
\* before ended, but for outputs that the store has dropped.
SnapshotsInOrder ==
  /\ seen \subseteq 1..Len(published) /\ ToSet(batch) \subseteq seen /\ Sorted(batch)
  /\ at \notin {"process", "failed"} => batch = <<>>
  /\ \A i \in seen : i <= lastProcessed \/ i \in ToSet(batch)
  /\ lastProcessed \in seen \cup {0}
  /\ \A j \in seen : \A k \in 1..j : k > Len(published) - OutputCapacity => k \in seen

\* What is written are changes, the first ones; until there are enough, the last one
\* shows what the last output handled does.
ShowsLast ==
  \/ Handled = {} /\ dumped = <<>>
  \/ /\ dumped # <<>>
     /\ \E m \in Handled :
          /\ \A h \in Handled : h <= m
          /\ published[m].picture = published[Last(dumped)].picture

\* What is written never exceeds what is processed, and shows the changes.
DumpInStep ==
  /\ Len(dumped) + skipped <= lastProcessed
  /\ enabled =>
       /\ Sorted(dumped) /\ ToSet(dumped) \subseteq Changes /\ Len(dumped) <= MaxFrames
       /\ \A i \in Changes \ ToSet(dumped) :
            \/ Len(dumped) = MaxFrames /\ i > Last(dumped)
            \/ at = "failed" /\ i = lastProcessed
       /\ at # "failed" /\ Len(dumped) < MaxFrames => ShowsLast

\* The inductive invariant of the session.
DumpInv ==
  /\ DumpTypes /\ OutputsCounted /\ Summarised
  /\ SnapshotsInOrder /\ DumpInStep

\* At first nothing is published, processed or written.
LEMMA DumpStarts == DumpInit => DumpInv
<1> SUFFICES ASSUME DumpInit PROVE DumpInv
  OBVIOUS
<1>1. DumpTypes /\ Sorted(dumped) /\ Sorted(batch) /\ ToSet(dumped) = {} /\ ToSet(batch) = {}
      /\ Len(dumped) = 0 /\ Len(published) = 0
  BY DEF DumpInit, DumpTypes, Sorted, ToSet
<1>2. OutputsCounted
  BY <1>1 DEF DumpInit, OutputsCounted, NoCounters
<1>3. Summarised
  BY DEF DumpInit, Summarised
<1>4. SnapshotsInOrder
  BY <1>1 DEF DumpInit, SnapshotsInOrder
<1>5. Handled = {} /\ Changes = {}
  BY DEF DumpInit, Handled, Changes
<1>6. DumpInStep
  BY <1>1, <1>5, DumpAssumption DEF DumpInit, DumpInStep, ShowsLast
<1> QED BY <1>1, <1>2, <1>3, <1>4, <1>6 DEF DumpInv

\* The outputs that a session has handled stay as they were.
LEMMA ChangesStay ==
  ASSUME seen \subseteq 1..Len(published), UNCHANGED <<seen, lastProcessed>>,
         \A i \in 1..Len(published) : published'[i] = published[i]
  PROVE  Handled' = Handled /\ Changes' = Changes
<1>1. Handled' = Handled
  BY DEF Handled, None
<1>2. \A i \in Handled : published'[i] = published[i]
  BY DEF Handled
<1> QED BY <1>1, <1>2 DEF Changes

\* With the same outputs handled and written, the dump stays in step.
LEMMA SameDump ==
  ASSUME DumpInStep, SnapshotsInOrder, DumpTypes,
         UNCHANGED <<enabled, seen, lastProcessed, dumped, skipped>>,
         \A i \in 1..Len(published) : published'[i] = published[i],
         (at = "failed") <=> (at' = "failed")
  PROVE  DumpInStep'
<1>1. Handled' = Handled /\ Changes' = Changes
  BY ChangesStay DEF SnapshotsInOrder
<1>2. Last(dumped)' = Last(dumped)
  BY DEF Last
<1>3. ToSet(dumped) \subseteq 1..Len(published) \/ ~enabled
  BY DEF DumpInStep, SnapshotsInOrder, Changes, Handled
<1>4. dumped # <<>> => Last(dumped) \in ToSet(dumped)
  BY DEF DumpTypes, Last, ToSet
<1>5. enabled /\ ShowsLast => ShowsLast'
  <2>1. \A h \in Handled : h \in 1..Len(published)
    BY DEF SnapshotsInOrder, Handled
  <2> QED
  BY <1>1, <1>2, <1>3, <1>4, <2>1 DEF ShowsLast
<1>6. Sorted(dumped)' <=> Sorted(dumped)
  BY DEF Sorted
<1>7. ToSet(dumped)' = ToSet(dumped)
  BY DEF ToSet
<1> QED BY <1>1, <1>2, <1>5, <1>6, <1>7 DEF DumpInStep

\* A new output is newer than all that were handled.
LEMMA PublishKeeps ==
  ASSUME DumpInv, Publish
  PROVE  DumpInv'
<1>1. PICK output \in Outputs : published' = Append(published, output)
  BY DEF Publish
<1>2. /\ published \in Seq(Outputs) /\ published' \in Seq(Outputs)
      /\ Len(published) \in Nat /\ Len(published') = Len(published) + 1
      /\ \A i \in 1..Len(published) : published'[i] = published[i]
  BY <1>1, AppendElement DEF DumpInv, DumpTypes
<1>3. UNCHANGED <<counted, enabled, at, batch, seen, lastProcessed, dumped, skipped,
                  lastReported, logged, summary>>
  BY DEF Publish, dumpConfigVars, dumpVars, logVars
<1>4. DumpTypes'
  BY <1>2, <1>3 DEF DumpInv, DumpTypes
<1>5. OutputsCounted'
  BY <1>2, <1>3 DEF DumpInv, OutputsCounted, Publish
<1>6. Summarised'
  BY <1>3 DEF DumpInv, Summarised, Ended, SummaryCoversDump
<1>7. SnapshotsInOrder'
  <2>1. \A k \in Nat : k > Len(published') - OutputCapacity => k > Len(published) - OutputCapacity
    BY <1>2, DumpAssumption
  <2> QED BY <1>2, <1>3, <2>1 DEF DumpInv, SnapshotsInOrder, Sorted, ToSet
<1>8. DumpInStep'
  BY <1>2, <1>3, SameDump DEF DumpInv
<1> QED BY <1>4, <1>5, <1>6, <1>7, <1>8 DEF DumpInv

\* Steps that leave the outputs and what is handled of them alone.
LEMMA OutputsUntouched ==
  ASSUME DumpInv, 
         UNCHANGED <<published, enabled, batch, seen, lastProcessed, dumped, skipped>>,
         at' \notin {"process", "failed"} => batch = <<>>,
         (at = "failed") <=> (at' = "failed")
  PROVE  DumpTypes' /\ SnapshotsInOrder' /\ DumpInStep'
<1>1. DumpTypes'
  BY DEF DumpInv, DumpTypes
<1>2. SnapshotsInOrder'
  BY DEF DumpInv, SnapshotsInOrder, Sorted, ToSet
<1>3. DumpInStep'
  BY SameDump DEF DumpInv
<1> QED BY <1>1, <1>2, <1>3

\* Counting an output brings the counters level with what is published.
LEMMA RecordKeeps ==
  ASSUME DumpInv, RecordOutput
  PROVE  DumpInv'
<1>1. UNCHANGED <<published, enabled, at, batch, seen, lastProcessed, dumped, skipped,
                  lastReported, logged, summary>>
  BY DEF RecordOutput, dumpConfigVars, dumpVars, logVars
<1>2. DumpTypes' /\ SnapshotsInOrder' /\ DumpInStep'
  BY <1>1, OutputsUntouched DEF DumpInv, SnapshotsInOrder
<1>3. OutputsCounted'
  BY <1>1 DEF DumpInv, OutputsCounted, RecordOutput, Plus
<1>4. Summarised'
  BY <1>1 DEF DumpInv, Summarised, Ended, SummaryCoversDump
<1> QED BY <1>2, <1>3, <1>4 DEF DumpInv

\* A snapshot begins at the oldest output still in the store, and nothing older than
\* the output processed last is new to it.
LEMMA SnapshotKeeps ==
  ASSUME DumpInv, ProcessNewOutputs
  PROVE  DumpInv'
<1> DEFINE n == Len(published)
           g == Gone
           r == Recent
<1>1. /\ at = "poll" /\ at' = "process" /\ batch' = r
      /\ seen' = seen \cup ToSet(r)
      /\ UNCHANGED <<published, counted, enabled, lastProcessed, dumped, skipped,
                     lastReported, logged, summary>>
  BY DEF ProcessNewOutputs, viewerVars, dumpConfigVars, logVars
<1>2. n \in Nat /\ OutputCapacity \in Nat \ {0}
  BY DumpAssumption DEF DumpInv, DumpTypes
<1>3. g \in Nat /\ g <= n /\ g >= n - OutputCapacity /\ (g = 0 \/ g = n - OutputCapacity)
  <2> DEFINE T == {n - OutputCapacity, 0}
  <2>1. \E x \in T : \A y \in T : x >= y
    BY <1>2
  <2>2. Max(T) \in T /\ \A y \in T : Max(T) >= y
    BY <2>1, Zenon DEF Max
  <2>3. g = Max(T)
    BY DEF Gone
  <2> HIDE DEF g
  <2> QED BY <1>2, <2>2, <2>3
<1>4. r = [k \in 1..(n - g) |-> g + k]
  BY DEF Recent
<1> HIDE DEF g, r
<1>5. r \in Seq(Nat) /\ Len(r) = n - g /\ DOMAIN r = 1..(n - g) /\ \A k \in 1..(n - g) : r[k] = g + k
  BY <1>2, <1>3, <1>4
<1>6. Sorted(r)
  <2> HIDE DEF n
  <2>1. \A k, l \in 1..(n - g) : k < l => r[k] < r[l]
    BY <1>2, <1>3, <1>5
  <2> QED BY <1>5, <2>1 DEF Sorted
<1>7. ToSet(r) = {i \in 1..n : i > g}
  <2>1. \A i \in 1..n : i > g => r[i - g] = i /\ i - g \in DOMAIN r
    BY <1>2, <1>3, <1>5
  <2>2. \A k \in DOMAIN r : r[k] \in 1..n /\ r[k] > g
    BY <1>2, <1>3, <1>5
  <2> QED BY <2>1, <2>2 DEF ToSet
<1>8. DumpTypes'
  BY <1>1, <1>5 DEF DumpInv, DumpTypes
<1>9. OutputsCounted' /\ Summarised'
  BY <1>1 DEF DumpInv, OutputsCounted, Summarised, Ended
<1>10. \A i \in seen : i <= lastProcessed
  BY <1>1 DEF DumpInv, SnapshotsInOrder, ToSet
<1>11. SnapshotsInOrder'
  <2>1. seen' \subseteq 1..n /\ ToSet(r) \subseteq seen'
    BY <1>1, <1>7 DEF DumpInv, SnapshotsInOrder
  <2>2. \A i \in seen' : i <= lastProcessed \/ i \in ToSet(r)
    BY <1>1, <1>7, <1>10
  <2>3. \A k \in 1..n : k > n - OutputCapacity => k \in seen'
    BY <1>1, <1>2, <1>3, <1>7
  <2>4. \A j \in seen' : \A k \in 1..j : k \in 1..n
    BY <1>2, <2>1
  <2>5. lastProcessed \in seen' \cup {0}
    BY <1>1 DEF DumpInv, SnapshotsInOrder
  <2> QED BY <1>1, <1>6, <2>1, <2>2, <2>3, <2>4, <2>5 DEF SnapshotsInOrder
<1>12. \A i \in seen' : i <= lastProcessed => i \in seen
  <2> SUFFICES ASSUME NEW i \in ToSet(r), i <= lastProcessed PROVE i \in seen
    BY <1>1, <1>7
  <2>1. i \in 1..lastProcessed /\ i > n - OutputCapacity /\ lastProcessed # 0
    BY <1>2, <1>3, <1>7 DEF DumpInv, DumpTypes
  <2> QED BY <2>1 DEF DumpInv, SnapshotsInOrder
<1>13. Handled' = Handled
  BY <1>1, <1>12 DEF Handled, None
<1>14. Changes' = Changes
  BY <1>1, <1>13 DEF Changes
<1>15. DumpInStep'
  <2>1. Last(dumped)' = Last(dumped) /\ ToSet(dumped)' = ToSet(dumped)
        /\ (Sorted(dumped)' <=> Sorted(dumped))
    BY <1>1 DEF Last, ToSet, Sorted
  <2>2. ShowsLast' <=> ShowsLast
    BY <1>1, <1>13, <2>1 DEF ShowsLast
  <2> QED BY <1>1, <1>14, <2>1, <2>2 DEF DumpInv, DumpInStep
<1> QED BY <1>8, <1>9, <1>11, <1>15 DEF DumpInv

\* An output comes after all that were handled before it, or is skipped as an old one.
LEMMA HeadProcessed ==
  ASSUME DumpInv, NEW i, IsHead(i), Processed(i), at' \in {"process", "failed"}
  PROVE  /\ i \in seen /\ i \in Nat /\ i > 0
         /\ lastProcessed' = IF i > lastProcessed THEN i ELSE lastProcessed
         /\ lastProcessed' \in Nat /\ batch' \in Seq(Nat)
         /\ UNCHANGED <<published, counted, enabled, seen, lastReported, logged, summary>>
         /\ SnapshotsInOrder'
         /\ Handled' = IF i > lastProcessed /\ published[i].picture # None
                            THEN Handled \cup {i} ELSE Handled
         /\ i > lastProcessed => \A h \in Handled : h < i
<1>1. /\ batch # <<>> /\ i = Head(batch) /\ batch' = Tail(batch)
      /\ lastProcessed' = IF i > lastProcessed THEN i ELSE lastProcessed
      /\ UNCHANGED <<published, counted, enabled, seen, lastReported, logged, summary>>
  BY DEF IsHead, Processed, New, viewerVars, dumpConfigVars, logVars
<1>2. batch \in Seq(Nat) /\ Sorted(batch) /\ lastProcessed \in Nat
  BY DEF DumpInv, DumpTypes, SnapshotsInOrder
<1>3. Nat \in SUBSET Int
  OBVIOUS
<1>4. /\ i \in Nat /\ batch' \in Seq(Nat) /\ Sorted(batch')
      /\ ToSet(batch) = {i} \cup ToSet(batch')
      /\ \A w \in ToSet(batch') : i < w
  BY <1>1, <1>2, <1>3, TakeHead
<1>5. i \in seen /\ seen \subseteq 1..Len(published)
  BY <1>4 DEF DumpInv, SnapshotsInOrder
<1>6. lastProcessed' \in Nat /\ lastProcessed' >= i /\ lastProcessed' >= lastProcessed
  BY <1>1, <1>2, <1>4
<1>7. \A k \in seen : k <= lastProcessed' => k <= lastProcessed \/ k = i
  <2> SUFFICES ASSUME NEW k \in seen, k <= lastProcessed', ~(k <= lastProcessed)
               PROVE  k = i
    OBVIOUS
  <2>1. k \in Nat /\ lastProcessed' = i
    BY <1>1, <1>2, <1>4, <1>5
  <2>2. k \in ToSet(batch)
    BY DEF DumpInv, SnapshotsInOrder
  <2> QED BY <1>4, <2>1, <2>2
<1>8. SnapshotsInOrder'
  <2>1. \A k \in seen : k <= lastProcessed' \/ k \in ToSet(batch')
    <3> SUFFICES ASSUME NEW k \in seen PROVE k <= lastProcessed' \/ k \in ToSet(batch')
      OBVIOUS
    <3>1. k \in Nat /\ (k <= lastProcessed \/ k \in {i} \cup ToSet(batch'))
      BY <1>4, <1>5 DEF DumpInv, SnapshotsInOrder
    <3> QED BY <1>2, <1>4, <1>6, <3>1
  <2>2. lastProcessed' \in seen \cup {0}
    BY <1>1, <1>5 DEF DumpInv, SnapshotsInOrder
  <2>3. ToSet(batch') \subseteq seen
    BY <1>4 DEF DumpInv, SnapshotsInOrder
  <2> QED BY <1>1, <1>4, <2>1, <2>2, <2>3 DEF DumpInv, SnapshotsInOrder
<1>9. Handled' = IF i > lastProcessed /\ published[i].picture # None
                      THEN Handled \cup {i} ELSE Handled
  <2>1. Handled' = {k \in seen : k <= lastProcessed' /\ published[k].picture # None}
    BY <1>1 DEF Handled, None
  <2>2. Handled = {k \in seen : k <= lastProcessed /\ published[k].picture # None}
    BY DEF Handled
  <2>3. \A k \in seen : k \in Nat
    BY <1>5
  <2>4. CASE i > lastProcessed
    <3>1. \A k \in seen : k <= lastProcessed' <=> k <= lastProcessed \/ k = i
      BY <1>2, <1>4, <1>6, <1>7, <2>3
    <3> QED BY <1>5, <2>1, <2>2, <2>4, <3>1
  <2>5. CASE ~(i > lastProcessed)
    <3>1. lastProcessed' = lastProcessed
      BY <1>1, <2>5
    <3> QED BY <2>1, <2>2, <2>5, <3>1
  <2> QED BY <2>4, <2>5
<1>10. i > lastProcessed => \A h \in Handled : h < i
  BY <1>2, <1>4, <1>5 DEF Handled
<1> QED BY <1>1, <1>4, <1>5, <1>6, <1>8, <1>9, <1>10

\* An output handled is a change unless it shows what the one before does.
LEMMA ChangesGrow ==
  ASSUME NEW i \in Nat, UNCHANGED published, Handled \subseteq Nat,
         Handled' = Handled \cup {i}, \A h \in Handled : h < i
  PROVE  /\ Changes \subseteq Changes' /\ Changes' \subseteq Changes \cup {i}
         /\ Handled = {} => i \in Changes'
         /\ \A m \in Handled : (\A h \in Handled : h <= m) =>
              (i \in Changes' <=> published[m].picture # published[i].picture)
<1> DEFINE H == Handled
           differs(a, S) == \A j \in S : j < a /\ (\A k \in S : ~(j < k /\ k < a)) =>
                              published[j].picture # published[a].picture
<1>1. Changes = {a \in H : differs(a, H)}
  BY DEF Changes
<1>2. Changes' = {a \in H \cup {i} : differs(a, H \cup {i})}
  BY DEF Changes
<1> HIDE DEF H
<1>3. H \subseteq Nat /\ \A h \in H : h < i
  BY DEF H
<1>4. \A a \in H : differs(a, H \cup {i}) <=> differs(a, H)
  BY <1>3
<1>5. i \notin H
  BY <1>3
<1>6. differs(i, H \cup {i}) <=>
        \A m \in H : (\A h \in H : h <= m) => published[m].picture # published[i].picture
  BY <1>3
<1>7. \A m, n \in H : (\A h \in H : h <= m) /\ (\A h \in H : h <= n) => m = n
  BY <1>3
<1> HIDE DEF differs
<1>8. i \in Changes' <=> differs(i, H \cup {i})
  BY <1>2
<1>9. /\ Changes \subseteq Changes' /\ Changes' \subseteq Changes \cup {i}
  BY <1>1, <1>2, <1>4, <1>5
<1>10. H = {} => i \in Changes'
  BY <1>6, <1>8
<1>11. ASSUME NEW m \in H, \A h \in H : h <= m
       PROVE  i \in Changes' <=> published[m].picture # published[i].picture
  BY <1>6, <1>7, <1>8, <1>11
<1> QED BY <1>9, <1>10, <1>11 DEF H

\* Outputs are named by numbers.
LEMMA HandledNumbers == DumpInv => Handled \subseteq Nat
<1> SUFFICES ASSUME DumpInv, NEW h \in Handled PROVE h \in Nat
  OBVIOUS
<1>1. h \in 1..Len(published) /\ Len(published) \in Nat
  BY DEF Handled, DumpInv, SnapshotsInOrder, DumpTypes
<1> QED BY <1>1

\* An output handled keeps what is not about what is written.
LEMMA HandlingKeeps ==
  ASSUME DumpInv, NEW i, IsHead(i), Processed(i), at' \in {"process", "failed"},
         dumped' \in Seq(Nat), skipped' \in Nat, DumpInStep'
  PROVE  DumpInv'
<1>1. /\ lastProcessed' \in Nat /\ batch' \in Seq(Nat) /\ SnapshotsInOrder'
      /\ UNCHANGED <<published, counted, enabled, seen, lastReported, logged, summary>>
  BY HeadProcessed
<1>2. DumpTypes'
  BY <1>1 DEF DumpInv, DumpTypes
<1>3. OutputsCounted'
  BY <1>1 DEF DumpInv, OutputsCounted
<1>4. summary = NoSummary
  BY DEF DumpInv, Summarised, IsHead, Ended
<1>5. Summarised'
  BY <1>1, <1>4 DEF Summarised, NoSummary
<1> QED BY <1>1, <1>2, <1>3, <1>5 DEF DumpInv

\* What is written and skipped is no more than what is processed.
LEMMA SkipKeeps ==
  ASSUME DumpInv, NEW i, SkipOutput(i)
  PROVE  DumpInv'
<1>1. /\ IsHead(i) /\ Processed(i) /\ at = "process" /\ at' = "process"
      /\ UNCHANGED <<dumped, skipped>>
      /\ \/ ~(i > lastProcessed)
         \/ published[i].picture = None \/ (~enabled /\ published[i].cached)
         \/ enabled /\ Len(dumped) >= MaxFrames
  BY DEF SkipOutput, IsHead, New, Relevant
<1>2. /\ i \in Nat /\ lastProcessed' = IF i > lastProcessed THEN i ELSE lastProcessed
      /\ UNCHANGED <<published, enabled>>
      /\ Handled' = IF i > lastProcessed /\ published[i].picture # None
                         THEN Handled \cup {i} ELSE Handled
      /\ i > lastProcessed => \A h \in Handled : h < i
  BY <1>1, HeadProcessed
<1>3. /\ dumped \in Seq(Nat) /\ Len(dumped) \in Nat /\ skipped \in Nat /\ lastProcessed \in Nat
      /\ Len(dumped) + skipped <= lastProcessed
  BY DEF DumpInv, DumpTypes, DumpInStep
<1>4. Len(dumped') + skipped' <= lastProcessed'
  BY <1>1, <1>2, <1>3
<1>5. Last(dumped)' = Last(dumped) /\ ToSet(dumped)' = ToSet(dumped)
      /\ (Sorted(dumped)' <=> Sorted(dumped))
  BY <1>1 DEF Last, ToSet, Sorted
<1>6. CASE Handled' = Handled
  <2>1. Changes' = Changes
    BY <1>2, <1>6 DEF Changes
  <2>2. ShowsLast' <=> ShowsLast
    BY <1>1, <1>2, <1>5, <1>6 DEF ShowsLast
  <2>3. DumpInStep'
    BY <1>1, <1>2, <1>4, <1>5, <2>1, <2>2 DEF DumpInv, DumpInStep
  <2> QED BY <1>1, <1>3, <2>3, HandlingKeeps
<1>7. CASE Handled' # Handled
  <2>1. Handled' = Handled \cup {i} /\ i > lastProcessed
        /\ \A h \in Handled : h < i
    BY <1>2, <1>7
  <2>2. Handled \subseteq Nat
    BY HandledNumbers
  <2>3. Changes \subseteq Changes' /\ Changes' \subseteq Changes \cup {i}
    BY <1>2, <2>1, <2>2, ChangesGrow
  <2>4. enabled => Len(dumped) >= MaxFrames
    BY <1>1, <1>2, <1>7
  <2>5. ASSUME enabled
        PROVE  /\ Len(dumped) = MaxFrames /\ i > Last(dumped)
               /\ ToSet(dumped) \subseteq Changes
               /\ \A x \in Changes \ ToSet(dumped) : x > Last(dumped)
    <3>1. /\ Len(dumped) <= MaxFrames /\ ToSet(dumped) \subseteq Changes
          /\ \A x \in Changes \ ToSet(dumped) : x > Last(dumped)
      BY <1>1, <2>5 DEF DumpInv, DumpInStep
    <3>2. Len(dumped) = MaxFrames /\ MaxFrames > 0
      BY <1>3, <2>4, <2>5, <3>1, DumpAssumption
    <3>3. Last(dumped) \in ToSet(dumped)
      BY <1>3, <3>2 DEF Last, ToSet
    <3>4. Last(dumped) \in Handled
      BY <3>1, <3>3 DEF Changes
    <3> QED BY <2>1, <2>2, <1>2, <3>1, <3>2, <3>4
  <2>6. DumpInStep'
    BY <1>1, <1>2, <1>3, <1>4, <1>5, <2>3, <2>5 DEF DumpInv, DumpInStep
  <2> QED BY <1>1, <1>3, <2>6, HandlingKeeps
<1> QED BY <1>6, <1>7

\* A session that waits for a fresh output writes nothing.
LEMMA ObserveKeeps ==
  ASSUME DumpInv, NEW i, Observe(i)
  PROVE  DumpInv'
<1>1. /\ IsHead(i) /\ Processed(i) /\ at' = "process" /\ ~enabled
      /\ UNCHANGED <<dumped, skipped>>
  BY DEF Observe, IsHead
<1>2. /\ i \in Nat /\ lastProcessed' = IF i > lastProcessed THEN i ELSE lastProcessed
      /\ UNCHANGED enabled
  BY <1>1, HeadProcessed
<1>3. /\ dumped \in Seq(Nat) /\ Len(dumped) \in Nat /\ skipped \in Nat /\ lastProcessed \in Nat
      /\ Len(dumped) + skipped <= lastProcessed
  BY DEF DumpInv, DumpTypes, DumpInStep
<1>4. DumpInStep'
  BY <1>1, <1>2, <1>3 DEF DumpInStep
<1> QED BY <1>1, <1>3, <1>4, HandlingKeeps

\* What holds when an output is to be dumped.
LEMMA ToBeDumped ==
  ASSUME DumpInv, NEW i, Dumps(i), at' \in {"process", "failed"}
  PROVE  /\ IsHead(i) /\ Processed(i) /\ at = "process" /\ enabled
         /\ dumped \in Seq(Nat) /\ Len(dumped) \in Nat /\ skipped \in Nat
         /\ Len(dumped) + skipped + 1 <= lastProcessed' /\ lastProcessed' = i
         /\ i \in Nat /\ UNCHANGED <<published, enabled>>
         /\ Handled \subseteq Nat /\ Handled' = Handled \cup {i}
         /\ \A h \in Handled : h < i
         /\ Sorted(dumped) /\ Len(dumped) < MaxFrames
         /\ Changes = ToSet(dumped) /\ ShowsLast
<1>1. /\ IsHead(i) /\ Processed(i) /\ at = "process" /\ enabled
      /\ i > lastProcessed /\ published[i].picture # None
      /\ Len(dumped) < MaxFrames
  BY DEF Dumps, IsHead, New, Relevant
<1>2. /\ dumped \in Seq(Nat) /\ Len(dumped) \in Nat /\ skipped \in Nat /\ lastProcessed \in Nat
      /\ Len(dumped) + skipped <= lastProcessed
      /\ Sorted(dumped) /\ ToSet(dumped) \subseteq Changes
      /\ \A x \in Changes \ ToSet(dumped) : Len(dumped) = MaxFrames
      /\ ShowsLast
  BY <1>1 DEF DumpInv, DumpTypes, DumpInStep
<1>3. Changes = ToSet(dumped)
  <2>1. Len(dumped) # MaxFrames
    BY <1>1, <1>2, DumpAssumption
  <2> QED BY <1>2, <2>1
<1>4. batch # <<>> /\ batch \in Seq(Nat) /\ i = Head(batch)
  BY <1>1 DEF IsHead, DumpInv, DumpTypes
<1>5. i \in Nat
  BY <1>4
<1>6. lastProcessed' = i /\ UNCHANGED <<published, enabled>>
  BY <1>1 DEF Processed, New, viewerVars, dumpConfigVars
<1>7. /\ Handled' = Handled \cup {i}
      /\ \A h \in Handled : h < i
  BY <1>1, HeadProcessed
<1>8. Handled \subseteq Nat
  BY HandledNumbers
<1> QED BY <1>1, <1>2, <1>3, <1>5, <1>6, <1>7, <1>8

\* A duplicate of the last picture written is no change.
LEMMA DuplicateKeeps ==
  ASSUME DumpInv, NEW i, SkipDuplicate(i)
  PROVE  DumpInv'
<1>1. /\ Dumps(i) /\ at' = "process" /\ dumped' = dumped /\ skipped' = skipped + 1
      /\ dumped # <<>> /\ published[Last(dumped)].picture = published[i].picture
  BY DEF SkipDuplicate, SameAsLast, Dumps, IsHead, Last
<1>2. /\ IsHead(i) /\ Processed(i) /\ at = "process" /\ enabled
      /\ dumped \in Seq(Nat) /\ Len(dumped) \in Nat /\ skipped \in Nat
      /\ Len(dumped) + skipped + 1 <= lastProcessed' /\ lastProcessed' = i
      /\ i \in Nat /\ UNCHANGED <<published, enabled>>
      /\ Handled \subseteq Nat /\ Handled' = Handled \cup {i}
      /\ \A h \in Handled : h < i
      /\ Sorted(dumped) /\ Len(dumped) < MaxFrames
      /\ Changes = ToSet(dumped) /\ ShowsLast
  BY <1>1, ToBeDumped
<1>3. PICK m \in Handled :
        /\ \A h \in Handled : h <= m
        /\ published[m].picture = published[Last(dumped)].picture
  BY <1>1, <1>2 DEF ShowsLast
<1>4. Changes' = Changes
  <2>1. /\ Changes \subseteq Changes' /\ Changes' \subseteq Changes \cup {i}
        /\ \A x \in Handled : (\A h \in Handled : h <= x) =>
             (i \in Changes' <=> published[x].picture # published[i].picture)
    BY <1>2, ChangesGrow
  <2>2. i \notin Changes'
    BY <1>1, <1>3, <2>1
  <2> QED BY <2>1, <2>2
<1>5. Last(dumped)' = Last(dumped) /\ ToSet(dumped)' = ToSet(dumped)
      /\ (Sorted(dumped)' <=> Sorted(dumped))
  BY <1>1 DEF Last, ToSet, Sorted
<1>6. ShowsLast'
  <2>1. i \in Handled' /\ \A h \in Handled' : h <= i
    BY <1>2
  <2> QED BY <1>1, <1>2, <1>5, <2>1 DEF ShowsLast
<1>7. DumpInStep'
  <2>1. Len(dumped') + skipped' <= lastProcessed'
    BY <1>1, <1>2
  <2>2. Len(dumped') <= MaxFrames
    BY <1>1, <1>2, DumpAssumption
  <2> QED BY <1>1, <1>2, <1>4, <1>5, <1>6, <2>1, <2>2 DEF DumpInStep
<1>8. dumped' \in Seq(Nat) /\ skipped' \in Nat
  BY <1>1, <1>2
<1> QED BY <1>1, <1>2, <1>7, <1>8, HandlingKeeps

\* A picture other than the last one written is a change, and the newest.
LEMMA WriteKeeps ==
  ASSUME DumpInv, NEW i, WriteOutput(i)
  PROVE  DumpInv'
<1>1. /\ Dumps(i) /\ at' = "process" /\ dumped' = Append(dumped, i) /\ skipped' = skipped
      /\ dumped # <<>> => published[Last(dumped)].picture # published[i].picture
  BY DEF WriteOutput, SameAsLast, Dumps, IsHead, Last
<1>2. /\ IsHead(i) /\ Processed(i) /\ at = "process" /\ enabled
      /\ dumped \in Seq(Nat) /\ Len(dumped) \in Nat /\ skipped \in Nat
      /\ Len(dumped) + skipped + 1 <= lastProcessed' /\ lastProcessed' = i
      /\ i \in Nat /\ UNCHANGED <<published, enabled>>
      /\ Handled \subseteq Nat /\ Handled' = Handled \cup {i}
      /\ \A h \in Handled : h < i
      /\ Sorted(dumped) /\ Len(dumped) < MaxFrames
      /\ Changes = ToSet(dumped) /\ ShowsLast
  BY <1>1, ToBeDumped
<1>3. /\ dumped' \in Seq(Nat) /\ Len(dumped') = Len(dumped) + 1
      /\ dumped'[Len(dumped) + 1] = i
      /\ ToSet(dumped') = ToSet(dumped) \cup {i}
  BY <1>1, <1>2, AppendElement
<1>4. Sorted(dumped')
  <2>1. \A y \in ToSet(dumped) : y < i
    BY <1>2 DEF Changes
  <2>2. Nat \in SUBSET Int
    OBVIOUS
  <2> QED BY <1>1, <1>2, <2>1, <2>2, AppendNewer
<1>5. Changes' = ToSet(dumped')
  <2>1. i \in Changes'
    <3>1. CASE Handled = {}
      BY <1>2, <3>1, ChangesGrow
    <3>2. CASE dumped # <<>>
      <4>1. PICK m \in Handled :
              /\ \A h \in Handled : h <= m
              /\ published[m].picture = published[Last(dumped)].picture
        BY <1>2, <3>2 DEF ShowsLast
      <4> QED BY <1>1, <1>2, <3>2, <4>1, ChangesGrow
    <3> QED BY <1>2, <3>1, <3>2 DEF ShowsLast
  <2>2. Changes \subseteq Changes' /\ Changes' \subseteq Changes \cup {i}
    BY <1>2, ChangesGrow
  <2> QED BY <1>2, <1>3, <2>1, <2>2
<1>6. ShowsLast'
  <2>1. i \in Handled' /\ \A h \in Handled' : h <= i
    BY <1>2
  <2>2. dumped' # <<>> /\ Last(dumped') = i
    BY <1>2, <1>3 DEF Last
  <2> QED BY <1>2, <2>1, <2>2 DEF ShowsLast
<1>7. DumpInStep'
  <2>1. Len(dumped') + skipped' <= lastProcessed'
    BY <1>1, <1>2, <1>3
  <2>2. Len(dumped') <= MaxFrames
    BY <1>2, <1>3, DumpAssumption
  <2> QED BY <1>4, <1>5, <1>6, <2>1, <2>2 DEF DumpInStep
<1> QED BY <1>1, <1>2, <1>3, <1>7, HandlingKeeps

\* A session that fails lacks at most the output that it failed at.
LEMMA FailureKeeps ==
  ASSUME DumpInv, NEW i, WriteFails(i)
  PROVE  DumpInv'
<1>1. Dumps(i) /\ at' = "failed" /\ UNCHANGED <<dumped, skipped>>
  BY DEF WriteFails
<1>2. /\ IsHead(i) /\ Processed(i) /\ at = "process" /\ enabled
      /\ dumped \in Seq(Nat) /\ Len(dumped) \in Nat /\ skipped \in Nat
      /\ Len(dumped) + skipped + 1 <= lastProcessed' /\ lastProcessed' = i
      /\ i \in Nat /\ UNCHANGED <<published, enabled>>
      /\ Handled \subseteq Nat /\ Handled' = Handled \cup {i}
      /\ \A h \in Handled : h < i
      /\ Sorted(dumped) /\ Len(dumped) < MaxFrames
      /\ Changes = ToSet(dumped)
  BY <1>1, ToBeDumped
<1>3. Changes \subseteq Changes' /\ Changes' \subseteq Changes \cup {i}
  BY <1>2, ChangesGrow
<1>4. ToSet(dumped)' = ToSet(dumped) /\ (Sorted(dumped)' <=> Sorted(dumped))
  BY <1>1 DEF ToSet, Sorted
<1>5. DumpInStep'
  <2>1. Len(dumped') + skipped' <= lastProcessed'
    BY <1>1, <1>2
  <2>2. Len(dumped') <= MaxFrames
    BY <1>1, <1>2, DumpAssumption
  <2> QED BY <1>1, <1>2, <1>3, <1>4, <2>1, <2>2 DEF DumpInStep
<1> QED BY <1>1, <1>2, <1>5, HandlingKeeps

\* A number that is not negative is not clamped.
LEMMA MaxWithZero ==
  ASSUME NEW a \in Nat
  PROVE  Max({a, 0}) = a
<1>1. \E x \in {a, 0} : \A y \in {a, 0} : x >= y
  OBVIOUS
<1>2. Max({a, 0}) \in {a, 0} /\ \A y \in {a, 0} : Max({a, 0}) >= y
  BY <1>1, Zenon DEF Max
<1> QED BY <1>2

\* The increments in the log add up to the counters.
LEMMA SampleKeeps ==
  ASSUME OutputsCounted, UNCHANGED <<published, counted>>, LogSample
  PROVE  OutputsCounted'
<1> DEFINE d == counted.outputs - lastReported.outputs
           e == counted.cached - lastReported.cached
<1>1. d \in Nat /\ e \in Nat
  BY DEF OutputsCounted
<1>2. Max({d, 0}) = d /\ Max({e, 0}) = e
  BY <1>1, MaxWithZero
<1>3. Delta(counted, lastReported) = [outputs |-> d, cached |-> e]
  BY <1>2 DEF Delta
<1>4. logged' = counted
  <2>1. logged' = [outputs |-> logged.outputs + d, cached |-> logged.cached + e]
    BY <1>3 DEF LogSample, Plus
  <2>2. logged.outputs + d = counted.outputs /\ logged.cached + e = counted.cached
    BY DEF OutputsCounted
  <2>3. counted = [outputs |-> counted.outputs, cached |-> counted.cached]
    BY DEF OutputsCounted
  <2> QED BY <2>1, <2>2, <2>3
<1>5. lastReported' = counted
  BY DEF LogSample
<1> QED BY <1>4, <1>5 DEF OutputsCounted

\* The steps of the session that handle no output.
LEMMA LogKeeps ==
  ASSUME DumpInv,
         \/ DeadlinePasses \/ EndOfBatch \/ CheckEnough
         \/ LogSample \/ LogNothing \/ WriteFinalSummary \/ UNCHANGED sessionVars
  PROVE  DumpInv'
<1>1. /\ UNCHANGED <<published, counted, enabled, batch, seen, lastProcessed, dumped, skipped>>
      /\ at = at' \/ (at' \notin {"process", "failed"} /\ batch = <<>> /\ ~Ended)
      /\ UNCHANGED <<lastReported, logged>> \/ LogSample
  BY DEF DeadlinePasses, EndOfBatch, CheckEnough, LogSample,
         LogNothing, WriteFinalSummary, sessionVars, viewerVars, dumpConfigVars,
         dumpVars, logVars, Ended, DumpInv, SnapshotsInOrder
<1>2. DumpTypes' /\ SnapshotsInOrder' /\ DumpInStep'
  BY <1>1, OutputsUntouched DEF DumpInv, SnapshotsInOrder, Ended
<1>3. OutputsCounted'
  <2>1. CASE UNCHANGED <<lastReported, logged>>
    BY <1>1, <2>1 DEF DumpInv, OutputsCounted
  <2>2. CASE LogSample
    BY <1>1, <2>2, SampleKeeps DEF DumpInv
  <2> QED BY <1>1, <2>1, <2>2
<1>4. Summarised'
  <2>1. CASE WriteFinalSummary
    <3>1. Ended /\ summary' = counted
          /\ UNCHANGED <<at, dumped, skipped, lastReported, logged>>
      BY <2>1 DEF WriteFinalSummary, dumpVars
    <3>2. lastProcessed <= Len(published) /\ Len(published) \in Nat
      <4>1. lastProcessed = 0 \/ lastProcessed \in 1..Len(published)
        BY DEF DumpInv, SnapshotsInOrder
      <4> QED BY <4>1 DEF DumpInv, DumpTypes
    <3>3. Len(dumped) + skipped <= counted.outputs + 1
      BY <3>2 DEF DumpInv, DumpTypes, DumpInStep, OutputsCounted
    <3>4. SummaryCoversDump'
      BY <3>1, <3>3 DEF DumpInv, OutputsCounted, SummaryCoversDump
    <3> QED BY <3>1, <3>4 DEF Summarised, Ended, DumpInv, OutputsCounted
  <2>2. CASE summary' = summary /\ summary = NoSummary
    BY <2>2 DEF Summarised, NoSummary
  <2>3. CASE UNCHANGED <<summary, at, dumped, skipped, logged>>
    BY <2>3 DEF DumpInv, Summarised, Ended, SummaryCoversDump, NoSummary
  <2>4. summary # NoSummary => Ended
    BY DEF DumpInv, Summarised
  <2>5. \/ WriteFinalSummary
        \/ UNCHANGED <<summary, at, dumped, skipped, logged>>
        \/ UNCHANGED summary /\ ~Ended
    BY DEF DeadlinePasses, EndOfBatch, CheckEnough, LogSample,
           LogNothing, sessionVars, dumpVars, logVars, Ended
  <2> QED BY <2>1, <2>2, <2>3, <2>4, <2>5
<1> QED BY <1>2, <1>3, <1>4 DEF DumpInv

\* One step of the viewer or of the session keeps the dump in step.
LEMMA DumpStepKeeps ==
  ASSUME DumpInv, [DumpNext]_sessionVars
  PROVE  DumpInv'
<1>1. CASE Publish
  BY <1>1, PublishKeeps
<1>2. CASE RecordOutput
  BY <1>2, RecordKeeps
<1>3. CASE ProcessNewOutputs
  BY <1>3, SnapshotKeeps
<1>4. ASSUME NEW i \in ToSet(batch),
             \/ SkipOutput(i) \/ Observe(i) \/ SkipDuplicate(i)
             \/ WriteOutput(i) \/ WriteFails(i)
      PROVE  DumpInv'
  BY <1>4, SkipKeeps, ObserveKeeps, DuplicateKeeps, WriteKeeps, FailureKeeps
<1>5. CASE \/ DeadlinePasses \/ EndOfBatch \/ CheckEnough
           \/ LogSample \/ LogNothing \/ WriteFinalSummary
           \/ UNCHANGED sessionVars
  BY <1>5, LogKeeps
<1> QED BY <1>1, <1>2, <1>3, <1>4, <1>5 DEF DumpNext, DumperStep

\* The session's invariant holds in every state it reaches.
LEMMA DumpInvariance == DumpSpec => []DumpInv
<1>1. DumpInit => DumpInv
  BY DumpStarts
<1>2. DumpInv /\ [DumpNext]_sessionVars => DumpInv'
  BY DumpStepKeeps
<1> QED BY <1>1, <1>2, PTL DEF DumpSpec

\* However the polls cut the stream of outputs and overlap, what is written are the
\* first MaxFrames changes of picture, in order (ViewerFrameDumper.cpp:101-161).
THEOREM DumpFollowsChanges == DumpSpec => []DumpShowsChanges
<1>1. DumpInv => DumpShowsChanges
  BY DEF DumpInv, DumpInStep, DumpShowsChanges, Sorted
<1> QED BY <1>1, DumpInvariance, PTL

\* The final summary accounts for all that was dumped and for all that was logged
\* (ViewerDebugSession.cpp:117-169, SceneViewerRunner.cpp:83-90).
THEOREM SummaryAccounts == DumpSpec => []SummaryCoversDump
<1>1. DumpInv => SummaryCoversDump
  BY DEF DumpInv, Summarised, SummaryCoversDump
<1> QED BY <1>1, DumpInvariance, PTL
=============================================================================
