----------------------------- MODULE AppLifecycle -----------------------------
(***************************************************************************)
(* main() and the capture thread (src/main.cpp, src/capture): how the      *)
(* program takes its command line, opens the camera and starts its threads *)
(* in order, leaves that order at any step that fails, and cleans up.      *)
(* CameraCapture has no lock of its own: the order is what keeps main and  *)
(* the capture thread apart.  The capture thread builds its frames from    *)
(* the images of FrameLayout.                                              *)
(* The other threads appear as what their own modules show of them: asked  *)
(* to stop, they end.                                                      *)
(***************************************************************************)
EXTENDS FrameLayout, CommandLine

CONSTANTS
  MaxFrameId,  \* bound on the frames captured
  MaxClock     \* bound on the steady clock

ASSUME BoundsAssumption == MaxFrameId \in Nat /\ MaxClock \in Nat

VARIABLES
  main,           \* main(): parsing, starting, stopping or returned; the next step
  settings,       \* what main itself asks of the configuration
  camera,         \* CameraCapture: "closed", "open", or "started"
  threads,        \* the threads that the runners and the server own
  stopRequested,  \* those asked to stop
  ingestor,       \* where the capture thread stands
  frame,          \* its frame, but for the images
  images,         \* the images copied into it
  nextFrameId,    \* m_nextFrameId
  lastTimestamp,  \* m_lastTimestampTicks
  clock,          \* steady_clock
  newest          \* the newest frame the FrameStore has accepted

mainVars == <<main, camera, threads, stopRequested>>
ingestVars == <<ingestor, frame, images, nextFrameId, lastTimestamp, newest>>
configVars == <<parseVars, settings>>
vars == <<mainVars, configVars, ingestVars, clock>>

StartOrder == <<"open", "configure", "cameras", "ingestor", "builder", "viewer",
                "webrtc", "seed", "serve">>

\* Mutant: the camera is stopped and closed before the thread that reads it ends.
CameraFirst == <<"webrtc", "viewer", "builder", "camera", "ingestor">>

StopOrder == <<"webrtc", "viewer", "builder", "ingestor", "camera">>

Threads == {"ingestor", "builder", "viewer", "webrtc"}

Frame(id, timestamp) == [frameId |-> id, timestamp |-> timestamp]
NoFrame == Frame(0, 0)
NoImages == [rgb |-> NoImage, depth |-> NoImage]

Starting(step) == main.phase = "start" /\ StartOrder[main.next] = step
Stopping(step) ==
  /\ main.phase = "stop" /\ main.next \in DOMAIN StopOrder
  /\ StopOrder[main.next] = step

Init ==
  /\ ParseInit
  /\ main = [phase |-> "parse", next |-> 1]
  /\ settings = [webrtc |-> TRUE, dump |-> FALSE]
  /\ camera = "closed"
  /\ threads = [t \in Threads |-> "none"]
  /\ stopRequested = {}
  /\ ingestor = "none"
  /\ frame = NoFrame
  /\ images = NoImages
  /\ nextFrameId = 1
  /\ lastTimestamp = 0
  /\ clock = 0
  /\ newest = NoFrame

NextStep == main' = [main EXCEPT !.next = @ + 1]
CleanUp == main' = [phase |-> "stop", next |-> 1]

-----------------------------------------------------------------------------
(* main(): the command line                                                *)

ParseOption ==
  /\ main.phase = "parse"
  /\ ParseFlag \/ ParseValue
  /\ UNCHANGED <<mainVars, settings, ingestVars, clock>>

\* On an error, and without capture, main returns before it has anything to clean up.
Refuse ==
  /\ main.phase = "parse"
  /\ ParseError \/ (ParsedAll /\ ~config.capture)
  /\ main' = [phase |-> "refused", next |-> 1]
  /\ UNCHANGED <<camera, threads, stopRequested, configVars, ingestVars, clock>>

\* The components take from the configuration what is theirs, the policies and the
\* number of frames to dump: constants of their modules.  What is left over of the
\* parser is reset.
Configured ==
  /\ main.phase = "parse"
  /\ ParsedAll /\ config.capture
  /\ settings' = [webrtc |-> config.webrtc, dump |-> config.dump]
  /\ argv' = <<>> /\ argument' = 1
  /\ config' = Defaults /\ viewerDumpCountExplicit' = FALSE
  /\ main' = [phase |-> "start", next |-> 1]
  /\ UNCHANGED <<camera, threads, stopRequested, ingestVars, clock>>

-----------------------------------------------------------------------------
(* main(): start                                                           *)

OpenCamera ==
  /\ Starting("open")
  /\ \/ NextStep /\ camera' = "open"
     \/ CleanUp /\ UNCHANGED camera
  /\ UNCHANGED <<threads, stopRequested, configVars, ingestVars, clock>>

\* makeK4aDeviceConfig: not every image size has a color resolution.
Configure ==
  /\ Starting("configure")
  /\ NextStep \/ CleanUp
  /\ UNCHANGED <<camera, threads, stopRequested, configVars, ingestVars, clock>>

StartCameras ==
  /\ Starting("cameras")
  /\ \/ NextStep /\ camera' = "started"
     \/ CleanUp /\ UNCHANGED camera
  /\ UNCHANGED <<threads, stopRequested, configVars, ingestVars, clock>>

\* start(), which fails only for a runner that was started before.  WebRTC may be
\* disabled.
StartThread(t) ==
  /\ Starting(t)
  /\ NextStep
  /\ IF t = "webrtc" /\ ~settings.webrtc
       THEN UNCHANGED <<threads, ingestor>>
       ELSE /\ threads' = [threads EXCEPT ![t] = "running"]
            /\ ingestor' = IF t = "ingestor" THEN "loop" ELSE ingestor
  /\ UNCHANGED <<camera, stopRequested, configVars, frame, images, nextFrameId, lastTimestamp,
                 newest, clock>>

\* seedOnce polls for a version and its frame, for kViewerSeedTimeout.
SeedOnce ==
  /\ Starting("seed")
  /\ NextStep \/ CleanUp
  /\ UNCHANGED <<camera, threads, stopRequested, configVars, ingestVars, clock>>

\* Until a signal, or, to dump, until there are enough outputs or too much time has
\* passed (ViewerDump).
Serve ==
  /\ Starting("serve")
  /\ CleanUp
  /\ UNCHANGED <<camera, threads, stopRequested, configVars, ingestVars, clock>>

-----------------------------------------------------------------------------
(* main(): cleanup                                                         *)

\* A request to a thread that was never started changes nothing for it.
RequestStop(t) ==
  /\ Stopping(t)
  /\ t \notin stopRequested
  /\ stopRequested' = stopRequested \cup {t}
  /\ UNCHANGED <<main, camera, threads, configVars, ingestVars, clock>>

Join(t) ==
  /\ Stopping(t)
  /\ t \in stopRequested
  /\ threads[t] # "running"
  /\ NextStep
  /\ UNCHANGED <<camera, threads, stopRequested, configVars, ingestVars, clock>>

StopCamera ==
  /\ Stopping("camera")
  /\ camera = "started"
  /\ camera' = "open"
  /\ UNCHANGED <<main, threads, stopRequested, configVars, ingestVars, clock>>

\* Mutant: the camera is stopped, but not closed.
LeaveOpen ==
  /\ Stopping("camera")
  /\ camera # "started"
  /\ NextStep
  /\ UNCHANGED <<camera, threads, stopRequested, configVars, ingestVars, clock>>

\* The camera is closed if it was opened, and main goes on to return.
CloseCamera ==
  /\ Stopping("camera")
  /\ camera # "started"
  /\ camera' = "closed"
  /\ NextStep
  /\ UNCHANGED <<threads, stopRequested, configVars, ingestVars, clock>>

Return ==
  /\ main.phase = "stop" /\ main.next > Len(StopOrder)
  /\ main' = [phase |-> "returned", next |-> 1]
  /\ UNCHANGED <<camera, threads, stopRequested, configVars, ingestVars, clock>>

\* A thread of another module ends, once asked to.
EndThread(t) ==
  /\ t \in stopRequested \ {"ingestor"}
  /\ threads[t] = "running"
  /\ threads' = [threads EXCEPT ![t] = "ended"]
  /\ UNCHANGED <<main, camera, stopRequested, configVars, ingestVars, clock>>

-----------------------------------------------------------------------------
(* The capture thread                                                      *)

MoveTo(place) == ingestor' = place

LoopCheck ==
  /\ ingestor = "loop"
  /\ IF "ingestor" \in stopRequested
       THEN MoveTo("ended") /\ threads' = [threads EXCEPT !["ingestor"] = "ended"]
       ELSE MoveTo("capture") /\ UNCHANGED threads
  /\ UNCHANGED <<main, camera, stopRequested, configVars, frame, images, nextFrameId,
                 lastTimestamp, newest, clock>>

\* capture() enters the SDK if the camera is started; failures back off and go round.
EnterCapture ==
  /\ ingestor = "capture"
  /\ MoveTo(IF camera = "started" THEN "capturing" ELSE "loop")
  /\ UNCHANGED <<mainVars, configVars, frame, images, nextFrameId, lastTimestamp, newest, clock>>

\* A capture comes, or captureTimeoutMs passes.
CaptureEnds ==
  /\ ingestor = "capturing"
  /\ MoveTo("calibrate") \/ MoveTo("loop")
  /\ UNCHANGED <<mainVars, configVars, frame, images, nextFrameId, lastTimestamp, newest, clock>>

\* Mutant: the clock as it reads.
ClockReading == clock

NextTimestamp == Max({1, clock, lastTimestamp + 1})

\* An id and a timestamp are taken, for a frame that may not get built.
Calibrate ==
  /\ ingestor = "calibrate"
  /\ \/ /\ MoveTo("loop")
        /\ UNCHANGED <<frame, nextFrameId, lastTimestamp>>
     \/ /\ nextFrameId <= MaxFrameId
        /\ MoveTo("build")
        /\ frame' = Frame(nextFrameId, NextTimestamp)
        /\ nextFrameId' = nextFrameId + 1
        /\ lastTimestamp' = NextTimestamp
  /\ UNCHANGED <<mainVars, configVars, images, newest, clock>>

\* The color and depth images are read, validated, aligned and copied.
Build ==
  /\ ingestor = "build"
  /\ \E color \in ColorImages, depth \in DepthImages : images' \in Assembled(color, depth)
  /\ MoveTo("submit")
  /\ UNCHANGED <<mainVars, configVars, frame, nextFrameId, lastTimestamp, newest, clock>>

\* An image is missing or not valid, the SDK fails to align the depth, or the
\* calibration holds no valid intrinsics.
BuildFails ==
  /\ ingestor = "build"
  /\ MoveTo("loop")
  /\ UNCHANGED <<mainVars, configVars, frame, images, nextFrameId, lastTimestamp, newest, clock>>

Newer(f, g) == f.frameId > g.frameId /\ f.timestamp > g.timestamp

\* The store accepts the frame, or refuses it, if only for want of room
\* (FrameStore!Submit).
Submit ==
  /\ ingestor = "submit"
  /\ newest' \in
       {newest, IF Newer(frame, newest) /\ StoreAccepts(images) THEN frame ELSE newest}
  /\ images' = NoImages
  /\ MoveTo("loop")
  /\ UNCHANGED <<mainVars, configVars, frame, nextFrameId, lastTimestamp, clock>>

\* steady_clock may read the same twice, and skip.
Tick ==
  /\ clock' \in (clock + 1)..MaxClock
  /\ UNCHANGED <<mainVars, configVars, ingestVars>>

-----------------------------------------------------------------------------
ParseStep == ParseOption \/ Refuse \/ Configured

StartStep ==
  \/ OpenCamera \/ Configure \/ StartCameras \/ SeedOnce \/ Serve
  \/ \E t \in Threads : StartThread(t)

StopStep ==
  \/ \E t \in Threads : RequestStop(t) \/ Join(t)
  \/ StopCamera \/ CloseCamera \/ Return

IngestStep ==
  \/ LoopCheck \/ EnterCapture \/ CaptureEnds \/ Calibrate \/ Build \/ BuildFails
  \/ Submit

Next ==
  \/ ParseStep \/ StartStep \/ StopStep
  \/ IngestStep
  \/ \E t \in Threads : EndThread(t)
  \/ Tick

Spec == Init /\ [][Next]_vars

(***************************************************************************)
(* main runs: a step of the start, and of the dump, has a timeout, but     *)
(* nobody is obliged to stop the program while it serves.  The capture     *)
(* call has a timeout, and the other threads end when asked to: the        *)
(* builder by StopEndsLoop of SceneBuilder, as StopOrder meets that        *)
(* property's condition; the WebRTC server, but for its exception, by      *)
(* StopReturns of WebRtcSession; the viewer's waits have timeouts and its  *)
(* loop the builder's check.                                               *)
(***************************************************************************)
Fairness ==
  /\ WF_vars(ParseStep)
  /\ WF_vars((~Starting("serve") \/ settings.dump) /\ StartStep)
  /\ WF_vars(StopStep)
  /\ WF_vars(IngestStep)
  /\ \A t \in Threads : WF_vars(EndThread(t))

FairSpec == Spec /\ Fairness

-----------------------------------------------------------------------------
(* Properties                                                              *)

\* The type invariant: the state of main and the capture thread.
TypeOK ==
  /\ main \in [phase : {"parse", "refused", "start", "stop", "returned"}, next : 1..9]
  /\ main.phase = "stop" => main.next \in 1..6
  /\ threads \in [Threads -> {"none", "running", "ended"}]
  /\ ingestor \in {"none", "loop", "capture", "capturing", "calibrate", "build",
                   "submit", "ended"}
  /\ {frame, newest} \subseteq [frameId : Nat, timestamp : Nat]
  /\ nextFrameId \in Nat /\ lastTimestamp \in Nat /\ clock \in Nat

\* The capture thread is inside the SDK only with the camera open and started,
\* whichever step of the start failed: main neither stops nor closes a camera in
\* use (main.cpp:110-120).
CameraUsedWhileStarted ==
  ingestor \in {"capturing", "calibrate"} => camera = "started"

\* A frame submitted passes the checks that wait for it.  It is newer, in id and
\* in timestamp, than every frame accepted before, however many were not built in
\* between and however the clock stood; the store finds its images in order, and so
\* refuses it for want of room only; and the builder, which asks more of them, can
\* convert them without reading behind their buffers (FrameIngestor.cpp:37-48,
\* InfiniTamViewConverter.cpp:93-125).
SubmittedFramesFit ==
  ingestor = "submit" =>
    /\ Newer(frame, newest)
    /\ StoreAccepts(images)
    /\ ConvertibleToView(images) /\ ReadInside(images)

\* The configuration is what the options ask for, in any order and however often
\* repeated (CommandLineParser.cpp:77-214).
ConfigFollowsOptions ==
  main.phase = "parse" /\ ParsedAll => config = Asked

\* From whichever step main cleans up, it returns with every thread ended and the
\* camera closed, and a program that dumps comes to clean up by itself, be it that
\* the dump's time is up, which Fairness counts on (main.cpp:101-121, 200-221).
CleanupEnds ==
  (main.phase = "stop" \/ (main.phase = "start" /\ settings.dump)) ~>
    /\ main.phase = "returned"
    /\ \A t \in Threads : threads[t] # "running"
    /\ camera = "closed"
=============================================================================
