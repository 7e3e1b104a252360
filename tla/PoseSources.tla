------------------------------ MODULE PoseSources ------------------------------
(***************************************************************************)
(* Who sets the viewer's pose.  main() seeds it once, from the newest scene*)
(* version and the frame that version was built from                       *)
(* (src/app/src/runtime/ViewerPoseSeeder.cpp), while the frame store evicts*)
(* and the builder goes on.  WebRTC clients, which may connect before that,*)
(* send relative poses over the data channel of their session              *)
(* (src/streaming/webrtc/src/WebRtcServer.cpp).  Three kinds of threads    *)
(* meet: main's, the listener's, and one callback thread per channel.      *)
(***************************************************************************)
EXTENDS FrameHistory, ViewerPoseStore, SequencesExt

CONSTANTS
  Clients,          \* WebRTC clients, each of which connects once
  NoClient,
  MaxStoredFrames,  \* FrameStoreConfig, after the constructor's max(1, .)
  MaxFrameId        \* bound on the frames accepted

Seeder == "seeder"
Listener == "listener"

ASSUME ClientsAssumption ==
  /\ NoClient \notin Clients
  /\ Seeder \notin Clients /\ Listener \notin Producers
  /\ Clients \cup {Seeder} \subseteq Producers

ASSUME FramesAssumption == MaxStoredFrames \in Nat \ {0} /\ MaxFrameId \in Nat

VARIABLES
  history,      \* the FrameStore's frames, oldest first
  pending,      \* those that are ready or in flight
  building,     \* the frame whose version is added and that is not yet marked
  lastVersion,  \* lastIntegratedFrameId of the newest SceneVersion, or none
  seeder,       \* where seedOnce stands, and the version it has read
  listener,     \* the client between the reset of the baseline and its session
  connected,    \* the clients that have connected
  channel,      \* m_activeDataChannel, as the client at its other end
  inbox,        \* the relative pose a channel's callback has yet to apply
  captured,     \* history variable: the pose each client found on connecting
  moved         \* history variable: who moved the pose last, and by what

frameVars == <<history, pending, building, lastVersion>>
clientVars == <<listener, connected, channel, inbox, captured, moved>>
vars == <<poseVars, frameVars, seeder, clientVars>>

NoFrame == 0
NoMessage == -1

Init ==
  /\ PoseInit
  /\ history = <<>>
  /\ pending = {}
  /\ building = NoFrame
  /\ lastVersion = NoFrame
  /\ seeder = [at |-> "look", version |-> NoFrame]
  /\ listener = NoClient
  /\ connected = {}
  /\ channel = NoClient
  /\ inbox = [c \in Clients |-> NoMessage]
  /\ captured = [c \in Clients |-> NoPose]
  /\ moved = [by |-> NoClient, relative |-> 0]

-----------------------------------------------------------------------------
(* The frame store and the builder, as far as the seeder sees them         *)

Newest == IF history = <<>> THEN NoFrame ELSE Last(history)

Evictable == ToSet(history) \ pending

\* Mutant: the newest of the frames that may go is evicted.
NewestEvictable == IF Evictable = {} THEN {} ELSE {Max(Evictable)}

\* The oldest frame that is neither ready nor in flight.
Victims == IF Evictable = {} THEN {} ELSE {Min(Evictable)}

\* A frame is refused while the history is full of pending ones.
AcceptFrame ==
  /\ Newest < MaxFrameId
  /\ \/ Len(history) < MaxStoredFrames /\ history' = Append(history, Newest + 1)
     \/ /\ Len(history) = MaxStoredFrames /\ Victims # {}
        /\ history' = Append(Without(history, Victims), Newest + 1)
  /\ pending' = pending \cup {Newest + 1}
  /\ UNCHANGED <<poseVars, building, lastVersion, seeder, clientVars>>

\* The builder fuses the oldest frame, which it marks as consumed afterwards ...
AddVersion ==
  /\ building = NoFrame /\ pending # {}
  /\ building' = Min(pending)
  /\ lastVersion' = Min(pending)
  /\ UNCHANGED <<poseVars, history, pending, seeder, clientVars>>

MarkConsumed ==
  /\ building # NoFrame
  /\ pending' = pending \ {building}
  /\ building' = NoFrame
  /\ UNCHANGED <<poseVars, history, lastVersion, seeder, clientVars>>

\* ... or finds it unconvertible, or loses track.
MarkFailed ==
  /\ building = NoFrame /\ pending # {}
  /\ pending' = pending \ {Min(pending)}
  /\ UNCHANGED <<poseVars, history, building, lastVersion, seeder, clientVars>>

-----------------------------------------------------------------------------
(* ViewerPoseSeeder::seedOnce                                              *)

SeederAt(place) == seeder.at = place
SeederMoves(place) == seeder' = [seeder EXCEPT !.at = place]

\* A pose that is there already is left alone.
SeedLook ==
  /\ SeederAt("look")
  /\ SeederMoves(IF latestPose # NoPose THEN "done" ELSE "poll")
  /\ UNCHANGED <<poseVars, frameVars, clientVars>>

SeedReadsVersion ==
  /\ SeederAt("poll")
  /\ lastVersion # NoFrame
  /\ seeder' = [at |-> "frame", version |-> lastVersion]
  /\ UNCHANGED <<poseVars, frameVars, clientVars>>

\* The frame may have been evicted, and the seeder tries again.
SeedReadsFrame ==
  /\ SeederAt("frame")
  /\ SeederMoves(IF seeder.version \in ToSet(history) THEN "update" ELSE "poll")
  /\ UNCHANGED <<poseVars, frameVars, clientVars>>

SeedUpdates ==
  /\ SeederAt("update")
  /\ \E pose \in Poses :
       Update(Seeder, [pose |-> pose, renderable |-> TRUE, generation |-> 0])
  /\ moved' = [by |-> Seeder, relative |-> 0]
  /\ SeederMoves("done")
  /\ UNCHANGED <<frameVars, listener, connected, channel, inbox, captured>>

\* kViewerSeedTimeout has passed.
SeedTimesOut ==
  /\ SeederAt("poll")
  /\ SeederMoves("failed")
  /\ UNCHANGED <<poseVars, frameVars, clientVars>>

-----------------------------------------------------------------------------
(* The listener: a client's startup, and the end of a session              *)

\* The baseline is reset first, without m_peerConnectionMutex ...
ResetBaseline(c) ==
  /\ listener = NoClient
  /\ c \notin connected
  /\ ResetRelativeBaseline(Listener)
  /\ listener' = c
  /\ connected' = connected \cup {c}
  /\ captured' = [captured EXCEPT ![c] = latestPose]
  /\ UNCHANGED <<frameVars, seeder, channel, inbox, moved>>

\* ... then the old session goes, its channel with it, and a new one is built, or
\* fails to be, or has its channel disabled.
BuildSession ==
  /\ listener # NoClient
  /\ channel' \in {listener, NoClient}
  /\ listener' = NoClient
  /\ UNCHANGED <<poseVars, frameVars, seeder, connected, inbox, captured, moved>>

\* The client leaves, or a step of the negotiation fails.
TearDown ==
  /\ channel # NoClient
  /\ channel' = NoClient
  /\ UNCHANGED <<poseVars, frameVars, seeder, listener, connected, inbox, captured,
                 moved>>

-----------------------------------------------------------------------------
(* The callback thread of a data channel                                   *)

\* A message is compared with the active channel, without the mutex.  One that is
\* no pose, and one of any other channel, goes no further.
OnMessage(c) ==
  /\ inbox[c] = NoMessage /\ c \notin notifying
  /\ channel = c
  /\ \E relative \in Poses : inbox' = [inbox EXCEPT ![c] = relative]
  /\ UNCHANGED <<poseVars, frameVars, seeder, listener, connected, channel, captured,
                 moved>>

\* The pose is applied later, whichever channel is active by then.
ApplyPoseUpdate(c) ==
  /\ inbox[c] # NoMessage
  /\ inbox' = [inbox EXCEPT ![c] = NoMessage]
  /\ \/ /\ ApplyRelativePose(c, inbox[c])
        /\ moved' = [by |-> c, relative |-> inbox[c]]
     \/ /\ baselinePose = NoPose \/ SamePoseRequest(latestPose, NextRelativePose(inbox[c]))
        /\ UNCHANGED <<poseVars, moved>>
  /\ UNCHANGED <<frameVars, seeder, listener, connected, channel, captured>>

Notify(p) ==
  /\ NotifyAll(p)
  /\ UNCHANGED <<frameVars, seeder, clientVars>>

-----------------------------------------------------------------------------
StoreStep == AcceptFrame \/ AddVersion \/ MarkConsumed \/ MarkFailed

SeederStep ==
  SeedLook \/ SeedReadsVersion \/ SeedReadsFrame \/ SeedUpdates \/ SeedTimesOut

ClientStep(c) == ResetBaseline(c) \/ OnMessage(c) \/ ApplyPoseUpdate(c)

Next ==
  \/ StoreStep
  \/ SeederStep
  \/ BuildSession \/ TearDown
  \/ \E c \in Clients : ClientStep(c)
  \/ \E p \in Producers : Notify(p)

Spec == Init /\ [][Next]_vars

-----------------------------------------------------------------------------
(* Properties                                                              *)

PoseRecords == [pose : Poses, renderable : BOOLEAN, generation : Nat]

\* The type invariant: the state of the poses and their sources.
TypeOK ==
  /\ latestPose \in PoseRecords /\ baselinePose \in PoseRecords
  /\ nextGeneration \in Nat \ {0}
  /\ listener \in Clients \cup {NoClient}
  /\ channel \in Clients \cup {NoClient}
  /\ inbox \in [Clients -> Poses \cup {NoMessage}]
  /\ captured \in [Clients -> PoseRecords]
  /\ moved \in [by : Clients \cup {NoClient, Seeder}, relative : Poses]
  /\ seeder = [at |-> seeder.at, version |-> seeder.version]

\* seedOnce looks for a pose once and stores one much later, without looking
\* again; no client has set one in between, since relative poses without a baseline
\* are dropped and a baseline is a pose (ViewerPoseSeeder.cpp:26-36,
\* ViewerPoseStore.cpp:64-81).
SeedNeverOverrides ==
  seeder.at \in {"poll", "frame", "update"} => latestPose = NoPose

\* The frame that the newest version was built from, which the seeder needs, is in
\* the store unless a whole history of newer frames has come since and none of them
\* was fused (ViewerPoseSeeder.cpp:47-57, FrameStore.cpp:173-191).
SeedFrameKept ==
  (lastVersion # NoFrame /\ lastVersion \notin ToSet(history)) =>
    /\ Len(history) = MaxStoredFrames
    /\ \A id \in ToSet(history) : id > lastVersion

\* A pose moved by the client of the active session is its message relative to the
\* pose it found when it connected, whatever other clients' messages were in flight
\* (WebRtcServer.cpp:261-264, 1249-1267).  It says nothing of where the late message
\* of a superseded client leads.
PoseFollowsClient ==
  (channel # NoClient /\ moved.by = channel /\ listener = NoClient) =>
    latestPose.pose = Compose(moved.relative, captured[channel].pose)
=============================================================================
