----------------------------- MODULE WebRtcSession -----------------------------
(***************************************************************************)
(* The WebRTC server: sessions, their negotiation and its watchdog         *)
(* (src/streaming/webrtc/src/WebRtcServer.cpp).  Four kinds of threads     *)
(* meet at m_peerConnectionMutex: the listener's (Signalling), the video   *)
(* pump, GStreamer's callbacks, and the one that calls stop().  What       *)
(* GStreamer and the clients do is external: a callback may come late, or  *)
(* never, and nothing is assumed of it but its session.                    *)
(***************************************************************************)
EXTENDS Signalling

CONSTANT Gathering  \* bound: the sessions whose webrtcbin finds a local candidate

ASSUME GatheringAssumption == Gathering \subseteq 1..MaxClients

VARIABLES
  peer,         \* what m_peerConnectionMutex protects
  nextSession,  \* m_nextSessionId
  pushEnabled,  \* m_videoPushEnabled, an atomic
  pump,         \* where the video pump stands, and for which session
  stopper,      \* where stop() stands
  callbacks,    \* GStreamer's outstanding callbacks
  notice,       \* each webrtcbin's connection-state notification
  received,     \* what the active client has been sent: <<kind, session>>
  told,         \* what the active client has sent: "answer", "candidate"
  owner,        \* the client each session was built for
  lateNotice,   \* a notification outlived its session and set the push flag
  openedLate    \* a client opened after stop() had looked for one

serverVars == <<peer, nextSession, pushEnabled>>
threadVars == <<pump, stopper>>
mediaVars == <<callbacks, notice>>
clientVars == <<received, told>>
historyVars == <<owner, lateNotice, openedLate>>
vars == <<signallingVars, serverVars, threadVars, mediaVars, clientVars, historyVars>>

\* Every client that starts up gets one session.
Sessions == 1..MaxClients
NoSession == 0

\* The state that tearDownPipeline leaves.  Of the webrtcbin in m_handles: its
\* connection-state, and the clients whose candidates it was given.
TornDown ==
  [session |-> NoSession, replyTo |-> NoClient, offerSent |-> FALSE,
   remoteApplied |-> FALSE, mediaStarted |-> FALSE, watchdog |-> NoSession,
   pendingIce |-> {}, applied |-> {}, link |-> "new"]

At(place, session) == [at |-> place, session |-> session]
Idle == At("idle", NoSession)

\* A promise's callback, or a signal's; the client is the reply it captured.
Callback(kind, s, c) == [kind |-> kind, session |-> s, client |-> c]

\* A notification, and the connection-state it is of.
Notice(at, state) == [at |-> at, state |-> state]
NoNotice == Notice("none", "new")

Init ==
  /\ SignallingInit
  /\ peer = TornDown
  /\ nextSession = 1
  /\ pushEnabled = FALSE
  /\ pump = Idle
  /\ stopper = "none"
  /\ callbacks = {}
  /\ notice = [s \in Sessions |-> NoNotice]
  /\ received = {}
  /\ told = {}
  /\ owner = [s \in Sessions |-> NoClient]
  /\ lateNotice = FALSE
  /\ openedLate = FALSE

\* Mutant: the watchdog is left armed.
TearDownLeavesWatchdog ==
  /\ peer' = [TornDown EXCEPT !.watchdog = peer.watchdog]
  /\ pushEnabled' = FALSE
  /\ lateNotice' = FALSE

TearDown ==
  /\ peer' = TornDown
  /\ pushEnabled' = FALSE
  /\ lateNotice' = FALSE

NothingTornDown == UNCHANGED <<peer, pushEnabled, lateNotice>>

\* Mutant: any session will do.
SomeSession(s) == peer.session # NoSession

IsCurrent(s) == s # NoSession /\ peer.session = s

\* m_running
Running == stopper = "none"

-----------------------------------------------------------------------------
(* The listener's thread                                                   *)

\* A handshake that began in time may complete after the listener has stopped.
ClientOpens(c) ==
  /\ stopper # "stopped"
  /\ OnOpen(c)
  /\ openedLate' = (openedLate \/ ~Running)
  /\ received' = {}
  /\ told' = {}
  /\ UNCHANGED <<serverVars, threadVars, mediaVars, owner, lateNotice>>

\* onClose, and onClientDisconnected where the active client left.
ClientCloses(c) ==
  /\ OnClose(c)
  /\ IF client = c
       THEN TearDown /\ received' = {} /\ told' = {}
       ELSE NothingTornDown /\ UNCHANGED clientVars
  /\ UNCHANGED <<nextSession, threadVars, mediaVars, owner, openedLate>>

CloseTask ==
  /\ RunClose
  /\ UNCHANGED <<serverVars, threadVars, mediaVars, clientVars, historyVars>>

\* A send reaches its client if that is still the active one.
SendTask ==
  /\ IsNext("offer") \/ IsNext("candidate")
  /\ LET task == Head(posted)
     IN  received' = IF task.client = client
           THEN received \cup {<<task.kind, task.session>>}
           ELSE received
  /\ posted' = Tail(posted)
  /\ UNCHANGED <<links, client, serverVars, threadVars, mediaVars, told,
                 historyVars>>

\* The construction of a session, which ends torn down where a step of it fails.
SessionsBuilt ==
  {TornDown,
   [TornDown EXCEPT !.session = nextSession, !.replyTo = client, !.watchdog = nextSession]}

\* The relative baseline is reset (ViewerPoseStore!ResetRelativeBaseline), the old
\* session goes, a new one is built and an offer asked for: nothing can end the
\* session between these critical sections.
OnClientConnected ==
  /\ peer' \in SessionsBuilt
  /\ nextSession' = nextSession + 1
  /\ pushEnabled' = FALSE
  /\ callbacks' = IF peer' = TornDown THEN callbacks
                  ELSE callbacks \cup {Callback("offer", nextSession, NoClient)}
  /\ owner' = [owner EXCEPT ![nextSession] = client]
  /\ lateNotice' = FALSE

\* The startup of a client that may be inactive by now.
StartupTask ==
  /\ IsNext("startup")
  /\ posted' = Tail(posted)
  /\ IF Head(posted).client = client
       THEN OnClientConnected
       ELSE UNCHANGED <<serverVars, callbacks, owner, lateNotice>>
  /\ UNCHANGED <<links, client, threadVars, notice, clientVars, openedLate>>

\* An answer that cannot be parsed goes no further.
ApplyRemoteDescription(s) ==
  \/ /\ peer' = [peer EXCEPT !.watchdog = s, !.link = "described"]
     /\ callbacks' = callbacks \cup {Callback("remote", s, NoClient)}
  \/ /\ peer' = [peer EXCEPT !.watchdog = s]
     /\ UNCHANGED callbacks

\* The active client, once it has an offer, answers: for the session of the moment,
\* if that has sent its offer.  Bound: one answer, one candidate per client.
OnAnswer ==
  /\ \E s \in Sessions : <<"offer", s>> \in received
  /\ "answer" \notin told
  /\ told' = told \cup {"answer"}
  /\ IF peer.session # NoSession /\ peer.offerSent
       THEN ApplyRemoteDescription(peer.session)
       ELSE UNCHANGED <<peer, callbacks>>
  /\ UNCHANGED <<signallingVars, nextSession, pushEnabled, threadVars, notice,
                 received, historyVars>>

\* Its candidate waits for the remote description.
OnIceFromClient ==
  /\ received # {}
  /\ "candidate" \notin told
  /\ told' = told \cup {"candidate"}
  /\ peer' =
       IF peer.session = NoSession THEN peer
       ELSE IF peer.remoteApplied THEN [peer EXCEPT !.applied = @ \cup {client}]
       ELSE [peer EXCEPT !.pendingIce = @ \cup {client}]
  /\ UNCHANGED <<signallingVars, nextSession, pushEnabled, threadVars, mediaVars,
                 received, historyVars>>

-----------------------------------------------------------------------------
(* GStreamer's callbacks                                                   *)

\* A promise that was not replied to tears its session down.
OnPromiseFailed(cb) ==
  /\ cb.kind # "candidate"
  /\ callbacks' = callbacks \ {cb}
  /\ IF IsCurrent(cb.session) THEN TearDown ELSE NothingTornDown
  /\ UNCHANGED <<signallingVars, nextSession, threadVars, notice, clientVars, owner,
                 openedLate>>

\* onOfferCreated, and setLocalDescriptionAndSendOffer, which also makes webrtcbin
\* gather candidates.
OnOfferCreated(cb) ==
  /\ cb.kind = "offer"
  /\ LET s == cb.session
     IN  IF IsCurrent(s)
           THEN /\ peer' = [peer EXCEPT !.watchdog = peer.session,
                              !.remoteApplied = FALSE, !.mediaStarted = FALSE]
                /\ pushEnabled' = FALSE
                /\ lateNotice' = FALSE
                /\ callbacks' = (callbacks \ {cb})
                     \cup {Callback("local", s, peer.replyTo)}
                     \cup {Callback("candidate", g, NoClient) : g \in Gathering \cap {s}}
           ELSE /\ callbacks' = callbacks \ {cb}
                /\ NothingTornDown
  /\ UNCHANGED <<signallingVars, nextSession, threadVars, notice, clientVars, owner,
                 openedLate>>

OnLocalDescriptionSet(cb) ==
  /\ cb.kind = "local"
  /\ callbacks' = callbacks \ {cb}
  /\ IF IsCurrent(cb.session)
       THEN /\ peer' = [peer EXCEPT !.offerSent = TRUE, !.watchdog = peer.session]
            /\ posted' = Append(posted, Task("offer", cb.client, cb.session))
       ELSE UNCHANGED <<peer, posted>>
  /\ UNCHANGED <<links, client, nextSession, pushEnabled, threadVars, notice,
                 clientVars, historyVars>>

OnLocalIce(cb) ==
  /\ cb.kind = "candidate"
  /\ callbacks' = callbacks \ {cb}
  /\ posted' = IF IsCurrent(cb.session)
       THEN Append(posted, Task("candidate", peer.replyTo, cb.session)) ELSE posted
  /\ UNCHANGED <<links, client, serverVars, threadVars, notice, clientVars,
                 historyVars>>

\* Mutant: the queue is cleared before it is flushed.
NothingFlushed == peer.applied

FlushedIce == peer.applied \cup peer.pendingIce

\* The queued candidates are flushed, and the pipeline starts, or fails to.
OnRemoteAnswerApplied(cb) ==
  /\ cb.kind = "remote"
  /\ callbacks' = callbacks \ {cb}
  /\ IF IsCurrent(cb.session)
       THEN \/ /\ peer' = [peer EXCEPT !.remoteApplied = TRUE, !.mediaStarted = TRUE,
                             !.watchdog = NoSession, !.applied = FlushedIce,
                             !.pendingIce = {}]
               /\ UNCHANGED <<pushEnabled, lateNotice>>
            \/ TearDown
       ELSE NothingTornDown
  /\ UNCHANGED <<signallingVars, nextSession, threadVars, notice, clientVars, owner,
                 openedLate>>

\* The webrtcbin of the moment, once described, connects to its peer, and may lose
\* and regain it; its notifications come one at a time.
LinkChanges ==
  /\ peer.link # "new"
  /\ notice[peer.session] = NoNotice
  /\ LET state == IF peer.link = "connected" THEN "lost" ELSE "connected"
     IN  /\ peer' = [peer EXCEPT !.link = state]
         /\ notice' = [notice EXCEPT ![peer.session] = Notice("fired", state)]
  /\ UNCHANGED <<signallingVars, nextSession, pushEnabled, threadVars, callbacks,
                 clientVars, historyVars>>

\* The callback compares with m_activeWebrtcbin, without the mutex ...
NoticeChecked(s) ==
  /\ notice[s].at = "fired"
  /\ notice' = [notice EXCEPT ![s] =
       IF IsCurrent(s) THEN [@ EXCEPT !.at = "checked"] ELSE NoNotice]
  /\ UNCHANGED <<signallingVars, serverVars, threadVars, callbacks, clientVars,
                 historyVars>>

\* Mutant: any state but the one at the start enables the push.
NotNew(state) == state # "new"

ShouldEnable(state) == state = "connected"

\* ... and sets the push flag, whichever session is active by then.
NoticeApplied(s) ==
  /\ notice[s].at = "checked"
  /\ notice' = [notice EXCEPT ![s] = NoNotice]
  /\ pushEnabled' = ShouldEnable(notice[s].state)
  /\ lateNotice' = (lateNotice \/ ~IsCurrent(s))
  /\ UNCHANGED <<signallingVars, peer, nextSession, threadVars, callbacks, clientVars,
                 owner, openedLate>>

-----------------------------------------------------------------------------
(* The video pump.  What it pushes, and whether, PushesVideo says.         *)

\* Mutant: the timeout is logged, and no client closed.
TimeoutLogged == Idle

TimedOut == At("timeout", peer.watchdog)

\* The watchdog has expired: checkNegotiationWatchdogLocked disarms it.
PumpTimesOut ==
  /\ Running
  /\ pump = Idle
  /\ peer.watchdog # NoSession
  /\ pump' = TimedOut
  /\ peer' = [peer EXCEPT !.watchdog = NoSession]
  /\ UNCHANGED <<signallingVars, nextSession, pushEnabled, stopper, mediaVars,
                 clientVars, historyVars>>

\* Outside the mutex, the client of the moment is closed.
PumpClosesClient ==
  /\ pump.at = "timeout"
  /\ CloseActiveClient(pump.session)
  /\ pump' = Idle
  /\ UNCHANGED <<serverVars, stopper, mediaVars, clientVars, historyVars>>

PushesVideo == peer.mediaStarted /\ pushEnabled

-----------------------------------------------------------------------------
(* stop()                                                                  *)

\* Mutant: the listener is joined without closing its client.
StopForgetsClient ==
  /\ Running
  /\ stopper' = "join"
  /\ UNCHANGED <<signallingVars, serverVars, pump, mediaVars, clientVars, historyVars>>

\* No client is accepted any more, and the one of the moment is closed.
Stop ==
  /\ Running
  /\ CloseActiveClient(NoSession)
  /\ stopper' = "join"
  /\ UNCHANGED <<serverVars, pump, mediaVars, clientVars, historyVars>>

\* Both threads are joined, and what is left is torn down.
StopJoins ==
  /\ stopper = "join"
  /\ NothingLeft /\ pump = Idle
  /\ stopper' = "stopped"
  /\ TearDown
  /\ UNCHANGED <<signallingVars, nextSession, pump, mediaVars, clientVars, owner,
                 openedLate>>

-----------------------------------------------------------------------------
ListenerStep ==
  StartupTask \/ SendTask \/ CloseTask

ClientStep ==
  \/ \E c \in Clients : ClientOpens(c) \/ ClientCloses(c)
  \/ OnAnswer \/ OnIceFromClient

CallbackStep(cb) ==
  \/ OnPromiseFailed(cb) \/ OnOfferCreated(cb) \/ OnLocalDescriptionSet(cb)
  \/ OnLocalIce(cb) \/ OnRemoteAnswerApplied(cb)

Next ==
  \/ ListenerStep
  \/ ClientStep
  \/ \E cb \in callbacks : CallbackStep(cb)
  \/ LinkChanges
  \/ \E s \in Sessions : NoticeChecked(s) \/ NoticeApplied(s)
  \/ PumpTimesOut \/ PumpClosesClient
  \/ Stop \/ StopJoins

Spec == Init /\ [][Next]_vars

(***************************************************************************)
(* The program's own threads run, and a close that the server began ends   *)
(* (websocketpp times it out).  Clients owe nothing, nor do GStreamer's    *)
(* promises: the watchdog is there for them.                               *)
(***************************************************************************)
Fairness ==
  /\ WF_vars(ListenerStep)
  /\ WF_vars(PumpTimesOut) /\ WF_vars(PumpClosesClient)
  /\ WF_vars(StopJoins)
  /\ \A c \in Clients : WF_vars(links[c] = "closing" /\ ClientCloses(c))

FairSpec == Spec /\ Fairness

-----------------------------------------------------------------------------
(* Properties                                                              *)

SomeClient == Clients \cup {NoClient}
SomeOrNoSession == Sessions \cup {NoSession}

Tasks == [kind : {"startup", "close", "offer", "candidate"}, client : SomeClient,
          session : SomeOrNoSession]

Peers ==
  [session : SomeOrNoSession, replyTo : SomeClient, offerSent : BOOLEAN,
   remoteApplied : BOOLEAN, mediaStarted : BOOLEAN, watchdog : SomeOrNoSession,
   pendingIce : SUBSET SomeClient, applied : SUBSET SomeClient,
   link : {"new", "described", "connected", "lost"}]

Callbacks == [kind : {"offer", "local", "candidate", "remote"}, session : Sessions,
              client : SomeClient]

Notices == {NoNotice} \cup [at : {"fired", "checked"}, state : {"connected", "lost"}]

\* The type invariant: the state of connections, sessions and what is on its way.
TypeOK ==
  /\ links \in [Clients -> {"none", "open", "closing", "closed"}]
  /\ client \in SomeClient
  /\ posted \in Seq(Tasks)
  /\ peer \in Peers
  /\ nextSession \in Nat \ {0}
  /\ pushEnabled \in BOOLEAN /\ lateNotice \in BOOLEAN
  /\ callbacks \subseteq Callbacks
  /\ notice \in [Sessions -> Notices]
  /\ received \subseteq {"offer", "candidate"} \X Sessions
  /\ told \subseteq {"answer", "candidate"}
  /\ owner \in [Sessions -> SomeClient]

\* However late a callback of a superseded session comes, a client is only sent
\* the offer and the candidates of the session built for it
\* (WebRtcServer.cpp:556, 641, 1153).
OfferReachesItsClient ==
  \A m \in received : owner[m[2]] = client

\* The session that plays has the answer its own client gave to its own offer:
\* no callback of another session moves it (WebRtcServer.cpp:730).
AnsweredBeforePlaying ==
  peer.mediaStarted =>
    /\ peer.offerSent /\ peer.remoteApplied
    /\ client = peer.replyTo =>
         <<"offer", peer.session>> \in received /\ "answer" \in told

\* Candidates go to the session of the client that sent them, and none the active
\* client sent is lost when they had to wait (WebRtcServer.cpp:1188, 1302-1315).
CandidatesReachTheirSession ==
  /\ peer.applied \subseteq {peer.replyTo}
  /\ (peer.remoteApplied /\ client = peer.replyTo /\ "candidate" \in told)
       => client \in peer.applied

\* A watchdog never outlives its session; and while a session is negotiated, a
\* watchdog runs for it, or has expired and the client's close is under way, or a
\* newer client has taken over (WebRtcServer.cpp:329-340, 1380-1424).
WatchdogGuardsNegotiation ==
  /\ peer.watchdog \in {NoSession, peer.session}
  /\ (Running /\ peer.session # NoSession /\ ~peer.remoteApplied) =>
      \/ peer.watchdog = peer.session
      \/ pump.at = "timeout"
      \/ client # peer.replyTo
      \/ links[client] = "closing"
      \/ \E i \in DOMAIN posted : posted[i].kind = "close" /\ posted[i].client = client

\* Video is pushed exactly while the session's peer is connected, once its notice
\* has been taken, and but for a notice that outlived its session
\* (WebRtcServer.cpp:559, 802, 852).
VideoFollowsConnection ==
  (peer.mediaStarted /\ notice[peer.session] = NoNotice /\ ~lateNotice) =>
    (PushesVideo <=> peer.link = "connected")

\* A session does not stay half negotiated: it is answered or it goes, for a client
\* that does not answer without end: one more answer that cannot be parsed would arm
\* the watchdog anew (WebRtcServer.cpp:462).
NegotiationEnds ==
  \A s \in Sessions :
    peer.session = s ~> (peer.session # s \/ peer.remoteApplied \/ openedLate)

\* stop() returns, unless a client opened after it had looked for one to close.
StopReturns == stopper # "none" ~> (stopper = "stopped" \/ openedLate)

\* A client is closed for a negotiation that timed out only if it was its own: a
\* newer client supersedes the older (WebRtcServer.hpp:18).
TimeoutClosesItsClient ==
  \A i \in DOMAIN posted :
    (posted[i].kind = "close" /\ posted[i].session # NoSession)
      => owner[posted[i].session] = posted[i].client
=============================================================================
