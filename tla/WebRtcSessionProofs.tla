-------------------------- MODULE WebRtcSessionProofs --------------------------
(***************************************************************************)
(* Theorems about WebRtcSession, for any number of clients, and whatever   *)
(* callbacks of GStreamer come, however late, and about the other server   *)
(* of the streaming library, RenderServer.                                 *)
(***************************************************************************)
EXTENDS WebRtcSession, RenderServer, SortedQueues, FiniteSetTheorems, TLAPS

-----------------------------------------------------------------------------
(* The inductive invariant                                                 *)

\* Clients open in order, and the active one is the last that did.
ConnectionsInOrder ==
  /\ \A c, d \in Clients : c < d /\ links[c] = "none" => links[d] = "none"
  /\ client # NoClient =>
       /\ links[client] \in {"open", "closing"}
       /\ \A d \in Clients : client < d => links[d] = "none"

\* Every session begun before is of an older client than c, and they are fewer.
OlderSessions(c) ==
  /\ nextSession <= c
  /\ \A s \in Sessions : s < nextSession => owner[s] < c

\* A client that is still to start up comes after all sessions, in its turn.
StartupsInOrder ==
  /\ \A c \in Clients : links[c] = "none" => OlderSessions(c)
  /\ \A i \in DOMAIN posted : posted[i].kind = "startup" =>
       /\ posted[i].client \in Clients /\ links[posted[i].client] # "none"
       /\ OlderSessions(posted[i].client)
       /\ \A j \in DOMAIN posted : i < j /\ posted[j].kind = "startup" =>
            posted[i].client < posted[j].client

\* Sessions begin in the order of their clients.
SessionsInOrder ==
  /\ \A s \in Sessions : s < nextSession => owner[s] \in Clients
  /\ \A s, t \in Sessions : s < t /\ t < nextSession => owner[s] < owner[t]

\* The session there is, if any, is the last one begun.
PeerIsNewest ==
  IF peer.session = NoSession THEN peer = TornDown
  ELSE peer.session + 1 = nextSession /\ peer.replyTo = owner[peer.session]

\* What is on its way names a session that began, and a send the client it is for.
CallbacksNamed ==
  \A cb \in callbacks :
    /\ cb.session < nextSession
    /\ cb.kind = "local" => cb.client = owner[cb.session]

\* A send that is posted names a session that began, and its client.
TasksNamed ==
  \A i \in DOMAIN posted : posted[i].kind \in {"offer", "candidate"} =>
    /\ posted[i].session \in Sessions /\ posted[i].session < nextSession
    /\ posted[i].client = owner[posted[i].session]

\* What the active client was sent is of a session of its own.
ReceivedNamed == \A m \in received : m[2] < nextSession /\ owner[m[2]] = client

\* Notices are of sessions that began.
NoticesNamed == \A s \in Sessions : notice[s] # NoNotice => s < nextSession

\* The session's client was sent its offer, and answered.
Answered ==
  /\ peer.offerSent
  /\ client = peer.replyTo => <<"offer", peer.session>> \in received /\ "answer" \in told

\* How far the negotiation is follows from what was sent and received.
Negotiated ==
  /\ told # {} => received # {}
  /\ peer.link # "new" /\ client = peer.replyTo => "answer" \in told
  /\ \A cb \in callbacks :
       cb.kind = "remote" /\ cb.session = peer.session => Answered
  /\ peer.mediaStarted => peer.remoteApplied /\ Answered

\* Candidates of the session's client wait, or were applied.
CandidatesKept ==
  /\ peer.pendingIce \cup peer.applied \subseteq {peer.replyTo}
  /\ peer.remoteApplied => peer.pendingIce = {}
  /\ "candidate" \in told /\ client = peer.replyTo =>
       client \in peer.pendingIce \cup peer.applied

\* The offer is created once, before anything is answered.
OfferComesOnce ==
  \A cb \in callbacks : cb.kind = "offer" =>
    /\ cb.client = NoClient
    /\ cb.session = peer.session => peer.link = "new" /\ ~peer.offerSent
    /\ \A other \in callbacks : other.session = cb.session => other.kind # "local"

\* A notice that is out tells of the link as it is; otherwise the push flag does.
PushFollowsLink ==
  peer.session # NoSession =>
    IF notice[peer.session] = NoNotice
      THEN lateNotice \/ (pushEnabled <=> peer.link = "connected")
      ELSE notice[peer.session].state = peer.link

\* The inductive invariant.
IInv ==
  /\ TypeOK
  /\ ConnectionsInOrder /\ StartupsInOrder /\ SessionsInOrder
  /\ PeerIsNewest
  /\ CallbacksNamed /\ TasksNamed /\ ReceivedNamed /\ NoticesNamed
  /\ Negotiated /\ CandidatesKept
  /\ OfferComesOnce /\ PushFollowsLink
  /\ WatchdogGuardsNegotiation

-----------------------------------------------------------------------------
(* Lemmas                                                                  *)

\* A peer torn down is of the type of peers.
LEMMA TornDownIsPeer == TornDown \in Peers
BY DEF TornDown, Peers, SomeOrNoSession, NoSession, SomeClient, NoClient

\* The sequence t is s, with x behind it.
EndsWith(t, s, x) ==
  /\ \A i \in DOMAIN s : i \in DOMAIN t /\ t[i] = s[i]
  /\ \E n \in DOMAIN t :
       /\ t[n] = x
       /\ \A i \in DOMAIN t : i # n => i \in DOMAIN s /\ i < n

\* Append puts an element at the end.
LEMMA AppendEnds ==
  ASSUME NEW S, NEW s \in Seq(S), NEW x \in S, NEW t, t = Append(s, x)
  PROVE  t \in Seq(S) /\ EndsWith(t, s, x)
<1>1. /\ t \in Seq(S) /\ Len(s) \in Nat /\ DOMAIN s = 1..Len(s)
      /\ DOMAIN t = 1..(Len(s) + 1) /\ t[Len(s) + 1] = x
      /\ \A i \in 1..Len(s) : t[i] = s[i]
  OBVIOUS
<1>2. Len(s) + 1 \in DOMAIN t
      /\ \A i \in DOMAIN t : i # Len(s) + 1 => i \in DOMAIN s /\ i < Len(s) + 1
  BY <1>1
<1> QED BY <1>1, <1>2 DEF EndsWith

\* A queue from which the head went, or at whose end a task was put that starts up no
\* client, is as well-formed as before.
LEMMA QueueMoves ==
  ASSUME IInv,
         \/ posted' = posted
         \/ posted # <<>> /\ posted' = Tail(posted)
         \/ \E task \in Tasks :
              /\ posted' = Append(posted, task)
              /\ task.kind # "startup"
              /\ task.kind \in {"offer", "candidate"} =>
                   /\ task.session \in Sessions /\ task.session < nextSession
                   /\ task.client = owner[task.session],
         UNCHANGED <<nextSession, owner>>,
         \A c \in Clients : links'[c] = "none" <=> links[c] = "none"
  PROVE  posted' \in Seq(Tasks) /\ StartupsInOrder' /\ TasksNamed'
<1> USE DEF IInv
<1>1. posted \in Seq(Tasks) /\ Len(posted) \in Nat /\ DOMAIN posted = 1..Len(posted)
  BY DEF TypeOK
<1>2. CASE posted' = posted
  BY <1>1, <1>2 DEF StartupsInOrder, OlderSessions, TasksNamed
<1>3. CASE posted # <<>> /\ posted' = Tail(posted)
  <2>1. /\ posted' \in Seq(Tasks)
        /\ \A i \in DOMAIN posted' : i + 1 \in DOMAIN posted /\ posted'[i] = posted[i + 1]
    BY <1>1, <1>3, TailElement
  <2>2. \A i, j \in DOMAIN posted' : i < j => i + 1 < j + 1
    BY <2>1
  <2> QED BY <2>1, <2>2 DEF StartupsInOrder, OlderSessions, TasksNamed
<1>4. ASSUME NEW task \in Tasks, posted' = Append(posted, task), task.kind # "startup",
             task.kind \in {"offer", "candidate"} =>
               /\ task.session \in Sessions /\ task.session < nextSession
               /\ task.client = owner[task.session]
      PROVE  posted' \in Seq(Tasks) /\ StartupsInOrder' /\ TasksNamed'
  <2>1. posted' \in Seq(Tasks) /\ EndsWith(posted', posted, task)
    BY <1>1, <1>4, AppendEnds
  <2> QED BY <1>4, <2>1 DEF EndsWith, StartupsInOrder, OlderSessions, TasksNamed
<1> QED BY <1>2, <1>3, <1>4

\* No session began for anyone but the clients up to the active one.
LEMMA OwnersOpened ==
  ASSUME IInv, client # NoClient, NEW s \in Sessions, s < nextSession
  PROVE  owner[s] <= client
<1>1. owner[s] \in Clients /\ client \in Clients
  BY DEF IInv, TypeOK, SessionsInOrder, SomeClient
<1>2. owner[s] \in Nat /\ client \in Nat
  BY <1>1, MaxClientsAssumption DEF Clients
<1>3. links[owner[s]] # "none"
  BY <1>1, <1>2 DEF IInv, StartupsInOrder, OlderSessions
<1> QED BY <1>1, <1>2, <1>3 DEF IInv, ConnectionsInOrder

\* What the active client was sent is of the session there is, if there is one: a newer
\* session would be of a newer client.
LEMMA ReceivedOfSession ==
  ASSUME IInv, NEW m \in received, peer.session # NoSession
  PROVE  peer.session = m[2] /\ peer.replyTo = client
<1> USE DEF IInv
<1>1. m[2] \in Sessions /\ m[2] < nextSession /\ owner[m[2]] = client
  BY DEF TypeOK, ReceivedNamed
<1>2. /\ peer.session \in Sessions /\ peer.session + 1 = nextSession
      /\ peer.replyTo = owner[peer.session]
  BY DEF TypeOK, Peers, SomeOrNoSession, PeerIsNewest
<1>3. client \in Clients /\ client # NoClient
  BY <1>1, MaxClientsAssumption DEF SessionsInOrder, Clients, NoClient
<1>4. m[2] \in Nat /\ peer.session \in Nat /\ client \in Nat /\ owner[peer.session] \in Nat
  BY <1>1, <1>2, <1>3, MaxClientsAssumption DEF Sessions, Clients, SessionsInOrder
<1>5. m[2] <= peer.session /\ peer.session < nextSession
  BY <1>1, <1>2, <1>4 DEF TypeOK
<1>6. owner[peer.session] <= client
  BY <1>2, <1>3, <1>5, OwnersOpened
<1>7. m[2] = peer.session
  <2>1. m[2] < peer.session => owner[m[2]] < owner[peer.session]
    BY <1>1, <1>2, <1>5 DEF SessionsInOrder
  <2> QED BY <1>1, <1>4, <1>5, <1>6, <2>1
<1> QED BY <1>1, <1>2, <1>7

\* A session has a client to reply to.
LEMMA RepliesToClient ==
  ASSUME IInv, peer.session # NoSession
  PROVE  /\ peer.session \in Sessions /\ peer.session < nextSession
         /\ peer.replyTo = owner[peer.session]
         /\ peer.replyTo \in Clients /\ peer.replyTo # NoClient
BY MaxClientsAssumption DEF IInv, PeerIsNewest, SessionsInOrder, Clients, NoClient, TypeOK,
                            Peers, SomeOrNoSession, Sessions

\* Only with an active client has anything been said.
LEMMA SilentWithoutClient ==
  ASSUME IInv, client = NoClient
  PROVE  received = {} /\ told = {}
<1>1. ASSUME NEW m \in received PROVE FALSE
  <2>1. m[2] \in Sessions /\ owner[m[2]] = NoClient /\ owner[m[2]] \in Clients
    BY DEF IInv, TypeOK, ReceivedNamed, SessionsInOrder
  <2> QED BY <2>1, MaxClientsAssumption DEF Clients, NoClient
<1> QED BY <1>1 DEF IInv, Negotiated

\* Nothing of the negotiation survives a session.
LEMMA TornDownIsQuiet ==
  ASSUME IInv, peer' = TornDown, callbacks' \subseteq callbacks,
         client' = NoClient => told' = {},
         told' # {} => received' # {}
  PROVE  /\ peer' \in Peers /\ PeerIsNewest'
         /\ Negotiated' /\ CandidatesKept' /\ OfferComesOnce' /\ PushFollowsLink'
         /\ WatchdogGuardsNegotiation'
<1> USE DEF IInv
<1>1. /\ peer'.session = NoSession /\ peer'.replyTo = NoClient /\ peer'.link = "new"
      /\ ~peer'.offerSent /\ ~peer'.mediaStarted /\ ~peer'.remoteApplied
      /\ peer'.watchdog = NoSession /\ peer'.pendingIce = {} /\ peer'.applied = {}
  BY DEF TornDown
<1>2. \A cb \in callbacks' : cb.session \in Sessions /\ cb.session # peer'.session
  BY <1>1, MaxClientsAssumption DEF TypeOK, Callbacks, Sessions, NoSession
<1>3. PeerIsNewest' /\ peer' \in Peers
  BY <1>1, TornDownIsPeer DEF PeerIsNewest, TornDown, NoSession, NoClient
<1>4. Negotiated'
  BY <1>1, <1>2 DEF Negotiated
<1>5. CandidatesKept'
  BY <1>1 DEF CandidatesKept
<1>6. OfferComesOnce'
  BY <1>2 DEF OfferComesOnce
<1>7. PushFollowsLink' /\ WatchdogGuardsNegotiation'
  BY <1>1 DEF PushFollowsLink, WatchdogGuardsNegotiation
<1> QED BY <1>3, <1>4, <1>5, <1>6, <1>7

-----------------------------------------------------------------------------
(* The invariant                                                           *)

\* At first there is no client and no session.
LEMMA InitInvariant == Init => IInv
<1> SUFFICES ASSUME Init PROVE IInv
  OBVIOUS
<1> USE DEF Init, SignallingInit
<1>1. TypeOK
  <2>1. client \in SomeClient /\ owner \in [Sessions -> SomeClient]
    BY DEF SomeClient
  <2>2. notice \in [Sessions -> Notices]
    BY DEF Notices
  <2>3. links \in [Clients -> {"none", "open", "closing", "closed"}] /\ posted \in Seq(Tasks)
    OBVIOUS
  <2>4. nextSession \in Nat \ {0}
    OBVIOUS
  <2>5. /\ pushEnabled \in BOOLEAN /\ lateNotice \in BOOLEAN
        /\ callbacks \subseteq Callbacks /\ told \subseteq {"answer", "candidate"}
        /\ received \subseteq {"offer", "candidate"} \X Sessions
    BY Zenon
  <2> HIDE DEF Init, SignallingInit
  <2>6. peer \in Peers
    BY TornDownIsPeer DEF Init
  <2> QED BY <2>1, <2>2, <2>3, <2>4, <2>5, <2>6 DEF TypeOK
<1>2. ConnectionsInOrder /\ SessionsInOrder /\ PeerIsNewest
  BY MaxClientsAssumption DEF ConnectionsInOrder, SessionsInOrder, PeerIsNewest, Sessions,
                              TornDown
<1>3. StartupsInOrder
  BY MaxClientsAssumption DEF StartupsInOrder, OlderSessions, Sessions, Clients
<1>4. CallbacksNamed /\ TasksNamed /\ ReceivedNamed /\ NoticesNamed
  BY DEF CallbacksNamed, TasksNamed, ReceivedNamed, NoticesNamed
<1>5. Negotiated /\ CandidatesKept /\ OfferComesOnce /\ PushFollowsLink
  BY DEF Negotiated, CandidatesKept, OfferComesOnce, PushFollowsLink, TornDown
<1>6. WatchdogGuardsNegotiation
  BY DEF WatchdogGuardsNegotiation, TornDown
<1> QED BY <1>1, <1>2, <1>3, <1>4, <1>5, <1>6 DEF IInv

\* The newest client: it has sent and been sent nothing, and no session is its own.
LEMMA OpensPreserves ==
  ASSUME IInv, NEW c \in Clients, ClientOpens(c)
  PROVE  IInv'
<1> USE DEF IInv
<1>1. /\ links[c] = "none"
      /\ c > 1 => links[c - 1] # "none"
      /\ links' = [d \in Clients |->
           IF d = c THEN "open"
           ELSE IF d = client /\ links[d] = "open" THEN "closing" ELSE links[d]]
      /\ client' = c /\ posted' = Append(posted, Task("startup", c, 0))
      /\ received' = {} /\ told' = {}
      /\ UNCHANGED <<serverVars, threadVars, mediaVars, owner, lateNotice>>
  BY DEF ClientOpens, OnOpen
<1>2. c \in Nat /\ c # NoClient /\ \A d \in Clients : d \in Nat
  BY MaxClientsAssumption DEF Clients, NoClient
<1>3. \A d \in Clients : links'[d] = "none" <=> links[d] = "none" /\ d # c
  BY <1>1
<1>4. \A d \in Clients : IF d < c THEN links[d] # "none" ELSE links[d] = "none"
  <2>1. ASSUME NEW d \in Clients, d < c PROVE links[d] # "none"
    <3>1. c - 1 \in Clients /\ links[c - 1] # "none" /\ d <= c - 1
      BY <1>1, <1>2, <2>1, MaxClientsAssumption DEF Clients
    <3>2. d = c - 1 \/ d < c - 1
      BY <1>2, <3>1
    <3> QED BY <3>1, <3>2 DEF ConnectionsInOrder
  <2>2. ASSUME NEW d \in Clients, ~(d < c) PROVE links[d] = "none"
    <3>1. d = c \/ c < d
      BY <1>2, <2>2
    <3> QED BY <1>1, <3>1 DEF ConnectionsInOrder
  <2> QED BY <2>1, <2>2
<1>5. ConnectionsInOrder'
  <2>1. ASSUME NEW d \in Clients, NEW e \in Clients, d < e, links'[d] = "none"
        PROVE  links'[e] = "none"
    BY <1>2, <1>3, <1>4, <2>1
  <2>2. links'[client'] = "open" /\ \A d \in Clients : client' < d => links'[d] = "none"
    BY <1>1, <1>2, <1>3, <1>4
  <2> QED BY <2>1, <2>2 DEF ConnectionsInOrder
<1>6. Task("startup", c, 0) \in Tasks
  BY DEF Task, Tasks, SomeClient, SomeOrNoSession, NoSession
<1>7. posted' \in Seq(Tasks) /\ EndsWith(posted', posted, Task("startup", c, 0))
  BY <1>1, <1>6, AppendEnds DEF TypeOK
<1>8. StartupsInOrder'
  <2>1. PICK n \in DOMAIN posted' :
          /\ posted'[n] = Task("startup", c, 0)
          /\ \A i \in DOMAIN posted' : i # n =>
               i \in DOMAIN posted /\ i < n /\ posted'[i] = posted[i]
    BY <1>7 DEF EndsWith
  <2>2. ASSUME NEW i \in DOMAIN posted', posted'[i].kind = "startup"
        PROVE  /\ posted'[i].client \in Clients /\ links'[posted'[i].client] # "none"
               /\ OlderSessions(posted'[i].client)
               /\ \A j \in DOMAIN posted' : i < j /\ posted'[j].kind = "startup" =>
                    posted'[i].client < posted'[j].client
    <3>1. CASE i = n
      <4>1. posted'[i].client = c /\ OlderSessions(c)
        BY <1>1, <2>1, <3>1 DEF Task, StartupsInOrder
      <4>2. \A j \in DOMAIN posted' : ~(i < j)
        BY <1>7, <2>1, <3>1
      <4> QED BY <1>3, <4>1, <4>2
    <3>2. CASE i # n
      <4>1. i \in DOMAIN posted /\ posted'[i] = posted[i]
        BY <2>1, <3>2
      <4>2. /\ posted[i].client \in Clients /\ links[posted[i].client] # "none"
            /\ OlderSessions(posted[i].client)
            /\ \A j \in DOMAIN posted : i < j /\ posted[j].kind = "startup" =>
                 posted[i].client < posted[j].client
        BY <2>2, <4>1 DEF StartupsInOrder
      <4>3. posted[i].client < c
        BY <1>4, <4>2
      <4>4. ASSUME NEW j \in DOMAIN posted', i < j, posted'[j].kind = "startup"
            PROVE  posted'[i].client < posted'[j].client
        <5>1. CASE j = n
          BY <2>1, <4>1, <4>3, <5>1 DEF Task
        <5>2. CASE j # n
          BY <2>1, <4>1, <4>2, <4>4, <5>2
        <5> QED BY <5>1, <5>2
      <4> QED BY <1>1, <1>3, <4>1, <4>2, <4>3, <4>4
    <3> QED BY <3>1, <3>2
  <2>3. \A d \in Clients : links'[d] = "none" => OlderSessions(d)
    BY <1>3 DEF StartupsInOrder
  <2> QED BY <1>1, <2>2, <2>3 DEF StartupsInOrder, OlderSessions, serverVars
<1>9. TasksNamed'
  BY <1>1, <1>7 DEF TasksNamed, EndsWith, Task, serverVars
<1>10. TypeOK'
  <2>1. links' \in [Clients -> {"none", "open", "closing", "closed"}]
    BY <1>1 DEF TypeOK
  <2> QED BY <1>1, <1>7, <2>1 DEF TypeOK, SomeClient, serverVars, mediaVars
<1>11. peer.replyTo # c
  <2>1. CASE peer.session = NoSession
    BY <1>2, <2>1 DEF PeerIsNewest, TornDown
  <2>2. CASE peer.session # NoSession
    <3>1. peer.session \in Sessions /\ peer.session < nextSession
      BY <2>2 DEF TypeOK, Peers, SomeOrNoSession, PeerIsNewest, Sessions
    <3>2. owner[peer.session] \in Clients /\ owner[peer.session] < c
      BY <1>1, <3>1 DEF StartupsInOrder, OlderSessions, SessionsInOrder
    <3> QED BY <1>2, <2>2, <3>2 DEF PeerIsNewest
  <2> QED BY <2>1, <2>2
<1>12. SessionsInOrder' /\ PeerIsNewest' /\ CallbacksNamed' /\ ReceivedNamed' /\ NoticesNamed'
  BY <1>1 DEF SessionsInOrder, PeerIsNewest, CallbacksNamed, ReceivedNamed, NoticesNamed,
              serverVars, mediaVars
<1>13. Negotiated' /\ CandidatesKept' /\ OfferComesOnce' /\ PushFollowsLink'
  BY <1>1, <1>11 DEF Negotiated, Answered, CandidatesKept, OfferComesOnce, PushFollowsLink,
                     serverVars, mediaVars
<1>14. WatchdogGuardsNegotiation'
  BY <1>1, <1>11 DEF WatchdogGuardsNegotiation, serverVars
<1> QED BY <1>5, <1>8, <1>9, <1>10, <1>12, <1>13, <1>14

\* A client that leaves is inactive or takes its session along.
LEMMA ClosesPreserves ==
  ASSUME IInv, NEW c \in Clients, ClientCloses(c)
  PROVE  IInv'
<1> USE DEF IInv
<1>1. /\ links[c] \in {"open", "closing"}
      /\ links' = [links EXCEPT ![c] = "closed"]
      /\ client' = IF client = c THEN NoClient ELSE client
      /\ UNCHANGED <<posted, nextSession, callbacks, notice, owner>>
  BY DEF ClientCloses, OnClose, mediaVars
<1>2. \A d \in Clients : links'[d] = "none" <=> links[d] = "none"
  BY <1>1 DEF TypeOK
<1>3. posted' \in Seq(Tasks) /\ StartupsInOrder' /\ TasksNamed'
  BY <1>1, <1>2, QueueMoves
<1>4. ConnectionsInOrder'
  BY <1>1, <1>2 DEF ConnectionsInOrder, TypeOK
<1>5. SessionsInOrder' /\ CallbacksNamed' /\ NoticesNamed'
  BY <1>1 DEF SessionsInOrder, CallbacksNamed, NoticesNamed
<1>6. CASE client = c
  <2>1. TearDown /\ received' = {} /\ told' = {}
    BY <1>6 DEF ClientCloses
  <2>2. /\ peer' \in Peers /\ PeerIsNewest'
        /\ Negotiated' /\ CandidatesKept' /\ OfferComesOnce' /\ PushFollowsLink'
        /\ WatchdogGuardsNegotiation'
    BY <1>1, <2>1, TornDownIsQuiet DEF TearDown
  <2>3. TypeOK'
    BY <1>1, <1>3, <2>1, <2>2 DEF TypeOK, TearDown, SomeClient
  <2>4. ReceivedNamed'
    BY <2>1 DEF ReceivedNamed
  <2> QED BY <1>3, <1>4, <1>5, <2>2, <2>3, <2>4
<1>7. CASE client # c
  <2>1. client' = client /\ UNCHANGED <<peer, pushEnabled, lateNotice, received, told>>
    BY <1>1, <1>7 DEF ClientCloses, NothingTornDown, clientVars
  <2>2. UNCHANGED threadVars
    BY DEF ClientCloses
  <2>3. TypeOK'
    BY <1>1, <1>3, <2>1 DEF TypeOK
  <2>4. PeerIsNewest' /\ ReceivedNamed' /\ Negotiated' /\ CandidatesKept' /\ OfferComesOnce'
        /\ PushFollowsLink'
    BY <1>1, <2>1 DEF PeerIsNewest, ReceivedNamed, Negotiated, Answered, CandidatesKept,
                      OfferComesOnce, PushFollowsLink
  <2>5. links'[client] = links[client]
    BY <1>1, <1>7 DEF TypeOK
  <2>6. WatchdogGuardsNegotiation'
    BY <1>1, <2>1, <2>2, <2>5 DEF WatchdogGuardsNegotiation, Running, threadVars
  <2> QED BY <1>3, <1>4, <1>5, <2>3, <2>4, <2>6
<1> QED BY <1>6, <1>7

\* What a step of the queue leaves of the rest: nothing of it is about connections or posts.
LEMMA QueueStepPreserves ==
  ASSUME IInv,
         posted' \in Seq(Tasks), StartupsInOrder', TasksNamed', WatchdogGuardsNegotiation',
         links' \in [Clients -> {"none", "open", "closing", "closed"}],
         \A c \in Clients : links'[c] = "none" <=> links[c] = "none",
         client # NoClient => links'[client] \in {"open", "closing"},
         received' \in SUBSET ({"offer", "candidate"} \X Sessions),
         received \subseteq received', ReceivedNamed',
         UNCHANGED <<client, peer, nextSession, pushEnabled, callbacks, notice, told, owner,
                     lateNotice>>
  PROVE  IInv'
<1> USE DEF IInv
<1>1. TypeOK'
  BY DEF TypeOK
<1>2. ConnectionsInOrder' /\ SessionsInOrder' /\ PeerIsNewest' /\ CallbacksNamed' /\ NoticesNamed'
  BY DEF ConnectionsInOrder, SessionsInOrder, PeerIsNewest, CallbacksNamed, NoticesNamed
<1>3. Negotiated'
  BY DEF Negotiated, Answered
<1>4. CandidatesKept' /\ OfferComesOnce' /\ PushFollowsLink'
  BY DEF CandidatesKept, OfferComesOnce, PushFollowsLink
<1> QED BY <1>1, <1>2, <1>3, <1>4

\* The close of a client that is still the active one begins.
LEMMA ClosePreserves ==
  ASSUME IInv, CloseTask
  PROVE  IInv'
<1> USE DEF IInv
<1> DEFINE c == Head(posted).client
<1>1. /\ posted # <<>> /\ Head(posted).kind = "close" /\ posted' = Tail(posted)
      /\ links' = [links EXCEPT ![c] = IF client = c /\ @ = "open" THEN "closing" ELSE @]
      /\ UNCHANGED <<client, serverVars, threadVars, mediaVars, clientVars, historyVars>>
  BY DEF CloseTask, RunClose, IsNext
<1>2. \A d \in Clients : links'[d] =
        IF d = c /\ client = c /\ links[d] = "open" THEN "closing" ELSE links[d]
  BY <1>1 DEF TypeOK
<1>3. posted' \in Seq(Tasks) /\ StartupsInOrder' /\ TasksNamed'
  BY <1>1, <1>2, QueueMoves DEF serverVars, historyVars
<1>4. WatchdogGuardsNegotiation'
  <2>1. CASE \E i \in DOMAIN posted : posted[i].kind = "close" /\ posted[i].client = client
    <3>1. PICK i \in DOMAIN posted : posted[i].kind = "close" /\ posted[i].client = client
      BY <2>1
    <3>2. CASE i = 1
      <4>1. c = client
        BY <1>1, <3>1, <3>2, TailElement DEF TypeOK
      <4>2. client # NoClient => client \in Clients /\ links'[client] = "closing"
        BY <1>2, <4>1 DEF ConnectionsInOrder, TypeOK, SomeClient
      <4>3. client = NoClient =>
              peer.session = NoSession \/ client # peer.replyTo
        BY RepliesToClient
      <4> QED BY <1>1, <4>2, <4>3 DEF WatchdogGuardsNegotiation, serverVars
    <3>3. CASE i # 1
      <4>1. i - 1 \in DOMAIN posted' /\ posted'[i - 1] = posted[i]
        BY <1>1, <3>3, TailElement DEF TypeOK
      <4> QED BY <1>1, <3>1, <4>1 DEF WatchdogGuardsNegotiation, serverVars
    <3> QED BY <3>2, <3>3
  <2>2. CASE ~\E i \in DOMAIN posted : posted[i].kind = "close" /\ posted[i].client = client
    <3>1. links[client] = "closing" => client = NoClient \/ links'[client] = "closing"
      BY <1>2 DEF TypeOK, SomeClient
    <3>2. client = NoClient =>
            peer.session = NoSession \/ client # peer.replyTo
      BY RepliesToClient
    <3> QED BY <1>1, <2>2, <3>1, <3>2 DEF WatchdogGuardsNegotiation, Running, serverVars,
                                          threadVars
  <2> QED BY <2>1, <2>2
<1>5. /\ links' \in [Clients -> {"none", "open", "closing", "closed"}]
      /\ \A d \in Clients : links'[d] = "none" <=> links[d] = "none"
      /\ client # NoClient => links'[client] \in {"open", "closing"}
  BY <1>1, <1>2 DEF TypeOK, ConnectionsInOrder, SomeClient
<1>6. ReceivedNamed' /\ received' \in SUBSET ({"offer", "candidate"} \X Sessions)
  BY <1>1 DEF ReceivedNamed, TypeOK, clientVars, serverVars, historyVars
<1> QED BY <1>1, <1>3, <1>4, <1>5, <1>6, QueueStepPreserves
           DEF serverVars, mediaVars, clientVars, historyVars

\* A send that reaches the active client is of that client's session.
LEMMA SendPreserves ==
  ASSUME IInv, SendTask
  PROVE  IInv'
<1> USE DEF IInv
<1> DEFINE task == Head(posted)
<1>1. /\ posted # <<>> /\ task.kind \in {"offer", "candidate"} /\ posted' = Tail(posted)
      /\ received' = IF task.client = client THEN received \cup {<<task.kind, task.session>>}
                     ELSE received
      /\ UNCHANGED <<links, client, serverVars, threadVars, mediaVars, told, historyVars>>
  BY DEF SendTask, IsNext
<1>2. posted' \in Seq(Tasks) /\ StartupsInOrder' /\ TasksNamed'
  BY <1>1, QueueMoves DEF serverVars, historyVars
<1>3. /\ task.session \in Sessions /\ task.session < nextSession
      /\ task.client = owner[task.session]
  <2>1. 1 \in DOMAIN posted /\ task = posted[1]
    BY <1>1, TailElement DEF TypeOK
  <2> HIDE DEF task
  <2>2. posted[1].kind \in {"offer", "candidate"}
    BY <1>1, <2>1
  <2>3. /\ posted[1].session \in Sessions /\ posted[1].session < nextSession
        /\ posted[1].client = owner[posted[1].session]
    BY <2>1, <2>2 DEF TasksNamed
  <2> QED BY <2>1, <2>3
<1> HIDE DEF task
<1>4. /\ received' \in SUBSET ({"offer", "candidate"} \X Sessions) /\ received \subseteq received'
      /\ ReceivedNamed'
  <2>1. <<task.kind, task.session>> \in {"offer", "candidate"} \X Sessions
    BY <1>1, <1>3
  <2>2. received' \in SUBSET ({"offer", "candidate"} \X Sessions) /\ received \subseteq received'
    BY <1>1, <2>1 DEF TypeOK
  <2>3. ASSUME NEW m \in received' PROVE m[2] < nextSession /\ owner[m[2]] = client
    <3>1. CASE m \in received
      BY <3>1 DEF ReceivedNamed
    <3>2. CASE m = <<task.kind, task.session>> /\ task.client = client
      BY <1>3, <3>2
    <3> QED BY <1>1, <3>1, <3>2
  <2> QED BY <1>1, <2>2, <2>3 DEF ReceivedNamed, serverVars, historyVars
<1>5. WatchdogGuardsNegotiation'
  <2>1. ASSUME NEW i \in DOMAIN posted, posted[i].kind = "close"
        PROVE  i - 1 \in DOMAIN posted' /\ posted'[i - 1] = posted[i]
    <3>1. i # 1
      BY <1>1, <2>1, TailElement DEF TypeOK, task
    <3> QED BY <1>1, <3>1, TailElement DEF TypeOK
  <2> QED BY <1>1, <2>1 DEF WatchdogGuardsNegotiation, Running, serverVars, threadVars
<1> QED BY <1>1, <1>2, <1>4, <1>5, QueueStepPreserves
           DEF serverVars, mediaVars, historyVars, TypeOK, ConnectionsInOrder

\* A session begins for the client that starts up: nothing was sent to it, and whatever
\* is on its way is of an older session.
LEMMA StartupPreserves ==
  ASSUME IInv, StartupTask
  PROVE  IInv'
<1> USE DEF IInv
<1>1. /\ posted # <<>> /\ Head(posted).kind = "startup" /\ posted' = Tail(posted)
      /\ UNCHANGED <<links, client, threadVars, notice, clientVars, openedLate>>
  BY DEF StartupTask, IsNext
<1>2. CASE Head(posted).client # client
  <2>1. UNCHANGED <<serverVars, callbacks, owner, lateNotice>>
    BY <1>2 DEF StartupTask
  <2>2. posted' \in Seq(Tasks) /\ StartupsInOrder' /\ TasksNamed'
    BY <1>1, <2>1, QueueMoves DEF serverVars
  <2>3. ReceivedNamed' /\ received' \in SUBSET ({"offer", "candidate"} \X Sessions)
    BY <1>1, <2>1 DEF ReceivedNamed, TypeOK, clientVars, serverVars
  <2>4. WatchdogGuardsNegotiation'
    <3>1. ASSUME NEW i \in DOMAIN posted, posted[i].kind = "close"
          PROVE  i - 1 \in DOMAIN posted' /\ posted'[i - 1] = posted[i]
      <4>1. i # 1
        BY <1>1, <3>1, TailElement DEF TypeOK
      <4> QED BY <1>1, <4>1, TailElement DEF TypeOK
    <3> QED BY <1>1, <2>1, <3>1 DEF WatchdogGuardsNegotiation, Running, serverVars, threadVars
  <2> QED BY <1>1, <2>1, <2>2, <2>3, <2>4, QueueStepPreserves
             DEF serverVars, clientVars, TypeOK, ConnectionsInOrder
<1>3. CASE Head(posted).client = client
  <2>1. /\ peer' \in SessionsBuilt /\ nextSession' = nextSession + 1 /\ pushEnabled' = FALSE
        /\ callbacks' = IF peer' = TornDown THEN callbacks
                        ELSE callbacks \cup {Callback("offer", nextSession, NoClient)}
        /\ owner' = [owner EXCEPT ![nextSession] = client] /\ lateNotice' = FALSE
    BY <1>3 DEF StartupTask, OnClientConnected
  <2>2. 1 \in DOMAIN posted /\ posted[1].kind = "startup" /\ posted[1].client = client
    BY <1>1, <1>3, TailElement DEF TypeOK
  <2>3. /\ client \in Clients /\ client # NoClient /\ OlderSessions(client)
        /\ \A j \in DOMAIN posted : 1 < j /\ posted[j].kind = "startup" =>
             client < posted[j].client
    BY <2>2, MaxClientsAssumption DEF StartupsInOrder, Clients, NoClient
  <2>4. nextSession \in Sessions /\ nextSession # NoSession
    BY <2>3, MaxClientsAssumption DEF OlderSessions, Clients, Sessions, NoSession, TypeOK
  <2>5. received = {} /\ told = {} /\ received' = {} /\ told' = {}
    <3>1. ASSUME NEW m \in received PROVE FALSE
      <4>1. m[2] \in Sessions /\ owner[m[2]] = client /\ owner[m[2]] < client
        BY <2>3 DEF TypeOK, ReceivedNamed, OlderSessions
      <4> QED BY <2>3, <4>1, MaxClientsAssumption DEF Clients
    <3> QED BY <1>1, <3>1 DEF Negotiated, clientVars
  <2>6. /\ owner'[nextSession] = client
        /\ \A s \in Sessions : s < nextSession => owner'[s] = owner[s]
        /\ \A s \in Sessions : s < nextSession' => s = nextSession \/ s < nextSession
        /\ \A s \in Sessions : s < nextSession => s < nextSession'
    BY <2>1, <2>4, MaxClientsAssumption DEF TypeOK, Sessions
  <2>7. ASSUME NEW d \in Clients, client < d, OlderSessions(d)
        PROVE  nextSession' <= d /\ \A s \in Sessions : s < nextSession' => owner'[s] < d
    <3>1. nextSession <= client /\ client \in Nat /\ d \in Nat
      BY <2>3, MaxClientsAssumption DEF OlderSessions, Clients
    <3>2. nextSession' <= d
      BY <2>1, <2>7, <3>1 DEF TypeOK
    <3>3. \A s \in Sessions : s < nextSession => owner[s] < d
      BY <2>7 DEF OlderSessions
    <3> QED BY <2>6, <2>7, <3>2, <3>3
  <2>8. /\ posted' \in Seq(Tasks)
        /\ \A i \in DOMAIN posted' : i + 1 \in DOMAIN posted /\ posted'[i] = posted[i + 1]
    BY <1>1, TailElement DEF TypeOK
  <2>9. DOMAIN posted \subseteq Nat /\ \A i \in DOMAIN posted' : i \in Nat \ {0}
    BY <2>8 DEF TypeOK
  <2>10. StartupsInOrder'
    <3>1. ASSUME NEW d \in Clients, links'[d] = "none"
          PROVE  nextSession' <= d /\ \A s \in Sessions : s < nextSession' => owner'[s] < d
      <4>1. links[d] = "none" /\ OlderSessions(d)
        BY <1>1, <3>1 DEF StartupsInOrder
      <4>2. d \in Nat /\ client \in Nat /\ d # client
        BY <2>3, <4>1, MaxClientsAssumption DEF Clients, ConnectionsInOrder
      <4>3. client < d
        BY <2>3, <4>1, <4>2 DEF ConnectionsInOrder
      <4> QED BY <2>7, <4>1, <4>3
    <3>2. ASSUME NEW i \in DOMAIN posted', posted'[i].kind = "startup"
          PROVE  /\ posted'[i].client \in Clients /\ links'[posted'[i].client] # "none"
                 /\ nextSession' <= posted'[i].client
                 /\ \A s \in Sessions : s < nextSession' => owner'[s] < posted'[i].client
                 /\ \A j \in DOMAIN posted' : i < j /\ posted'[j].kind = "startup" =>
                      posted'[i].client < posted'[j].client
      <4>1. i + 1 \in DOMAIN posted /\ posted[i + 1] = posted'[i] /\ 1 < i + 1
        BY <2>8, <2>9
      <4>2. /\ posted[i + 1].client \in Clients /\ links[posted[i + 1].client] # "none"
            /\ OlderSessions(posted[i + 1].client)
            /\ \A j \in DOMAIN posted : i + 1 < j /\ posted[j].kind = "startup" =>
                 posted[i + 1].client < posted[j].client
        BY <3>2, <4>1 DEF StartupsInOrder
      <4>3. client < posted[i + 1].client
        BY <2>3, <3>2, <4>1
      <4>4. ASSUME NEW j \in DOMAIN posted', i < j, posted'[j].kind = "startup"
            PROVE  posted'[i].client < posted'[j].client
        <5>1. j + 1 \in DOMAIN posted /\ posted[j + 1] = posted'[j] /\ i + 1 < j + 1
          BY <2>8, <2>9, <4>4
        <5> QED BY <4>1, <4>2, <4>4, <5>1
      <4>5. /\ nextSession' <= posted[i + 1].client
            /\ \A s \in Sessions : s < nextSession' => owner'[s] < posted[i + 1].client
        BY <2>7, <4>2, <4>3
      <4> QED BY <1>1, <4>1, <4>2, <4>4, <4>5
    <3> QED BY <3>1, <3>2 DEF StartupsInOrder, OlderSessions
  <2>11. TasksNamed'
    BY <2>6, <2>8 DEF TasksNamed
  <2>12. ConnectionsInOrder' /\ ReceivedNamed'
    BY <1>1, <2>5 DEF ConnectionsInOrder, ReceivedNamed
  <2>13. SessionsInOrder'
    <3>1. \A s \in Sessions : s < nextSession => owner[s] < client /\ owner[s] \in Clients
      BY <2>3 DEF OlderSessions, SessionsInOrder
    <3>2. \A s \in Sessions : s < nextSession' => owner'[s] \in Clients
      BY <2>3, <2>6, <3>1
    <3>3. ASSUME NEW s \in Sessions, NEW u \in Sessions, s < u, u < nextSession'
          PROVE  owner'[s] < owner'[u]
      <4>1. s < nextSession
        <5>1. s \in Nat /\ u \in Nat
          BY MaxClientsAssumption DEF Sessions
        <5> QED BY <2>1, <3>3, <5>1 DEF TypeOK
      <4>2. CASE u = nextSession
        BY <2>6, <3>1, <4>1, <4>2
      <4>3. CASE u # nextSession
        BY <2>6, <3>3, <4>1, <4>3 DEF SessionsInOrder
      <4> QED BY <4>2, <4>3
    <3> QED BY <3>2, <3>3 DEF SessionsInOrder
  <2>14. /\ callbacks' \subseteq Callbacks
         /\ \A cb \in callbacks' :
              cb \in callbacks \/ cb = Callback("offer", nextSession, NoClient)
    <3>1. Callback("offer", nextSession, NoClient) \in Callbacks
      BY <2>4 DEF Callbacks, Callback, SomeClient
    <3>2. callbacks' \subseteq callbacks \cup {Callback("offer", nextSession, NoClient)}
      BY <2>1
    <3> QED BY <3>1, <3>2 DEF TypeOK
  <2>15. CallbacksNamed'
    <3>1. nextSession < nextSession'
      BY <2>1 DEF TypeOK
    <3>2. \A cb \in callbacks : cb.session \in Sessions
      BY DEF TypeOK, Callbacks
    <3> QED BY <2>6, <2>14, <3>1, <3>2 DEF CallbacksNamed, Callback
  <2>16. NoticesNamed' /\ notice[nextSession] = NoNotice
    <3>1. ~(nextSession < nextSession)
      BY DEF TypeOK
    <3>2. notice' = notice
      BY <1>1
    <3>3. notice[nextSession] = NoNotice
      BY <2>4, <3>1 DEF NoticesNamed
    <3>4. \A s \in Sessions : notice[s] # NoNotice => s < nextSession'
      BY <2>6 DEF NoticesNamed
    <3> QED BY <3>2, <3>3, <3>4 DEF NoticesNamed
  <2>17. owner' \in [Sessions -> SomeClient] /\ nextSession' \in Nat \ {0}
    <3>1. client \in SomeClient /\ owner \in [Sessions -> SomeClient]
      BY DEF TypeOK
    <3>2. owner' \in [Sessions -> SomeClient]
      BY <2>1, <3>1
    <3>3. nextSession' \in Nat \ {0}
      BY <2>1 DEF TypeOK
    <3> QED BY <3>2, <3>3
  <2>18. CASE peer' = TornDown
    <3>1. /\ peer' \in Peers /\ PeerIsNewest'
          /\ Negotiated' /\ CandidatesKept' /\ OfferComesOnce' /\ PushFollowsLink'
          /\ WatchdogGuardsNegotiation'
      BY <2>1, <2>5, <2>18, TornDownIsQuiet
    <3>2. TypeOK'
      BY <1>1, <2>1, <2>5, <2>8, <2>14, <2>17, <3>1 DEF TypeOK
    <3> QED BY <2>10, <2>11, <2>12, <2>13, <2>15, <2>16, <3>1, <3>2
  <2>19. CASE peer' # TornDown
    <3>1. peer' = [TornDown EXCEPT !.session = nextSession, !.replyTo = client,
                                   !.watchdog = nextSession]
      BY <2>1, <2>19 DEF SessionsBuilt
    <3>2. /\ peer' \in Peers
          /\ peer'.session = nextSession /\ peer'.replyTo = client
          /\ peer'.watchdog = nextSession /\ peer'.link = "new"
          /\ ~peer'.offerSent /\ ~peer'.mediaStarted /\ ~peer'.remoteApplied
          /\ peer'.pendingIce = {} /\ peer'.applied = {}
      BY <2>3, <2>4, <3>1, TornDownIsPeer DEF TornDown, Peers, SomeClient, SomeOrNoSession
    <3>3. \A cb \in callbacks : cb.session # nextSession
      <4>1. ~(nextSession < nextSession)
        BY DEF TypeOK
      <4> QED BY <4>1 DEF CallbacksNamed
    <3>4. TypeOK'
      BY <1>1, <2>1, <2>5, <2>8, <2>14, <2>17, <3>2 DEF TypeOK
    <3>5. PeerIsNewest'
      BY <2>1, <2>4, <2>6, <3>2 DEF PeerIsNewest
    <3>6. Negotiated' /\ CandidatesKept'
      BY <2>5, <2>14, <3>2, <3>3 DEF Negotiated, CandidatesKept, Callback
    <3>7. OfferComesOnce'
      <4>1. callbacks' = callbacks \cup {Callback("offer", nextSession, NoClient)}
        BY <2>1, <2>19
      <4> QED BY <3>2, <3>3, <4>1 DEF OfferComesOnce, Callback
    <3>8. PushFollowsLink' /\ WatchdogGuardsNegotiation'
      BY <1>1, <2>1, <2>16, <3>2 DEF PushFollowsLink, WatchdogGuardsNegotiation
    <3> QED BY <2>10, <2>11, <2>12, <2>13, <2>15, <2>16, <3>4, <3>5, <3>6, <3>7, <3>8
  <2> QED BY <2>18, <2>19
<1> QED BY <1>2, <1>3

\* Steps at which no client comes or goes and no session begins.
LEMMA OrderKept ==
  ASSUME IInv,
         \/ posted' = posted
         \/ \E task \in Tasks :
              /\ posted' = Append(posted, task)
              /\ task.kind # "startup"
              /\ task.kind \in {"offer", "candidate"} =>
                   /\ task.session \in Sessions /\ task.session < nextSession
                   /\ task.client = owner[task.session],
         UNCHANGED <<links, client, nextSession, owner>>
  PROVE  /\ posted' \in Seq(Tasks)
         /\ ConnectionsInOrder' /\ StartupsInOrder' /\ SessionsInOrder' /\ TasksNamed'
<1>1. posted' \in Seq(Tasks) /\ StartupsInOrder' /\ TasksNamed'
  BY QueueMoves
<1>2. ConnectionsInOrder' /\ SessionsInOrder'
  BY DEF IInv, ConnectionsInOrder, SessionsInOrder
<1> QED BY <1>1, <1>2

\* An answer is of the client that was sent the offer of the session there is.
LEMMA AnswerPreserves ==
  ASSUME IInv, OnAnswer
  PROVE  IInv'
<1> USE DEF IInv
<1>1. /\ "answer" \notin told /\ told' = told \cup {"answer"}
      /\ UNCHANGED <<signallingVars, nextSession, pushEnabled, threadVars, notice, received,
                     historyVars>>
  BY DEF OnAnswer
<1>2. PICK s \in Sessions : <<"offer", s>> \in received
  BY DEF OnAnswer
<1>3. /\ posted' \in Seq(Tasks)
      /\ ConnectionsInOrder' /\ StartupsInOrder' /\ SessionsInOrder' /\ TasksNamed'
      /\ ReceivedNamed' /\ NoticesNamed'
  BY <1>1, OrderKept DEF ReceivedNamed, NoticesNamed, signallingVars, historyVars
<1>4. CASE UNCHANGED <<peer, callbacks>>
  <2>1. TypeOK'
    BY <1>1, <1>3, <1>4 DEF TypeOK, signallingVars, historyVars
  <2>2. PeerIsNewest' /\ CallbacksNamed' /\ CandidatesKept' /\ OfferComesOnce' /\ PushFollowsLink'
    BY <1>1, <1>4 DEF PeerIsNewest, CallbacksNamed, CandidatesKept, OfferComesOnce,
                      PushFollowsLink, signallingVars, historyVars
  <2>3. Negotiated'
    BY <1>1, <1>2, <1>4 DEF Negotiated, Answered, signallingVars
  <2>4. WatchdogGuardsNegotiation'
    BY <1>1, <1>4 DEF WatchdogGuardsNegotiation, Running, signallingVars, threadVars
  <2> QED BY <1>3, <2>1, <2>2, <2>3, <2>4
<1>5. CASE /\ peer.session # NoSession /\ peer.offerSent
           /\ ApplyRemoteDescription(peer.session)
  <2>1. peer.session = s /\ peer.replyTo = client /\ peer.session < nextSession
    BY <1>2, <1>5, ReceivedOfSession, RepliesToClient
  <2>2. peer.link = "new"
    BY <1>1, <2>1 DEF Negotiated
  <2>3. PICK state \in {"new", "described"} :
          /\ peer' = [peer EXCEPT !.watchdog = peer.session, !.link = state]
          /\ callbacks' \subseteq callbacks \cup {Callback("remote", peer.session, NoClient)}
    <3>1. CASE /\ peer' = [peer EXCEPT !.watchdog = peer.session, !.link = "described"]
               /\ callbacks' = callbacks \cup {Callback("remote", peer.session, NoClient)}
      BY <3>1
    <3>2. CASE peer' = [peer EXCEPT !.watchdog = peer.session] /\ callbacks' = callbacks
      <4>1. [peer EXCEPT !.watchdog = peer.session]
              = [peer EXCEPT !.watchdog = peer.session, !.link = "new"]
        BY <2>2 DEF TypeOK, Peers
      <4> QED BY <3>2, <4>1
    <3> QED BY <1>5, <3>1, <3>2 DEF ApplyRemoteDescription
  <2>4. /\ peer' \in Peers /\ peer'.link = state /\ peer'.watchdog = peer.session
        /\ peer'.session = peer.session /\ peer'.replyTo = peer.replyTo
        /\ peer'.offerSent = peer.offerSent /\ peer'.remoteApplied = peer.remoteApplied
        /\ peer'.mediaStarted = peer.mediaStarted
        /\ peer'.pendingIce = peer.pendingIce /\ peer'.applied = peer.applied
    BY <2>3 DEF TypeOK, Peers
  <2>5. Callback("remote", peer.session, NoClient) \in Callbacks
    BY <2>1 DEF Callbacks, Callback, SomeClient
  <2>6. TypeOK'
    <3>1. callbacks' \subseteq Callbacks /\ told' \subseteq {"answer", "candidate"}
      BY <1>1, <2>3, <2>5 DEF TypeOK
    <3> QED BY <1>1, <1>3, <2>4, <3>1 DEF TypeOK, signallingVars, historyVars
  <2>7. PeerIsNewest' /\ CandidatesKept'
    BY <1>1, <1>5, <2>4 DEF PeerIsNewest, CandidatesKept, signallingVars, historyVars
  <2>8. CallbacksNamed'
    BY <1>1, <2>1, <2>3 DEF CallbacksNamed, Callback, historyVars
  <2>9. Negotiated'
    BY <1>1, <1>2, <1>5, <2>1, <2>3, <2>4 DEF Negotiated, Answered, Callback, signallingVars
  <2>10. OfferComesOnce'
    BY <1>5, <2>3, <2>4 DEF OfferComesOnce, Callback
  <2>11. PushFollowsLink'
    <3>1. peer.session \in Sessions /\ notice[peer.session] \in Notices
      BY <2>1 DEF TypeOK
    <3>2. notice[peer.session] = NoNotice
      BY <1>5, <2>2, <3>1 DEF PushFollowsLink, Notices
    <3> QED BY <1>1, <1>5, <2>2, <2>4, <3>2 DEF PushFollowsLink, historyVars
  <2>12. WatchdogGuardsNegotiation'
    BY <2>4 DEF WatchdogGuardsNegotiation
  <2> QED BY <1>3, <2>6, <2>7, <2>8, <2>9, <2>10, <2>11, <2>12
<1> QED BY <1>4, <1>5 DEF OnAnswer

\* A candidate is of the client of the session there is.
LEMMA CandidatePreserves ==
  ASSUME IInv, OnIceFromClient
  PROVE  IInv'
<1> USE DEF IInv
<1>1. /\ received # {} /\ told' = told \cup {"candidate"}
      /\ peer' = IF peer.session = NoSession THEN peer
                 ELSE IF peer.remoteApplied THEN [peer EXCEPT !.applied = @ \cup {client}]
                 ELSE [peer EXCEPT !.pendingIce = @ \cup {client}]
      /\ UNCHANGED <<signallingVars, nextSession, pushEnabled, threadVars, mediaVars, received,
                     historyVars>>
  BY DEF OnIceFromClient
<1>2. /\ posted' \in Seq(Tasks)
      /\ ConnectionsInOrder' /\ StartupsInOrder' /\ SessionsInOrder' /\ TasksNamed'
      /\ CallbacksNamed' /\ ReceivedNamed' /\ NoticesNamed'
  BY <1>1, OrderKept DEF CallbacksNamed, ReceivedNamed, NoticesNamed, signallingVars,
                         mediaVars, historyVars
<1>3. client \in SomeClient /\ client # NoClient
  BY <1>1, SilentWithoutClient DEF TypeOK
<1>4. peer.session # NoSession => peer.replyTo = client
  BY <1>1, ReceivedOfSession
<1>5. /\ peer' \in Peers /\ peer'.link = peer.link /\ peer'.watchdog = peer.watchdog
      /\ peer'.session = peer.session /\ peer'.replyTo = peer.replyTo
      /\ peer'.offerSent = peer.offerSent /\ peer'.remoteApplied = peer.remoteApplied
      /\ peer'.mediaStarted = peer.mediaStarted
  BY <1>1, <1>3 DEF TypeOK, Peers
<1>6. TypeOK'
  BY <1>1, <1>2, <1>5 DEF TypeOK, signallingVars, mediaVars, historyVars
<1>7. PeerIsNewest'
  BY <1>1, <1>5 DEF PeerIsNewest, historyVars
<1>8. Negotiated' /\ OfferComesOnce' /\ PushFollowsLink'
  BY <1>1, <1>5 DEF Negotiated, Answered, OfferComesOnce, PushFollowsLink, signallingVars,
                    mediaVars, historyVars
<1>9. CandidatesKept'
  <2>1. CASE peer.session = NoSession
    <3>1. peer' = peer /\ peer.replyTo = NoClient
      BY <1>1, <2>1 DEF PeerIsNewest, TornDown
    <3> QED BY <1>1, <1>3, <3>1 DEF CandidatesKept, signallingVars
  <2>2. CASE peer.session # NoSession
    <3>1. \/ /\ peer.remoteApplied /\ peer'.applied = peer.applied \cup {client}
             /\ peer'.pendingIce = peer.pendingIce
          \/ /\ ~peer.remoteApplied /\ peer'.pendingIce = peer.pendingIce \cup {client}
             /\ peer'.applied = peer.applied
      BY <1>1, <2>2 DEF TypeOK, Peers
    <3> QED BY <1>1, <1>4, <1>5, <2>2, <3>1 DEF CandidatesKept, signallingVars
  <2> QED BY <2>1, <2>2
<1>10. WatchdogGuardsNegotiation'
  BY <1>1, <1>5 DEF WatchdogGuardsNegotiation, Running, signallingVars, threadVars
<1> QED BY <1>2, <1>6, <1>7, <1>8, <1>9, <1>10

\* A callback that is answered leaves the others; of a session that is not the current
\* one, it leaves all else.
LEMMA CallbackDropped ==
  ASSUME IInv, callbacks' \subseteq callbacks,
         UNCHANGED <<signallingVars, serverVars, threadVars, notice, clientVars, owner,
                     lateNotice>>
  PROVE  IInv'
<1> USE DEF IInv, signallingVars, serverVars, threadVars, clientVars
<1>1. /\ posted' \in Seq(Tasks)
      /\ ConnectionsInOrder' /\ StartupsInOrder' /\ SessionsInOrder' /\ TasksNamed'
  BY OrderKept
<1>2. TypeOK'
  BY <1>1 DEF TypeOK
<1>3. PeerIsNewest' /\ CallbacksNamed' /\ ReceivedNamed' /\ NoticesNamed'
  BY DEF PeerIsNewest, CallbacksNamed, ReceivedNamed, NoticesNamed
<1>4. Negotiated' /\ CandidatesKept' /\ OfferComesOnce' /\ PushFollowsLink'
  BY DEF Negotiated, Answered, CandidatesKept, OfferComesOnce, PushFollowsLink
<1>5. WatchdogGuardsNegotiation'
  BY DEF WatchdogGuardsNegotiation, Running
<1> QED BY <1>1, <1>2, <1>3, <1>4, <1>5

\* A session is torn down while its client stays.
LEMMA TearDownPreserves ==
  ASSUME IInv, TearDown, callbacks' \subseteq callbacks,
         UNCHANGED <<signallingVars, nextSession, notice, clientVars, owner>>
  PROVE  IInv'
<1> USE DEF IInv, signallingVars, clientVars
<1>1. /\ posted' \in Seq(Tasks)
      /\ ConnectionsInOrder' /\ StartupsInOrder' /\ SessionsInOrder' /\ TasksNamed'
  BY OrderKept
<1>2. /\ client' = NoClient => told' = {}
      /\ told' # {} => received' # {}
  BY SilentWithoutClient DEF Negotiated
<1>3. /\ peer' \in Peers /\ PeerIsNewest'
      /\ Negotiated' /\ CandidatesKept' /\ OfferComesOnce' /\ PushFollowsLink'
      /\ WatchdogGuardsNegotiation'
  BY <1>2, TornDownIsQuiet DEF TearDown
<1>4. TypeOK'
  BY <1>1, <1>3 DEF TypeOK, TearDown
<1>5. CallbacksNamed' /\ ReceivedNamed' /\ NoticesNamed'
  BY DEF CallbacksNamed, ReceivedNamed, NoticesNamed
<1> QED BY <1>1, <1>3, <1>4, <1>5

\* A promise of GStreamer that fails.
LEMMA PromiseFailedPreserves ==
  ASSUME IInv, NEW cb \in callbacks, OnPromiseFailed(cb)
  PROVE  IInv'
<1>1. /\ callbacks' = callbacks \ {cb}
      /\ UNCHANGED <<signallingVars, nextSession, threadVars, notice, clientVars, owner>>
      /\ TearDown \/ NothingTornDown
  BY DEF OnPromiseFailed
<1>2. CASE TearDown
  BY <1>1, <1>2, TearDownPreserves
<1>3. CASE NothingTornDown
  BY <1>1, <1>3, CallbackDropped DEF NothingTornDown, serverVars
<1> QED BY <1>1, <1>2, <1>3

\* The offer of the current session: nothing of it was sent yet.
LEMMA OfferCreatedPreserves ==
  ASSUME IInv, NEW cb \in callbacks, OnOfferCreated(cb)
  PROVE  IInv'
<1> DEFINE s == cb.session
           locals == {Callback("local", s, peer.replyTo)}
           found == {Callback("candidate", g, NoClient) : g \in Gathering \cap {s}}
<1>1. /\ cb.kind = "offer"
      /\ UNCHANGED <<signallingVars, nextSession, threadVars, notice, clientVars, owner>>
  BY DEF OnOfferCreated
<1>2. CASE ~IsCurrent(s)
  <2>1. callbacks' = callbacks \ {cb} /\ NothingTornDown
    BY <1>2 DEF OnOfferCreated
  <2> QED BY <1>1, <2>1, CallbackDropped DEF NothingTornDown, serverVars
<1>3. CASE IsCurrent(s)
  <2> USE DEF IInv, signallingVars, clientVars
  <2>1. /\ peer' = [peer EXCEPT !.watchdog = peer.session, !.remoteApplied = FALSE,
                                !.mediaStarted = FALSE]
        /\ pushEnabled' = FALSE /\ lateNotice' = FALSE
        /\ callbacks' = (callbacks \ {cb}) \cup locals \cup found
    BY <1>3 DEF OnOfferCreated
  <2>2. /\ peer.session = s /\ s \in Sessions /\ s < nextSession
        /\ peer.replyTo = owner[s] /\ peer.replyTo \in Clients
    BY <1>3, RepliesToClient DEF IsCurrent
  <2>3. cb = Callback("offer", s, NoClient) /\ peer.link = "new" /\ ~peer.offerSent
    BY <1>1, <2>2 DEF OfferComesOnce, TypeOK, Callbacks, Callback
  <2>4. /\ peer' \in Peers /\ peer'.watchdog = peer.session
        /\ peer'.session = peer.session /\ peer'.replyTo = peer.replyTo
        /\ peer'.link = peer.link /\ peer'.offerSent = peer.offerSent
        /\ ~peer'.remoteApplied /\ ~peer'.mediaStarted
        /\ peer'.pendingIce = peer.pendingIce /\ peer'.applied = peer.applied
    BY <2>1 DEF TypeOK, Peers
  <2>5. locals \cup found \subseteq Callbacks
    <3>1. Callback("local", s, peer.replyTo) \in Callbacks
      BY <2>2 DEF Callback, Callbacks, SomeClient
    <3>2. \A g \in Gathering \cap {s} : Callback("candidate", g, NoClient) \in Callbacks
      BY <2>2 DEF Callback, Callbacks, SomeClient
    <3> QED BY <3>1, <3>2
  <2>6. \A new \in locals \cup found :
          /\ new.session = s /\ new.kind \in {"local", "candidate"}
          /\ new.kind = "local" => new.client = owner[s]
    BY <2>2 DEF Callback
  <2> HIDE DEF locals, found
  <2>7. \A other \in callbacks' :
          (other \in callbacks /\ other # cb) \/ other \in locals \cup found
    BY <2>1
  <2>8. /\ posted' \in Seq(Tasks)
        /\ ConnectionsInOrder' /\ StartupsInOrder' /\ SessionsInOrder' /\ TasksNamed'
        /\ ReceivedNamed' /\ NoticesNamed'
    BY <1>1, OrderKept DEF ReceivedNamed, NoticesNamed
  <2>9. TypeOK'
    BY <1>1, <2>1, <2>4, <2>5, <2>7, <2>8 DEF TypeOK
  <2>10. PeerIsNewest' /\ CandidatesKept'
    <3>1. PeerIsNewest'
      BY <1>1, <1>3, <2>2, <2>4 DEF PeerIsNewest, IsCurrent
    <3>2. CandidatesKept'
      BY <1>1, <2>4 DEF CandidatesKept
    <3> QED BY <3>1, <3>2
  <2>11. CallbacksNamed'
    BY <1>1, <2>2, <2>6, <2>7 DEF CallbacksNamed
  <2>12. Negotiated'
    BY <1>1, <2>2, <2>3, <2>4, <2>6, <2>7 DEF Negotiated, Answered
  <2>13. OfferComesOnce'
    <3>1. ASSUME NEW offer \in callbacks', offer.kind = "offer"
          PROVE  /\ offer.client = NoClient /\ offer.session # s
                 /\ \A other \in callbacks' : other.session = offer.session => other.kind # "local"
      <4>1. offer \in callbacks /\ offer # cb
        BY <2>6, <2>7, <3>1
      <4>2. offer.client = NoClient
            /\ \A other \in callbacks : other.session = offer.session => other.kind # "local"
        BY <3>1, <4>1 DEF OfferComesOnce
      <4>3. offer = Callback("offer", offer.session, NoClient)
        BY <3>1, <4>1, <4>2 DEF TypeOK, Callbacks, Callback
      <4>4. offer.session # s
        BY <2>3, <4>1, <4>3
      <4> QED BY <2>6, <2>7, <4>2, <4>4
    <3> QED BY <2>2, <2>4, <3>1 DEF OfferComesOnce
  <2>14. PushFollowsLink'
    <3>1. notice[s] \in Notices /\ notice' = notice
      BY <1>1, <2>2 DEF TypeOK
    <3>2. notice[s] = NoNotice
      BY <1>3, <2>2, <2>3, <3>1 DEF PushFollowsLink, Notices, IsCurrent
    <3> QED BY <2>1, <2>2, <2>3, <2>4, <3>1, <3>2 DEF PushFollowsLink
  <2>15. WatchdogGuardsNegotiation'
    BY <2>4 DEF WatchdogGuardsNegotiation
  <2> QED BY <2>8, <2>9, <2>10, <2>11, <2>12, <2>13, <2>14, <2>15
<1> QED BY <1>2, <1>3

\* The offer is sent to the client its session was built for.
LEMMA LocalDescriptionPreserves ==
  ASSUME IInv, NEW cb \in callbacks, OnLocalDescriptionSet(cb)
  PROVE  IInv'
<1>1. /\ cb.kind = "local" /\ callbacks' = callbacks \ {cb}
      /\ UNCHANGED <<links, client, nextSession, pushEnabled, threadVars, notice, clientVars,
                     historyVars>>
  BY DEF OnLocalDescriptionSet
<1>2. CASE ~IsCurrent(cb.session)
  <2>1. UNCHANGED <<peer, posted>>
    BY <1>2 DEF OnLocalDescriptionSet
  <2> QED BY <1>1, <2>1, CallbackDropped DEF signallingVars, serverVars, historyVars
<1>3. CASE IsCurrent(cb.session)
  <2> USE DEF IInv, clientVars, historyVars
  <2> DEFINE task == Task("offer", cb.client, cb.session)
  <2>1. /\ peer' = [peer EXCEPT !.offerSent = TRUE, !.watchdog = peer.session]
        /\ posted' = Append(posted, task)
    BY <1>3 DEF OnLocalDescriptionSet
  <2>2. /\ peer.session = cb.session /\ cb.session \in Sessions /\ cb.session < nextSession
        /\ cb.client = owner[cb.session] /\ cb.client \in Clients
    BY <1>1, <1>3, RepliesToClient DEF IsCurrent, CallbacksNamed
  <2>3. /\ task \in Tasks /\ task.kind = "offer" /\ task.session = cb.session
        /\ task.client = cb.client
    BY <2>2 DEF Task, Tasks, SomeClient, SomeOrNoSession
  <2> HIDE DEF task
  <2>4. /\ posted' \in Seq(Tasks)
        /\ ConnectionsInOrder' /\ StartupsInOrder' /\ SessionsInOrder' /\ TasksNamed'
        /\ ReceivedNamed' /\ NoticesNamed' /\ CallbacksNamed'
    BY <1>1, <2>1, <2>2, <2>3, OrderKept DEF ReceivedNamed, NoticesNamed, CallbacksNamed
  <2>5. /\ peer' \in Peers /\ peer'.watchdog = peer.session /\ peer'.offerSent
        /\ peer'.session = peer.session /\ peer'.replyTo = peer.replyTo
        /\ peer'.link = peer.link /\ peer'.remoteApplied = peer.remoteApplied
        /\ peer'.mediaStarted = peer.mediaStarted
        /\ peer'.pendingIce = peer.pendingIce /\ peer'.applied = peer.applied
    BY <2>1 DEF TypeOK, Peers
  <2>6. TypeOK'
    BY <1>1, <2>4, <2>5 DEF TypeOK
  <2>7. PeerIsNewest' /\ CandidatesKept' /\ PushFollowsLink'
    BY <1>1, <1>3, <2>2, <2>5 DEF PeerIsNewest, CandidatesKept, PushFollowsLink, IsCurrent
  <2>8. Negotiated'
    BY <1>1, <2>5 DEF Negotiated, Answered
  <2>9. OfferComesOnce'
    BY <1>1, <2>2, <2>5 DEF OfferComesOnce
  <2>10. WatchdogGuardsNegotiation'
    BY <2>5 DEF WatchdogGuardsNegotiation
  <2> QED BY <2>4, <2>6, <2>7, <2>8, <2>9, <2>10
<1> QED BY <1>2, <1>3

\* A local candidate that was found.
LEMMA LocalIcePreserves ==
  ASSUME IInv, NEW cb \in callbacks, OnLocalIce(cb)
  PROVE  IInv'
<1>1. /\ callbacks' = callbacks \ {cb}
      /\ UNCHANGED <<links, client, serverVars, threadVars, notice, clientVars, historyVars>>
  BY DEF OnLocalIce
<1>2. CASE ~IsCurrent(cb.session)
  <2>1. posted' = posted
    BY <1>2 DEF OnLocalIce
  <2> QED BY <1>1, <2>1, CallbackDropped DEF signallingVars, historyVars
<1>3. CASE IsCurrent(cb.session)
  <2> USE DEF IInv, serverVars, threadVars, clientVars, historyVars
  <2> DEFINE task == Task("candidate", peer.replyTo, cb.session)
  <2>1. posted' = Append(posted, task)
    BY <1>3 DEF OnLocalIce
  <2>2. /\ peer.session = cb.session /\ cb.session \in Sessions /\ cb.session < nextSession
        /\ peer.replyTo = owner[cb.session] /\ peer.replyTo \in Clients
    BY <1>3, RepliesToClient DEF IsCurrent
  <2>3. /\ task \in Tasks /\ task.kind = "candidate" /\ task.session = cb.session
        /\ task.client = peer.replyTo
    BY <2>2 DEF Task, Tasks, SomeClient, SomeOrNoSession
  <2> HIDE DEF task
  <2>4. /\ posted' \in Seq(Tasks)
        /\ ConnectionsInOrder' /\ StartupsInOrder' /\ SessionsInOrder' /\ TasksNamed'
    BY <1>1, <2>1, <2>2, <2>3, OrderKept
  <2>5. TypeOK'
    BY <1>1, <2>4 DEF TypeOK
  <2>6. PeerIsNewest' /\ CallbacksNamed' /\ ReceivedNamed' /\ NoticesNamed'
    BY <1>1 DEF PeerIsNewest, CallbacksNamed, ReceivedNamed, NoticesNamed
  <2>7. Negotiated' /\ CandidatesKept' /\ OfferComesOnce' /\ PushFollowsLink'
    BY <1>1 DEF Negotiated, Answered, CandidatesKept, OfferComesOnce, PushFollowsLink
  <2>8. EndsWith(posted', posted, task)
    BY <2>1, <2>3, AppendEnds DEF TypeOK
  <2>9. WatchdogGuardsNegotiation'
    BY <1>1, <2>8 DEF WatchdogGuardsNegotiation, Running, EndsWith
  <2> QED BY <2>4, <2>5, <2>6, <2>7, <2>9
<1> QED BY <1>2, <1>3

\* The answer is applied, and with it the candidates that waited for it.
LEMMA AnswerAppliedPreserves ==
  ASSUME IInv, NEW cb \in callbacks, OnRemoteAnswerApplied(cb)
  PROVE  IInv'
<1>1. /\ cb.kind = "remote" /\ callbacks' = callbacks \ {cb}
      /\ UNCHANGED <<signallingVars, nextSession, threadVars, notice, clientVars, owner>>
  BY DEF OnRemoteAnswerApplied
<1>2. CASE TearDown
  BY <1>1, <1>2, TearDownPreserves
<1>3. CASE NothingTornDown
  BY <1>1, <1>3, CallbackDropped DEF NothingTornDown, serverVars
<1>4. CASE /\ IsCurrent(cb.session)
           /\ peer' = [peer EXCEPT !.remoteApplied = TRUE, !.mediaStarted = TRUE,
                        !.watchdog = NoSession, !.applied = FlushedIce, !.pendingIce = {}]
           /\ UNCHANGED <<pushEnabled, lateNotice>>
  <2> USE DEF IInv, signallingVars, clientVars
  <2>1. /\ posted' \in Seq(Tasks)
        /\ ConnectionsInOrder' /\ StartupsInOrder' /\ SessionsInOrder' /\ TasksNamed'
        /\ CallbacksNamed' /\ ReceivedNamed' /\ NoticesNamed'
    BY <1>1, OrderKept DEF CallbacksNamed, ReceivedNamed, NoticesNamed
  <2>2. /\ peer' \in Peers /\ peer'.remoteApplied /\ peer'.mediaStarted
        /\ peer'.watchdog = NoSession /\ peer'.pendingIce = {}
        /\ peer'.applied = peer.pendingIce \cup peer.applied
        /\ peer'.session = peer.session /\ peer'.replyTo = peer.replyTo
        /\ peer'.link = peer.link /\ peer'.offerSent = peer.offerSent
    BY <1>4 DEF TypeOK, Peers, FlushedIce, SomeOrNoSession
  <2>3. Answered /\ peer.session # NoSession
    BY <1>1, <1>4 DEF Negotiated, IsCurrent
  <2>4. TypeOK'
    BY <1>1, <1>4, <2>1, <2>2 DEF TypeOK
  <2>5. PeerIsNewest' /\ CandidatesKept'
    BY <1>1, <2>2, <2>3 DEF PeerIsNewest, CandidatesKept
  <2>6. Negotiated'
    BY <1>1, <2>2, <2>3 DEF Negotiated, Answered
  <2>7. OfferComesOnce' /\ PushFollowsLink'
    BY <1>1, <1>4, <2>2 DEF OfferComesOnce, PushFollowsLink
  <2>8. WatchdogGuardsNegotiation'
    BY <2>2 DEF WatchdogGuardsNegotiation
  <2> QED BY <2>1, <2>4, <2>5, <2>6, <2>7, <2>8
<1> QED BY <1>2, <1>3, <1>4 DEF OnRemoteAnswerApplied

\* The peer's link and its notices.
LEMMA LinkPreserves ==
  ASSUME IInv, LinkChanges \/ \E s \in Sessions : NoticeChecked(s) \/ NoticeApplied(s)
  PROVE  IInv'
<1> USE DEF IInv, signallingVars, clientVars
<1>1. /\ UNCHANGED <<signallingVars, nextSession, threadVars, callbacks, clientVars, owner>>
      /\ \E state \in {peer.link, "connected", "lost"} :
           /\ peer' = [peer EXCEPT !.link = state]
           /\ state # peer.link => peer.link # "new"
  <2>1. CASE LinkChanges
    BY <2>1 DEF LinkChanges, historyVars
  <2>2. CASE \E s \in Sessions : NoticeChecked(s) \/ NoticeApplied(s)
    <3>1. /\ peer' = peer
          /\ UNCHANGED <<signallingVars, nextSession, threadVars, callbacks, clientVars, owner>>
      BY <2>2 DEF NoticeChecked, NoticeApplied, serverVars, historyVars
    <3>2. peer = [peer EXCEPT !.link = peer.link]
      BY DEF TypeOK, Peers
    <3> QED BY <3>1, <3>2
  <2> QED BY <2>1, <2>2
<1>2. /\ peer' \in Peers
      /\ peer'.link = "new" <=> peer.link = "new"
      /\ peer'.session = peer.session /\ peer'.replyTo = peer.replyTo
      /\ peer'.offerSent = peer.offerSent /\ peer'.remoteApplied = peer.remoteApplied
      /\ peer'.mediaStarted = peer.mediaStarted /\ peer'.watchdog = peer.watchdog
      /\ peer'.pendingIce = peer.pendingIce /\ peer'.applied = peer.applied
  BY <1>1 DEF TypeOK, Peers
<1>3. /\ posted' \in Seq(Tasks)
      /\ ConnectionsInOrder' /\ StartupsInOrder' /\ SessionsInOrder' /\ TasksNamed'
      /\ CallbacksNamed' /\ ReceivedNamed'
  BY <1>1, OrderKept DEF CallbacksNamed, ReceivedNamed
<1>4. PeerIsNewest'
  <2>1. CASE peer.session = NoSession
    <3>1. peer = TornDown /\ peer.link = "new"
      BY <2>1 DEF PeerIsNewest, TornDown
    <3>2. peer' = peer
      BY <1>1, <1>2, <3>1 DEF TypeOK, Peers
    <3> QED BY <2>1, <3>1, <3>2 DEF PeerIsNewest
  <2>2. CASE peer.session # NoSession
    BY <1>1, <1>2, <2>2 DEF PeerIsNewest
  <2> QED BY <2>1, <2>2
<1>5. Negotiated' /\ CandidatesKept' /\ OfferComesOnce'
  BY <1>1, <1>2 DEF Negotiated, Answered, CandidatesKept, OfferComesOnce
<1>6. WatchdogGuardsNegotiation'
  BY <1>1, <1>2 DEF WatchdogGuardsNegotiation, Running, threadVars
<1>7. CASE LinkChanges
  <2>1. PICK state \in {"connected", "lost"} :
          /\ peer' = [peer EXCEPT !.link = state]
          /\ notice' = [notice EXCEPT ![peer.session] = Notice("fired", state)]
    BY <1>7 DEF LinkChanges
  <2>2. peer.session # NoSession /\ peer.session \in Sessions /\ peer.session < nextSession
    <3>1. peer.session # NoSession
      BY <1>7 DEF LinkChanges, PeerIsNewest, TornDown
    <3> QED BY <3>1, RepliesToClient
  <2>3. /\ Notice("fired", state) \in Notices /\ Notice("fired", state) # NoNotice
        /\ Notice("fired", state).state = state
    BY DEF Notice, Notices, NoNotice
  <2>4. pushEnabled' = pushEnabled /\ lateNotice' = lateNotice
    BY <1>7 DEF LinkChanges, historyVars
  <2>5. TypeOK'
    <3>1. notice' \in [Sessions -> Notices]
      BY <2>1, <2>3 DEF TypeOK
    <3>2. pushEnabled' \in BOOLEAN /\ lateNotice' \in BOOLEAN
      BY <2>4 DEF TypeOK
    <3> QED BY <1>1, <1>2, <1>3, <3>1, <3>2 DEF TypeOK
  <2>6. NoticesNamed'
    BY <1>1, <2>1, <2>2, <2>3 DEF NoticesNamed, TypeOK
  <2>7. PushFollowsLink'
    <3>1. peer'.link = state /\ notice'[peer.session] = Notice("fired", state)
      BY <2>1, <2>2 DEF TypeOK, Peers
    <3> QED BY <1>2, <2>3, <3>1 DEF PushFollowsLink
  <2> QED BY <1>3, <1>4, <1>5, <1>6, <2>5, <2>6, <2>7
<1>8. ASSUME NEW s \in Sessions, NoticeChecked(s)
      PROVE  IInv'
  <2>1. /\ notice[s].at = "fired" /\ UNCHANGED <<peer, pushEnabled, lateNotice>>
        /\ notice' = [notice EXCEPT ![s] = IF IsCurrent(s) THEN [@ EXCEPT !.at = "checked"]
                                           ELSE NoNotice]
    BY <1>8 DEF NoticeChecked, serverVars, historyVars
  <2>2. /\ notice[s] \in [at : {"fired", "checked"}, state : {"connected", "lost"}]
        /\ notice[s] # NoNotice
    BY <2>1 DEF TypeOK, Notices, NoNotice, Notice
  <2>3. /\ notice'[s] \in Notices /\ \A r \in Sessions : r # s => notice'[r] = notice[r]
        /\ IsCurrent(s) => notice'[s].state = notice[s].state /\ notice'[s] # NoNotice
    BY <2>1, <2>2 DEF TypeOK, Notices, NoNotice, Notice
  <2>4. TypeOK'
    <3>1. notice' \in [Sessions -> Notices]
      BY <2>1, <2>3 DEF TypeOK
    <3> QED BY <1>1, <1>2, <1>3, <2>1, <3>1 DEF TypeOK
  <2>5. NoticesNamed'
    BY <1>1, <2>2, <2>3 DEF NoticesNamed
  <2>6. PushFollowsLink'
    <3>1. CASE IsCurrent(s)
      BY <2>1, <2>2, <2>3, <3>1 DEF PushFollowsLink, IsCurrent
    <3>2. CASE ~IsCurrent(s)
      <4>1. peer.session # NoSession => peer.session \in Sessions /\ peer.session # s
        BY <3>2, RepliesToClient DEF IsCurrent
      <4> QED BY <2>1, <2>3, <4>1 DEF PushFollowsLink
    <3> QED BY <3>1, <3>2
  <2> QED BY <1>3, <1>4, <1>5, <1>6, <2>4, <2>5, <2>6
<1>9. ASSUME NEW s \in Sessions, NoticeApplied(s)
      PROVE  IInv'
  <2>1. /\ notice[s].at = "checked" /\ notice' = [notice EXCEPT ![s] = NoNotice]
        /\ pushEnabled' = (notice[s].state = "connected")
        /\ lateNotice' = (lateNotice \/ ~IsCurrent(s))
        /\ peer' = peer
    BY <1>9 DEF NoticeApplied, ShouldEnable
  <2>2. notice[s] # NoNotice
    BY <2>1 DEF NoNotice, Notice
  <2>3. notice'[s] = NoNotice /\ \A r \in Sessions : r # s => notice'[r] = notice[r]
    BY <2>1 DEF TypeOK
  <2>4. TypeOK'
    <3>1. notice' \in [Sessions -> Notices]
      BY <2>1 DEF TypeOK, Notices
    <3>2. pushEnabled' \in BOOLEAN /\ lateNotice' \in BOOLEAN
      BY <2>1, Zenon
    <3> QED BY <1>1, <1>2, <1>3, <3>1, <3>2 DEF TypeOK
  <2>5. NoticesNamed'
    BY <1>1, <2>3 DEF NoticesNamed
  <2>6. PushFollowsLink'
    <3>1. CASE IsCurrent(s)
      BY <2>1, <2>2, <2>3, <3>1 DEF PushFollowsLink, IsCurrent
    <3>2. CASE ~IsCurrent(s)
      <4>1. peer.session # NoSession => peer.session \in Sessions /\ peer.session # s
        BY <3>2, RepliesToClient DEF IsCurrent
      <4> QED BY <2>1, <2>3, <3>2, <4>1 DEF PushFollowsLink
    <3> QED BY <3>1, <3>2
  <2> QED BY <1>3, <1>4, <1>5, <1>6, <2>4, <2>5, <2>6
<1> QED BY <1>7, <1>8, <1>9

\* The watchdog is disarmed where its client is about to be closed.
LEMMA TimeOutPreserves ==
  ASSUME IInv, PumpTimesOut
  PROVE  IInv'
<1> USE DEF IInv, signallingVars, mediaVars, clientVars, historyVars
<1>1. /\ peer.watchdog # NoSession /\ peer' = [peer EXCEPT !.watchdog = NoSession]
      /\ pump'.at = "timeout"
      /\ UNCHANGED <<signallingVars, nextSession, pushEnabled, stopper, mediaVars, clientVars,
                     historyVars>>
  BY DEF PumpTimesOut, TimedOut, At
<1>2. /\ peer' \in Peers /\ peer'.watchdog = NoSession /\ peer'.link = peer.link
      /\ peer'.session = peer.session /\ peer'.replyTo = peer.replyTo
      /\ peer'.offerSent = peer.offerSent /\ peer'.remoteApplied = peer.remoteApplied
      /\ peer'.mediaStarted = peer.mediaStarted
      /\ peer'.pendingIce = peer.pendingIce /\ peer'.applied = peer.applied
  BY <1>1 DEF TypeOK, Peers, SomeOrNoSession
<1>3. peer.session # NoSession
  BY <1>1 DEF PeerIsNewest, TornDown
<1>4. /\ posted' \in Seq(Tasks)
      /\ ConnectionsInOrder' /\ StartupsInOrder' /\ SessionsInOrder' /\ TasksNamed'
      /\ CallbacksNamed' /\ ReceivedNamed' /\ NoticesNamed'
  BY <1>1, OrderKept DEF CallbacksNamed, ReceivedNamed, NoticesNamed
<1>5. TypeOK'
  BY <1>1, <1>2, <1>4 DEF TypeOK
<1>6. PeerIsNewest'
  BY <1>1, <1>2, <1>3 DEF PeerIsNewest
<1>7. Negotiated' /\ CandidatesKept' /\ OfferComesOnce' /\ PushFollowsLink'
  BY <1>1, <1>2 DEF Negotiated, Answered, CandidatesKept, OfferComesOnce, PushFollowsLink
<1>8. WatchdogGuardsNegotiation'
  BY <1>1, <1>2 DEF WatchdogGuardsNegotiation
<1> QED BY <1>4, <1>5, <1>6, <1>7, <1>8

\* The close of the client of the moment is posted, if there is one.
LEMMA CloseIsPosted ==
  ASSUME IInv, NEW session \in SomeOrNoSession, CloseActiveClient(session),
         UNCHANGED <<nextSession, owner>>
  PROVE  /\ posted' \in Seq(Tasks)
         /\ ConnectionsInOrder' /\ StartupsInOrder' /\ SessionsInOrder' /\ TasksNamed'
         /\ client # NoClient =>
              \E i \in DOMAIN posted' :
                posted'[i].kind = "close" /\ posted'[i].client = client
<1>1. UNCHANGED <<links, client>>
  BY DEF CloseActiveClient
<1>2. CASE client = NoClient
  <2>1. posted' = posted
    BY <1>2 DEF CloseActiveClient
  <2> QED BY <1>1, <1>2, <2>1, OrderKept
<1>3. CASE client # NoClient
  <2> DEFINE task == Task("close", client, session)
  <2>1. posted' = Append(posted, task)
    BY <1>3 DEF CloseActiveClient
  <2>2. task \in Tasks /\ task.kind = "close" /\ task.client = client
    BY DEF Task, Tasks, IInv, TypeOK
  <2> HIDE DEF task
  <2>3. /\ posted' \in Seq(Tasks)
        /\ ConnectionsInOrder' /\ StartupsInOrder' /\ SessionsInOrder' /\ TasksNamed'
    BY <1>1, <2>1, <2>2, OrderKept
  <2>4. EndsWith(posted', posted, task)
    BY <2>1, <2>2, AppendEnds DEF IInv, TypeOK
  <2> QED BY <2>2, <2>3, <2>4 DEF EndsWith
<1> QED BY <1>2, <1>3

\* What a step that posts a close, and moves no more than the pump or stop(), preserves.
LEMMA PostedClosePreserves ==
  ASSUME IInv, NEW session \in SomeOrNoSession, CloseActiveClient(session),
         UNCHANGED <<serverVars, mediaVars, clientVars, owner, lateNotice>>
  PROVE  IInv'
<1> USE DEF IInv, serverVars, mediaVars, clientVars
<1>1. /\ posted' \in Seq(Tasks)
      /\ ConnectionsInOrder' /\ StartupsInOrder' /\ SessionsInOrder' /\ TasksNamed'
      /\ client # NoClient =>
           \E i \in DOMAIN posted' : posted'[i].kind = "close" /\ posted'[i].client = client
      /\ UNCHANGED <<links, client>>
  <2>1. UNCHANGED <<links, client, nextSession, owner>>
    BY DEF CloseActiveClient
  <2> QED BY <2>1, CloseIsPosted
<1>2. TypeOK'
  BY <1>1 DEF TypeOK
<1>3. PeerIsNewest' /\ CallbacksNamed' /\ ReceivedNamed' /\ NoticesNamed'
  BY <1>1 DEF PeerIsNewest, CallbacksNamed, ReceivedNamed, NoticesNamed
<1>4. Negotiated' /\ CandidatesKept' /\ OfferComesOnce' /\ PushFollowsLink'
  BY <1>1 DEF Negotiated, Answered, CandidatesKept, OfferComesOnce, PushFollowsLink
<1>5. WatchdogGuardsNegotiation'
  <2>1. client = NoClient => peer.session = NoSession \/ client # peer.replyTo
    BY RepliesToClient
  <2> QED BY <1>1, <2>1 DEF WatchdogGuardsNegotiation
<1> QED BY <1>1, <1>2, <1>3, <1>4, <1>5

\* What the pump closes a client for is a session, or none.
PumpKnown == pump.session \in SomeOrNoSession

\* No step makes the pump name anything else.
LEMMA PumpStaysKnown ==
  ASSUME IInv, PumpKnown, [Next]_vars
  PROVE  PumpKnown'
<1>1. \/ pump' = pump \/ pump' = Idle \/ pump' = TimedOut
  BY DEF Next, vars, threadVars, ListenerStep, ClientStep, CallbackStep, ClientOpens,
         ClientCloses, CloseTask, SendTask, StartupTask, OnAnswer, OnIceFromClient,
         OnPromiseFailed, OnOfferCreated, OnLocalDescriptionSet, OnLocalIce,
         OnRemoteAnswerApplied, LinkChanges, NoticeChecked, NoticeApplied, PumpTimesOut,
         PumpClosesClient, Stop, StopJoins
<1>2. Idle.session \in SomeOrNoSession /\ TimedOut.session \in SomeOrNoSession
  BY DEF Idle, TimedOut, At, SomeOrNoSession, IInv, TypeOK, Peers
<1> QED BY <1>1, <1>2 DEF PumpKnown

\* Every step preserves the invariant.
LEMMA NextInvariant ==
  ASSUME IInv, PumpKnown, [Next]_vars
  PROVE  IInv'
<1>1. ASSUME NEW c \in Clients, ClientOpens(c) PROVE IInv'
  BY <1>1, OpensPreserves
<1>2. ASSUME NEW c \in Clients, ClientCloses(c) PROVE IInv'
  BY <1>2, ClosesPreserves
<1>3. CASE ListenerStep
  BY <1>3, StartupPreserves, SendPreserves, ClosePreserves DEF ListenerStep
<1>4. CASE OnAnswer \/ OnIceFromClient
  BY <1>4, AnswerPreserves, CandidatePreserves
<1>5. ASSUME NEW cb \in callbacks, CallbackStep(cb) PROVE IInv'
  BY <1>5, PromiseFailedPreserves, OfferCreatedPreserves, LocalDescriptionPreserves,
     LocalIcePreserves, AnswerAppliedPreserves DEF CallbackStep
<1>6. CASE LinkChanges \/ \E s \in Sessions : NoticeChecked(s) \/ NoticeApplied(s)
  BY <1>6, LinkPreserves
<1>7. CASE PumpTimesOut
  BY <1>7, TimeOutPreserves
<1>8. CASE PumpClosesClient
  <2>1. /\ CloseActiveClient(pump.session)
        /\ UNCHANGED <<serverVars, mediaVars, clientVars, owner, lateNotice>>
    BY <1>8 DEF PumpClosesClient, historyVars
  <2> QED BY <2>1, PostedClosePreserves DEF PumpKnown
<1>9. CASE Stop
  <2>1. /\ CloseActiveClient(NoSession)
        /\ UNCHANGED <<serverVars, mediaVars, clientVars, owner, lateNotice>>
    BY <1>9 DEF Stop, historyVars
  <2> QED BY <2>1, PostedClosePreserves DEF SomeOrNoSession
<1>10. CASE StopJoins
  <2>1. /\ TearDown /\ callbacks' \subseteq callbacks
        /\ UNCHANGED <<signallingVars, nextSession, notice, clientVars, owner>>
    BY <1>10 DEF StopJoins, mediaVars
  <2> QED BY <2>1, TearDownPreserves
<1>11. CASE UNCHANGED vars
  <2>1. /\ callbacks' \subseteq callbacks
        /\ UNCHANGED <<signallingVars, serverVars, threadVars, notice, clientVars, owner,
                       lateNotice>>
    BY <1>11 DEF vars, mediaVars, historyVars
  <2> QED BY <2>1, CallbackDropped
<1> QED BY <1>1, <1>2, <1>3, <1>4, <1>5, <1>6, <1>7, <1>8, <1>9, <1>10, <1>11
        DEF Next, ClientStep

-----------------------------------------------------------------------------
(* Theorems                                                                *)

\* Sessions begin in the order their clients came, and what is on its way names the
\* session it is of.
THEOREM Invariance == Spec => [](IInv /\ PumpKnown)
<1>1. Init => IInv /\ PumpKnown
  BY InitInvariant DEF Init, PumpKnown, Idle, At, SomeOrNoSession
<1>2. IInv /\ PumpKnown /\ [Next]_vars => (IInv /\ PumpKnown)'
  BY NextInvariant, PumpStaysKnown
<1> QED BY <1>1, <1>2, PTL DEF Spec

\* A client is only sent the offer and the candidates of its own session, for any number
\* of clients that supersede one another and however late the callbacks of their sessions
\* come (WebRtcServer.cpp:556, 641, 1153).
THEOREM OffersReachClients == Spec => []OfferReachesItsClient
<1>1. IInv => OfferReachesItsClient
  BY DEF IInv, ReceivedNamed, OfferReachesItsClient
<1> QED BY <1>1, Invariance, PTL

\* No session plays but after its own offer was sent, and answered by its client
\* (WebRtcServer.cpp:730).
THEOREM PlaysAnswered == Spec => []AnsweredBeforePlaying
<1>1. IInv => AnsweredBeforePlaying
  BY DEF IInv, Negotiated, Answered, AnsweredBeforePlaying
<1> QED BY <1>1, Invariance, PTL

\* A client's candidates are given to its own session only, and those that came before
\* the remote description are not lost (WebRtcServer.cpp:1188, 1302-1315).
THEOREM CandidatesKeptForSession == Spec => []CandidatesReachTheirSession
<1>1. IInv => CandidatesReachTheirSession
  BY DEF IInv, CandidatesKept, CandidatesReachTheirSession
<1> QED BY <1>1, Invariance, PTL

\* The watchdog is of the session there is; while that is negotiated it runs, or its
\* client is being closed or has been superseded (WebRtcServer.cpp:329-340, 1380-1424).
THEOREM WatchdogGuards == Spec => []WatchdogGuardsNegotiation
<1>1. IInv => WatchdogGuardsNegotiation
  BY DEF IInv
<1> QED BY <1>1, Invariance, PTL

\* Video follows the connection of the session there is, once its notice has been taken,
\* but for a notice that outlived its session (WebRtcServer.cpp:559, 802, 852).
THEOREM VideoFollows == Spec => []VideoFollowsConnection
<1>1. IInv => VideoFollowsConnection
  <2> SUFFICES ASSUME IInv, peer.mediaStarted, notice[peer.session] = NoNotice, ~lateNotice
               PROVE  PushesVideo <=> peer.link = "connected"
    BY DEF VideoFollowsConnection
  <2>1. peer.session # NoSession
    BY DEF IInv, PeerIsNewest, TornDown
  <2> QED BY <2>1 DEF IInv, PushFollowsLink, PushesVideo
<1> QED BY <1>1, Invariance, PTL

\* Type correctness of connections, sessions and what is on its way.
THEOREM TypeCorrect == Spec => []TypeOK
<1>1. IInv => TypeOK
  BY DEF IInv
<1> QED BY <1>1, Invariance, PTL

-----------------------------------------------------------------------------
(* After stop()                                                            *)

\* Once stop() has returned there is no session, no client and no task, and there will
\* be none, whatever callbacks of GStreamer are still to come.
StoppedForGood ==
  stopper = "stopped" =>
    /\ peer = TornDown /\ pump = Idle
    /\ NothingLeft /\ client = NoClient

\* Without a session a callback finds no session of its own, and changes nothing.
LEMMA NothingForCallbacks ==
  ASSUME peer = TornDown, NEW cb, CallbackStep(cb)
  PROVE  peer' = TornDown /\ UNCHANGED <<signallingVars, threadVars>>
<1>1. ~IsCurrent(cb.session)
  BY DEF IsCurrent, TornDown
<1> QED BY <1>1 DEF CallbackStep, OnPromiseFailed, OnOfferCreated, OnLocalDescriptionSet,
       OnLocalIce, OnRemoteAnswerApplied, TearDown, NothingTornDown, signallingVars,
       threadVars, serverVars

\* What is stopped stays so.
LEMMA StaysStopped ==
  ASSUME StoppedForGood, stopper = "stopped", [Next]_vars
  PROVE  StoppedForGood'
<1>1. /\ peer = TornDown /\ pump = Idle /\ posted = <<>> /\ client = NoClient
      /\ \A c \in Clients : links[c] \in {"none", "closed"}
  BY DEF StoppedForGood, NothingLeft
<1>2. SUFFICES peer' = TornDown /\ UNCHANGED <<signallingVars, threadVars>>
  BY <1>1 DEF StoppedForGood, NothingLeft, signallingVars, threadVars
<1>3. /\ \A c \in Clients : ~ClientOpens(c) /\ ~ClientCloses(c)
      /\ ~ListenerStep
  BY <1>1 DEF ClientOpens, ClientCloses, OnClose, ListenerStep, StartupTask, SendTask,
     CloseTask, RunClose, IsNext
<1>4. ~LinkChanges /\ ~PumpTimesOut /\ ~PumpClosesClient /\ ~Stop /\ ~StopJoins
  BY <1>1 DEF LinkChanges, PumpTimesOut, PumpClosesClient, Stop, StopJoins, Running, Idle,
     At, TornDown
<1>5. CASE OnAnswer \/ OnIceFromClient
  BY <1>1, <1>5 DEF OnAnswer, OnIceFromClient, TornDown
<1>6. ASSUME NEW cb \in callbacks, CallbackStep(cb)
      PROVE  peer' = TornDown /\ UNCHANGED <<signallingVars, threadVars>>
  BY <1>1, <1>6, NothingForCallbacks
<1>7. CASE (\E s \in Sessions : NoticeChecked(s) \/ NoticeApplied(s)) \/ UNCHANGED vars
  BY <1>1, <1>7 DEF NoticeChecked, NoticeApplied, serverVars, vars
<1> QED BY <1>3, <1>4, <1>5, <1>6, <1>7 DEF Next, ClientStep

\* Only the end of stop() stops, and then a client that were active would be connected.
LEMMA StopKept == IInv /\ StoppedForGood /\ [Next]_vars => StoppedForGood'
<1> SUFFICES ASSUME IInv, StoppedForGood, [Next]_vars, stopper # "stopped",
                    stopper' = "stopped"
             PROVE  StoppedForGood'
  BY StaysStopped DEF StoppedForGood
<1>1. StopJoins
  BY DEF Next, vars, threadVars, ListenerStep, ClientStep, CallbackStep, ClientOpens,
         ClientCloses, CloseTask, SendTask, StartupTask, OnAnswer, OnIceFromClient,
         OnPromiseFailed, OnOfferCreated, OnLocalDescriptionSet, OnLocalIce,
         OnRemoteAnswerApplied, LinkChanges, NoticeChecked, NoticeApplied, PumpTimesOut,
         PumpClosesClient, Stop
<1>2. client = NoClient
  <2>1. client # NoClient => client \in Clients
    BY DEF IInv, TypeOK, SomeClient
  <2> QED BY <1>1, <2>1 DEF StopJoins, NothingLeft, IInv, ConnectionsInOrder
<1> QED BY <1>1, <1>2 DEF StopJoins, TearDown, StoppedForGood, NothingLeft, signallingVars

\* When stop() has returned the session is torn down, nobody is connected and nothing is
\* posted, and the callbacks and notices that still come change none of it: the safety
\* that StopReturns rests on (WebRtcServer.cpp:281-290).
THEOREM StopIsFinal == Spec => []StoppedForGood
<1>1. Init => StoppedForGood
  BY DEF Init, StoppedForGood
<1> QED BY <1>1, StopKept, Invariance, PTL DEF Spec

-----------------------------------------------------------------------------
(* The TCP render server: theorems about RenderServer, for any set of      *)
(* clients and any number of requests.                                     *)

\* The parts of replies.
Parts == [kind : {"image", "trailers"}, ok : BOOLEAN,
          picture : {"drawn", "partial", "black", "none"}]

\* The types of what the render server keeps.
ServerTypes ==
  /\ queue \in Seq(TcpClients)
  /\ at \in {"parse", "render", "reply"} => serving \in TcpClients
  /\ sent \in [TcpClients -> Seq(Requests)]
  /\ readCount \in [TcpClients -> Nat]
  /\ \A c \in TcpClients : readCount[c] <= Len(sent[c])
  /\ written \in [TcpClients -> Seq(Parts)]

\* A client is served once, and nothing is read from it or written to it before.
Unserved(c) == readCount[c] = 0 /\ written[c] = <<>> /\ c # serving
\* Nor has a client that waits in the queue, once, or is still to connect.
ServedInTurn ==
  /\ \A c \in TcpClients : c \notin arrived => Unserved(c)
  /\ \A i \in DOMAIN queue :
       /\ queue[i] \in arrived /\ Unserved(queue[i])
       /\ \A j \in DOMAIN queue : j # i => queue[j] # queue[i]

\* The requests that the server has read from a client could be parsed.
Readable(c) == \A k \in 1..readCount[c] : sent[c][k] # "unreadable"

\* What is left of a reply are images up to the trailers.
RestOfReply ==
  /\ rest \in Seq(Parts) /\ rest # <<>>
  /\ \A i \in 1..Len(rest) : rest[i].kind = IF i = Len(rest) THEN "trailers" ELSE "image"

\* The server is at most one reply behind what it has read, and what is left of that
\* reply goes on where the parts written end, before the n-th.
InReply(c, n) ==
  /\ Readable(c)
  /\ at = "parse" => RequestOf(c, n) = readCount[c] + 1
  /\ at # "parse" => readCount[c] > 0 /\ RequestOf(c, n) = readCount[c]
  /\ at # "reply" => PlaceInReply(c, n) = 1
  /\ at = "reply" =>
       /\ RestOfReply
       /\ PlaceInReply(c, n) + Len(rest)
            = Images(sent[c][readCount[c]]) + 2

\* So it is for the client that is served.
RepliesUnderWay ==
  at \in {"parse", "render", "reply"} =>
    \A c \in TcpClients, n \in Nat \ {0} :
      c = serving /\ n = Len(written[c]) + 1 => InReply(c, n)

\* The inductive invariant of the render server.
ServerInv == ServerTypes /\ ServedInTurn /\ RepliesUnderWay /\ RepliesMatchRequests

\* A set of numbers up to a bound has a largest one.
LEMMA LargestOf ==
  ASSUME NEW n \in Nat, NEW T \in SUBSET (0..n), T # {}
  PROVE  Max(T) \in T /\ \A y \in T : Max(T) >= y
<1> DEFINE U == {x \in 0..n : n - x \in T}
<1>1. U \in SUBSET Nat /\ U # {}
  <2>1. PICK t \in T : TRUE
    OBVIOUS
  <2>2. n - t \in U
    BY <2>1
  <2> QED BY <2>2
<1>2. PICK x \in U : \A y \in U : x <= y
  BY <1>1, LeastElement
<1>3. n - x \in T /\ \A y \in T : n - x >= y
  <2>1. \A y \in T : n - y \in U
    OBVIOUS
  <2> QED BY <1>2, <2>1
<1>4. \E m \in T : \A y \in T : m >= y
  BY <1>3
<1> QED BY <1>4, Zenon DEF Max

\* The requests are numbered, and so are the places in a reply.
LEMMA PlaceTypes ==
  ASSUME NEW c, NEW i \in Nat \ {0}
  PROVE  /\ IsFiniteSet(EndsBefore(c, i))
         /\ RequestOf(c, i) \in Nat \ {0}
         /\ PlaceInReply(c, i) \in Nat \ {0}
<1>1. EndsBefore(c, i) \subseteq 1..(i - 1)
  BY DEF EndsBefore
<1>2. IsFiniteSet(EndsBefore(c, i))
  BY <1>1, FS_Interval, FS_Subset
<1>3. RequestOf(c, i) \in Nat \ {0}
  BY <1>2, FS_CardinalityType DEF RequestOf
<1>4. PlaceInReply(c, i) \in Nat \ {0}
  <2> DEFINE T == EndsBefore(c, i) \cup {0}
  <2>1. T \in SUBSET (0..(i - 1)) /\ T # {} /\ i - 1 \in Nat
    BY <1>1
  <2>2. Max(T) \in T
    BY <2>1, LargestOf
  <2>3. PlaceInReply(c, i) = i - Max(T)
    BY DEF PlaceInReply
  <2>4. ASSUME NEW m \in 0..(i - 1) PROVE i - m \in Nat \ {0}
    OBVIOUS
  <2> QED BY <2>1, <2>2, <2>3, <2>4
<1> QED BY <1>2, <1>3, <1>4

\* The place of a part depends on the parts before it.
LEMMA SamePlace ==
  ASSUME NEW c, NEW i \in Nat, \A j \in 1..(i - 1) : written'[c][j] = written[c][j]
  PROVE  /\ RequestOf(c, i)' = RequestOf(c, i)
         /\ PlaceInReply(c, i)' = PlaceInReply(c, i)
<1>1. EndsBefore(c, i)' = EndsBefore(c, i)
  BY DEF EndsBefore
<1> QED BY <1>1 DEF RequestOf, PlaceInReply

\* Behind the trailers a new reply begins, behind an image the same goes on.
LEMMA NextPlace ==
  ASSUME NEW c, NEW n \in Nat \ {0}, NEW m, m = n + 1,
         \A j \in 1..(n - 1) : written'[c][j] = written[c][j]
  PROVE  IF written'[c][n].kind = "trailers"
           THEN /\ RequestOf(c, m)' = RequestOf(c, n) + 1
                /\ PlaceInReply(c, m)' = 1
           ELSE /\ RequestOf(c, m)' = RequestOf(c, n)
                /\ PlaceInReply(c, m)' = PlaceInReply(c, n) + 1
<1> DEFINE E == EndsBefore(c, n)
           F == EndsBefore(c, m)'
           p == written'[c][n]
<1>1. F = IF p.kind = "trailers" THEN E \cup {n} ELSE E
  BY DEF EndsBefore
<1>2. E \subseteq 1..(n - 1) /\ IsFiniteSet(E) /\ Cardinality(E) \in Nat
  BY PlaceTypes, FS_CardinalityType DEF EndsBefore
<1>3. /\ RequestOf(c, n) = Cardinality(E) + 1
      /\ RequestOf(c, m)' = Cardinality(F) + 1
      /\ PlaceInReply(c, n) = n - Max(E \cup {0})
      /\ PlaceInReply(c, m)' = m - Max(F \cup {0})
  <2>1. /\ RequestOf(c, n) = Cardinality(E) + 1
        /\ PlaceInReply(c, n) = n - Max(E \cup {0})
    BY DEF RequestOf, PlaceInReply
  <2>2. /\ RequestOf(c, m)' = Cardinality(F) + 1
        /\ PlaceInReply(c, m)' = m - Max(F \cup {0})
    BY DEF RequestOf, PlaceInReply
  <2> HIDE DEF E, F
  <2> QED BY <2>1, <2>2
<1> HIDE DEF E, F, p
<1>4. CASE p.kind = "trailers"
  <2>1. Cardinality(F) = Cardinality(E) + 1
    <3>1. n \notin E /\ F = E \cup {n}
      BY <1>1, <1>2, <1>4
    <3>2. Cardinality(E \cup {n}) = IF n \in E THEN Cardinality(E) ELSE Cardinality(E) + 1
      BY <1>2, FS_AddElement
    <3> QED BY <3>1, <3>2
  <2>2. Max(F \cup {0}) = n
    <3> DEFINE T == F \cup {0}
    <3>1. T \in SUBSET (0..n) /\ T # {} /\ n \in T
      BY <1>1, <1>2, <1>4
    <3>2. Max(T) \in T /\ \A y \in T : Max(T) >= y
      BY <3>1, LargestOf
    <3>3. ASSUME NEW x \in 0..n, x >= n PROVE x = n
      BY <3>3
    <3>4. Max(T) \in 0..n /\ Max(T) >= n
      BY <3>1, <3>2
    <3> QED BY <3>3, <3>4
  <2> QED BY <1>3, <1>4, <2>1, <2>2 DEF p
<1>5. CASE p.kind # "trailers"
  <2>1. F = E
    BY <1>1, <1>5
  <2>2. PlaceInReply(c, n) \in Nat
    BY PlaceTypes
  <2>3. Max(E \cup {0}) \in Nat
    <3> DEFINE T == E \cup {0}
    <3>1. T \in SUBSET (0..n) /\ T # {}
      BY <1>2
    <3>2. Max(T) \in T
      BY <3>1, LargestOf
    <3> QED BY <3>1, <3>2
  <2> QED BY <1>3, <1>5, <2>1, <2>3 DEF p
<1> QED BY <1>4, <1>5

\* The first part of what a client gets is the first of its first reply.
LEMMA FirstPlace ==
  ASSUME NEW c
  PROVE  RequestOf(c, 1) = 1 /\ PlaceInReply(c, 1) = 1
<1>1. EndsBefore(c, 1) = {}
  BY DEF EndsBefore
<1>2. Cardinality(EndsBefore(c, 1)) = 0
  BY <1>1, FS_EmptySet
<1> DEFINE T == EndsBefore(c, 1) \cup {0}
<1>3. T \in SUBSET (0..0) /\ T # {} /\ T = {0}
  BY <1>1
<1>4. Max(T) \in T
  BY <1>3, LargestOf
<1>5. PlaceInReply(c, 1) = 1 - Max(T)
  BY DEF PlaceInReply
<1>6. PlaceInReply(c, 1) = 1
  BY <1>3, <1>4, <1>5
<1> QED BY <1>2, <1>6 DEF RequestOf

\* A reply are its images and the trailers.
LEMMA ReplyParts ==
  ASSUME NEW request, NEW ok \in BOOLEAN, NEW picture \in {"drawn", "partial", "black"},
         NEW reply, reply = Reply(request, ok, picture)
  PROVE  /\ reply \in Seq(Parts) /\ Len(reply) = Images(request) + 1
         /\ \A i \in 1..Len(reply) :
              reply[i].kind = IF i = Len(reply) THEN "trailers" ELSE "image"
<1>1. Images(request) \in {1, 4}
  BY DEF Images
<1>2. Image(ok, picture) \in Parts /\ Image(ok, picture).kind = "image"
  BY DEF Image, Parts
<1>3. Trailers \in Parts /\ Trailers.kind = "trailers"
  BY DEF Trailers, Parts
<1> QED BY <1>1, <1>2, <1>3 DEF Reply

\* At first nothing is sent, read or written.
LEMMA ServerStarts == ServerInit => ServerInv
<1> SUFFICES ASSUME ServerInit PROVE ServerInv
  OBVIOUS
<1>0. /\ at = "start" /\ queue = <<>> /\ serving = NoTcpClient
      /\ sent = [c \in TcpClients |-> <<>>] /\ readCount = [c \in TcpClients |-> 0]
      /\ written = [c \in TcpClients |-> <<>>]
  BY DEF ServerInit
<1>1. ServerTypes
  <2>1. <<>> \in Seq(Requests) /\ <<>> \in Seq(Parts) /\ Len(<<>>) = 0
        /\ <<>> \in Seq(TcpClients)
    OBVIOUS
  <2> QED BY <1>0, <2>1 DEF ServerTypes
<1>2. ServedInTurn
  <2>1. \A c \in TcpClients : Unserved(c)
    BY <1>0, NoTcpClientAssumption DEF Unserved
  <2>2. DOMAIN queue = {}
    BY <1>0
  <2> QED BY <2>1, <2>2 DEF ServedInTurn
<1>3. RepliesUnderWay
  BY <1>0 DEF RepliesUnderWay
<1>4. RepliesMatchRequests
  <2>1. \A c \in TcpClients : DOMAIN written[c] = {}
    BY <1>0
  <2> QED BY <2>1 DEF RepliesMatchRequests
<1> QED BY <1>1, <1>2, <1>3, <1>4 DEF ServerInv

\* What is written keeps its place, and matches its requests, though more are sent.
LEMMA RepliesStay ==
  ASSUME ServerInv, written' = written, 
         \A c \in TcpClients :
           /\ Len(sent'[c]) \in Nat /\ Len(sent[c]) <= Len(sent'[c])
           /\ \A k \in 1..Len(sent[c]) : sent'[c][k] = sent[c][k]
  PROVE  /\ RepliesMatchRequests'
         /\ \A c \in TcpClients, n \in Nat :
              /\ RequestOf(c, n)' = RequestOf(c, n)
              /\ PlaceInReply(c, n)' = PlaceInReply(c, n)
<1>1. ASSUME NEW c \in TcpClients, NEW n \in Nat
      PROVE  /\ RequestOf(c, n)' = RequestOf(c, n)
             /\ PlaceInReply(c, n)' = PlaceInReply(c, n)
  BY <1>1, SamePlace
<1>2. ASSUME NEW c \in TcpClients, NEW i \in DOMAIN written[c]
      PROVE  /\ i \in Nat \ {0}
             /\ RequestOf(c, i) \in 1..Len(sent[c])
             /\ \A k \in 1..RequestOf(c, i) : sent[c][k] # "unreadable"
             /\ written[c][i].kind =
                  IF PlaceInReply(c, i)
                       > Images(sent[c][RequestOf(c, i)])
                  THEN "trailers" ELSE "image"
  <2>1. i \in Nat \ {0} /\ Len(sent[c]) \in Nat
    BY DEF ServerInv, ServerTypes
  <2>2. RequestOf(c, i) \in Nat \ {0}
    BY <2>1, PlaceTypes
  <2> QED BY <2>1, <2>2 DEF ServerInv, RepliesMatchRequests
<1>3. ASSUME NEW c \in TcpClients, NEW i \in DOMAIN written'[c]
      PROVE  /\ RequestOf(c, i)' <= Len(sent'[c])
             /\ \A k \in 1..RequestOf(c, i)' : sent'[c][k] # "unreadable"
             /\ written'[c][i].kind =
                  IF PlaceInReply(c, i)'
                       > Images(sent'[c][RequestOf(c, i)'])
                  THEN "trailers" ELSE "image"
  <2> DEFINE r == RequestOf(c, i)
  <2>1. i \in DOMAIN written[c] /\ written'[c][i] = written[c][i]
    OBVIOUS
  <2>2. i \in Nat /\ r \in 1..Len(sent[c]) /\ Len(sent[c]) \in Nat
    BY <1>2, <2>1 DEF ServerInv, ServerTypes
  <2>3. RequestOf(c, i)' = r /\ PlaceInReply(c, i)' = PlaceInReply(c, i)
    BY <1>1, <2>2
  <2>4. sent'[c][r] = sent[c][r] /\ r <= Len(sent'[c])
        /\ \A k \in 1..r : sent'[c][k] = sent[c][k]
    BY <2>2
  <2>5. /\ \A k \in 1..r : sent[c][k] # "unreadable"
        /\ written[c][i].kind =
             IF PlaceInReply(c, i) > Images(sent[c][r])
             THEN "trailers" ELSE "image"
    BY <1>2, <2>1
  <2> HIDE DEF r
  <2> QED BY <2>1, <2>3, <2>4, <2>5
<1> QED BY <1>1, <1>3 DEF RepliesMatchRequests

\* Clients that connect, send or leave do not disturb a reply.
LEMMA UnderWayStays ==
  ASSUME ServerInv, written' = written, UNCHANGED <<at, serving, readCount, rest>>,
         \A c \in TcpClients :
           /\ Len(sent'[c]) \in Nat /\ Len(sent[c]) <= Len(sent'[c])
           /\ \A k \in 1..Len(sent[c]) : sent'[c][k] = sent[c][k]
  PROVE  RepliesUnderWay'
<1> SUFFICES ASSUME at \in {"parse", "render", "reply"},
                    NEW c \in TcpClients, NEW n \in Nat \ {0},
                    c = serving, n = Len(written[c]) + 1
             PROVE  InReply(c, n)'
  BY DEF RepliesUnderWay
<1>1. InReply(c, n)
  BY DEF ServerInv, RepliesUnderWay
<1>2. /\ RequestOf(c, n)' = RequestOf(c, n)
      /\ PlaceInReply(c, n)' = PlaceInReply(c, n)
  BY RepliesStay
<1>3. readCount[c] \in Nat /\ readCount[c] <= Len(sent[c]) /\ Len(sent[c]) \in Nat
  BY DEF ServerInv, ServerTypes
<1>4. Readable(c)'
  BY <1>1, <1>3 DEF InReply, Readable
<1>5. readCount[c] > 0 => sent'[c][readCount[c]] = sent[c][readCount[c]]
  BY <1>3
<1>6. RestOfReply' <=> RestOfReply
  BY DEF RestOfReply
<1> QED BY <1>1, <1>2, <1>4, <1>5, <1>6 DEF InReply

\* Clients queue in the order they connect in, send ahead and leave when they like.
LEMMA ClientStepKeeps ==
  ASSUME ServerInv, NEW c \in TcpClients,
         Connect(c) \/ SendRequest(c) \/ Leave(c)
  PROVE  ServerInv'
<1>1. UNCHANGED <<at, serving, readCount, rest, written>>
  BY DEF Connect, SendRequest, Leave
<1>2. /\ queue \in Seq(TcpClients) /\ Len(queue) \in Nat /\ DOMAIN queue = 1..Len(queue)
      /\ sent \in [TcpClients -> Seq(Requests)]
      /\ readCount \in [TcpClients -> Nat]
  BY DEF ServerInv, ServerTypes
<1>3. /\ sent' \in [TcpClients -> Seq(Requests)]
      /\ \A d \in TcpClients :
           /\ Len(sent'[d]) \in Nat /\ Len(sent[d]) <= Len(sent'[d])
           /\ \A k \in 1..Len(sent[d]) : sent'[d][k] = sent[d][k]
  <2>1. CASE UNCHANGED sent
    BY <1>2, <2>1
  <2>2. CASE SendRequest(c)
    <3>1. PICK request \in Requests :
            sent' = [sent EXCEPT ![c] = Append(sent[c], request)]
      BY <2>2 DEF SendRequest
    <3>2. /\ Append(sent[c], request) \in Seq(Requests)
          /\ Len(Append(sent[c], request)) = Len(sent[c]) + 1 /\ Len(sent[c]) \in Nat
          /\ \A k \in 1..Len(sent[c]) : Append(sent[c], request)[k] = sent[c][k]
      BY <1>2
    <3>3. sent'[c] = Append(sent[c], request) /\ \A d \in TcpClients \ {c} : sent'[d] = sent[d]
      BY <1>2, <3>1
    <3> QED BY <1>2, <3>1, <3>2, <3>3
  <2> QED BY <2>1, <2>2 DEF Connect, Leave
<1>4. queue' \in Seq(TcpClients)
  <2>1. Append(queue, c) \in Seq(TcpClients)
    BY <1>2
  <2> QED BY <1>2, <2>1 DEF Connect, SendRequest, Leave
<1>5. ServerTypes'
  <2>1. \A d \in TcpClients : readCount[d] <= Len(sent'[d])
    <3> TAKE d \in TcpClients
    <3>1. readCount[d] \in Nat /\ readCount[d] <= Len(sent[d]) /\ Len(sent[d]) \in Nat
      BY <1>2 DEF ServerInv, ServerTypes
    <3> QED BY <1>3, <3>1
  <2> QED BY <1>1, <1>3, <1>4, <2>1 DEF ServerInv, ServerTypes
<1>6. ServedInTurn'
  <2>1. \A d : Unserved(d)' <=> Unserved(d)
    BY <1>1 DEF Unserved
  <2>2. CASE Connect(c)
    <3>1. /\ arrived' = arrived \cup {c} /\ c \notin arrived /\ queue' = Append(queue, c)
      BY <2>2 DEF Connect
    <3>2. /\ DOMAIN queue' = 1..(Len(queue) + 1) /\ queue'[Len(queue) + 1] = c
          /\ \A i \in DOMAIN queue : queue'[i] = queue[i]
      BY <1>2, <3>1
    <3>3. \A i \in DOMAIN queue : queue[i] \in arrived /\ queue[i] # c
      BY <3>1 DEF ServerInv, ServedInTurn
    <3>4. Unserved(c)
      BY <3>1 DEF ServerInv, ServedInTurn
    <3>5. \A d \in TcpClients : d \notin arrived' => Unserved(d)
      BY <3>1 DEF ServerInv, ServedInTurn
    <3>6. \A i \in DOMAIN queue' : queue'[i] \in arrived' /\ Unserved(queue'[i])
      BY <1>2, <3>1, <3>2, <3>3, <3>4 DEF ServerInv, ServedInTurn
    <3>7. \A i, j \in DOMAIN queue' : j # i => queue'[j] # queue'[i]
      <4> SUFFICES ASSUME NEW i \in DOMAIN queue', NEW j \in DOMAIN queue', j # i
                   PROVE  queue'[j] # queue'[i]
        OBVIOUS
      <4>1. CASE i \in DOMAIN queue /\ j \in DOMAIN queue
        BY <3>2, <4>1 DEF ServerInv, ServedInTurn
      <4>2. CASE i = Len(queue) + 1 \/ j = Len(queue) + 1
        <5>1. CASE i = Len(queue) + 1
          BY <1>2, <3>2, <3>3, <5>1
        <5>2. CASE j = Len(queue) + 1
          BY <1>2, <3>2, <3>3, <5>2
        <5> QED BY <4>2, <5>1, <5>2
      <4> QED BY <1>2, <3>2, <4>1, <4>2
    <3> QED BY <2>1, <3>5, <3>6, <3>7 DEF ServedInTurn
  <2>3. CASE UNCHANGED <<arrived, queue>>
    BY <2>1, <2>3 DEF ServerInv, ServedInTurn
  <2> QED BY <2>2, <2>3 DEF SendRequest, Leave
<1>7. RepliesUnderWay' /\ RepliesMatchRequests'
  BY <1>1, <1>3, UnderWayStays, RepliesStay
<1> QED BY <1>5, <1>6, <1>7 DEF ServerInv

\* A client accepted has had nothing read or written, and those behind it wait on.
LEMMA AcceptKeeps ==
  ASSUME ServerInv, Accept
  PROVE  ServerInv'
<1>1. /\ queue # <<>> /\ serving' = Head(queue) /\ queue' = Tail(queue) /\ at' = "parse"
      /\ UNCHANGED <<sent, readCount, rest, written, arrived>>
  BY DEF Accept
<1>2. /\ queue \in Seq(TcpClients) /\ queue' \in Seq(TcpClients)
      /\ 1 \in DOMAIN queue /\ Head(queue) = queue[1] /\ queue[1] \in TcpClients
      /\ Len(queue) \in Nat /\ DOMAIN queue = 1..Len(queue)
      /\ DOMAIN queue' = 1..(Len(queue) - 1)
      /\ \A i \in DOMAIN queue' : queue'[i] = queue[i + 1] /\ i + 1 \in DOMAIN queue
  BY <1>1 DEF ServerInv, ServerTypes
<1>3. ServerTypes'
  BY <1>1, <1>2 DEF ServerInv, ServerTypes
<1>4. Unserved(queue[1]) /\ queue[1] \in arrived
  BY <1>2 DEF ServerInv, ServedInTurn
<1>5. ServedInTurn'
  <2>1. \A d : Unserved(d) /\ d # queue[1] => Unserved(d)'
    BY <1>1, <1>2 DEF Unserved
  <2>2. ASSUME NEW i \in DOMAIN queue'
        PROVE  /\ queue'[i] \in arrived /\ Unserved(queue'[i])
               /\ \A j \in DOMAIN queue' : j # i => queue'[j] # queue'[i]
               /\ queue'[i] # queue[1]
    <3>1. /\ queue'[i] = queue[i + 1] /\ i + 1 \in DOMAIN queue /\ i + 1 # 1 /\ i \in Nat
      BY <1>2
    <3>2. queue[i + 1] # queue[1] /\ Unserved(queue[i + 1]) /\ queue[i + 1] \in arrived
      BY <1>2, <3>1 DEF ServerInv, ServedInTurn
    <3>3. Unserved(queue'[i]) /\ queue'[i] # queue[1]
      BY <3>1, <3>2
    <3>4. \A j \in DOMAIN queue' : j # i => queue'[j] # queue'[i]
      <4> TAKE j \in DOMAIN queue'
      <4>1. j \in Nat /\ queue'[j] = queue[j + 1] /\ j + 1 \in DOMAIN queue
        BY <1>2
      <4>2. j # i => j + 1 # i + 1
        BY <3>1, <4>1
      <4> QED BY <3>1, <4>1, <4>2 DEF ServerInv, ServedInTurn
    <3> QED BY <3>1, <3>2, <3>3, <3>4
  <2>3. \A d \in TcpClients : d \notin arrived => Unserved(d)'
    BY <1>4, <2>1 DEF ServerInv, ServedInTurn
  <2>4. \A i \in DOMAIN queue' : Unserved(queue[i])'
    BY <1>1, <1>2, <2>2 DEF Unserved
  <2> QED BY <1>1, <2>2, <2>3, <2>4 DEF ServedInTurn
<1>6. RepliesUnderWay'
  <2> SUFFICES ASSUME NEW c \in TcpClients, NEW n \in Nat \ {0},
                      c = serving', n = Len(written'[c]) + 1
               PROVE  InReply(c, n)'
    BY DEF RepliesUnderWay
  <2>1. c = queue[1] /\ readCount[c] = 0 /\ written[c] = <<>>
    BY <1>1, <1>2, <1>4 DEF Unserved
  <2>2. n = 1
    BY <1>1, <2>1
  <2>3. RequestOf(c, n) = 1 /\ PlaceInReply(c, n) = 1
    BY <2>2, FirstPlace
  <2>4. RequestOf(c, n)' = 1 /\ PlaceInReply(c, n)' = 1
    BY <1>1, <2>3, SamePlace
  <2>5. Readable(c)'
    BY <1>1, <2>1 DEF Readable
  <2> QED BY <1>1, <2>1, <2>4, <2>5 DEF InReply
<1>7. RepliesMatchRequests'
  <2>1. \A d \in TcpClients : Len(sent'[d]) \in Nat /\ Len(sent[d]) <= Len(sent'[d])
                              /\ \A k \in 1..Len(sent[d]) : sent'[d][k] = sent[d][k]
    BY <1>1 DEF ServerInv, ServerTypes
  <2> QED BY <1>1, <2>1, RepliesStay
<1> QED BY <1>3, <1>5, <1>6, <1>7 DEF ServerInv

\* While a client is served, the queue and those that are to come stay as they are.
LEMMA TurnStays ==
  ASSUME ServerInv, UNCHANGED <<queue, arrived, serving>>,
         \A d \in TcpClients \ {serving} : readCount'[d] = readCount[d] /\ written'[d] = written[d]
  PROVE  ServedInTurn'
<1>1. \A d \in TcpClients : Unserved(d) => Unserved(d)'
  BY DEF Unserved
<1>2. \A i \in DOMAIN queue : queue[i] \in TcpClients
  BY DEF ServerInv, ServerTypes
<1>3. \A i \in DOMAIN queue : Unserved(queue[i])'
  BY <1>1, <1>2 DEF ServerInv, ServedInTurn, Unserved
<1> QED BY <1>1, <1>3 DEF ServerInv, ServedInTurn

\* A connection that ends leaves a reply cut short, and the next is not yet begun.
LEMMA NoReplyBegun ==
  ASSUME ServerInv, at' \notin {"parse", "render", "reply"}, UNCHANGED <<queue, arrived, sent, written>>,
         readCount' \in [TcpClients -> Nat], \A c \in TcpClients : readCount'[c] <= Len(sent[c]),
         serving' = serving \/ serving' = NoTcpClient,
         \A c \in TcpClients \ {serving} : readCount'[c] = readCount[c]
  PROVE  ServerInv'
<1>1. ServerTypes'
  BY DEF ServerInv, ServerTypes
<1>2. ServedInTurn'
  <2>1. \A d \in TcpClients : Unserved(d) => Unserved(d)'
    BY NoTcpClientAssumption DEF Unserved
  <2>2. \A i \in DOMAIN queue : queue[i] \in TcpClients
    BY DEF ServerInv, ServerTypes
  <2>3. \A i \in DOMAIN queue : Unserved(queue[i])'
    BY <2>1, <2>2 DEF ServerInv, ServedInTurn, Unserved
  <2> QED BY <2>1, <2>3 DEF ServerInv, ServedInTurn
<1>3. RepliesUnderWay'
  BY DEF RepliesUnderWay
<1>4. RepliesMatchRequests'
  <2>1. \A d \in TcpClients : Len(sent'[d]) \in Nat /\ Len(sent[d]) <= Len(sent'[d])
                              /\ \A k \in 1..Len(sent[d]) : sent'[d][k] = sent[d][k]
    BY DEF ServerInv, ServerTypes
  <2> QED BY <2>1, RepliesStay
<1> QED BY <1>1, <1>2, <1>3, <1>4 DEF ServerInv

\* One request more is read from the client that is served.
LEMMA RequestCounted ==
  ASSUME ServerInv, NEW place, ReadNext(place)
  PROVE  /\ serving \in TcpClients /\ at = "parse" /\ at' = place
         /\ readCount' \in [TcpClients -> Nat] /\ readCount[serving] \in Nat
         /\ readCount'[serving] = readCount[serving] + 1
         /\ \A c \in TcpClients \ {serving} : readCount'[c] = readCount[c]
         /\ \A c \in TcpClients : readCount'[c] <= Len(sent[c])
<1>1. /\ serving \in TcpClients /\ at = "parse" /\ at' = place
      /\ readCount' = [readCount EXCEPT ![serving] = readCount[serving] + 1]
      /\ readCount[serving] < Len(sent[serving])
  BY DEF ReadNext, HasRequest, ServerInv, ServerTypes
<1>2. /\ readCount \in [TcpClients -> Nat]
      /\ \A c \in TcpClients : readCount[c] <= Len(sent[c]) /\ Len(sent[c]) \in Nat
  BY DEF ServerInv, ServerTypes
<1> QED BY <1>1, <1>2

\* A request that can be parsed is to be answered next.
LEMMA ParseKeeps ==
  ASSUME ServerInv, ParseRequest
  PROVE  ServerInv'
<1>1. /\ ReadNext("render")
      /\ sent[serving][readCount[serving] + 1] # "unreadable"
      /\ UNCHANGED <<serving, rest, written, queue, arrived, sent>>
  BY DEF ParseRequest, NextRequest, tcpClientVars
<1>2. /\ serving \in TcpClients /\ at = "parse" /\ at' = "render"
      /\ readCount' \in [TcpClients -> Nat] /\ readCount[serving] \in Nat
      /\ readCount'[serving] = readCount[serving] + 1
      /\ \A c \in TcpClients \ {serving} : readCount'[c] = readCount[c]
      /\ \A c \in TcpClients : readCount'[c] <= Len(sent[c])
  BY <1>1, RequestCounted
<1>3. ServerTypes'
  BY <1>1, <1>2 DEF ServerInv, ServerTypes
<1>4. ServedInTurn'
  BY <1>1, <1>2, TurnStays
<1>5. RepliesMatchRequests'
  <2>1. \A d \in TcpClients : Len(sent'[d]) \in Nat /\ Len(sent[d]) <= Len(sent'[d])
                              /\ \A k \in 1..Len(sent[d]) : sent'[d][k] = sent[d][k]
    BY <1>1 DEF ServerInv, ServerTypes
  <2> QED BY <1>1, <2>1, RepliesStay
<1>6. RepliesUnderWay'
  <2> SUFFICES ASSUME NEW c \in TcpClients, NEW n \in Nat \ {0},
                      c = serving', n = Len(written'[c]) + 1
               PROVE  InReply(c, n)'
    BY DEF RepliesUnderWay
  <2>1. c = serving /\ InReply(c, n)
    BY <1>1, <1>2 DEF ServerInv, RepliesUnderWay
  <2>2. /\ RequestOf(c, n)' = RequestOf(c, n)
        /\ PlaceInReply(c, n)' = PlaceInReply(c, n)
    BY <1>1, SamePlace
  <2>3. Readable(c)'
    <3>1. \A k \in 1..readCount[c] : sent[c][k] # "unreadable"
      BY <2>1 DEF InReply, Readable
    <3>2. \A k \in 1..(readCount[c] + 1) : k \in 1..readCount[c] \/ k = readCount[c] + 1
      BY <1>2, <2>1
    <3> QED BY <1>1, <1>2, <2>1, <3>1, <3>2 DEF Readable
  <2> QED BY <1>2, <2>1, <2>2, <2>3 DEF InReply
<1> QED BY <1>3, <1>4, <1>5, <1>6 DEF ServerInv

\* The reply to a request is of the form that the request asked for.
LEMMA RenderKeeps ==
  ASSUME ServerInv, Render
  PROVE  ServerInv'
<1>1. /\ at = "render" /\ at' = "reply"
      /\ UNCHANGED <<serving, readCount, written, queue, arrived, sent>>
  BY DEF Render, tcpClientVars
<1>2. PICK ok \in BOOLEAN, picture \in {"drawn", "partial", "black"} :
        rest' = Reply(sent[serving][readCount[serving]], ok, picture)
  BY DEF Render
<1>3. ServerTypes'
  BY <1>1 DEF ServerInv, ServerTypes
<1>4. ServedInTurn'
  BY <1>1, TurnStays
<1>5. RepliesMatchRequests'
  <2>1. \A d \in TcpClients : Len(sent'[d]) \in Nat /\ Len(sent[d]) <= Len(sent'[d])
                              /\ \A k \in 1..Len(sent[d]) : sent'[d][k] = sent[d][k]
    BY <1>1 DEF ServerInv, ServerTypes
  <2> QED BY <1>1, <2>1, RepliesStay
<1>6. RepliesUnderWay'
  <2> SUFFICES ASSUME NEW c \in TcpClients, NEW n \in Nat \ {0},
                      c = serving', n = Len(written'[c]) + 1
               PROVE  InReply(c, n)'
    BY DEF RepliesUnderWay
  <2>1. c = serving /\ InReply(c, n)
    BY <1>1 DEF ServerInv, RepliesUnderWay
  <2>2. /\ RequestOf(c, n)' = RequestOf(c, n)
        /\ PlaceInReply(c, n)' = PlaceInReply(c, n)
    BY <1>1, SamePlace
  <2>3. Readable(c)'
    BY <1>1, <2>1 DEF InReply, Readable
  <2> DEFINE request == sent[c][readCount[c]]
  <2>4. /\ rest' \in Seq(Parts) /\ Len(rest') = Images(request) + 1
        /\ \A i \in 1..Len(rest') :
             rest'[i].kind = IF i = Len(rest') THEN "trailers" ELSE "image"
    BY <1>2, <2>1, ReplyParts
  <2>5. Images(request) \in {1, 4}
    BY DEF Images
  <2>6. RestOfReply'
    BY <2>4, <2>5 DEF RestOfReply
  <2>7. PlaceInReply(c, n)' + Len(rest') = Images(request) + 2
    BY <1>1, <2>1, <2>2, <2>4, <2>5 DEF InReply
  <2> QED BY <1>1, <2>1, <2>2, <2>3, <2>6, <2>7 DEF InReply
<1> QED BY <1>3, <1>4, <1>5, <1>6 DEF ServerInv

\* The part of a reply that is written next is the one due.
LEMMA WritePartKeeps ==
  ASSUME ServerInv, WritePart
  PROVE  ServerInv'
<1>1. PICK c \in TcpClients : c = serving
  BY DEF WritePart, ServerInv, ServerTypes
<1>2. PICK w \in Seq(Parts), n \in Nat \ {0}, r \in Nat :
        w = written[c] /\ Len(w) \in Nat /\ n = Len(w) + 1 /\ r = readCount[c]
        /\ r <= Len(sent[c]) /\ Len(sent[c]) \in Nat
  <2>1. /\ written[c] \in Seq(Parts) /\ Len(written[c]) \in Nat
        /\ Len(written[c]) + 1 \in Nat \ {0}
        /\ readCount[c] \in Nat /\ readCount[c] <= Len(sent[c]) /\ Len(sent[c]) \in Nat
    BY DEF ServerInv, ServerTypes
  <2> QED BY <2>1
<1>3. /\ at = "reply"
      /\ rest' = Tail(rest) /\ at' = IF Len(rest) = 1 THEN "parse" ELSE "reply"
      /\ UNCHANGED <<serving, readCount, queue, arrived, sent>>
      /\ written' = [written EXCEPT ![c] = Append(w, Head(rest))]
      /\ written \in [TcpClients -> Seq(Parts)]
  BY <1>1, <1>2 DEF WritePart, tcpClientVars, ServerInv, ServerTypes
<1>4. InReply(c, n)
  BY <1>1, <1>2, <1>3 DEF ServerInv, RepliesUnderWay
<1>5. /\ rest \in Seq(Parts) /\ rest # <<>> /\ Len(rest) \in Nat \ {0}
      /\ \A i \in 1..Len(rest) : rest[i].kind = IF i = Len(rest) THEN "trailers" ELSE "image"
  BY <1>1, <1>2, <1>3, <1>4 DEF InReply, RestOfReply
<1>6. PICK p \in Parts :
        /\ p = Head(rest) /\ p.kind = IF Len(rest) = 1 THEN "trailers" ELSE "image"
        /\ rest' \in Seq(Parts) /\ Len(rest') = Len(rest) - 1
        /\ \A i \in 1..(Len(rest) - 1) : rest'[i] = rest[i + 1]
  <2>1. /\ Head(rest) = rest[1] /\ Head(rest) \in Parts /\ 1 \in 1..Len(rest)
        /\ Tail(rest) \in Seq(Parts) /\ Len(Tail(rest)) = Len(rest) - 1
        /\ \A i \in 1..(Len(rest) - 1) : Tail(rest)[i] = rest[i + 1]
    BY <1>5
  <2>2. Head(rest).kind = IF Len(rest) = 1 THEN "trailers" ELSE "image"
    BY <1>5, <2>1
  <2> QED BY <1>3, <2>1, <2>2
<1>7. /\ written'[c] \in Seq(Parts) /\ Len(written'[c]) = n /\ written'[c][n] = p
      /\ \A j \in 1..(n - 1) : written'[c][j] = w[j]
      /\ \A d \in TcpClients \ {c} : written'[d] = written[d]
      /\ written' \in [TcpClients -> Seq(Parts)]
  <2>1. PICK v \in Seq(Parts) :
          v = Append(w, p) /\ Len(v) = n /\ v[n] = p /\ \A j \in 1..(n - 1) : v[j] = w[j]
    <3>1. /\ Append(w, p) \in Seq(Parts) /\ Len(Append(w, p)) = n /\ Append(w, p)[n] = p
          /\ \A j \in 1..(n - 1) : Append(w, p)[j] = w[j]
      BY <1>2, <1>6
    <3> QED BY <3>1
  <2>2. written' = [written EXCEPT ![c] = v]
    BY <1>3, <1>6, <2>1
  <2> QED BY <1>3, <2>1, <2>2
<1>8. /\ Readable(c) /\ r > 0 /\ RequestOf(c, n) = r
      /\ PlaceInReply(c, n) + Len(rest) = Images(sent[c][r]) + 2
  BY <1>1, <1>2, <1>3, <1>4 DEF InReply
<1>9. PlaceInReply(c, n) \in Nat /\ Images(sent[c][r]) \in Nat
  BY <1>1, <1>2, <1>3, PlaceTypes DEF Images
<1>10. ServerTypes'
  BY <1>1, <1>2, <1>3, <1>7 DEF ServerInv, ServerTypes
<1>11. ServedInTurn'
  BY <1>1, <1>2, <1>3, <1>7, TurnStays
<1>12. /\ RequestOf(c, n)' = r /\ PlaceInReply(c, n)' = PlaceInReply(c, n)
  BY <1>1, <1>2, <1>3, <1>7, <1>8, SamePlace
<1>13. RepliesUnderWay'
  <2> SUFFICES ASSUME NEW d \in TcpClients, NEW m \in Nat \ {0},
                      d = serving', m = Len(written'[d]) + 1
               PROVE  InReply(d, m)'
    BY DEF RepliesUnderWay
  <2>1. d = c /\ m = n + 1
    BY <1>1, <1>2, <1>3, <1>7
  <2>2. IF p.kind = "trailers"
          THEN RequestOf(c, m)' = r + 1 /\ PlaceInReply(c, m)' = 1
          ELSE RequestOf(c, m)' = r
               /\ PlaceInReply(c, m)' = PlaceInReply(c, n) + 1
    BY <1>1, <1>2, <1>3, <1>7, <1>8, <2>1, NextPlace
  <2>3. Readable(d)' /\ readCount'[d] = r
    BY <1>1, <1>2, <1>3, <1>8, <2>1 DEF Readable
  <2>4. CASE Len(rest) = 1
    BY <1>1, <1>2, <1>3, <1>6, <2>1, <2>2, <2>3, <2>4 DEF InReply
  <2>5. CASE Len(rest) # 1
    <3>1. RestOfReply'
      <4>1. rest' # <<>> /\ Len(rest') \in Nat
        BY <1>5, <1>6, <2>5
      <4>2. \A i \in 1..Len(rest') : i + 1 \in 1..Len(rest)
        BY <1>5, <1>6
      <4> QED BY <1>5, <1>6, <4>1, <4>2 DEF RestOfReply
    <3>2. PlaceInReply(c, m)' + Len(rest') = Images(sent[c][r]) + 2
      BY <1>5, <1>6, <1>8, <1>9, <2>2, <2>5
    <3>3. /\ at' = "reply" /\ sent' = sent /\ r > 0
          /\ RequestOf(c, m)' = r
      BY <1>1, <1>2, <1>3, <1>6, <1>8, <2>2, <2>5
    <3> QED BY <2>1, <2>3, <3>1, <3>2, <3>3 DEF InReply
  <2> QED BY <2>4, <2>5
<1>14. RepliesMatchRequests'
  <2> SUFFICES ASSUME NEW d \in TcpClients, NEW i \in DOMAIN written'[d]
               PROVE  /\ RequestOf(d, i)' <= Len(sent[d])
                      /\ \A k \in 1..RequestOf(d, i)' : sent[d][k] # "unreadable"
                      /\ written'[d][i].kind =
                           IF PlaceInReply(d, i)'
                                > Images(sent[d][RequestOf(d, i)'])
                           THEN "trailers" ELSE "image"
    BY <1>1, <1>2, <1>3 DEF RepliesMatchRequests
  <2>1. i \in Nat
    BY <1>7
  <2>2. CASE i \in DOMAIN written[d] /\ ~(d = c /\ i = n)
    <3>1. \A j \in 1..i : written'[d][j] = written[d][j]
      BY <1>1, <1>2, <1>3, <1>7, <2>1, <2>2
    <3>2. /\ RequestOf(d, i)' = RequestOf(d, i)
          /\ PlaceInReply(d, i)' = PlaceInReply(d, i)
      BY <2>1, <3>1, SamePlace
    <3>3. i \in 1..i
      BY <1>1, <1>2, <1>3, <2>1, <2>2
    <3> QED BY <2>2, <3>1, <3>2, <3>3 DEF ServerInv, RepliesMatchRequests
  <2>3. CASE d = c /\ i = n
    <3>1. \A k \in 1..r : sent[c][k] # "unreadable"
      BY <1>2, <1>8 DEF Readable
    <3>2. PlaceInReply(c, n) > Images(sent[c][r]) <=> Len(rest) = 1
      <4>1. ASSUME NEW x \in Nat, NEW y \in Nat, NEW z \in Nat \ {0}, x + z = y + 2
            PROVE  x > y <=> z = 1
        BY <4>1
      <4> QED BY <1>5, <1>8, <1>9, <4>1
    <3> QED BY <1>1, <1>2, <1>3, <1>6, <1>7, <1>12, <2>3, <3>1, <3>2
  <2>4. i \in DOMAIN written[d] \/ (d = c /\ i = n)
    BY <1>1, <1>2, <1>3, <1>7
  <2> QED BY <2>2, <2>3, <2>4
<1> QED BY <1>10, <1>11, <1>13, <1>14 DEF ServerInv

\* One step of a client or of the server keeps every reply in its place.
LEMMA ServerStepKeeps ==
  ASSUME ServerInv, [ServerNext]_tcpVars
  PROVE  ServerInv'
<1>1. CASE \E c \in TcpClients : Connect(c) \/ SendRequest(c) \/ Leave(c)
  BY <1>1, ClientStepKeeps
<1>2. /\ readCount \in [TcpClients -> Nat] /\ \A c \in TcpClients : readCount[c] <= Len(sent[c])
  BY DEF ServerInv, ServerTypes
<1>3. CASE Listen \/ Close \/ PeerClosed \/ WriteFails
  <2>1. /\ at' \notin {"parse", "render", "reply"}
        /\ UNCHANGED <<queue, arrived, sent, written, readCount>>
        /\ serving' = serving \/ serving' = NoTcpClient
    BY <1>3 DEF Listen, Close, PeerClosed, WriteFails,
       tcpClientVars, tcpVars
  <2> QED BY <1>2, <2>1, NoReplyBegun
<1>4. CASE RejectRequest
  <2>1. ReadNext("close") /\ UNCHANGED <<serving, queue, arrived, sent, written>>
    BY <1>4 DEF RejectRequest, tcpClientVars
  <2>2. /\ at' = "close" /\ readCount' \in [TcpClients -> Nat]
        /\ \A c \in TcpClients \ {serving} : readCount'[c] = readCount[c]
        /\ \A c \in TcpClients : readCount'[c] <= Len(sent[c])
    BY <2>1, RequestCounted
  <2> QED BY <2>1, <2>2, NoReplyBegun
<1>5. CASE UNCHANGED tcpVars
  <2>1. UNCHANGED <<at, queue, serving, arrived, sent, readCount, rest, written>>
    BY <1>5 DEF tcpVars, tcpClientVars
  <2>2. \A d \in TcpClients : Len(sent'[d]) \in Nat /\ Len(sent[d]) <= Len(sent'[d])
                              /\ \A k \in 1..Len(sent[d]) : sent'[d][k] = sent[d][k]
    BY <2>1 DEF ServerInv, ServerTypes
  <2>3. ServedInTurn'
    BY <2>1, TurnStays
  <2>4. ServerTypes'
    BY <2>1 DEF ServerInv, ServerTypes
  <2>5. RepliesUnderWay' /\ RepliesMatchRequests'
    BY <2>1, <2>2, RepliesStay, UnderWayStays
  <2> QED BY <2>3, <2>4, <2>5 DEF ServerInv
<1> QED BY <1>1, <1>3, <1>4, <1>5, AcceptKeeps, ParseKeeps, RenderKeeps, WritePartKeeps
        DEF ServerNext, ServerStep

\* Each client gets the replies to its own requests, in their order and the form each
\* asked for, up to the first that cannot be parsed, whoever was served before and
\* however that ended (RenderServer.cpp:142-171, 201-215).
THEOREM RepliesMatch == ServerSpec => []RepliesMatchRequests
<1>1. ServerInit => ServerInv
  BY ServerStarts
<1>2. ServerInv /\ [ServerNext]_tcpVars => ServerInv'
  BY ServerStepKeeps
<1>3. ServerInv => RepliesMatchRequests
  BY DEF ServerInv
<1> QED BY <1>1, <1>2, <1>3, PTL DEF ServerSpec
=============================================================================
