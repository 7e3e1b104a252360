------------------------------ MODULE Signalling ------------------------------
(***************************************************************************)
(* The WebSocket listener of the WebRTC server                             *)
(* (src/streaming/webrtc/src/SignallingHandler.cpp): one active client, a  *)
(* new one supersedes the old.  Handlers and posted tasks run one at a     *)
(* time on the listener's thread, posted tasks in order; other threads     *)
(* only post.  The connections themselves are websocketpp's.               *)
(***************************************************************************)
EXTENDS Naturals, SequencesExt

CONSTANT MaxClients  \* bound on the connections ever made

ASSUME MaxClientsAssumption == MaxClients \in Nat \ {0}

VARIABLES
  links,   \* the state of each connection
  client,  \* m_client: the active connection, NoClient when expired
  posted   \* the tasks posted to the io_service

signallingVars == <<links, client, posted>>

Clients == 1..MaxClients
NoClient == 0

\* A task names the client it is for; "offer" and "candidate" are sends.
Task(kind, c, session) == [kind |-> kind, client |-> c, session |-> session]

SignallingInit ==
  /\ links = [c \in Clients |-> "none"]
  /\ client = NoClient
  /\ posted = <<>>

\* A handshake completes: clients are numbered as they open.
OnOpen(c) ==
  /\ links[c] = "none"
  /\ c > 1 => links[c - 1] # "none"
  /\ links' = [d \in Clients |->
       IF d = c THEN "open"
       ELSE IF d = client /\ links[d] = "open" THEN "closing" ELSE links[d]]
  /\ client' = c
  /\ posted' = Append(posted, Task("startup", c, 0))

\* The connection ends: the client leaves, or the server's close completes.
OnClose(c) ==
  /\ links[c] \in {"open", "closing"}
  /\ links' = [links EXCEPT ![c] = "closed"]
  /\ client' = IF client = c THEN NoClient ELSE client
  /\ UNCHANGED posted

\* closeActiveClient, on whichever thread and for whichever session: the client is
\* looked up now, and closed later if it is still the active one.
CloseActiveClient(session) ==
  /\ posted' = IF client = NoClient THEN posted
               ELSE Append(posted, Task("close", client, session))
  /\ UNCHANGED <<links, client>>

IsNext(kind) == posted # <<>> /\ Head(posted).kind = kind

RunClose ==
  /\ IsNext("close")
  /\ posted' = Tail(posted)
  /\ links' = [links EXCEPT ![Head(posted).client] =
       IF client = Head(posted).client /\ @ = "open" THEN "closing" ELSE @]
  /\ UNCHANGED client

\* With the listener stopped, io_service::run returns when nothing is left to wait
\* for.
NothingLeft == posted = <<>> /\ \A c \in Clients : links[c] \in {"none", "closed"}
=============================================================================
