----------------------------- MODULE RenderServer -----------------------------
(***************************************************************************)
(* The TCP render server (src/streaming/src/streaming/RenderServer.cpp):   *)
(* one thread that accepts a client, answers its requests one by one until *)
(* reading or writing fails, closes the connection and accepts the next.   *)
(* Clients queue, send requests ahead and leave when they like.  Requests  *)
(* have sizes that libjpeg encodes.                                        *)
(***************************************************************************)
EXTENDS Integers, SequencesExt

CONSTANTS
  TcpClients,
  NoTcpClient,
  MaxRequests  \* bound on the requests of a client

ASSUME NoTcpClientAssumption == NoTcpClient \notin TcpClients

\* A request in full and in minimal mode, and one that cannot be parsed.
Requests == {"full", "minimal", "unreadable"}

VARIABLES
  sigpipe,   \* what the process does on a write to a closed connection
  at,        \* where the server's thread stands
  queue,     \* connections that wait to be accepted
  serving,   \* the client whose connection handleClient has
  arrived,   \* the clients that have connected
  open,      \* those that have not closed their end
  sent,      \* what each client has sent
  readCount, \* how many of these the server has read
  rest,      \* the parts of the current reply still to be written
  written    \* the parts written to each client

tcpClientVars == <<queue, arrived, open, sent>>
tcpVars == <<sigpipe, at, serving, readCount, rest, written, tcpClientVars>>

ServerInit ==
  /\ sigpipe \in {"ignored", "ends the process"}
  /\ at = "start"
  /\ queue = <<>> /\ serving = NoTcpClient
  /\ arrived = {} /\ open = {}
  /\ sent = [c \in TcpClients |-> <<>>]
  /\ readCount = [c \in TcpClients |-> 0]
  /\ rest = <<>>
  /\ written = [c \in TcpClients |-> <<>>]

-----------------------------------------------------------------------------
(* The clients                                                             *)

Connect(c) ==
  /\ at \notin {"start", "dead"}
  /\ c \notin arrived
  /\ arrived' = arrived \cup {c} /\ open' = open \cup {c}
  /\ queue' = Append(queue, c)
  /\ UNCHANGED <<sigpipe, at, serving, sent, readCount, rest, written>>

SendRequest(c) ==
  /\ c \in open
  /\ Len(sent[c]) < MaxRequests
  /\ \E request \in Requests : sent' = [sent EXCEPT ![c] = Append(@, request)]
  /\ UNCHANGED <<sigpipe, at, serving, queue, arrived, open, readCount, rest, written>>

Leave(c) ==
  /\ c \in open
  /\ open' = open \ {c}
  /\ UNCHANGED <<sigpipe, at, serving, queue, arrived, sent, readCount, rest, written>>

-----------------------------------------------------------------------------
(* RenderServer::serve, on the thread of startRenderServer                 *)

\* Nothing catches what serve throws when it cannot bind or listen.
Listen ==
  /\ at = "start"
  /\ at' \in {"accept", "dead"}
  /\ UNCHANGED <<sigpipe, serving, readCount, rest, written, tcpClientVars>>

Accept ==
  /\ at = "accept" /\ queue # <<>>
  /\ serving' = Head(queue) /\ queue' = Tail(queue)
  /\ at' = "parse"
  /\ UNCHANGED <<sigpipe, arrived, open, sent, readCount, rest, written>>

Close ==
  /\ at = "close"
  /\ serving' = NoTcpClient
  /\ rest' = <<>>
  /\ at' = "accept"
  /\ UNCHANGED <<sigpipe, readCount, written, tcpClientVars>>

-----------------------------------------------------------------------------
(* handleClient                                                            *)

NextRequest == sent[serving][readCount[serving] + 1]
HasRequest == readCount[serving] < Len(sent[serving])

ReadNext(place) ==
  /\ at = "parse" /\ HasRequest
  /\ readCount' = [readCount EXCEPT ![serving] = @ + 1]
  /\ at' = place

ParseRequest ==
  /\ ReadNext("render") /\ NextRequest # "unreadable"
  /\ UNCHANGED <<sigpipe, serving, rest, written, tcpClientVars>>

\* Mutant: the server waits for the next request.
SkipUnreadable ==
  /\ ReadNext("parse") /\ NextRequest = "unreadable"
  /\ UNCHANGED <<sigpipe, serving, rest, written, tcpClientVars>>

\* An exception, which serve catches.
RejectRequest ==
  /\ ReadNext("close") /\ NextRequest = "unreadable"
  /\ UNCHANGED <<sigpipe, serving, rest, written, tcpClientVars>>

\* Mutant: the end of the stream is taken for a request still to come.
AwaitMore ==
  /\ at = "parse" /\ ~HasRequest /\ serving \notin open
  /\ UNCHANGED tcpVars

\* read() returns 0 once the client has left and all it sent is read.
PeerClosed ==
  /\ at = "parse" /\ ~HasRequest /\ serving \notin open
  /\ at' = "close"
  /\ UNCHANGED <<sigpipe, serving, readCount, rest, written, tcpClientVars>>

Image(ok, picture) == [kind |-> "image", ok |-> ok, picture |-> picture]
Trailers == [kind |-> "trailers", ok |-> TRUE, picture |-> "none"]

\* A full reply holds the picture four times.
Images(request) == IF request = "full" THEN 4 ELSE 1

Reply(request, ok, picture) ==
  [i \in 1..(Images(request) + 1) |->
     IF i <= Images(request) THEN Image(ok, picture) ELSE Trailers]

\* The callback may fail with the picture filled in part; what it returns is not
\* looked at.  The picture was black before.
Render ==
  /\ at = "render"
  /\ \E ok \in BOOLEAN, picture \in {"drawn", "partial", "black"} :
       /\ ok => picture = "drawn"
       /\ rest' = Reply(sent[serving][readCount[serving]], ok, picture)
  /\ at' = "reply"
  /\ UNCHANGED <<sigpipe, serving, readCount, written, tcpClientVars>>

WritePart ==
  /\ at = "reply"
  /\ written' = [written EXCEPT ![serving] = Append(@, Head(rest))]
  /\ rest' = Tail(rest)
  /\ at' = IF Len(rest) = 1 THEN "parse" ELSE "reply"
  /\ UNCHANGED <<sigpipe, serving, readCount, tcpClientVars>>

\* A client that has left may be noticed at any write.
WriteFails ==
  /\ at = "reply" /\ serving \notin open
  /\ at' = IF sigpipe = "ignored" THEN "close" ELSE "dead"
  /\ UNCHANGED <<sigpipe, serving, readCount, rest, written, tcpClientVars>>

-----------------------------------------------------------------------------
ServerStep ==
  \/ Listen \/ Accept \/ Close
  \/ ParseRequest \/ RejectRequest \/ PeerClosed
  \/ Render \/ WritePart \/ WriteFails

ServerNext ==
  \/ ServerStep
  \/ \E c \in TcpClients : Connect(c) \/ SendRequest(c) \/ Leave(c)

\* Clients owe nothing, and may stay silent for ever.
ServerSpec == ServerInit /\ [][ServerNext]_tcpVars /\ WF_tcpVars(ServerStep)

-----------------------------------------------------------------------------
(* Properties                                                              *)

\* Where a part written to a client stands: the trailers end a reply.
EndsBefore(c, i) == {j \in 1..(i - 1) : written[c][j].kind = "trailers"}
RequestOf(c, i) == Cardinality(EndsBefore(c, i)) + 1
PlaceInReply(c, i) == i - Max(EndsBefore(c, i) \cup {0})

\* A client gets the replies to its own requests, in their order and the form each
\* asked for, up to the first that cannot be parsed and cut short at most, whoever was
\* served before and however that ended (RenderServer.cpp:142-171, 201-215).
RepliesMatchRequests ==
  \A c \in TcpClients : \A i \in DOMAIN written[c] :
    /\ RequestOf(c, i) <= Len(sent[c])
    /\ \A k \in 1..RequestOf(c, i) : sent[c][k] # "unreadable"
    /\ written[c][i].kind =
         IF PlaceInReply(c, i) > Images(sent[c][RequestOf(c, i)]) THEN "trailers" ELSE "image"

\* When the client that is served leaves, the next in the queue is served, unless a
\* write to the closed connection ended the process (RenderServer.cpp:201-215).
NextClientServed ==
  \A c \in TcpClients :
    (queue # <<>> /\ Head(queue) = c /\ serving \in TcpClients \ open)
      ~> (serving = c \/ at = "dead")

\* A render that failed is sent as a black frame
\* (streaming/RenderServer.hpp:46-47).
FailedRenderIsBlack ==
  \A c \in TcpClients : \A i \in DOMAIN written[c] :
    ~written[c][i].ok => written[c][i].picture = "black"
=============================================================================
