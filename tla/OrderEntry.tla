----------------------------- MODULE OrderEntry -----------------------------
(***************************************************************************)
(* The path of an order between the trading clients and the matching       *)
(* engine: OrderGateway (trading/order_gw), the TCP connection with the    *)
(* send buffers of TCPSocket at both ends (common/tcp_socket.cpp), the     *)
(* polling TCPServer (common/tcp_server.cpp), OrderServer and its          *)
(* FIFOSequencer (exchange/order_server).                                  *)
(*                                                                         *)
(* A session is one connection of one gateway process: a restarted gateway *)
(* is a new session of the same client, numbered from 1 again.  The        *)
(* LFQueues at the server are sequences; the engine answers what it takes. *)
(***************************************************************************)
EXTENDS Integers, Sequences, Functions, FiniteSets

CONSTANTS
  Clients,        \* client ids
  Sessions,       \* bound: connections made in a run, 1 .. n in their order
  Owner,          \* the client each session belongs to
  TickerId,       \* the client id the engine stores with a resting order
  MaxRequests,    \* bound: requests each session sends
  MaxFaults,      \* bound: refused sends and gateway crashes in a run
  MaxPending,     \* ME_MAX_PENDING_REQUESTS
  StableUpTo      \* how many elements std::sort keeps in order when they are
                  \* equal: 16 in libstdc++, which sorts more by partitioning

ASSUME OrderEntryAssumption ==
  /\ Sessions \subseteq Nat \ {0}
  /\ Owner \in [Sessions -> Clients]
  /\ TickerId \in Nat /\ Clients \subseteq Nat
  /\ MaxRequests \in [Sessions -> Nat] /\ MaxFaults \in Nat /\ MaxPending \in Nat
  /\ StableUpTo \in Nat

NoSession == 0

VARIABLES
  gateway,     \* per session: the OrderGateway process
  toServer,    \* per session: requests in the server's kernel buffer
  toGateway,   \* per session: responses in the gateway's kernel buffer
  socket,      \* per session: the server's TCPSocket
  server,      \* OrderServer, FIFOSequencer and where its loop is
  requests,    \* m_incoming_requests: published to the engine
  responses,   \* m_outgoing_responses: the engine's answers
  published,   \* history: all that was published to the engine
  answers,     \* history: per client, how many responses the engine wrote
  faults,      \* refused sends and crashes so far
  exited,      \* an ASSERT or FATAL ended the exchange process
  shuffled     \* history: clients whose requests a pass may have shuffled

vars == <<gateway, toServer, toGateway, socket, server, requests, responses,
          published, answers, faults, exited, shuffled>>

Init ==
  /\ gateway = [k \in Sessions |->
       [state |-> "unborn", nextOut |-> 1, nextExp |-> 1, sendBuffer |-> <<>>,
        delivered |-> <<>>]]
  /\ toServer = [k \in Sessions |-> <<>>]
  /\ toGateway = [k \in Sessions |-> <<>>]
  /\ socket = [k \in Sessions |-> [state |-> "unknown", sendBuffer |-> <<>>]]
  /\ server = [at |-> "poll", todo |-> {}, pending |-> <<>>,
               cidSocket |-> [c \in Clients \cup {TickerId} |-> NoSession],
               nextOut   |-> [c \in Clients \cup {TickerId} |-> 1],
               nextExp   |-> [c \in Clients \cup {TickerId} |-> 1]]
  /\ requests = <<>> /\ responses = <<>> /\ published = <<>>
  /\ answers = [c \in Clients \cup {TickerId} |-> 0]
  /\ faults = 0 /\ exited = FALSE /\ shuffled = {}

-----------------------------------------------------------------------------
(* OrderGateway: one process per session *)

Up(k) == gateway[k].state = "up"

\* Gateways of a client run one after the other.
Connect(k) ==
  /\ ~exited /\ gateway[k].state = "unborn"
  /\ \A j \in Sessions : j < k => gateway[j].state # "unborn"
  /\ \A j \in Sessions : Owner[j] = Owner[k] => ~Up(j)
  /\ gateway' = [gateway EXCEPT ![k].state = "up"]
  /\ UNCHANGED <<toServer, toGateway, socket, server, requests, responses,
                 published, answers, faults, exited, shuffled>>

\* A request from the trade engine is numbered and put into the send buffer.
SendRequest(k) ==
  /\ Up(k) /\ gateway[k].nextOut <= MaxRequests[k]
  /\ gateway' = [gateway EXCEPT
       ![k].sendBuffer = Append(@, [session |-> k, client |-> Owner[k],
                                    seq |-> gateway[k].nextOut]),
       ![k].nextOut = @ + 1]
  /\ UNCHANGED <<toServer, toGateway, socket, server, requests, responses,
                 published, answers, faults, exited, shuffled>>

\* Wrong form: a delivered response is not counted.
GatewayAcceptsUncounted(k, g, m) ==
  IF m.client # Owner[k] \/ m.seq # g.nextExp THEN g
  ELSE [g EXCEPT !.delivered = Append(@, m)]

\* Wrong form: only the client id of a response is checked.
GatewayAcceptsAny(k, g, m) ==
  IF m.client # Owner[k] THEN g
  ELSE [g EXCEPT !.nextExp = @ + 1, !.delivered = Append(@, m)]

\* OrderGateway::recvCallback for one response: another client's, or not the
\* next number, is dropped.
GatewayAccepts(k, g, m) ==
  IF m.client # Owner[k] \/ m.seq # g.nextExp THEN g
  ELSE [g EXCEPT !.nextExp = @ + 1, !.delivered = Append(@, m)]

\* recvCallback for all the kernel has, one response after the other.
GatewayReceives(k, g, messages) ==
  LET after[n \in 0 .. Len(messages)] ==
        IF n = 0 THEN g ELSE GatewayAccepts(k, after[n - 1], messages[n])
  IN  after[Len(messages)]

\* What sendAndRecv does with a send buffer: all of it goes out, or the kernel
\* refuses and all of it is forgotten (m_next_send_valid_index = 0).
Flush(buffer, refused) == IF refused THEN <<>> ELSE buffer

\* One pass of the gateway's loop over its socket.
GatewaySendAndRecv(k) ==
  /\ Up(k)
  /\ toGateway[k] # <<>> \/ gateway[k].sendBuffer # <<>>
  /\ \E refused \in BOOLEAN :
       /\ refused => gateway[k].sendBuffer # <<>> /\ faults < MaxFaults
       /\ faults' = IF refused THEN faults + 1 ELSE faults
       /\ toServer' = [toServer EXCEPT
            ![k] = @ \o Flush(gateway[k].sendBuffer, refused)]
  /\ gateway' = [gateway EXCEPT
       ![k] = [GatewayReceives(k, @, toGateway[k]) EXCEPT !.sendBuffer = <<>>]]
  /\ toGateway' = [toGateway EXCEPT ![k] = <<>>]
  /\ UNCHANGED <<socket, server, requests, responses, published, answers, exited,
                 shuffled>>

\* The gateway process dies, perhaps by the ASSERT on a partial send: the
\* requests sent before, or all that is under way, may be thrown away.
Crash(k) ==
  /\ Up(k) /\ faults < MaxFaults
  /\ faults' = faults + 1
  /\ gateway' = [gateway EXCEPT ![k].state = "dead", ![k].sendBuffer = <<>>]
  /\ toGateway' = [toGateway EXCEPT ![k] = <<>>]
  /\ \E sent \in 0 .. Len(gateway[k].sendBuffer) :
     \E kept \in {toServer[k] \o SubSeq(gateway[k].sendBuffer, 1, sent), <<>>} :
       toServer' = [toServer EXCEPT ![k] = kept]
  /\ UNCHANGED <<socket, server, requests, responses, published, answers, exited,
                 shuffled>>

-----------------------------------------------------------------------------
(* OrderServer::run: poll, one pass over the sockets, the engine's answers *)

\* poll: the connections already found dead leave the receive list, newly dead
\* ones are noted (dying), new ones are accepted.  The socket a client is bound
\* to is not touched.
Poll ==
  /\ ~exited /\ server.at = "poll"
  /\ \E hup \in SUBSET {k \in Sessions : gateway[k].state = "dead"
                                         /\ socket[k].state = "listed"} :
       socket' = [k \in Sessions |->
         CASE socket[k].state = "dying" -> [socket[k] EXCEPT !.state = "deleted"]
           [] k \in hup -> [socket[k] EXCEPT !.state = "dying"]
           [] gateway[k].state # "unborn" /\ socket[k].state = "unknown" ->
                [socket[k] EXCEPT !.state = "listed"]
           [] OTHER -> socket[k]]
  /\ server' = [server EXCEPT
       !.at = "receive",
       !.todo = {k \in Sessions : socket'[k].state \in {"listed", "dying"}}]
  /\ UNCHANGED <<gateway, toServer, toGateway, requests, responses, published,
                 answers, faults, exited, shuffled>>

\* Wrong form: the number is only required not to be an old one.
ServerAcceptsNewer(k, s, m) ==
  LET c     == m.client
      bound == [s EXCEPT !.cidSocket[c] = IF @ = NoSession THEN k ELSE @]
  IN  IF bound.cidSocket[c] # k \/ m.seq < s.nextExp[c] THEN bound
      ELSE [bound EXCEPT !.nextExp[c] = m.seq + 1,
                         !.pending = Append(@, m)]

\* OrderServer::recvCallback for one request: the first socket a client is
\* heard on is its socket for ever; a request on another socket, or with
\* another number than the next, is dropped.
ServerAccepts(k, s, m) ==
  LET c     == m.client
      bound == [s EXCEPT !.cidSocket[c] = IF @ = NoSession THEN k ELSE @]
  IN  IF bound.cidSocket[c] # k \/ m.seq # s.nextExp[c] THEN bound
      ELSE [bound EXCEPT !.nextExp[c] = @ + 1,
                         !.pending = Append(@, m)]

\* recvCallback for the requests received, one after the other.
ServerReceives(k, s, messages) ==
  LET after[n \in 0 .. Len(messages)] ==
        IF n = 0 THEN s ELSE ServerAccepts(k, after[n - 1], messages[n])
  IN  after[Len(messages)]

\* How many of the responses in a send buffer ::send hands on: all, none, or a part.
Taken(buffer, send) ==
  CASE send = "all"     -> {Len(buffer)}
    [] send = "refused" -> {0}
    [] send = "part"    -> 0 .. (Len(buffer) - 1)

\* The next socket of the pass, in the order of their connections: receive what
\* the kernel has (the stream may be cut anywhere), then flush its buffer, unless
\* there were too many requests.  A send to a dead peer fails like a refused one; a
\* send that takes only a part fails an ASSERT when that part is on its way.
Receive ==
  /\ ~exited /\ server.at = "receive"
  /\ \E k \in server.todo :
       /\ \A j \in server.todo : k <= j
       /\ \E n \in (IF toServer[k] = <<>> THEN {0} ELSE 1 .. Len(toServer[k])),
             send \in {"all", "refused", "part"},
             sent \in 0 .. Len(socket[k].sendBuffer) :
            LET got      == ServerReceives(k, server, SubSeq(toServer[k], 1, n))
                overflow == Len(got.pending) > MaxPending
                sends    == socket[k].sendBuffer # <<>> /\ ~overflow
            IN
            /\ send = "all" \/ sends
            /\ sent \in IF sends THEN Taken(socket[k].sendBuffer, send) ELSE {0}
            /\ IF Up(k)
                 THEN /\ send # "all" => faults < MaxFaults
                      /\ faults' = IF send = "all" THEN faults ELSE faults + 1
                 ELSE send = (IF sends THEN "refused" ELSE "all")
                      /\ UNCHANGED faults
            /\ server' = [got EXCEPT !.todo = @ \ {k}]
            /\ exited' = (overflow \/ send = "part")
            /\ toServer' = [toServer EXCEPT ![k] = SubSeq(@, n + 1, Len(@))]
            /\ socket' = [socket EXCEPT ![k].sendBuffer = <<>>]
            /\ toGateway' = [toGateway EXCEPT
                 ![k] = @ \o SubSeq(socket[k].sendBuffer, 1, sent)]
  /\ UNCHANGED <<gateway, requests, responses, published, answers, shuffled>>

\* std::sort by receive time: which request it puts at each place.  The requests
\* of one socket in one pass carry one time and those of two sockets may share it.
\* A short list is sorted stably: whole sockets are permuted.  Of a longer one the
\* equal elements, at worst all of them, may come in any order.
Sorts(pending) ==
  LET D        == DOMAIN pending
      of(p, i) == pending[p[i]].session
  IN  {p \in Bijection(D, D) :
         Len(pending) <= StableUpTo =>
           \A i, j \in D : i < j /\ of(p, i) = of(p, j) =>
             p[i] < p[j] /\ \A k \in i .. j : of(p, k) = of(p, i)}

\* The clients with several requests in a pass of too many.
Shuffled(pending) ==
  {c \in Clients : /\ Len(pending) > StableUpTo
                   /\ \E i, j \in DOMAIN pending : i # j /\ pending[i].client = c
                                                   /\ pending[j].client = c}

\* recvFinishedCallback: FIFOSequencer::sequenceAndPublish.
SequenceAndPublish ==
  /\ ~exited /\ server.at = "receive" /\ server.todo = {}
  /\ \E p \in Sorts(server.pending) :
       LET batch == [i \in DOMAIN server.pending |-> server.pending[p[i]]] IN
       /\ requests' = requests \o batch
       /\ published' = published \o batch
  /\ shuffled' = shuffled \cup Shuffled(server.pending)
  /\ server' = [server EXCEPT !.at = "send", !.pending = <<>>]
  /\ UNCHANGED <<gateway, toServer, toGateway, socket, responses, answers,
                 faults, exited>>

\* Wrong form: the number is not counted up.
SendResponseUncounted ==
  /\ ~exited /\ server.at = "send" /\ responses # <<>>
  /\ LET m == Head(responses)
         k == server.cidSocket[m.client]
     IN  IF k = NoSession
           THEN exited' = TRUE /\ UNCHANGED <<server, socket, responses>>
           ELSE /\ socket' = [socket EXCEPT ![k].sendBuffer = Append(@,
                     [client |-> m.client, number |-> m.number,
                      seq |-> server.nextOut[m.client]])]
                /\ responses' = Tail(responses)
                /\ UNCHANGED <<server, exited>>
  /\ UNCHANGED <<gateway, toServer, toGateway, requests, published, answers, faults,
                 shuffled>>

\* One response: it is numbered for its client and buffered on the client's
\* socket; a client that was never heard of ends the process.
SendResponse ==
  /\ ~exited /\ server.at = "send" /\ responses # <<>>
  /\ LET m == Head(responses)
         k == server.cidSocket[m.client]
     IN  IF k = NoSession
           THEN exited' = TRUE /\ UNCHANGED <<server, socket, responses>>
           ELSE /\ socket' = [socket EXCEPT ![k].sendBuffer = Append(@,
                     [client |-> m.client, number |-> m.number,
                      seq |-> server.nextOut[m.client]])]
                /\ server' = [server EXCEPT !.nextOut[m.client] = @ + 1]
                /\ responses' = Tail(responses)
                /\ UNCHANGED exited
  /\ UNCHANGED <<gateway, toServer, toGateway, requests, published, answers, faults,
                 shuffled>>

\* No response is left: the loop polls again.
EndOfPass ==
  /\ ~exited /\ server.at = "send" /\ responses = <<>>
  /\ server' = [server EXCEPT !.at = "poll"]
  /\ UNCHANGED <<gateway, toServer, toGateway, socket, requests, responses,
                 published, answers, faults, exited, shuffled>>

-----------------------------------------------------------------------------
\* The matching engine answers the request it takes; when it also trades with
\* a resting order, that order's fill is addressed to the client id stored
\* with it, which is the ticker's number.
Engine ==
  /\ ~exited /\ requests # <<>>
  /\ LET c == Head(requests).client IN
     \E to \in {<<c>>} \cup (IF Len(requests) < Len(published)
                               THEN {<<c, TickerId>>} ELSE {}) :
       LET number(i) == answers[to[i]]
                          + Cardinality({j \in 1 .. i : to[j] = to[i]})
       IN  /\ responses' = responses \o
                [i \in DOMAIN to |-> [client |-> to[i], number |-> number(i)]]
           /\ answers' = [d \in DOMAIN answers |->
                answers[d] + Cardinality({i \in DOMAIN to : to[i] = d})]
  /\ requests' = Tail(requests)
  /\ UNCHANGED <<gateway, toServer, toGateway, socket, server, published,
                 faults, exited, shuffled>>

Server == Poll \/ Receive \/ SequenceAndPublish \/ SendResponse \/ EndOfPass

Next ==
  \/ \E k \in Sessions : \/ Connect(k) \/ SendRequest(k)
                         \/ GatewaySendAndRecv(k) \/ Crash(k)
  \/ Server
  \/ Engine

Spec == Init /\ [][Next]_vars

\* The run loops of the three threads spin for ever.
Fairness ==
  /\ \A k \in Sessions : WF_vars(GatewaySendAndRecv(k))
  /\ WF_vars(Server)
  /\ WF_vars(Engine)

FairSpec == Spec /\ Fairness

-----------------------------------------------------------------------------
TypeOK ==
  /\ \A k \in Sessions :
       /\ gateway[k].state \in {"unborn", "up", "dead"}
       /\ gateway[k].nextOut \in 1 .. (MaxRequests[k] + 1)
       /\ gateway[k].nextExp = Len(gateway[k].delivered) + 1
       /\ socket[k].state \in {"unknown", "listed", "dying", "deleted"}
  /\ server.at \in {"poll", "receive", "send"}
  /\ server.todo \subseteq Sessions
  /\ \A c \in Clients \cup {TickerId} :
       /\ server.cidSocket[c] \in Sessions \cup {NoSession}
       /\ server.nextOut[c] \in Nat \ {0} /\ server.nextExp[c] \in Nat \ {0}
  /\ exited \in BOOLEAN /\ shuffled \subseteq Clients

\* Whatever is refused, lost or reconnected, the engine gets a prefix of what
\* one session of each client sent: from 1 on, in order, no gap, nothing twice, and
\* never the requests of two gateway processes of the client mixed; unless several
\* came in a pass with more requests than std::sort leaves in order.
RequestsInOrder ==
  \A i \in DOMAIN published :
    LET m      == published[i]
        before == {j \in 1 .. (i - 1) : published[j].client = m.client}
    IN  m.client \notin shuffled =>
          /\ m.seq = 1 \/ \E j \in before : published[j].seq = m.seq - 1
          /\ \A j \in before : /\ published[j].seq < m.seq
                               /\ published[j].session = m.session

\* The trade engine of a session gets a prefix of the answers the engine wrote
\* for its client, from the first one on, although either end may forget a
\* buffer and the client may reconnect.
ResponsesInOrder ==
  \A k \in Sessions :
    \A i \in DOMAIN gateway[k].delivered : gateway[k].delivered[i].number = i

\* While no send is refused and no gateway dies, every request is answered to
\* the gateway that sent it, or the exchange process has ended.
EveryRequestAnswered ==
  \A k \in Sessions : \A n \in 1 .. MaxRequests[k] :
    (gateway[k].nextOut > n)
      ~> (Len(gateway[k].delivered) >= n \/ faults > 0 \/ exited)

\* OrderServer::run has a socket for the client of every response it takes
\* ("Don't have a TCPSocket for ClientId").  False of the code.
EveryClientHasSocket ==
  (~exited /\ server.at = "send" /\ responses # <<>>) =>
    server.cidSocket[Head(responses).client] # NoSession

=============================================================================
