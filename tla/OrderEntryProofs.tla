-------------------------- MODULE OrderEntryProofs --------------------------
(***************************************************************************)
(* Proofs about OrderEntry, for every set of clients and sessions, length  *)
(* of the pending list, number of requests and of faults.  The inductive   *)
(* invariant is IInv: Sequencing is about the way of the requests,         *)
(* Answering and Delivering about that of the responses.                   *)
(***************************************************************************)
EXTENDS OrderEntry, CommonFacts

Ids == Clients \cup {TickerId}
Positive == Nat \ {0}
Requests == [session : Sessions, client : Clients, seq : Positive]
Answers == [client : Ids, number : Positive]
Responses == [client : Ids, number : Positive, seq : Positive]
Gateways == [state : {"unborn", "up", "dead"}, nextOut : Positive, nextExp : Positive,
             sendBuffer : Seq(Requests), delivered : Seq(Responses)]
TCPSockets == [state : {"unknown", "listed", "dying", "deleted"},
               sendBuffer : Seq(Responses)]
Servers == [at : {"poll", "receive", "send"}, todo : SUBSET Sessions,
            pending : Seq(Requests), cidSocket : [Ids -> Sessions \cup {NoSession}],
            nextOut : [Ids -> Positive], nextExp : [Ids -> Positive]]

Typed ==
  /\ gateway \in [Sessions -> Gateways]
  /\ \A k \in Sessions : gateway[k].nextOut <= MaxRequests[k] + 1
  /\ toServer \in [Sessions -> Seq(Requests)]
  /\ toGateway \in [Sessions -> Seq(Responses)]
  /\ socket \in [Sessions -> TCPSockets]
  /\ server \in Servers
  /\ requests \in Seq(Requests) /\ published \in Seq(Requests)
  /\ responses \in Seq(Answers) /\ answers \in [Ids -> Nat]
  /\ faults \in Nat /\ exited \in BOOLEAN /\ shuffled \in SUBSET Clients

\* All of session k, whose client is its owner.
Ours(k, q) == \A i \in DOMAIN q : q[i].session = k /\ q[i].client = Owner[k]

\* What the server s accepted of a client is below the number it expects next and came
\* through the client's socket.
Accepted(s, q) ==
  \A i \in DOMAIN q : /\ q[i].seq < s.nextExp[q[i].client]
                      /\ q[i].session = s.cidSocket[q[i].client]

\* The requests of each client but some have rising numbers.
Rising(q, but) ==
  \A i, j \in DOMAIN q :
    i < j /\ q[i].client = q[j].client /\ q[j].client \notin but => q[i].seq < q[j].seq

Contains(q, c, n) == \E i \in DOMAIN q : q[i].client = c /\ q[i].seq = n

\* Server s, what was published and whose requests were shuffled.
Sequencing(s, q, but) ==
  /\ Accepted(s, q) /\ Accepted(s, s.pending)
  /\ Rising(q, but) /\ Rising(s.pending, {})
  /\ \A i \in DOMAIN q, j \in DOMAIN s.pending :
       q[i].client = s.pending[j].client => q[i].seq < s.pending[j].seq
  /\ \A c \in Clients : \A n \in 1 .. (s.nextExp[c] - 1) :
       Contains(q, c, n) \/ Contains(s.pending, c, n)

\* The answers a that wait in q for a server that numbers them from next on: for each
\* client those not yet numbered, in their order.
Answering(q, next, a) ==
  /\ \A i \in DOMAIN q : /\ next[q[i].client] <= q[i].number
                         /\ q[i].number <= a[q[i].client]
  /\ \A i, j \in DOMAIN q :
       i < j /\ q[i].client = q[j].client => q[i].number < q[j].number
  /\ \A d \in Ids :
       /\ next[d] <= a[d] + 1
       /\ \A n \in next[d] .. a[d] :
            \E i \in DOMAIN q : q[i].client = d /\ q[i].number = n

\* The server's number of a response is the engine's.
Numbered(q) == \A i \in DOMAIN q : q[i].number = q[i].seq

Delivering(g) ==
  /\ g.nextExp = Len(g.delivered) + 1
  /\ \A i \in DOMAIN g.delivered : g.delivered[i].number = i

IInv ==
  /\ Typed
  /\ \A k \in Sessions : Ours(k, gateway[k].sendBuffer) /\ Ours(k, toServer[k])
  /\ Sequencing(server, published, shuffled)
  /\ Answering(responses, server.nextOut, answers)
  /\ \A k \in Sessions : /\ Numbered(socket[k].sendBuffer) /\ Numbered(toGateway[k])
                         /\ Delivering(gateway[k])

-----------------------------------------------------------------------------
(* Passes over what was received *)

LEMMA GatewayReceivesSteps ==
  ASSUME NEW k, NEW g, NEW q \in Seq(Responses)
  PROVE  \E f : /\ f[0] = g /\ GatewayReceives(k, g, q) = f[Len(q)]
                /\ \A n \in 1 .. Len(q) : f[n] = GatewayAccepts(k, f[n - 1], q[n])
<1> DEFINE Upto(f, m) == f = [n \in 0 .. m |->
             IF n = 0 THEN g ELSE GatewayAccepts(k, f[n - 1], q[n])]
           S == {m \in 0 .. Len(q) : \E f : Upto(f, m)}
<1>1. Len(q) \in Nat
  OBVIOUS
<1>2. 0 \in S
  <2> DEFINE h == [n \in 0 .. 0 |-> g]
  <2>1. Upto(h, 0)
    OBVIOUS
  <2> HIDE DEF h
  <2>2. 0 \in 0 .. Len(q)
    BY <1>1
  <2> QED
    BY <2>1, <2>2
<1>3. ASSUME NEW m \in 0 .. (Len(q) - 1), m \in S
      PROVE  m + 1 \in S
  <2>1. PICK f : Upto(f, m)
    BY <1>3
  <2> DEFINE h == [n \in 0 .. (m + 1) |->
                     IF n = m + 1 THEN GatewayAccepts(k, f[m], q[m + 1]) ELSE f[n]]
  <2>2. \A n \in 0 .. (m + 1) :
          h[n] = IF n = 0 THEN g ELSE GatewayAccepts(k, h[n - 1], q[n])
    BY <2>1
  <2>3. Upto(h, m + 1)
    BY <2>2
  <2>4. m + 1 \in 0 .. Len(q)
    BY <1>1
  <2> QED
    BY <2>3, <2>4
<1>4. Len(q) \in S
  <2> HIDE DEF S
  <2>1. 0 .. Len(q) \subseteq S
    BY <1>1, <1>2, <1>3, IntervalInduction
  <2> QED
    BY <1>1, <2>1
<1> DEFINE after == CHOOSE f : Upto(f, Len(q))
<1>5. Upto(after, Len(q)) /\ GatewayReceives(k, g, q) = after[Len(q)]
  BY <1>4 DEF GatewayReceives
<1> HIDE DEF after
<1> QED
  BY <1>1, <1>5

LEMMA ServerReceivesSteps ==
  ASSUME NEW k, NEW s, NEW q \in Seq(Requests)
  PROVE  \E f : /\ f[0] = s /\ ServerReceives(k, s, q) = f[Len(q)]
                /\ \A n \in 1 .. Len(q) : f[n] = ServerAccepts(k, f[n - 1], q[n])
<1> DEFINE Upto(f, m) == f = [n \in 0 .. m |->
             IF n = 0 THEN s ELSE ServerAccepts(k, f[n - 1], q[n])]
           S == {m \in 0 .. Len(q) : \E f : Upto(f, m)}
<1>1. Len(q) \in Nat
  OBVIOUS
<1>2. 0 \in S
  <2> DEFINE h == [n \in 0 .. 0 |-> s]
  <2>1. Upto(h, 0)
    OBVIOUS
  <2> HIDE DEF h
  <2>2. 0 \in 0 .. Len(q)
    BY <1>1
  <2> QED
    BY <2>1, <2>2
<1>3. ASSUME NEW m \in 0 .. (Len(q) - 1), m \in S
      PROVE  m + 1 \in S
  <2>1. PICK f : Upto(f, m)
    BY <1>3
  <2> DEFINE h == [n \in 0 .. (m + 1) |->
                     IF n = m + 1 THEN ServerAccepts(k, f[m], q[m + 1]) ELSE f[n]]
  <2>2. \A n \in 0 .. (m + 1) :
          h[n] = IF n = 0 THEN s ELSE ServerAccepts(k, h[n - 1], q[n])
    BY <2>1
  <2>3. Upto(h, m + 1)
    BY <2>2
  <2>4. m + 1 \in 0 .. Len(q)
    BY <1>1
  <2> QED
    BY <2>3, <2>4
<1>4. Len(q) \in S
  <2> HIDE DEF S
  <2>1. 0 .. Len(q) \subseteq S
    BY <1>1, <1>2, <1>3, IntervalInduction
  <2> QED
    BY <1>1, <2>1
<1> DEFINE after == CHOOSE f : Upto(f, Len(q))
<1>5. Upto(after, Len(q)) /\ ServerReceives(k, s, q) = after[Len(q)]
  BY <1>4 DEF ServerReceives
<1> HIDE DEF after
<1> QED
  BY <1>1, <1>5

LEMMA ResponseAccepted ==
  ASSUME NEW k \in Sessions, NEW g \in Gateways, Delivering(g),
         NEW m \in Responses, m.number = m.seq,
         NEW r, r = GatewayAccepts(k, g, m)
  PROVE  /\ r \in Gateways /\ Delivering(r) /\ r.nextOut = g.nextOut
         /\ r.state = g.state /\ r.sendBuffer = g.sendBuffer
<1>1. CASE m.client # Owner[k] \/ m.seq # g.nextExp
  BY <1>1 DEF GatewayAccepts
<1>2. CASE ~(m.client # Owner[k] \/ m.seq # g.nextExp)
  <2>1. /\ g.delivered \in Seq(Responses) /\ g.nextExp \in Positive
        /\ r = [g EXCEPT !.nextExp = g.nextExp + 1, !.delivered = Append(g.delivered, m)]
    BY <1>2 DEF GatewayAccepts, Gateways
  <2>2. r \in Gateways
    <3>1. g.nextExp + 1 \in Positive
      BY <2>1 DEF Positive
    <3>2. Append(g.delivered, m) \in Seq(Responses)
      BY <2>1
    <3> QED
      BY <2>1, <3>1, <3>2 DEF Gateways
  <2>3. /\ r.nextExp = g.nextExp + 1 /\ r.delivered = Append(g.delivered, m)
        /\ r.nextOut = g.nextOut /\ r.state = g.state /\ r.sendBuffer = g.sendBuffer
    BY <2>1 DEF Gateways
  <2>4. m.number = Len(g.delivered) + 1
    BY <1>2 DEF Delivering
  <2> QED
    BY <2>1, <2>2, <2>3, <2>4 DEF Delivering
<1> QED
  BY <1>1, <1>2

LEMMA ResponsesReceived ==
  ASSUME NEW k \in Sessions, NEW g \in Gateways, Delivering(g),
         NEW q \in Seq(Responses), Numbered(q),
         NEW r, r = GatewayReceives(k, g, q)
  PROVE  /\ r \in Gateways /\ Delivering(r) /\ r.nextOut = g.nextOut
         /\ r.state = g.state /\ r.sendBuffer = g.sendBuffer
<1>1. PICK f : /\ f[0] = g /\ r = f[Len(q)]
               /\ \A n \in 1 .. Len(q) : f[n] = GatewayAccepts(k, f[n - 1], q[n])
  BY GatewayReceivesSteps
<1> DEFINE Good(h) == /\ h \in Gateways /\ Delivering(h) /\ h.nextOut = g.nextOut
                      /\ h.state = g.state /\ h.sendBuffer = g.sendBuffer
           S == {n \in 0 .. Len(q) : Good(f[n])}
<1>2. Len(q) \in Nat /\ 0 \in S
  BY <1>1
<1>3. ASSUME NEW n \in 0 .. (Len(q) - 1), n \in S PROVE n + 1 \in S
  <2>1. n + 1 \in 1 .. Len(q) /\ n + 1 \in 0 .. Len(q) /\ (n + 1) - 1 = n
    BY <1>2
  <2>2. f[n + 1] = GatewayAccepts(k, f[n], q[n + 1])
    BY <1>1, <2>1
  <2>3. q[n + 1] \in Responses /\ q[n + 1].number = q[n + 1].seq
    BY <2>1 DEF Numbered
  <2>4. Good(f[n])
    BY <1>3
  <2>5. Good(f[n + 1])
    BY <2>2, <2>3, <2>4, ResponseAccepted
  <2> QED
    BY <2>1, <2>5
<1>4. Len(q) \in S
  <2> HIDE DEF S
  <2>1. 0 .. Len(q) \subseteq S
    BY <1>2, <1>3, IntervalInduction
  <2> QED
    BY <1>2, <2>1
<1> QED
  BY <1>1, <1>4

\* A client that was heard of keeps its socket.
LEMMA BindingKeeps ==
  ASSUME NEW k \in Sessions, NEW s \in Servers, NEW c \in Clients,
         NEW q \in Seq(Requests), NEW but, Sequencing(s, q, but),
         NEW b, b = [s EXCEPT !.cidSocket[c] = IF @ = NoSession THEN k ELSE @]
  PROVE  /\ b \in Servers /\ Sequencing(b, q, but)
         /\ b.nextExp = s.nextExp /\ b.pending = s.pending
         /\ b.nextOut = s.nextOut /\ b.at = s.at /\ b.todo = s.todo
<1> DEFINE sockets == [s.cidSocket EXCEPT ![c] = IF @ = NoSession THEN k ELSE @]
<1>1. s.cidSocket \in [Ids -> Sessions \cup {NoSession}] /\ c \in Ids
  BY DEF Servers, Ids
<1>2. sockets \in [Ids -> Sessions \cup {NoSession}]
  BY <1>1
<1>3. \A d \in Ids : s.cidSocket[d] # NoSession => sockets[d] = s.cidSocket[d]
  BY <1>1
<1>4. b = [s EXCEPT !.cidSocket = sockets]
  BY DEF Servers
<1> HIDE DEF sockets
<1>5. /\ b.nextExp = s.nextExp /\ b.pending = s.pending /\ b.cidSocket = sockets
      /\ b.nextOut = s.nextOut /\ b.at = s.at /\ b.todo = s.todo
  BY <1>4 DEF Servers
<1>6. b \in Servers
  BY <1>2, <1>4 DEF Servers
<1>7. ASSUME NEW p \in Seq(Requests), Accepted(s, p) PROVE Accepted(b, p)
  <2> SUFFICES ASSUME NEW i \in DOMAIN p
               PROVE  /\ p[i].seq < b.nextExp[p[i].client]
                      /\ p[i].session = b.cidSocket[p[i].client]
    BY DEF Accepted
  <2>1. p[i] \in Requests
    OBVIOUS
  <2>2. p[i].client \in Ids /\ p[i].session # NoSession
    BY <2>1, OrderEntryAssumption DEF Requests, Ids, NoSession
  <2> QED
    BY <1>3, <1>5, <1>7, <2>2 DEF Accepted
<1>8. s.pending \in Seq(Requests)
  BY DEF Servers
<1> QED
  BY <1>5, <1>6, <1>7, <1>8 DEF Sequencing

LEMMA RequestAccepted ==
  ASSUME NEW k \in Sessions, NEW s \in Servers, NEW m \in Requests, m.session = k,
         NEW q \in Seq(Requests), NEW but, Sequencing(s, q, but),
         NEW r, r = ServerAccepts(k, s, m)
  PROVE  /\ r \in Servers /\ Sequencing(r, q, but)
         /\ r.nextOut = s.nextOut /\ r.at = s.at /\ r.todo = s.todo
<1> DEFINE c == m.client
           b == [s EXCEPT !.cidSocket[c] = IF @ = NoSession THEN k ELSE @]
<1>0. c \in Clients /\ c \in Ids
  BY DEF Requests, Ids
<1>1. /\ b \in Servers /\ Sequencing(b, q, but)
      /\ b.nextExp = s.nextExp /\ b.pending = s.pending
      /\ b.nextOut = s.nextOut /\ b.at = s.at /\ b.todo = s.todo
  BY <1>0, BindingKeeps
<1>2. CASE b.cidSocket[c] # k \/ m.seq # s.nextExp[c]
  <2>1. r = b
    BY <1>2 DEF ServerAccepts
  <2> QED
    BY <1>1, <2>1
<1>3. CASE ~(b.cidSocket[c] # k \/ m.seq # s.nextExp[c])
  <2>1. r = [b EXCEPT !.nextExp[c] = @ + 1, !.pending = Append(@, m)]
    BY <1>3 DEF ServerAccepts
  <2> HIDE DEF b
  <2> DEFINE expected == [b.nextExp EXCEPT ![c] = @ + 1]
             waiting == Append(b.pending, m)
  <2>2. /\ b.nextExp \in [Ids -> Positive] /\ b.pending \in Seq(Requests)
        /\ m.seq = b.nextExp[c] /\ b.cidSocket[c] = k
    BY <1>1, <1>3 DEF Servers
  <2>3. /\ expected \in [Ids -> Positive] /\ expected[c] = b.nextExp[c] + 1
        /\ \A d \in Ids : d # c => expected[d] = b.nextExp[d]
    BY <1>0, <2>2 DEF Positive
  <2>4. /\ waiting \in Seq(Requests) /\ Len(waiting) = Len(b.pending) + 1
        /\ waiting[Len(b.pending) + 1] = m
        /\ \A i \in DOMAIN b.pending : waiting[i] = b.pending[i]
        /\ DOMAIN waiting = 1 .. (Len(b.pending) + 1)
        /\ DOMAIN b.pending = 1 .. Len(b.pending) /\ Len(b.pending) \in Nat
    BY <2>2
  <2>5. r = [b EXCEPT !.nextExp = expected, !.pending = waiting]
    BY <2>1, <1>1 DEF Servers
  <2> HIDE DEF expected, waiting
  <2>6. /\ r.nextExp = expected /\ r.pending = waiting /\ r.cidSocket = b.cidSocket
        /\ r.nextOut = b.nextOut /\ r.at = b.at /\ r.todo = b.todo
    BY <2>5, <1>1 DEF Servers
  <2>7. r \in Servers
    BY <1>1, <2>3, <2>4, <2>5 DEF Servers
  <2>8. \A d \in Ids : b.nextExp[d] \in Positive /\ b.nextExp[d] <= expected[d]
    BY <2>2, <2>3 DEF Positive
  <2>9. ASSUME NEW p \in Seq(Requests), Accepted(b, p)
        PROVE  Accepted(r, p) /\ \A i \in DOMAIN p : p[i].client = c => p[i].seq < m.seq
    <3> SUFFICES ASSUME NEW i \in DOMAIN p
                 PROVE  /\ p[i].seq < r.nextExp[p[i].client]
                        /\ p[i].session = r.cidSocket[p[i].client]
                        /\ p[i].client = c => p[i].seq < m.seq
      BY DEF Accepted
    <3>1. p[i] \in Requests
      OBVIOUS
    <3>2. p[i].seq \in Nat /\ p[i].client \in Ids
      BY <3>1 DEF Requests, Ids, Positive
    <3>3. p[i].seq < b.nextExp[p[i].client] /\ p[i].session = b.cidSocket[p[i].client]
      BY <2>9 DEF Accepted
    <3>4. /\ b.nextExp[p[i].client] \in Nat /\ expected[p[i].client] \in Nat
          /\ b.nextExp[p[i].client] <= expected[p[i].client]
      BY <2>3, <2>8, <3>2 DEF Positive
    <3> QED
      BY <2>2, <2>6, <3>2, <3>3, <3>4
  <2>10. /\ Accepted(b, q) /\ Accepted(b, b.pending) /\ Rising(q, but)
         /\ Rising(b.pending, {})
         /\ \A i \in DOMAIN q, j \in DOMAIN b.pending :
              q[i].client = b.pending[j].client => q[i].seq < b.pending[j].seq
         /\ \A d \in Clients : \A n \in 1 .. (b.nextExp[d] - 1) :
              Contains(q, d, n) \/ Contains(b.pending, d, n)
    BY <1>1 DEF Sequencing
  <2>11. Accepted(r, waiting)
    <3>1. m.seq < r.nextExp[c] /\ m.session = r.cidSocket[c]
      BY <2>2, <2>3, <2>6, <1>0 DEF Positive
    <3>2. Accepted(r, b.pending)
      BY <2>2, <2>9, <2>10
    <3>3. \A i \in DOMAIN waiting : i \in DOMAIN b.pending \/ waiting[i] = m
      BY <2>4
    <3> QED
      BY <2>4, <3>1, <3>2, <3>3 DEF Accepted
  <2>12. Rising(waiting, {})
    <3> SUFFICES ASSUME NEW i \in DOMAIN waiting, NEW j \in DOMAIN waiting,
                        i < j, waiting[i].client = waiting[j].client
                 PROVE  waiting[i].seq < waiting[j].seq
      BY DEF Rising
    <3>1. i \in DOMAIN b.pending /\ (j \in DOMAIN b.pending \/ j = Len(b.pending) + 1)
      BY <2>4
    <3> QED
      BY <2>2, <2>4, <2>9, <2>10, <3>1 DEF Rising
  <2>13. \A i \in DOMAIN q, j \in DOMAIN waiting :
           q[i].client = waiting[j].client => q[i].seq < waiting[j].seq
    <3> SUFFICES ASSUME NEW i \in DOMAIN q, NEW j \in DOMAIN waiting,
                        q[i].client = waiting[j].client
                 PROVE  q[i].seq < waiting[j].seq
      OBVIOUS
    <3>1. j \in DOMAIN b.pending \/ j = Len(b.pending) + 1
      BY <2>4
    <3> QED
      BY <2>4, <2>9, <2>10, <3>1
  <2>14. ASSUME NEW d \in Clients, NEW n \in 1 .. (expected[d] - 1)
         PROVE  Contains(q, d, n) \/ Contains(waiting, d, n)
    <3>1. d \in Ids
      BY DEF Ids
    <3>2. \A e, x : Contains(b.pending, e, x) => Contains(waiting, e, x)
      BY <2>4 DEF Contains
    <3>3. Contains(waiting, c, m.seq)
      BY <2>4 DEF Contains
    <3>4. n \in 1 .. (b.nextExp[d] - 1) \/ (d = c /\ n = m.seq)
      BY <2>2, <2>3, <2>8, <3>1 DEF Positive
    <3> QED
      BY <2>10, <3>2, <3>3, <3>4
  <2> QED
    BY <1>1, <2>6, <2>7, <2>9, <2>10, <2>11, <2>12, <2>13, <2>14 DEF Sequencing
<1> QED
  BY <1>2, <1>3

LEMMA RequestsReceived ==
  ASSUME NEW k \in Sessions, NEW s \in Servers,
         NEW p \in Seq(Requests), Ours(k, p),
         NEW q \in Seq(Requests), NEW but, Sequencing(s, q, but),
         NEW r, r = ServerReceives(k, s, p)
  PROVE  /\ r \in Servers /\ Sequencing(r, q, but)
         /\ r.nextOut = s.nextOut /\ r.at = s.at /\ r.todo = s.todo
<1>1. PICK f : /\ f[0] = s /\ r = f[Len(p)]
               /\ \A n \in 1 .. Len(p) : f[n] = ServerAccepts(k, f[n - 1], p[n])
  BY ServerReceivesSteps
<1> DEFINE Good(h) == /\ h \in Servers /\ Sequencing(h, q, but)
                      /\ h.nextOut = s.nextOut /\ h.at = s.at /\ h.todo = s.todo
           S == {n \in 0 .. Len(p) : Good(f[n])}
<1>2. Len(p) \in Nat /\ 0 \in S
  BY <1>1
<1>3. ASSUME NEW n \in 0 .. (Len(p) - 1), n \in S PROVE n + 1 \in S
  <2>1. n + 1 \in 1 .. Len(p) /\ n + 1 \in 0 .. Len(p) /\ (n + 1) - 1 = n
    BY <1>2
  <2>2. f[n + 1] = ServerAccepts(k, f[n], p[n + 1])
    BY <1>1, <2>1
  <2>3. p[n + 1] \in Requests /\ p[n + 1].session = k
    BY <2>1 DEF Ours
  <2>4. Good(f[n])
    BY <1>3
  <2>5. Good(f[n + 1])
    BY <2>2, <2>3, <2>4, RequestAccepted
  <2> QED
    BY <2>1, <2>5
<1>4. Len(p) \in S
  <2> HIDE DEF S
  <2>1. 0 .. Len(p) \subseteq S
    BY <1>2, <1>3, IntervalInduction
  <2> QED
    BY <1>2, <2>1
<1> QED
  BY <1>1, <1>4

-----------------------------------------------------------------------------
(* Sorting a pass *)

LEMMA Joined ==
  ASSUME NEW Elt, NEW s \in Seq(Elt), NEW t \in Seq(Elt)
  PROVE  /\ s \o t \in Seq(Elt) /\ Len(s \o t) = Len(s) + Len(t)
         /\ \A i \in DOMAIN s : i \in DOMAIN (s \o t) /\ (s \o t)[i] = s[i]
         /\ \A i \in DOMAIN t : /\ i + Len(s) \in DOMAIN (s \o t)
                                /\ (s \o t)[i + Len(s)] = t[i]
         /\ \A i \in DOMAIN (s \o t) :
              \/ i \in DOMAIN s /\ (s \o t)[i] = s[i]
              \/ /\ i - Len(s) \in DOMAIN t /\ ~(i \in DOMAIN s) /\ i > Len(s)
                 /\ (s \o t)[i] = t[i - Len(s)]
<1>1. s \o t \in Seq(Elt) /\ Len(s \o t) = Len(s) + Len(t)
  OBVIOUS
<1>2. \A i \in DOMAIN s : i \in DOMAIN (s \o t) /\ (s \o t)[i] = s[i]
  OBVIOUS
<1>3. \A i \in DOMAIN t : i + Len(s) \in DOMAIN (s \o t)
                          /\ (s \o t)[i + Len(s)] = t[i]
  OBVIOUS
<1>4. \A i \in DOMAIN (s \o t) :
        \/ i \in DOMAIN s
        \/ /\ i - Len(s) \in DOMAIN t /\ ~(i \in DOMAIN s) /\ i > Len(s)
           /\ i = (i - Len(s)) + Len(s)
  BY <1>1
<1> QED
  BY <1>1, <1>2, <1>3, <1>4

\* A sorted pass holds what was pending, and the requests of a client that was not
\* shuffled in their order.
\* b has at place i what w has at p[i], and everything of w once.
Permutes(p, w, b) ==
  /\ b \in Seq(Requests) /\ DOMAIN b = DOMAIN w
  /\ \A i \in DOMAIN w : p[i] \in DOMAIN w /\ b[i] = w[p[i]]
  /\ \A j \in DOMAIN w : \E i \in DOMAIN w : p[i] = j
  /\ \A i, j \in DOMAIN w : p[i] = p[j] => i = j

LEMMA SortedSequence ==
  ASSUME NEW w \in Seq(Requests), NEW p \in Sorts(w)
  PROVE  Permutes(p, w, [i \in DOMAIN w |-> w[p[i]]])
<1> DEFINE D == DOMAIN w
<1>1. D = 1 .. Len(w) /\ Len(w) \in Nat /\ \A i \in D : w[i] \in Requests
  OBVIOUS
<1>2. p \in Bijection(D, D)
  BY DEF Sorts
<1> HIDE DEF D
<1> DEFINE batch == [i \in D |-> w[p[i]]]
<1>3. /\ p \in [D -> D] /\ \A j \in D : \E i \in D : p[i] = j
      /\ \A i, j \in D : p[i] = p[j] => i = j
  BY <1>2 DEF Bijection, Injection, IsInjective, Surjection
<1>4. /\ batch \in [D -> Requests] /\ DOMAIN batch = D
      /\ \A i \in D : p[i] \in D /\ batch[i] = w[p[i]]
  BY <1>1, <1>3
<1> HIDE DEF batch
<1>5. batch \in [1 .. Len(w) -> Requests]
  BY <1>1, <1>4
<1>6. batch \in Seq(Requests)
  BY <1>1, <1>5
<1> QED
  BY <1>3, <1>4, <1>6 DEF batch, D, Permutes

LEMMA SortedPass ==
  ASSUME NEW s, NEW w \in Seq(Requests), Accepted(s, w), Rising(w, {}),
         NEW p \in Sorts(w), NEW batch, Permutes(p, w, batch)
  PROVE  Rising(batch, Shuffled(w))
<1> DEFINE D == DOMAIN w
<1>1. D = 1 .. Len(w) /\ Len(w) \in Nat /\ \A i \in D : w[i] \in Requests
  OBVIOUS
<1>4. ASSUME NEW i \in D, NEW j \in D, i < j, batch[i].client = batch[j].client,
             batch[j].client \notin Shuffled(w)
      PROVE  batch[i].seq < batch[j].seq
  <2>1. /\ p[i] \in D /\ p[j] \in D /\ batch[i] = w[p[i]] /\ batch[j] = w[p[j]]
        /\ p[i] # p[j] /\ w[p[i]] \in Requests
    <3>1. i # j
      BY <1>1, <1>4
    <3>2. /\ p[i] \in DOMAIN w /\ p[j] \in DOMAIN w /\ p[i] # p[j]
          /\ batch[i] = w[p[i]] /\ batch[j] = w[p[j]]
      BY <3>1 DEF Permutes
    <3> QED
      BY <3>2, <1>1
  <2>2. w[p[i]].session = w[p[j]].session
    BY <2>1, <1>4 DEF Accepted
  <2>3. Len(w) <= StableUpTo => p[i] < p[j]
    BY <1>4, <2>1, <2>2 DEF Sorts
  <2>4. CASE Len(w) <= StableUpTo
    BY <1>4, <2>1, <2>3, <2>4 DEF Rising
  <2>5. CASE ~(Len(w) <= StableUpTo)
    <3>1. Len(w) > StableUpTo
      BY <2>5, <1>1, OrderEntryAssumption
    <3>2. w[p[i]].client \in Clients
      BY <2>1 DEF Requests
    <3> QED
      BY <3>1, <3>2, <2>1, <1>4 DEF Shuffled
  <2> QED
    BY <2>4, <2>5
<1>5. DOMAIN batch = D
  BY DEF Permutes
<1> QED
  BY <1>4, <1>5 DEF Rising

LEMMA PassPublished ==
  ASSUME NEW s \in Servers, NEW q \in Seq(Requests), NEW but, Sequencing(s, q, but),
         NEW w, w = s.pending, NEW p \in Sorts(w),
         NEW batch, Permutes(p, w, batch),
         NEW r, r = [s EXCEPT !.at = "send", !.pending = <<>>]
  PROVE  /\ r \in Servers /\ r.nextOut = s.nextOut
         /\ Sequencing(r, q \o batch, but \cup Shuffled(w))
<1> DEFINE more == but \cup Shuffled(w)
<1>1. /\ r \in Servers /\ r.nextOut = s.nextOut /\ r.nextExp = s.nextExp
      /\ r.cidSocket = s.cidSocket /\ r.pending = <<>>
  <2>1. <<>> \in Seq(Requests)
    OBVIOUS
  <2> QED
    BY <2>1 DEF Servers
<1>2. /\ Accepted(s, q) /\ Accepted(s, w) /\ Rising(q, but) /\ Rising(w, {})
      /\ \A i \in DOMAIN q, j \in DOMAIN w : q[i].client = w[j].client => q[i].seq < w[j].seq
      /\ \A d \in Clients : \A n \in 1 .. (s.nextExp[d] - 1) :
           Contains(q, d, n) \/ Contains(w, d, n)
  BY DEF Sequencing
<1>3. /\ batch \in Seq(Requests)
      /\ \A i \in DOMAIN batch : \E j \in DOMAIN w : batch[i] = w[j]
      /\ \A j \in DOMAIN w : \E i \in DOMAIN batch : batch[i] = w[j]
      /\ Rising(batch, Shuffled(w))
  <2>1. w \in Seq(Requests)
    BY DEF Servers
  <2>2. Rising(batch, Shuffled(w))
    BY <2>1, <1>2, SortedPass
  <2>3. ASSUME NEW i \in DOMAIN batch PROVE \E j \in DOMAIN w : batch[i] = w[j]
    <3>1. p[i] \in DOMAIN w /\ batch[i] = w[p[i]]
      BY DEF Permutes
    <3> QED
      BY <3>1
  <2>4. ASSUME NEW j \in DOMAIN w PROVE \E i \in DOMAIN batch : batch[i] = w[j]
    <3>1. PICK i \in DOMAIN w : p[i] = j
      BY DEF Permutes
    <3> QED
      BY <3>1 DEF Permutes
  <2> QED
    BY <2>2, <2>3, <2>4 DEF Permutes
<1> DEFINE u == q \o batch
<1>4. /\ u \in Seq(Requests)
      /\ \A i \in DOMAIN q : i \in DOMAIN u /\ u[i] = q[i]
      /\ \A i \in DOMAIN batch : i + Len(q) \in DOMAIN u /\ u[i + Len(q)] = batch[i]
      /\ \A i \in DOMAIN u :
           \/ i \in DOMAIN q /\ u[i] = q[i]
           \/ /\ i - Len(q) \in DOMAIN batch /\ ~(i \in DOMAIN q) /\ i > Len(q)
              /\ u[i] = batch[i - Len(q)]
  BY <1>3, Joined
<1> HIDE DEF u
<1>5. Accepted(r, u)
  <2>1. ASSUME NEW i \in DOMAIN u
        PROVE  (\E j \in DOMAIN q : u[i] = q[j]) \/ (\E j \in DOMAIN w : u[i] = w[j])
    <3>1. \/ i \in DOMAIN q /\ u[i] = q[i]
          \/ i - Len(q) \in DOMAIN batch /\ u[i] = batch[i - Len(q)]
      BY <1>4
    <3> QED
      BY <3>1, <1>3
  <2> QED
    BY <2>1, <1>1, <1>2 DEF Accepted
<1>6. Rising(u, more)
  <2> SUFFICES ASSUME NEW i \in DOMAIN u, NEW j \in DOMAIN u, i < j,
                      u[i].client = u[j].client, u[j].client \notin more
               PROVE  u[i].seq < u[j].seq
    BY DEF Rising
  <2>1. i \in Nat /\ j \in Nat /\ Len(q) \in Nat /\ DOMAIN q = 1 .. Len(q) /\ i >= 1
    BY <1>4
  <2>2. CASE j \in DOMAIN q
    <3>1. i \in DOMAIN q
      BY <2>1, <2>2
    <3> QED
      BY <3>1, <2>2, <1>2, <1>4 DEF Rising
  <2>3. CASE i \in DOMAIN q /\ ~(j \in DOMAIN q)
    <3>1. u[i] = q[i]
      BY <2>3, <1>4
    <3>2. PICK e \in DOMAIN w : u[j] = w[e]
      <4>1. j - Len(q) \in DOMAIN batch /\ u[j] = batch[j - Len(q)]
        BY <2>3, <1>4
      <4> QED
        BY <4>1, <1>3
    <3>3. q[i].client = w[e].client
      BY <3>1, <3>2
    <3> QED
      BY <3>1, <3>2, <3>3, <2>3, <1>2
  <2>4. CASE ~(i \in DOMAIN q) /\ ~(j \in DOMAIN q)
    <3>1. /\ i - Len(q) \in DOMAIN batch /\ j - Len(q) \in DOMAIN batch
          /\ u[i] = batch[i - Len(q)] /\ u[j] = batch[j - Len(q)]
      BY <2>4, <1>4
    <3>2. i - Len(q) < j - Len(q)
      BY <2>1
    <3>3. /\ batch[j - Len(q)].client \notin Shuffled(w)
          /\ batch[i - Len(q)].client = batch[j - Len(q)].client
      BY <3>1
    <3> QED
      BY <3>1, <3>2, <3>3, <1>3 DEF Rising
  <2> QED
    BY <2>2, <2>3, <2>4, <2>1
<1>7. \A d \in Clients : \A n \in 1 .. (s.nextExp[d] - 1) : Contains(u, d, n)
  <2>1. \A d, n : Contains(q, d, n) => Contains(u, d, n)
    BY <1>4 DEF Contains
  <2>2. \A d, n : Contains(w, d, n) => Contains(u, d, n)
    <3>1. ASSUME NEW j \in DOMAIN w PROVE \E i \in DOMAIN u : u[i] = w[j]
      <4>1. PICK i \in DOMAIN batch : batch[i] = w[j]
        BY <1>3
      <4>2. i + Len(q) \in DOMAIN u /\ u[i + Len(q)] = batch[i]
        BY <1>4
      <4> QED
        BY <4>1, <4>2
    <3> QED
      BY <3>1 DEF Contains
  <2> QED
    BY <2>1, <2>2, <1>2
<1>8. Accepted(r, r.pending) /\ Rising(r.pending, {}) /\ DOMAIN r.pending = {}
  BY <1>1 DEF Accepted, Rising
<1> QED
  BY <1>1, <1>3, <1>4, <1>5, <1>6, <1>7, <1>8 DEF Sequencing, u

-----------------------------------------------------------------------------
(* The responses *)

\* The server numbers a response: it is the next of its client.
LEMMA ResponseNumbered ==
  ASSUME NEW q \in Seq(Answers), q # <<>>, NEW next \in [Ids -> Positive],
         NEW a \in [Ids -> Nat], Answering(q, next, a),
         NEW m, m = Head(q)
  PROVE  /\ m \in Answers /\ m.number = next[m.client]
         /\ Tail(q) \in Seq(Answers)
         /\ Answering(Tail(q), [next EXCEPT ![m.client] = @ + 1], a)
<1>1. /\ Len(q) \in Nat /\ Len(q) >= 1 /\ DOMAIN q = 1 .. Len(q)
      /\ m = q[1] /\ m \in Answers /\ Tail(q) \in Seq(Answers)
      /\ DOMAIN Tail(q) = 1 .. (Len(q) - 1)
      /\ \A i \in 1 .. (Len(q) - 1) : Tail(q)[i] = q[i + 1]
  OBVIOUS
<1> DEFINE c == m.client
           later == [next EXCEPT ![c] = @ + 1]
           u == Tail(q)
<1>2. c \in Ids /\ m.number \in Nat /\ next[c] \in Nat /\ a[c] \in Nat
  BY <1>1 DEF Answers, Positive
<1>3. /\ \A i \in DOMAIN q : /\ next[q[i].client] <= q[i].number
                             /\ q[i].number <= a[q[i].client]
      /\ \A i, j \in DOMAIN q :
           i < j /\ q[i].client = q[j].client => q[i].number < q[j].number
      /\ \A d \in Ids :
           /\ next[d] <= a[d] + 1
           /\ \A n \in next[d] .. a[d] :
                \E i \in DOMAIN q : q[i].client = d /\ q[i].number = n
  BY DEF Answering
<1>4. \A i \in DOMAIN q : /\ q[i] \in Answers /\ q[i].client \in Ids /\ q[i].number \in Nat
                          /\ next[q[i].client] \in Nat
  <2>1. \A i \in DOMAIN q : q[i] \in Answers
    OBVIOUS
  <2> QED
    BY <2>1 DEF Answers, Positive
<1>5. ASSUME NEW i \in DOMAIN q, i # 1, q[i].client = c PROVE m.number < q[i].number
  <2>1. 1 \in DOMAIN q /\ 1 < i /\ q[1] = m
    BY <1>1, <1>5
  <2> QED
    BY <2>1, <1>3, <1>5
<1>6. m.number = next[c]
  <2>1. next[c] <= m.number /\ m.number <= a[c]
    BY <1>1, <1>3
  <2>2. next[c] \in next[c] .. a[c]
    BY <1>2, <2>1
  <2> HIDE DEF c
  <2>3. PICK i \in DOMAIN q : q[i].client = c /\ q[i].number = next[c]
    <3>1. \A n \in next[c] .. a[c] :
            \E i \in DOMAIN q : q[i].client = c /\ q[i].number = n
      BY <1>2, <1>3
    <3> QED
      BY <3>1, <2>2
  <2>4. ~(m.number < next[c])
    BY <1>2, <2>1
  <2>5. i = 1
    BY <1>5, <2>3, <2>4
  <2> QED
    BY <1>1, <2>3, <2>5
<1>7. /\ later[c] = next[c] + 1 /\ later \in [Ids -> Positive]
      /\ \A d \in Ids : d # c => later[d] = next[d]
  BY <1>2 DEF Positive
<1>8. \A i \in DOMAIN u : i + 1 \in DOMAIN q /\ i + 1 # 1 /\ u[i] = q[i + 1]
  BY <1>1
<1>9. \A i \in DOMAIN q : i # 1 => i - 1 \in DOMAIN u /\ u[i - 1] = q[i]
  BY <1>1
<1> HIDE DEF u, later, c
<1>10. ASSUME NEW i \in DOMAIN u
       PROVE  later[u[i].client] <= u[i].number /\ u[i].number <= a[u[i].client]
  <2> DEFINE x == q[i + 1]
  <2>1. /\ u[i] = x /\ x.client \in Ids /\ x.number \in Nat /\ next[x.client] \in Nat
        /\ next[x.client] <= x.number /\ x.number <= a[x.client]
        /\ x.client = c => m.number < x.number
    BY <1>3, <1>4, <1>5, <1>8
  <2> HIDE DEF x
  <2>2. CASE x.client = c
    BY <2>1, <2>2, <1>2, <1>6, <1>7
  <2>3. CASE x.client # c
    BY <2>1, <2>3, <1>7
  <2> QED
    BY <2>2, <2>3
<1>11. ASSUME NEW i \in DOMAIN u, NEW j \in DOMAIN u, i < j, u[i].client = u[j].client
       PROVE  u[i].number < u[j].number
  <2>1. i + 1 < j + 1
    BY <1>1, <1>8, <1>11 DEF u
  <2> QED
    BY <2>1, <1>3, <1>8, <1>11
<1>12. ASSUME NEW d \in Ids
       PROVE  /\ later[d] <= a[d] + 1
              /\ \A n \in later[d] .. a[d] :
                   \E i \in DOMAIN u : u[i].client = d /\ u[i].number = n
  <2>1. later[d] <= a[d] + 1
    <3>1. next[c] <= a[c]
      BY <1>1, <1>2, <1>3, <1>6 DEF c
    <3>2. next[d] <= a[d] + 1 /\ (d = c => next[d] + 1 <= a[d] + 1)
      BY <3>1, <1>2, <1>3
    <3> QED
      BY <3>2, <1>7
  <2>2. ASSUME NEW n \in later[d] .. a[d]
        PROVE  \E i \in DOMAIN u : u[i].client = d /\ u[i].number = n
    <3>1. n \in next[d] .. a[d] /\ (d = c => n # m.number)
      BY <1>2, <1>6, <1>7, <2>2 DEF Positive
    <3>2. PICK i \in DOMAIN q : q[i].client = d /\ q[i].number = n
      BY <1>3, <3>1
    <3>3. i # 1
      BY <1>1, <3>1, <3>2 DEF c
    <3> QED
      BY <1>9, <3>2, <3>3
  <2> QED
    BY <2>1, <2>2
<1> QED
  BY <1>1, <1>6, <1>10, <1>11, <1>12 DEF Answering, u, later, c

\* The engine's next answer for client c.
LEMMA AnswerAppended ==
  ASSUME NEW q \in Seq(Answers), NEW next \in [Ids -> Positive],
         NEW a \in [Ids -> Nat], Answering(q, next, a), NEW c \in Ids,
         NEW m, m = [client |-> c, number |-> a[c] + 1],
         NEW aa, aa = [a EXCEPT ![c] = @ + 1]
  PROVE  /\ Append(q, m) \in Seq(Answers) /\ aa \in [Ids -> Nat]
         /\ Answering(Append(q, m), next, aa)
<1> DEFINE u == Append(q, m)
<1>1. /\ a[c] \in Nat /\ m \in Answers /\ m.client = c /\ m.number = a[c] + 1
      /\ aa \in [Ids -> Nat] /\ aa[c] = a[c] + 1 /\ \A d \in Ids : d # c => aa[d] = a[d]
      /\ \A d \in Ids : a[d] \in Nat /\ next[d] \in Nat
  BY DEF Answers, Positive
<1>2. /\ u \in Seq(Answers) /\ Len(q) \in Nat /\ DOMAIN q = 1 .. Len(q)
      /\ DOMAIN u = 1 .. (Len(q) + 1) /\ u[Len(q) + 1] = m
      /\ \A i \in DOMAIN q : i \in DOMAIN u /\ u[i] = q[i] /\ q[i] \in Answers
  BY <1>1
<1>3. /\ \A i \in DOMAIN q : /\ next[q[i].client] <= q[i].number
                             /\ q[i].number <= a[q[i].client]
      /\ \A i, j \in DOMAIN q :
           i < j /\ q[i].client = q[j].client => q[i].number < q[j].number
      /\ \A d \in Ids :
           /\ next[d] <= a[d] + 1
           /\ \A n \in next[d] .. a[d] :
                \E i \in DOMAIN q : q[i].client = d /\ q[i].number = n
  BY DEF Answering
<1> HIDE DEF u
<1>4. \A i \in DOMAIN q : q[i].client \in Ids /\ q[i].number \in Nat
  BY <1>2 DEF Answers, Positive
<1>5. ASSUME NEW i \in DOMAIN u
      PROVE  next[u[i].client] <= u[i].number /\ u[i].number <= aa[u[i].client]
  <2>1. CASE i \in DOMAIN q
    <3>1. /\ next[q[i].client] <= q[i].number /\ q[i].number <= a[q[i].client]
          /\ q[i].client \in Ids /\ q[i].number \in Nat
      BY <2>1, <1>3, <1>4
    <3>2. a[q[i].client] <= aa[q[i].client]
      BY <3>1, <1>1
    <3>3. a[q[i].client] \in Nat /\ aa[q[i].client] \in Nat /\ u[i] = q[i]
      BY <2>1, <3>1, <1>1, <1>2
    <3> QED
      BY <3>1, <3>2, <3>3
  <2>2. CASE i = Len(q) + 1
    BY <2>2, <1>1, <1>2, <1>3
  <2> QED
    BY <2>1, <2>2, <1>2
<1>6. ASSUME NEW i \in DOMAIN u, NEW j \in DOMAIN u, i < j, u[i].client = u[j].client
      PROVE  u[i].number < u[j].number
  <2>1. i \in DOMAIN q
    BY <1>2, <1>6
  <2>2. CASE j \in DOMAIN q
    BY <2>1, <2>2, <1>2, <1>3, <1>6
  <2>3. CASE j = Len(q) + 1
    <3>1. u[i] = q[i] /\ u[j] = m /\ q[i].client = c
      BY <2>1, <2>3, <1>1, <1>2, <1>6
    <3>2. q[i].number <= a[c] /\ q[i].number \in Nat
      BY <2>1, <3>1, <1>3, <1>4
    <3> QED
      BY <3>1, <3>2, <1>1
  <2> QED
    BY <2>2, <2>3, <1>2
<1>7. ASSUME NEW d \in Ids, NEW n \in next[d] .. aa[d]
      PROVE  \E i \in DOMAIN u : u[i].client = d /\ u[i].number = n
  <2>1. CASE n <= a[d]
    <3>1. n \in next[d] .. a[d]
      BY <2>1, <1>1, <1>7
    <3>2. PICK i \in DOMAIN q : q[i].client = d /\ q[i].number = n
      BY <3>1, <1>3
    <3> QED
      BY <3>2, <1>2
  <2>2. CASE ~(n <= a[d])
    <3>1. d = c /\ n = a[c] + 1
      BY <2>2, <1>1, <1>7
    <3>2. Len(q) + 1 \in DOMAIN u
      BY <1>2
    <3> QED
      BY <3>1, <3>2, <1>1, <1>2
  <2> QED
    BY <2>1, <2>2
<1>8. \A d \in Ids : next[d] <= aa[d] + 1
  <2>1. \A d \in Ids : a[d] <= aa[d] /\ aa[d] \in Nat
    BY <1>1
  <2> QED
    BY <2>1, <1>1, <1>3
<1> QED
  BY <1>1, <1>2, <1>5, <1>6, <1>7, <1>8 DEF Answering, u

LEMMA FunctionIsSequence ==
  ASSUME NEW Elt, NEW n \in Nat, NEW b, b = [i \in 1 .. n |-> b[i]],
         \A i \in 1 .. n : b[i] \in Elt
  PROVE  b \in Seq(Elt) /\ Len(b) = n
<1>1. b \in [1 .. n -> Elt]
  OBVIOUS
<1> QED
  BY <1>1

LEMMA SmallCounts ==
  /\ Cardinality({}) = 0 /\ Cardinality({1}) = 1 /\ Cardinality({2}) = 1
  /\ Cardinality({1, 2}) = 2
<1>1. /\ Cardinality({}) = 0 /\ Cardinality({1}) = 1 /\ Cardinality({2}) = 1
      /\ IsFiniteSet({1})
  BY FS_EmptySet, FS_Singleton
<1>2. Cardinality({1} \cup {2}) = Cardinality({1}) + 1
  BY <1>1, FS_AddElement
<1>3. {1} \cup {2} = {1, 2}
  OBVIOUS
<1> QED
  BY <1>1, <1>2, <1>3

\* What the engine writes to the clients in to, and how many it has written then.
Written(a, to) ==
  [i \in DOMAIN to |->
     [client |-> to[i],
      number |-> a[to[i]] + Cardinality({j \in 1 .. i : to[j] = to[i]})]]
Counted(a, to) == [d \in DOMAIN a |-> a[d] + Cardinality({i \in DOMAIN to : to[i] = d})]

\* It is one answer, or one and then another.
LEMMA EngineAnswers ==
  ASSUME NEW q \in Seq(Answers), NEW next \in [Ids -> Positive],
         NEW a \in [Ids -> Nat], Answering(q, next, a), NEW c \in Clients,
         NEW to, to = <<c>> \/ to = <<c, TickerId>>
  PROVE  /\ q \o Written(a, to) \in Seq(Answers) /\ Counted(a, to) \in [Ids -> Nat]
         /\ Answering(q \o Written(a, to), next, Counted(a, to))
<1> DEFINE N(i) == Cardinality({j \in 1 .. i : to[j] = to[i]})
           M(d) == Cardinality({i \in DOMAIN to : to[i] = d})
           b  == [i \in DOMAIN to |-> [client |-> to[i], number |-> a[to[i]] + N(i)]]
           aa == [d \in DOMAIN a |-> a[d] + M(d)]
           m == [client |-> c, number |-> a[c] + 1]
           one == [a EXCEPT ![c] = @ + 1]
           n == [client |-> TickerId, number |-> one[TickerId] + 1]
           two == [one EXCEPT ![TickerId] = @ + 1]
<1> SUFFICES /\ q \o b \in Seq(Answers) /\ aa \in [Ids -> Nat]
             /\ Answering(q \o b, next, aa)
  BY DEF Written, Counted
<1>1. /\ c \in Ids /\ TickerId \in Ids /\ a[c] \in Nat /\ a[TickerId] \in Nat
      /\ DOMAIN a = Ids /\ \A d \in Ids : a[d] \in Nat
  BY DEF Ids
<1>2. \A d \in Ids : one[d] = a[d] + (IF d = c THEN 1 ELSE 0)
  BY <1>1
<1>3. /\ Append(q, m) \in Seq(Answers) /\ one \in [Ids -> Nat]
      /\ Answering(Append(q, m), next, one)
  <2> HIDE DEF m, one
  <2> QED
    BY <1>1, AnswerAppended DEF m, one
<1>4. m \in Answers /\ n \in Answers
  <2>1. one[TickerId] \in Nat
    BY <1>1, <1>3
  <2> HIDE DEF one
  <2> QED
    BY <1>1, <2>1 DEF Answers, Positive
<1>5. /\ DOMAIN b = DOMAIN to
      /\ \A i \in DOMAIN to : b[i] = [client |-> to[i], number |-> a[to[i]] + N(i)]
      /\ b = [i \in DOMAIN to |-> b[i]]
      /\ aa = [d \in Ids |-> aa[d]] /\ \A d \in Ids : aa[d] = a[d] + M(d)
  BY <1>1
<1> HIDE DEF b, aa
<1>6. CASE to = <<c>>
  <2>1. DOMAIN to = {1} /\ to[1] = c
    BY <1>6
  <2>2. N(1) = 1
    <3>1. {j \in 1 .. 1 : to[j] = to[1]} = {1}
      BY <2>1
    <3> QED
      BY <3>1, SmallCounts
  <2>3. \A d : M(d) = IF d = c THEN 1 ELSE 0
    <3>1. \A d : {i \in DOMAIN to : to[i] = d} = IF d = c THEN {1} ELSE {}
      BY <2>1
    <3> QED
      BY <3>1, SmallCounts
  <2> HIDE DEF N, M
  <2>4. b[1] = m
    BY <1>5, <2>1, <2>2
  <2> HIDE DEF m, one
  <2>5. /\ q \o b \in Seq(Answers) /\ q \o b = Append(q, m)
    <3>1. b \in Seq(Answers) /\ Len(b) = 1
      <4>1. b = [i \in 1 .. 1 |-> b[i]] /\ \A i \in 1 .. 1 : b[i] \in Answers
        <5>1. DOMAIN to = 1 .. 1
          BY <2>1
        <5> QED
          BY <5>1, <1>4, <1>5, <2>4
      <4> QED
        BY <4>1, FunctionIsSequence
    <3>2. b = <<m>>
      BY <2>4, <3>1
    <3> QED
      BY <3>2, <1>4
  <2>6. aa = one
    <3>1. \A d \in Ids : aa[d] = one[d]
      BY <1>2, <1>5, <2>3
    <3> QED
      BY <1>3, <1>5, <3>1
  <2> QED
    BY <1>3, <2>5, <2>6
<1>7. CASE to = <<c, TickerId>>
  <2>1. DOMAIN to = 1 .. 2 /\ to[1] = c /\ to[2] = TickerId
    BY <1>7
  <2>2. N(1) = 1
    <3>1. {j \in 1 .. 1 : to[j] = to[1]} = {1}
      BY <2>1
    <3> QED
      BY <3>1, SmallCounts
  <2>3. N(2) = IF c = TickerId THEN 2 ELSE 1
    <3>1. {j \in 1 .. 2 : to[j] = to[2]} = IF c = TickerId THEN {1, 2} ELSE {2}
      BY <2>1
    <3> QED
      BY <3>1, SmallCounts
  <2>4. \A d : M(d) = (IF d = c THEN 1 ELSE 0) + (IF d = TickerId THEN 1 ELSE 0)
    <3> DEFINE Of(d) == {i \in DOMAIN to : to[i] = d}
    <3>1. \A d : (1 \in Of(d) <=> d = c) /\ (2 \in Of(d) <=> d = TickerId)
                 /\ Of(d) \subseteq {1, 2}
      BY <2>1
    <3>2. \A d : M(d) = Cardinality(Of(d))
      OBVIOUS
    <3> HIDE DEF Of, M
    <3>3. \A d : \/ d = c /\ d = TickerId /\ Of(d) = {1, 2}
                 \/ d = c /\ d # TickerId /\ Of(d) = {1}
                 \/ d # c /\ d = TickerId /\ Of(d) = {2}
                 \/ d # c /\ d # TickerId /\ Of(d) = {}
      BY <3>1
    <3>4. ASSUME NEW d
          PROVE  Cardinality(Of(d))
                   = (IF d = c THEN 1 ELSE 0) + (IF d = TickerId THEN 1 ELSE 0)
      <4>1. \/ d = c /\ d = TickerId /\ Cardinality(Of(d)) = 2
            \/ d = c /\ d # TickerId /\ Cardinality(Of(d)) = 1
            \/ d # c /\ d = TickerId /\ Cardinality(Of(d)) = 1
            \/ d # c /\ d # TickerId /\ Cardinality(Of(d)) = 0
        BY <3>3, SmallCounts
      <4> QED
        BY <4>1
    <3> QED
      BY <3>2, <3>4
  <2> HIDE DEF N, M
  <2>5. b[1] = m
    BY <1>5, <2>1, <2>2
  <2>6. b[2] = n
    <3>1. one[TickerId] + 1 = a[TickerId] + N(2)
      BY <1>1, <1>2, <2>3
    <3> HIDE DEF one
    <3> QED
      BY <3>1, <1>5, <2>1
  <2> HIDE DEF m, one, n, two
  <2>7. /\ Append(Append(q, m), n) \in Seq(Answers) /\ two \in [Ids -> Nat]
        /\ Answering(Append(Append(q, m), n), next, two)
    BY <1>1, <1>3, AnswerAppended DEF n, two
  <2>8. q \o b \in Seq(Answers) /\ q \o b = Append(Append(q, m), n)
    <3>1. b \in Seq(Answers) /\ Len(b) = 2
      <4>1. b = [i \in 1 .. 2 |-> b[i]] /\ \A i \in 1 .. 2 : b[i] \in Answers
        BY <1>4, <1>5, <2>1, <2>5, <2>6
      <4> QED
        BY <4>1, FunctionIsSequence
    <3>2. b = <<m, n>>
      BY <2>5, <2>6, <3>1
    <3> QED
      BY <3>2, <1>4
  <2>9. aa = two
    <3>1. \A d \in Ids : two[d] = one[d] + (IF d = TickerId THEN 1 ELSE 0)
      BY <1>1, <1>3 DEF two
    <3>2. \A d \in Ids : aa[d] = two[d]
      <4> SUFFICES ASSUME NEW d \in Ids PROVE aa[d] = two[d]
        OBVIOUS
      <4>1. /\ a[d] \in Nat /\ aa[d] = a[d] + M(d)
            /\ one[d] = a[d] + (IF d = c THEN 1 ELSE 0)
            /\ two[d] = one[d] + (IF d = TickerId THEN 1 ELSE 0)
        BY <1>1, <1>2, <1>5, <3>1
      <4> QED
        BY <4>1, <2>4
    <3> QED
      BY <1>5, <2>7, <3>2
  <2> QED
    BY <2>7, <2>8, <2>9
<1> QED
  BY <1>6, <1>7

-----------------------------------------------------------------------------
(* The invariant *)

LEMMA PartOf ==
  ASSUME NEW Elt, NEW p \in Seq(Elt), NEW m \in Nat, NEW n \in Nat, 1 <= m, n <= Len(p)
  PROVE  /\ SubSeq(p, m, n) \in Seq(Elt)
         /\ \A i \in DOMAIN SubSeq(p, m, n) :
              \E j \in DOMAIN p : SubSeq(p, m, n)[i] = p[j]
<1>1. SubSeq(p, m, n) \in Seq(Elt)
  OBVIOUS
<1>2. ASSUME NEW i \in DOMAIN SubSeq(p, m, n)
      PROVE  i + m - 1 \in DOMAIN p /\ SubSeq(p, m, n)[i] = p[i + m - 1]
  OBVIOUS
<1> DEFINE u == SubSeq(p, m, n)
<1>3. ASSUME NEW i \in DOMAIN u PROVE \E j \in DOMAIN p : u[i] = p[j]
  <2> HIDE DEF u
  <2> QED
    BY <1>2 DEF u
<1> QED
  BY <1>1, <1>3

LEMMA OneOf ==
  ASSUME NEW Elt, NEW s \in Seq(Elt), NEW t \in Seq(Elt), NEW i \in DOMAIN (s \o t)
  PROVE  \/ \E j \in DOMAIN s : (s \o t)[i] = s[j]
         \/ \E j \in DOMAIN t : (s \o t)[i] = t[j]
BY Joined

LEMMA RequestsJoined ==
  ASSUME NEW k, NEW s \in Seq(Requests), NEW t \in Seq(Requests), Ours(k, s), Ours(k, t)
  PROVE  s \o t \in Seq(Requests) /\ Ours(k, s \o t)
BY OneOf DEF Ours

LEMMA ResponsesJoined ==
  ASSUME NEW s \in Seq(Responses), NEW t \in Seq(Responses), Numbered(s), Numbered(t)
  PROVE  s \o t \in Seq(Responses) /\ Numbered(s \o t)
BY OneOf DEF Numbered

LEMMA BuffersAppended ==
  /\ \A k, m : \A s \in Seq(Requests) :
       Ours(k, s) /\ m \in Requests /\ m.session = k /\ m.client = Owner[k]
         => Append(s, m) \in Seq(Requests) /\ Ours(k, Append(s, m))
  /\ \A s \in Seq(Responses), m \in Responses :
       Numbered(s) /\ m.number = m.seq
         => Append(s, m) \in Seq(Responses) /\ Numbered(Append(s, m))
BY DEF Ours, Numbered

LEMMA PartOurs ==
  ASSUME NEW k, NEW p \in Seq(Requests), Ours(k, p),
         NEW m \in Nat, NEW n \in Nat, 1 <= m, n <= Len(p)
  PROVE  SubSeq(p, m, n) \in Seq(Requests) /\ Ours(k, SubSeq(p, m, n))
BY PartOf DEF Ours

LEMMA EmptyBuffers ==
  /\ <<>> \in Seq(Requests) /\ <<>> \in Seq(Responses)
  /\ \A k : Ours(k, <<>>)
  /\ Numbered(<<>>)
BY DEF Ours, Numbered

LEMMA InitInvariant ==
  Init => IInv
<1> SUFFICES ASSUME Init PROVE IInv
  OBVIOUS
<1>1. Typed
  <2>0. 1 \in Positive /\ <<>> \in Seq(Answers)
    BY DEF Positive
  <2>1. gateway \in [Sessions -> Gateways]
    BY <2>0, EmptyBuffers DEF Init, Gateways
  <2>2. \A k \in Sessions : gateway[k].nextOut <= MaxRequests[k] + 1
    BY OrderEntryAssumption DEF Init
  <2>3. socket \in [Sessions -> TCPSockets]
    BY EmptyBuffers DEF Init, TCPSockets
  <2>4. server \in Servers
    BY <2>0, EmptyBuffers DEF Init, Servers, Ids, NoSession
  <2>5. /\ toServer \in [Sessions -> Seq(Requests)]
        /\ toGateway \in [Sessions -> Seq(Responses)]
        /\ requests \in Seq(Requests) /\ published \in Seq(Requests)
        /\ responses \in Seq(Answers) /\ answers \in [Ids -> Nat]
        /\ faults \in Nat /\ exited \in BOOLEAN /\ shuffled \in SUBSET Clients
    BY <2>0, EmptyBuffers DEF Init, Ids
  <2> QED
    BY <2>1, <2>2, <2>3, <2>4, <2>5 DEF Typed
<1>2. \A k \in Sessions : Ours(k, gateway[k].sendBuffer) /\ Ours(k, toServer[k])
  BY EmptyBuffers DEF Init
<1>3. Sequencing(server, published, shuffled)
  BY DEF Init, Sequencing, Accepted, Rising, Contains, Ids
<1>4. Answering(responses, server.nextOut, answers)
  BY DEF Init, Answering, Ids
<1>5. \A k \in Sessions : /\ Numbered(socket[k].sendBuffer) /\ Numbered(toGateway[k])
                          /\ Delivering(gateway[k])
  BY EmptyBuffers DEF Init, Delivering
<1> QED
  BY <1>1, <1>2, <1>3, <1>4, <1>5 DEF IInv

LEMMA GatewayKeeps ==
  ASSUME IInv, NEW k \in Sessions
  PROVE  /\ Connect(k) => IInv'
         /\ SendRequest(k) => IInv'
         /\ GatewaySendAndRecv(k) => IInv'
         /\ Crash(k) => IInv'
<1>1. /\ gateway \in [Sessions -> Gateways] /\ toServer \in [Sessions -> Seq(Requests)]
      /\ toGateway \in [Sessions -> Seq(Responses)]
      /\ \A j \in Sessions : gateway[j].nextOut <= MaxRequests[j] + 1
      /\ \A j \in Sessions : Ours(j, gateway[j].sendBuffer) /\ Ours(j, toServer[j])
      /\ \A j \in Sessions : Numbered(toGateway[j]) /\ Delivering(gateway[j])
      /\ faults \in Nat
  BY DEF IInv, Typed
<1> DEFINE g == gateway[k]
\* It is enough that the gateway and its two kernel buffers are as they must be.
<1>2. ASSUME NEW gg \in Gateways, NEW ts \in Seq(Requests), NEW tg \in Seq(Responses),
             gateway' = [gateway EXCEPT ![k] = gg],
             toServer' = [toServer EXCEPT ![k] = ts],
             toGateway' = [toGateway EXCEPT ![k] = tg],
             gg.nextOut <= MaxRequests[k] + 1, Ours(k, gg.sendBuffer), Ours(k, ts),
             Numbered(tg), Delivering(gg), faults' \in Nat,
             UNCHANGED <<socket, server, requests, responses, published, answers, exited,
                         shuffled>>
      PROVE  IInv'
  <2>1. /\ gateway' \in [Sessions -> Gateways] /\ toServer' \in [Sessions -> Seq(Requests)]
        /\ toGateway' \in [Sessions -> Seq(Responses)]
        /\ \A j \in Sessions : gateway'[j] = IF j = k THEN gg ELSE gateway[j]
        /\ \A j \in Sessions : toServer'[j] = IF j = k THEN ts ELSE toServer[j]
        /\ \A j \in Sessions : toGateway'[j] = IF j = k THEN tg ELSE toGateway[j]
    BY <1>1, <1>2
  <2>2. Typed'
    BY <1>1, <1>2, <2>1 DEF IInv, Typed
  <2>3. (\A j \in Sessions : Ours(j, gateway[j].sendBuffer) /\ Ours(j, toServer[j]))'
    BY <1>1, <1>2, <2>1 DEF Ours
  <2>4. (\A j \in Sessions : /\ Numbered(socket[j].sendBuffer) /\ Numbered(toGateway[j])
                             /\ Delivering(gateway[j]))'
    BY <1>1, <1>2, <2>1 DEF IInv, Numbered, Delivering
  <2>5. Sequencing(server, published, shuffled)'
    BY <1>2 DEF IInv, Sequencing, Accepted, Rising, Contains
  <2>6. Answering(responses, server.nextOut, answers)'
    BY <1>2 DEF IInv, Answering
  <2> QED
    BY <2>2, <2>3, <2>4, <2>5, <2>6 DEF IInv
<1>3. /\ g \in Gateways /\ g.nextOut \in Positive /\ g.sendBuffer \in Seq(Requests)
      /\ g.nextOut <= MaxRequests[k] + 1 /\ MaxRequests[k] \in Nat
      /\ Ours(k, g.sendBuffer) /\ Delivering(g)
      /\ toServer[k] \in Seq(Requests) /\ Ours(k, toServer[k])
      /\ toGateway[k] \in Seq(Responses) /\ Numbered(toGateway[k])
  BY <1>1, OrderEntryAssumption DEF Gateways
<1>4. /\ toServer = [toServer EXCEPT ![k] = toServer[k]]
      /\ toGateway = [toGateway EXCEPT ![k] = toGateway[k]]
  BY <1>1
<1>5. CASE Connect(k)
  <2> DEFINE gg == [g EXCEPT !.state = "up"]
  <2>1. gateway' = [gateway EXCEPT ![k] = gg]
    BY <1>1, <1>5 DEF Connect
  <2>2. /\ gg \in Gateways /\ gg.nextOut = g.nextOut /\ gg.sendBuffer = g.sendBuffer
        /\ gg.nextExp = g.nextExp /\ gg.delivered = g.delivered
    BY <1>3 DEF Gateways
  <2> HIDE DEF gg
  <2>3. Delivering(gg)
    BY <1>3, <2>2 DEF Delivering
  <2> QED
    BY <1>1, <1>2, <1>3, <1>4, <1>5, <2>1, <2>2, <2>3 DEF Connect
<1>6. CASE SendRequest(k)
  <2> DEFINE m == [session |-> k, client |-> Owner[k], seq |-> g.nextOut]
             gg == [g EXCEPT !.sendBuffer = Append(g.sendBuffer, m),
                             !.nextOut = g.nextOut + 1]
  <2>1. gateway' = [gateway EXCEPT ![k] = gg]
    BY <1>1, <1>6 DEF SendRequest
  <2>2. m \in Requests
    BY <1>3, OrderEntryAssumption DEF Requests
  <2>3. /\ Append(g.sendBuffer, m) \in Seq(Requests)
        /\ Ours(k, Append(g.sendBuffer, m)) /\ g.nextOut + 1 \in Positive
    <3>1. m.session = k /\ m.client = Owner[k]
      OBVIOUS
    <3> HIDE DEF m
    <3> QED
      BY <1>3, <2>2, <3>1, BuffersAppended DEF Positive
  <2>4. /\ gg \in Gateways /\ gg.nextOut = g.nextOut + 1
        /\ gg.sendBuffer = Append(g.sendBuffer, m)
        /\ gg.nextExp = g.nextExp /\ gg.delivered = g.delivered
    BY <1>3, <2>3 DEF Gateways
  <2> HIDE DEF gg, m
  <2>5. Delivering(gg)
    BY <1>3, <2>4 DEF Delivering
  <2>6. gg.nextOut <= MaxRequests[k] + 1
    BY <1>3, <1>6, <2>4 DEF SendRequest, Positive
  <2> QED
    BY <1>1, <1>2, <1>3, <1>4, <1>6, <2>1, <2>3, <2>4, <2>5, <2>6, ZenonT(40) DEF SendRequest
<1>7. CASE GatewaySendAndRecv(k)
  <2> DEFINE r == GatewayReceives(k, g, toGateway[k])
             gg == [r EXCEPT !.sendBuffer = <<>>]
  <2>1. gateway' = [gateway EXCEPT ![k] = gg]
    BY <1>7 DEF GatewaySendAndRecv
  <2>2. /\ r \in Gateways /\ Delivering(r) /\ r.nextOut = g.nextOut
    BY <1>3, ResponsesReceived
  <2> HIDE DEF r
  <2>3. /\ gg \in Gateways /\ gg.nextOut = r.nextOut /\ gg.sendBuffer = <<>>
        /\ gg.nextExp = r.nextExp /\ gg.delivered = r.delivered
    BY <2>2, EmptyBuffers DEF Gateways
  <2> HIDE DEF gg
  <2>4. Delivering(gg)
    BY <2>2, <2>3 DEF Delivering
  <2>5. PICK ts \in Seq(Requests) : toServer' = [toServer EXCEPT ![k] = ts] /\ Ours(k, ts)
    <3>1. PICK refused \in BOOLEAN : toServer' = [toServer EXCEPT
            ![k] = @ \o Flush(gateway[k].sendBuffer, refused)]
      BY <1>7 DEF GatewaySendAndRecv
    <3> DEFINE f == Flush(gateway[k].sendBuffer, refused)
    <3>2. f \in Seq(Requests) /\ Ours(k, f)
      BY <1>3, EmptyBuffers DEF Flush
    <3> HIDE DEF f
    <3>3. toServer[k] \o f \in Seq(Requests) /\ Ours(k, toServer[k] \o f)
      BY <1>3, <3>2, RequestsJoined
    <3> QED
      BY <3>1, <3>3 DEF f
  <2>6. toGateway' = [toGateway EXCEPT ![k] = <<>>] /\ faults' \in Nat
        /\ UNCHANGED <<socket, server, requests, responses, published, answers, exited,
                       shuffled>>
    BY <1>1, <1>7 DEF GatewaySendAndRecv
  <2> QED
    BY <1>2, <1>3, <2>1, <2>2, <2>3, <2>4, <2>5, <2>6, EmptyBuffers
<1>8. CASE Crash(k)
  <2> DEFINE gg == [g EXCEPT !.state = "dead", !.sendBuffer = <<>>]
  <2>1. gateway' = [gateway EXCEPT ![k] = gg]
    BY <1>1, <1>8 DEF Crash
  <2>2. /\ gg \in Gateways /\ gg.nextOut = g.nextOut /\ gg.sendBuffer = <<>>
        /\ gg.nextExp = g.nextExp /\ gg.delivered = g.delivered
    BY <1>3, EmptyBuffers DEF Gateways
  <2> HIDE DEF gg
  <2>3. Delivering(gg)
    BY <1>3, <2>2 DEF Delivering
  <2>4. PICK ts \in Seq(Requests) : toServer' = [toServer EXCEPT ![k] = ts] /\ Ours(k, ts)
    <3>1. PICK sent \in 0 .. Len(g.sendBuffer) :
            \E kept \in {toServer[k] \o SubSeq(g.sendBuffer, 1, sent), <<>>} :
              toServer' = [toServer EXCEPT ![k] = kept]
      BY <1>8 DEF Crash
    <3> DEFINE part == SubSeq(g.sendBuffer, 1, sent)
    <3>2. part \in Seq(Requests) /\ Ours(k, part)
      BY <1>3, PartOurs
    <3> HIDE DEF part
    <3>3. toServer[k] \o part \in Seq(Requests) /\ Ours(k, toServer[k] \o part)
      BY <1>3, <3>2, RequestsJoined
    <3> QED
      BY <3>1, <3>3, EmptyBuffers DEF part
  <2>5. toGateway' = [toGateway EXCEPT ![k] = <<>>] /\ faults' \in Nat
        /\ UNCHANGED <<socket, server, requests, responses, published, answers, exited,
                       shuffled>>
    BY <1>1, <1>8 DEF Crash
  <2> QED
    BY <1>2, <1>3, <2>1, <2>2, <2>3, <2>4, <2>5, EmptyBuffers
<1> QED
  BY <1>5, <1>6, <1>7, <1>8

LEMMA ServerKeeps ==
  ASSUME IInv
  PROVE  /\ Poll => IInv'
         /\ Receive => IInv'
         /\ SequenceAndPublish => IInv'
         /\ SendResponse => IInv'
         /\ EndOfPass => IInv'
<1>1. Typed
  BY DEF IInv
<1>2. /\ Sequencing(server, published, shuffled)
      /\ Answering(responses, server.nextOut, answers)
      /\ \A k \in Sessions : /\ Ours(k, toServer[k])
                             /\ Numbered(socket[k].sendBuffer) /\ Numbered(toGateway[k])
  BY DEF IInv
<1>3. /\ server \in Servers /\ server.nextOut \in [Ids -> Positive]
      /\ server.cidSocket \in [Ids -> Sessions \cup {NoSession}]
      /\ server.pending \in Seq(Requests) /\ server.todo \in SUBSET Sessions
      /\ socket \in [Sessions -> TCPSockets]
      /\ \A k \in Sessions : socket[k] \in TCPSockets /\ socket[k].sendBuffer \in Seq(Responses)
  BY <1>1 DEF Typed, Servers, TCPSockets
\* It is enough that the parts the server changes are as they must be.
<1>4. ASSUME UNCHANGED gateway,
             toServer' \in [Sessions -> Seq(Requests)],
             toGateway' \in [Sessions -> Seq(Responses)],
             socket' \in [Sessions -> TCPSockets], server' \in Servers,
             requests' \in Seq(Requests), published' \in Seq(Requests),
             responses' \in Seq(Answers), UNCHANGED answers, faults' \in Nat,
             exited' \in BOOLEAN, shuffled' \in SUBSET Clients,
             Sequencing(server', published', shuffled'),
             Answering(responses', server'.nextOut, answers),
             \A k \in Sessions : /\ Ours(k, toServer'[k])
                                 /\ Numbered(socket'[k].sendBuffer)
                                 /\ Numbered(toGateway'[k])
      PROVE  IInv'
  <2>1. Typed'
    BY <1>1, <1>4 DEF Typed
  <2>2. (\A k \in Sessions : Ours(k, gateway[k].sendBuffer) /\ Ours(k, toServer[k]))'
    BY <1>4 DEF IInv, Ours
  <2>3. Sequencing(server, published, shuffled)'
    BY <1>4 DEF Sequencing, Accepted, Rising, Contains
  <2>4. Answering(responses, server.nextOut, answers)'
    BY <1>4 DEF Answering
  <2>5. (\A k \in Sessions : /\ Numbered(socket[k].sendBuffer) /\ Numbered(toGateway[k])
                             /\ Delivering(gateway[k]))'
    BY <1>4 DEF IInv, Numbered, Delivering
  <2> QED
    BY <2>1, <2>2, <2>3, <2>4, <2>5 DEF IInv
<1>5. CASE Poll
  <2>1. /\ server' \in Servers /\ server'.nextOut = server.nextOut
        /\ server'.nextExp = server.nextExp /\ server'.pending = server.pending
        /\ server'.cidSocket = server.cidSocket
    BY <1>3, <1>5, Zenon DEF Poll, Servers
  <2>2. Sequencing(server', published, shuffled)
    BY <1>2, <2>1 DEF Sequencing, Accepted
  <2>3. /\ socket' \in [Sessions -> TCPSockets]
        /\ \A k \in Sessions : socket'[k].sendBuffer = socket[k].sendBuffer
    <3> PICK hup \in SUBSET {k \in Sessions : gateway[k].state = "dead"
                                         /\ socket[k].state = "listed"} :
       socket' = [k \in Sessions |->
         CASE socket[k].state = "dying" -> [socket[k] EXCEPT !.state = "deleted"]
           [] k \in hup -> [socket[k] EXCEPT !.state = "dying"]
           [] gateway[k].state # "unborn" /\ socket[k].state = "unknown" ->
                [socket[k] EXCEPT !.state = "listed"]
           [] OTHER -> socket[k]]
      BY <1>5 DEF Poll
    <3>1. ASSUME NEW k \in Sessions
          PROVE  \/ socket'[k] = socket[k]
                 \/ \E st \in {"listed", "dying", "deleted"} :
                      socket'[k] = [socket[k] EXCEPT !.state = st]
      OBVIOUS
    <3>2. ASSUME NEW k \in Sessions
          PROVE  /\ socket'[k] \in TCPSockets
                 /\ socket'[k].sendBuffer = socket[k].sendBuffer
      BY <1>3, <3>1 DEF TCPSockets
    <3> QED
      BY <3>2
  <2> QED
    BY <1>1, <1>2, <1>4, <1>5, <2>1, <2>2, <2>3, Zenon DEF Poll, Typed
<1>6. CASE Receive
  <2>1. PICK k \in server.todo :
          \E n \in (IF toServer[k] = <<>> THEN {0} ELSE 1 .. Len(toServer[k])),
             send \in {"all", "refused", "part"},
             sent \in 0 .. Len(socket[k].sendBuffer) :
            LET got      == ServerReceives(k, server, SubSeq(toServer[k], 1, n))
                overflow == Len(got.pending) > MaxPending
                sends    == socket[k].sendBuffer # <<>> /\ ~overflow
            IN
            /\ send = "all" \/ sends
            /\ sent \in IF sends THEN Taken(socket[k].sendBuffer, send) ELSE {0}
            /\ IF Up(k)
                 THEN /\ send # "all" => faults < MaxFaults
                      /\ faults' = IF send = "all" THEN faults ELSE faults + 1
                 ELSE send = (IF sends THEN "refused" ELSE "all")
                      /\ UNCHANGED faults
            /\ server' = [got EXCEPT !.todo = @ \ {k}]
            /\ exited' = (overflow \/ send = "part")
            /\ toServer' = [toServer EXCEPT ![k] = SubSeq(@, n + 1, Len(@))]
            /\ socket' = [socket EXCEPT ![k].sendBuffer = <<>>]
            /\ toGateway' = [toGateway EXCEPT
                 ![k] = @ \o SubSeq(socket[k].sendBuffer, 1, sent)]
    BY <1>6, ZenonT(40) DEF Receive
  <2>2. PICK n \in (IF toServer[k] = <<>> THEN {0} ELSE 1 .. Len(toServer[k])),
             sent \in 0 .. Len(socket[k].sendBuffer) :
            LET got == ServerReceives(k, server, SubSeq(toServer[k], 1, n)) IN
            /\ server' = [got EXCEPT !.todo = @ \ {k}]
            /\ toServer' = [toServer EXCEPT ![k] = SubSeq(@, n + 1, Len(@))]
            /\ socket' = [socket EXCEPT ![k].sendBuffer = <<>>]
            /\ toGateway' = [toGateway EXCEPT
                 ![k] = @ \o SubSeq(socket[k].sendBuffer, 1, sent)]
    BY <2>1, ZenonT(40)
  <2> DEFINE p == toServer[k]
             got == ServerReceives(k, server, SubSeq(p, 1, n))
             f == SubSeq(socket[k].sendBuffer, 1, sent)
  <2>3. k \in Sessions /\ p \in Seq(Requests) /\ Ours(k, p) /\ n \in 0 .. Len(p)
    BY <1>1, <1>2, <1>3 DEF Typed
  <2>4. /\ SubSeq(p, 1, n) \in Seq(Requests) /\ Ours(k, SubSeq(p, 1, n))
        /\ SubSeq(p, n + 1, Len(p)) \in Seq(Requests) /\ Ours(k, SubSeq(p, n + 1, Len(p)))
    BY <2>3, PartOurs
  <2>5. /\ got \in Servers /\ Sequencing(got, published, shuffled)
        /\ got.nextOut = server.nextOut
    <3> DEFINE part == SubSeq(p, 1, n)
    <3>1. /\ k \in Sessions /\ server \in Servers
          /\ part \in Seq(Requests) /\ Ours(k, part)
          /\ published \in Seq(Requests) /\ Sequencing(server, published, shuffled)
          /\ got = ServerReceives(k, server, part)
      BY <1>1, <1>2, <1>3, <2>3, <2>4 DEF Typed
    <3> HIDE DEF got, part
    <3> QED
      BY <3>1, RequestsReceived
  <2>6. server' = [got EXCEPT !.todo = @ \ {k}]
    BY <2>2
  <2> HIDE DEF got
  <2>7. /\ server' \in Servers /\ Sequencing(server', published, shuffled)
        /\ server'.nextOut = server.nextOut
    <3>1. /\ server' \in Servers /\ server'.nextOut = got.nextOut
          /\ server'.nextExp = got.nextExp /\ server'.pending = got.pending
          /\ server'.cidSocket = got.cidSocket
      BY <2>5, <2>6 DEF Servers
    <3> QED
      BY <2>5, <3>1 DEF Sequencing, Accepted
  <2>8. f \in Seq(Responses) /\ Numbered(f)
    <3> DEFINE b == socket[k].sendBuffer
    <3>1. b \in Seq(Responses) /\ Numbered(b) /\ sent \in 0 .. Len(b)
      BY <1>2, <1>3, <2>3 DEF TCPSockets
    <3>2. sent \in Nat /\ sent <= Len(b) /\ 1 \in Nat
      BY <3>1
    <3> HIDE DEF b
    <3>3. /\ SubSeq(b, 1, sent) \in Seq(Responses)
          /\ \A i \in DOMAIN SubSeq(b, 1, sent) :
               \E j \in DOMAIN b : SubSeq(b, 1, sent)[i] = b[j]
      BY <3>1, <3>2, PartOf
    <3> QED
      BY <3>1, <3>3 DEF Numbered, b
  <2>9. /\ toServer' \in [Sessions -> Seq(Requests)]
        /\ \A j \in Sessions : Ours(j, toServer'[j])
    <3>1. toServer' = [toServer EXCEPT ![k] = SubSeq(p, n + 1, Len(p))]
      BY <2>2
    <3> QED
      BY <1>1, <1>2, <2>3, <2>4, <3>1 DEF Typed
  <2>10. /\ toGateway' \in [Sessions -> Seq(Responses)]
         /\ \A j \in Sessions : Numbered(toGateway'[j])
    <3>1. toGateway' = [toGateway EXCEPT ![k] = toGateway[k] \o f]
      BY <2>2
    <3> HIDE DEF f
    <3>2. toGateway[k] \in Seq(Responses)
      BY <1>1, <2>3 DEF Typed
    <3>3. toGateway[k] \o f \in Seq(Responses) /\ Numbered(toGateway[k] \o f)
      BY <1>2, <2>3, <2>8, <3>2, ResponsesJoined
    <3> QED
      BY <1>1, <1>2, <2>3, <3>1, <3>3 DEF Typed
  <2>11. /\ socket' \in [Sessions -> TCPSockets]
         /\ \A j \in Sessions : Numbered(socket'[j].sendBuffer)
    <3>1. socket' = [socket EXCEPT ![k] = [socket[k] EXCEPT !.sendBuffer = <<>>]]
      BY <2>2
    <3>2. /\ [socket[k] EXCEPT !.sendBuffer = <<>>] \in TCPSockets
          /\ [socket[k] EXCEPT !.sendBuffer = <<>>].sendBuffer = <<>>
      BY <1>3, <2>3, EmptyBuffers DEF TCPSockets
    <3> QED
      BY <1>2, <1>3, <2>3, <3>1, <3>2, EmptyBuffers
  <2>12. /\ faults' \in Nat /\ exited' \in BOOLEAN
         /\ UNCHANGED <<gateway, requests, responses, published, answers, shuffled>>
    <3>1. /\ \/ faults' = faults \/ faults' = faults + 1
          /\ UNCHANGED <<gateway, requests, responses, published, answers, shuffled>>
      BY <1>6 DEF Receive
    <3>2. exited' \in BOOLEAN
      BY <1>6 DEF Receive
    <3> QED
      BY <1>1, <3>1, <3>2 DEF Typed
  <2> QED
    BY <1>1, <1>2, <1>4, <2>7, <2>9, <2>10, <2>11, <2>12 DEF Typed
<1>7. CASE SequenceAndPublish
  <2>1. PICK p \in Sorts(server.pending) :
          LET batch == [i \in DOMAIN server.pending |-> server.pending[p[i]]]
          IN  requests' = requests \o batch /\ published' = published \o batch
    BY <1>7 DEF SequenceAndPublish
  <2> DEFINE batch == [i \in DOMAIN server.pending |-> server.pending[p[i]]]
  <2>2. Permutes(p, server.pending, batch)
    BY <1>3, SortedSequence
  <2>3. requests' = requests \o batch /\ published' = published \o batch
    BY <2>1
  <2> HIDE DEF batch
  <2>4. server' = [server EXCEPT !.at = "send", !.pending = <<>>]
    BY <1>7 DEF SequenceAndPublish
  <2>5. /\ server' \in Servers /\ server'.nextOut = server.nextOut
        /\ Sequencing(server', published \o batch, shuffled \cup Shuffled(server.pending))
    BY <1>1, <1>2, <1>3, <2>2, <2>4, PassPublished, ZenonT(40) DEF Typed
  <2>6. /\ batch \in Seq(Requests) /\ requests \o batch \in Seq(Requests)
        /\ published \o batch \in Seq(Requests)
    BY <1>1, <2>2 DEF Permutes, Typed
  <2>7. /\ shuffled' = shuffled \cup Shuffled(server.pending)
        /\ UNCHANGED <<gateway, toServer, toGateway, socket, responses, answers, faults,
                       exited>>
    BY <1>7 DEF SequenceAndPublish
  <2>8. shuffled' \in SUBSET Clients
    BY <1>1, <2>7 DEF Shuffled, Typed
  <2> QED
    BY <1>1, <1>2, <1>4, <2>3, <2>5, <2>6, <2>7, <2>8 DEF Typed
<1>8. CASE SendResponse
  <2> DEFINE m == Head(responses)
             k == server.cidSocket[m.client]
             x == [client |-> m.client, number |-> m.number,
                   seq |-> server.nextOut[m.client]]
             later == [server.nextOut EXCEPT ![m.client] = @ + 1]
  <2>1. /\ responses \in Seq(Answers) /\ answers \in [Ids -> Nat] /\ responses # <<>>
    BY <1>1, <1>8 DEF Typed, SendResponse
  <2>2. /\ m \in Answers /\ m.number = server.nextOut[m.client]
        /\ Tail(responses) \in Seq(Answers)
        /\ Answering(Tail(responses), later, answers)
    BY <1>2, <1>3, <2>1, ResponseNumbered
  <2>3. UNCHANGED <<gateway, toServer, toGateway, requests, published, answers, faults,
                    shuffled>>
    BY <1>8 DEF SendResponse
  <2>4. CASE k = NoSession
    <3>1. exited' = TRUE /\ UNCHANGED <<server, socket, responses>>
      BY <1>8, <2>4 DEF SendResponse
    <3> QED
      BY <1>1, <1>2, <1>3, <1>4, <2>3, <3>1 DEF Typed
  <2>5. CASE k # NoSession
    <3>1. /\ socket' = [socket EXCEPT ![k].sendBuffer = Append(@, x)]
          /\ server' = [server EXCEPT !.nextOut[m.client] = @ + 1]
          /\ responses' = Tail(responses) /\ UNCHANGED exited
      BY <1>8, <2>5 DEF SendResponse
    <3>2. m.client \in Ids /\ k \in Sessions /\ later \in [Ids -> Positive]
      BY <1>3, <2>2, <2>5 DEF Answers, Positive
    <3>3. x \in Responses /\ x.number = x.seq
      BY <1>3, <2>2, <3>2 DEF Answers, Responses
    <3>4. server' = [server EXCEPT !.nextOut = later]
      BY <3>1, <1>3 DEF Servers
    <3>5. socket' = [socket EXCEPT ![k] =
                       [socket[k] EXCEPT !.sendBuffer = Append(socket[k].sendBuffer, x)]]
      BY <3>1
    <3> HIDE DEF m, k, x, later
    <3>6. /\ server' \in Servers /\ server'.nextOut = later
          /\ Sequencing(server', published, shuffled)
      <4>1. /\ server' \in Servers /\ server'.nextOut = later
            /\ server'.nextExp = server.nextExp /\ server'.pending = server.pending
            /\ server'.cidSocket = server.cidSocket
        BY <1>3, <3>2, <3>4 DEF Servers
      <4> QED
        BY <1>2, <4>1 DEF Sequencing, Accepted
    <3>7. /\ Append(socket[k].sendBuffer, x) \in Seq(Responses)
          /\ Numbered(Append(socket[k].sendBuffer, x))
      BY <1>2, <1>3, <3>2, <3>3, BuffersAppended
    <3> DEFINE ss == [socket[k] EXCEPT !.sendBuffer = Append(socket[k].sendBuffer, x)]
    <3>8. ss \in TCPSockets /\ Numbered(ss.sendBuffer)
      BY <1>3, <3>2, <3>7 DEF TCPSockets
    <3>9. socket' = [socket EXCEPT ![k] = ss]
      BY <3>5
    <3> HIDE DEF ss
    <3>10. /\ socket' \in [Sessions -> TCPSockets]
           /\ \A j \in Sessions : Numbered(socket'[j].sendBuffer)
      BY <1>2, <1>3, <3>2, <3>8, <3>9
    <3> QED
      BY <1>1, <1>2, <1>4, <2>2, <2>3, <3>1, <3>6, <3>10 DEF Typed
  <2> QED
    BY <2>4, <2>5
<1>9. CASE EndOfPass
  <2>1. server' = [server EXCEPT !.at = "poll"]
    BY <1>9 DEF EndOfPass
  <2>2. /\ server' \in Servers /\ server'.nextOut = server.nextOut
        /\ server'.nextExp = server.nextExp /\ server'.pending = server.pending
        /\ server'.cidSocket = server.cidSocket
    BY <1>3, <2>1 DEF Servers
  <2>3. Sequencing(server', published, shuffled)
    BY <1>2, <2>2 DEF Sequencing, Accepted
  <2> QED
    BY <1>1, <1>2, <1>4, <1>9, <2>2, <2>3 DEF EndOfPass, Typed
<1> QED
  BY <1>5, <1>6, <1>7, <1>8, <1>9

LEMMA EngineKeeps ==
  ASSUME IInv, Engine
  PROVE  IInv'
<1>1. /\ Typed /\ Sequencing(server, published, shuffled)
      /\ Answering(responses, server.nextOut, answers)
  BY DEF IInv
<1>2. /\ requests \in Seq(Requests) /\ requests # <<>> /\ responses \in Seq(Answers)
      /\ answers \in [Ids -> Nat] /\ server.nextOut \in [Ids -> Positive]
  BY <1>1 DEF Typed, Engine, Servers
<1> DEFINE c == Head(requests).client
<1>3. c \in Clients /\ Tail(requests) \in Seq(Requests)
  <2>1. Head(requests) \in Requests /\ Tail(requests) \in Seq(Requests)
    BY <1>2
  <2> QED
    BY <2>1 DEF Requests
<1>4. PICK to \in {<<c>>} \cup (IF Len(requests) < Len(published)
                                  THEN {<<c, TickerId>>} ELSE {}) :
        LET number(i) == answers[to[i]] + Cardinality({j \in 1 .. i : to[j] = to[i]})
        IN  /\ responses' = responses \o
                 [i \in DOMAIN to |-> [client |-> to[i], number |-> number(i)]]
            /\ answers' = [d \in DOMAIN answers |->
                 answers[d] + Cardinality({i \in DOMAIN to : to[i] = d})]
  BY Zenon DEF Engine
<1> HIDE DEF c
<1>5. to = <<c>> \/ to = <<c, TickerId>>
  OBVIOUS
<1>6. /\ responses' \in Seq(Answers) /\ answers' \in [Ids -> Nat]
      /\ Answering(responses', server.nextOut, answers')
  <2>1. responses' = responses \o Written(answers, to) /\ answers' = Counted(answers, to)
    BY <1>4 DEF Written, Counted
  <2>2. /\ responses \o Written(answers, to) \in Seq(Answers)
        /\ Counted(answers, to) \in [Ids -> Nat]
        /\ Answering(responses \o Written(answers, to), server.nextOut, Counted(answers, to))
    BY <1>1, <1>2, <1>3, <1>5, EngineAnswers
  <2> QED
    BY <2>1, <2>2
<1>7. /\ requests' = Tail(requests)
      /\ UNCHANGED <<gateway, toServer, toGateway, socket, server, published, faults,
                     exited, shuffled>>
  BY DEF Engine
<1>8. Typed'
  BY <1>1, <1>3, <1>6, <1>7 DEF Typed
<1>9. (\A k \in Sessions : Ours(k, gateway[k].sendBuffer) /\ Ours(k, toServer[k]))'
  BY <1>7 DEF IInv, Ours
<1>10. Sequencing(server, published, shuffled)'
  BY <1>1, <1>7 DEF Sequencing, Accepted, Rising, Contains
<1>11. Answering(responses, server.nextOut, answers)'
  BY <1>6, <1>7 DEF Answering
<1>12. (\A k \in Sessions : /\ Numbered(socket[k].sendBuffer) /\ Numbered(toGateway[k])
                            /\ Delivering(gateway[k]))'
  BY <1>7 DEF IInv, Numbered, Delivering
<1> QED
  BY <1>8, <1>9, <1>10, <1>11, <1>12 DEF IInv

LEMMA Invariance ==
  Spec => []IInv
<1>1. ASSUME IInv, [Next]_vars PROVE IInv'
  <2>1. ASSUME NEW k \in Sessions,
               Connect(k) \/ SendRequest(k) \/ GatewaySendAndRecv(k) \/ Crash(k)
        PROVE  IInv'
    BY <1>1, <2>1, GatewayKeeps
  <2>2. CASE Server
    BY <1>1, <2>2, ServerKeeps DEF Server
  <2>3. CASE Engine
    BY <1>1, <2>3, EngineKeeps
  <2>4. CASE UNCHANGED vars
    BY <1>1, <2>4 DEF vars, IInv, Typed, Ours, Sequencing, Accepted, Rising, Contains,
                      Answering, Numbered, Delivering
  <2> QED
    BY <1>1, <2>1, <2>2, <2>3, <2>4 DEF Next
<1> QED
  BY InitInvariant, <1>1, PTL DEF Spec

-----------------------------------------------------------------------------
(* The theorems *)

\* Sessions, buffers, numbers and tables keep their types, and a gateway expects the number
\* after the last response it delivered.
THEOREM TypeCorrect == Spec => []TypeOK
<1>1. IInv => TypeOK
  <2> SUFFICES ASSUME IInv PROVE TypeOK
    OBVIOUS
  <2>1. ASSUME NEW k \in Sessions
        PROVE  /\ gateway[k].state \in {"unborn", "up", "dead"}
               /\ gateway[k].nextOut \in 1 .. (MaxRequests[k] + 1)
               /\ gateway[k].nextExp = Len(gateway[k].delivered) + 1
               /\ socket[k].state \in {"unknown", "listed", "dying", "deleted"}
    BY OrderEntryAssumption, SMTT(40) DEF IInv, Typed, Gateways, TCPSockets, Delivering, Positive
  <2>2. server \in Servers /\ exited \in BOOLEAN /\ shuffled \subseteq Clients
    BY DEF IInv, Typed
  <2> QED
    BY <2>1, <2>2 DEF TypeOK, Servers, Ids, Positive
<1> QED
  BY <1>1, Invariance, PTL

\* FIFOSequencer publishes of each client a prefix of what one session sent, in order,
\* unless a pass was too long to be sorted stably.
THEOREM RequestsArriveInOrder == Spec => []RequestsInOrder
<1>1. IInv => RequestsInOrder
  <2> SUFFICES ASSUME IInv, NEW i \in DOMAIN published, published[i].client \notin shuffled
               PROVE  LET m      == published[i]
                          before == {j \in 1 .. (i - 1) : published[j].client = m.client}
                      IN  /\ m.seq = 1 \/ \E j \in before : published[j].seq = m.seq - 1
                          /\ \A j \in before : /\ published[j].seq < m.seq
                                               /\ published[j].session = m.session
    BY DEF RequestsInOrder
  <2> DEFINE m == published[i]
             before == {j \in 1 .. (i - 1) : published[j].client = m.client}
  <2>1. /\ published \in Seq(Requests) /\ server \in Servers
        /\ Sequencing(server, published, shuffled)
    BY DEF IInv, Typed
  <2>2. /\ DOMAIN published = 1 .. Len(published) /\ Len(published) \in Nat
        /\ \A j \in DOMAIN published : published[j] \in Requests
    BY <2>1
  <2>3. \A j \in DOMAIN published : published[j].seq \in Positive
                                    /\ published[j].client \in Clients
    BY <2>2 DEF Requests
  <2>4. \A j \in before : /\ published[j].seq < m.seq /\ published[j].session = m.session
    BY <2>1, <2>2 DEF Sequencing, Rising, Accepted
  <2>5. ASSUME m.seq # 1 PROVE \E j \in before : published[j].seq = m.seq - 1
    <3>1. m.seq - 1 \in 1 .. (server.nextExp[m.client] - 1)
      <4>1. m.seq < server.nextExp[m.client] /\ server.nextExp[m.client] \in Nat
        BY <2>1, <2>3 DEF Sequencing, Accepted, Servers, Ids, Positive
      <4> QED
        BY <2>3, <2>5, <4>1 DEF Positive
    <3>2. CASE Contains(server.pending, m.client, m.seq - 1)
      <4>1. PICK j \in DOMAIN server.pending : /\ server.pending[j].client = m.client
                                               /\ server.pending[j].seq = m.seq - 1
        BY <3>2 DEF Contains
      <4>2. m.seq < m.seq - 1
        BY <2>1, <4>1 DEF Sequencing
      <4> QED
        BY <2>3, <4>2 DEF Positive
    <3>3. CASE Contains(published, m.client, m.seq - 1)
      <4>1. PICK j \in DOMAIN published : /\ published[j].client = m.client
                                          /\ published[j].seq = m.seq - 1
        BY <3>3 DEF Contains
      <4>2. ~(m.seq < m.seq - 1) /\ m.seq # m.seq - 1
        BY <2>3 DEF Positive
      <4>3. ~(i < j) /\ i # j
        BY <2>1, <4>1, <4>2 DEF Sequencing, Rising
      <4>4. j \in 1 .. (i - 1)
        BY <2>2, <4>3
      <4> QED
        BY <4>1, <4>4
    <3> QED
      BY <2>1, <2>3, <3>1, <3>2, <3>3 DEF Sequencing
  <2> QED
    BY <2>4, <2>5
<1> QED
  BY <1>1, Invariance, PTL

\* OrderGateway hands the trade engine a prefix of the engine's answers to its client.
THEOREM ResponsesArriveInOrder == Spec => []ResponsesInOrder
<1>1. IInv => ResponsesInOrder
  BY DEF IInv, Delivering, ResponsesInOrder
<1> QED
  BY <1>1, Invariance, PTL

=============================================================================
