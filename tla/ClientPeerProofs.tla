-------------------------- MODULE ClientPeerProofs --------------------------
(***************************************************************************)
(* Proofs about ClientPeer, for every value of the timeouts and bounds.    *)
(***************************************************************************)
EXTENDS ClientPeer, FiniteSetTheorems, FunctionTheorems, SequenceTheorems, TLAPS

USE PeerAssumption

Jobs  == {"authenticated"} \cup Requests
Bytes == Packets \cup {"fin"}

-----------------------------------------------------------------------------
(* Types. *)

LEMMA EndsFacts ==
    /\ Ends = {"client", "server"}
    /\ \A e \in Ends : Other(e) \in Ends /\ Other(e) # e
BY DEF Ends, Other

LEMMA TimerTypes ==
    ASSUME NEW n \in Nat
    PROVE  StartTimer(n) \in Nat /\ Less(n) \in Nat
BY DEF StartTimer, Less

LEMMA PeerStates ==
    /\ \A s \in {"absent", "unconnected", "connecting", "connected", "closing"} :
          Clean(s) \in PeerRecord
    /\ Connecting \in PeerRecord /\ Connected \in PeerRecord
    /\ \A p \in PeerRecord : Closing(p) \in PeerRecord /\ HandShaken(p) \in PeerRecord
BY TimerTypes DEF Clean, Connecting, Connected, Closing, HandShaken, PeerRecord

LEMMA PacketKinds ==
    /\ Hello \in Seq(Bytes)
    /\ \A p \in Bytes : <<p>> \in Seq(Bytes)
    /\ Requests \subseteq Packets /\ Answers \subseteq Packets /\ Denials \subseteq Packets
    /\ {"handShake", "authentication", "keepAlive", "keepAliveAck", "nodes", "fin"} \subseteq Bytes
    /\ \A p \in Bytes : RequestOf(p) \in Requests
BY DEF Hello, Bytes, Packets, Requests, Answers, Denials, RequestOf

LEMMA WriteType ==
    ASSUME wire \in [Ends -> Seq(Bytes)], NEW e \in Ends, NEW s \in Seq(Bytes)
    PROVE  Write(e, s) \in [Ends -> Seq(Bytes)]
<1>1. wire[Other(e)] \o s \in Seq(Bytes)
    BY EndsFacts, ConcatProperties
<1> QED
    BY <1>1, EndsFacts DEF Write

LEMMA ReadType ==
    ASSUME wire \in [Ends -> Seq(Bytes)], NEW e \in Ends, wire[e] # <<>>
    PROVE  /\ Head(wire[e]) \in Bytes
           /\ Tail(wire[e]) \in Seq(Bytes)
           /\ Read(e) \in [Ends -> Seq(Bytes)]
           /\ \A s \in Seq(Bytes) : ReadAndWrite(e, s) \in [Ends -> Seq(Bytes)]
<1>1. Head(wire[e]) \in Bytes /\ Tail(wire[e]) \in Seq(Bytes)
    BY HeadTailProperties
<1> QED
    BY <1>1, WriteType DEF Read, ReadAndWrite

LEMMA PrefixType ==
    ASSUME NEW s \in Seq(Bytes), NEW n \in 0 .. Len(s)
    PROVE  SubSeq(s, 1, n) \o <<"fin">> \in Seq(Bytes)
<1>1. SubSeq(s, 1, n) \in Seq(Bytes)
    BY SubSeqProperties, LenProperties, ElementOfSeq
<1> QED
    BY <1>1, PacketKinds, ConcatProperties

LEMMA AbortType ==
    ASSUME TypeOK, NEW e \in Ends, Abort(e)
    PROVE  /\ peer' \in [Ends -> PeerRecord]
           /\ wire' \in [Ends -> Seq(Bytes)]
           /\ pending' \in RequestCounts
           /\ pendingTimer' \in Nat /\ retryTimer' \in Nat
<1>1. PICK n \in 0 .. Len(wire[Other(e)]) :
        wire' = [x \in Ends |->
                   IF x = Other(e) /\ Reachable(Other(e))
                   THEN SubSeq(wire[Other(e)], 1, n) \o <<"fin">> ELSE <<>>]
    BY DEF Abort
<1>2. wire[Other(e)] \in Seq(Bytes) /\ <<>> \in Seq(Bytes)
    BY EndsFacts DEF TypeOK, Bytes
<1>3. wire' \in [Ends -> Seq(Bytes)]
    BY <1>1, <1>2, PrefixType
<1>4. peer' \in [Ends -> PeerRecord]
    BY PeerStates DEF Abort, TypeOK
<1> QED
    BY <1>3, <1>4 DEF Abort, ClientTimersStop, TypeOK

LEMMA LeaveType ==
    ASSUME TypeOK, NEW e \in Ends, DisconnectFromHost(e)
    PROVE  /\ peer' \in [Ends -> PeerRecord]
           /\ wire' \in [Ends -> Seq(Bytes)]
           /\ pending' \in RequestCounts
           /\ pendingTimer' \in Nat /\ retryTimer' \in Nat
BY PeerStates DEF DisconnectFromHost, ClientTimersStop, TypeOK, Bytes

LEMMA PendingTypes ==
    ASSUME pending \in RequestCounts, pendingTimer \in Nat
    PROVE  /\ \A rs : AddRequests(rs) \in RequestCounts
           /\ \A r \in Requests : pending[r] > 0 => TakeRequest(r) \in RequestCounts
           /\ \A rs : Register(rs) => pending' \in RequestCounts /\ pendingTimer' \in Nat
BY TimerTypes DEF RequestCounts, AddRequests, TakeRequest, Register

LEMMA TouchedType ==
    ASSUME peer \in [Ends -> PeerRecord], NEW e \in Ends
    PROVE  Touched(e) \in PeerRecord
BY TimerTypes DEF Touched, PeerRecord

LEMMA TypeInit == Init => TypeOK
BY PeerStates, EndsFacts, EmptySeq DEF Init, TypeOK, RequestCounts, Links, Errors


LEMMA TypeConnections ==
    ASSUME TypeOK
    PROVE  /\ ConnectToHost => TypeOK'
           /\ Establish => TypeOK'
           /\ ConnectionFails => TypeOK'
           /\ ServerThreadEnds => TypeOK'
           /\ LinkCut => TypeOK'
           /\ \A e \in Ends : /\ Disconnect(e) => TypeOK'
                              /\ CloseEnds(e) => TypeOK'
                              /\ RemoteClosed(e) => TypeOK'
                              /\ SocketError(e) => TypeOK'
<1> USE EndsFacts, PeerStates, PacketKinds
<1>1. ConnectToHost => TypeOK'
    BY DEF ConnectToHost, TypeOK, clientVars
<1>2. Establish => TypeOK'
    BY DEF Establish, TypeOK, clientVars, Bytes, Errors
<1>3. ConnectionFails => TypeOK'
    BY AbortType DEF ConnectionFails, TypeOK, Bytes
<1>4. ServerThreadEnds => TypeOK'
    BY DEF ServerThreadEnds, TypeOK, clientVars
<1>5. LinkCut => TypeOK'
    BY DEF LinkCut, TypeOK, clientVars, Bytes, Links
<1>6. ASSUME NEW e \in Ends, Disconnect(e) PROVE TypeOK'
    BY <1>6, AbortType, LeaveType DEF Disconnect, TypeOK, Bytes
<1>7. ASSUME NEW e \in Ends, CloseEnds(e) PROVE TypeOK'
  <2>1. Append(wire[Other(e)], "fin") \in Seq(Bytes)
      BY DEF TypeOK, Bytes
  <2> QED
      BY <1>7, <2>1 DEF CloseEnds, TypeOK, clientVars, Bytes
<1>8. ASSUME NEW e \in Ends, RemoteClosed(e) PROVE TypeOK'
    BY <1>8, AbortType DEF RemoteClosed, TypeOK, Bytes
<1>9. ASSUME NEW e \in Ends, SocketError(e) PROVE TypeOK'
    BY <1>9, AbortType DEF SocketError, TypeOK, Bytes
<1> QED
    BY <1>1, <1>2, <1>3, <1>4, <1>5, <1>6, <1>7, <1>8, <1>9

LEMMA TypeReceive ==
    ASSUME TypeOK, NEW e \in Ends, Receive(e)
    PROVE  TypeOK'
<1> DEFINE p == Head(wire[e])
<1>1. /\ wire \in [Ends -> Seq(Bytes)] /\ wire[e] # <<>>
      /\ link' = link /\ foreign' = foreign /\ silence' = silence
    BY DEF Receive, TypeOK, Bytes
<1>2. /\ p \in Bytes /\ RequestOf(p) \in Requests
      /\ Read(e) \in [Ends -> Seq(Bytes)]
      /\ \A s \in Seq(Bytes) : ReadAndWrite(e, s) \in [Ends -> Seq(Bytes)]
    BY <1>1, ReadType, PacketKinds
<1> HIDE DEF p
<1>3. /\ Touched(e) \in PeerRecord
      /\ [Touched(e) EXCEPT !.authenticated = TRUE] \in PeerRecord
      /\ [peer EXCEPT ![e] = Touched(e)] \in [Ends -> PeerRecord]
  <2>1. Touched(e) \in PeerRecord
      BY TouchedType DEF TypeOK
  <2> QED
      BY <2>1 DEF PeerRecord, TypeOK
<1>4. \A k \in Errors : [error EXCEPT ![e] = k] \in [Ends -> Errors]
    BY DEF TypeOK
<1>5. ASSUME NEW k \in Errors, FailAbort(e, k) PROVE TypeOK'
    BY <1>1, <1>4, <1>5, AbortType DEF FailAbort, TypeOK, Bytes
<1>6. ASSUME NEW k \in Errors, FailContinue(e, k) PROVE TypeOK'
    BY <1>1, <1>2, <1>3, <1>4, <1>6 DEF FailContinue, TypeOK, Bytes, clientVars
<1>7. ASSUME Ignore(e) PROVE TypeOK'
    BY <1>1, <1>2, <1>3, <1>7 DEF Ignore, TypeOK, Bytes, clientVars
<1>8. ASSUME ReceiveHandShake(e, p) PROVE TypeOK'
  <2>1. CASE p # "handShake"
      BY <1>5, <1>8, <2>1 DEF ReceiveHandShake, Errors
  <2>2. CASE p = "handShake" /\ e = "client"
    <3>1. PICK s \in {<<"serverInfoRequest">>, <<"serverInfoRequest", "seedUrlRequest">>} :
            wire' = ReadAndWrite(e, s) /\ Register({s[i] : i \in DOMAIN s})
        BY <1>8, <2>2 DEF ReceiveHandShake
    <3>2. s \in Seq(Bytes)
      <4>1. \A a, b \in Bytes : <<a>> \in Seq(Bytes) /\ <<a, b>> \in Seq(Bytes)
          OBVIOUS
      <4> QED
          BY <4>1 DEF Bytes, Packets, Requests
    <3>3. wire' \in [Ends -> Seq(Bytes)]
        BY <1>2, <3>1, <3>2
    <3>4. pending' \in RequestCounts /\ pendingTimer' \in Nat
        BY <3>1, PendingTypes DEF TypeOK
    <3>5. /\ peer' \in [Ends -> PeerRecord]
          /\ retryTimer' = retryTimer /\ jobs' = jobs /\ error' = error
        BY <1>3, <1>8, <2>2 DEF ReceiveHandShake
    <3> QED
        BY <1>1, <3>3, <3>4, <3>5 DEF TypeOK, Bytes
  <2>3. CASE p = "handShake" /\ e # "client"
      BY <1>1, <1>2, <1>3, <1>8, <2>3 DEF ReceiveHandShake, TypeOK, Bytes
  <2> QED
      BY <2>1, <2>2, <2>3
<1>9. ASSUME ReceiveResponse(e, p) PROVE TypeOK'
  <2>1. pending' \in RequestCounts /\ pendingTimer' \in Nat /\ retryTimer' \in Nat
    <3>1. pendingTimer' \in Nat
        BY <1>9 DEF ReceiveResponse, TypeOK
    <3>2. CASE e = "client" /\ pending[RequestOf(p)] > 0
      <4>1. TakeRequest(RequestOf(p)) \in RequestCounts
          BY <1>2, <3>2, PendingTypes DEF TypeOK
      <4> QED
          BY <1>9, <3>1, <3>2, <4>1 DEF ReceiveResponse, StopRetry, TypeOK
    <3>3. CASE ~(e = "client" /\ pending[RequestOf(p)] > 0)
        BY <1>9, <3>1, <3>3 DEF ReceiveResponse, TypeOK
    <3> QED
        BY <3>2, <3>3
  <2>2. error' \in [Ends -> Errors]
      BY <1>4, <1>9 DEF ReceiveResponse, TypeOK, Errors
  <2>3. /\ peer' \in [Ends -> PeerRecord] /\ wire' \in [Ends -> Seq(Bytes)]
        /\ jobs' = jobs
      BY <1>2, <1>3, <1>9 DEF ReceiveResponse
  <2> QED
      BY <1>1, <2>1, <2>2, <2>3 DEF TypeOK, Bytes
<1>10. ASSUME ReceiveAuthentication(e, p) PROVE TypeOK'
  <2>1. CASE p # "authentication"
      BY <1>5, <1>10, <2>1 DEF ReceiveAuthentication, Errors
  <2>2. CASE p = "authentication"
    <3>1. Append(jobs, "authenticated") \in Seq(Jobs)
        BY DEF TypeOK, Jobs
    <3>2. peer' \in [Ends -> PeerRecord]
        BY <1>3, <1>10, <2>2 DEF ReceiveAuthentication, TypeOK
    <3> QED
        BY <1>1, <1>2, <1>10, <2>2, <3>1, <3>2
        DEF ReceiveAuthentication, TypeOK, Bytes, Jobs, clientVars
  <2> QED
      BY <2>1, <2>2
<1>11. ASSUME ReceiveKeepAlive(e, p) PROVE TypeOK'
  <2>1. wire' \in [Ends -> Seq(Bytes)]
      BY <1>2, <1>11, PacketKinds DEF ReceiveKeepAlive
  <2> QED
      BY <1>1, <1>3, <1>11, <2>1 DEF ReceiveKeepAlive, TypeOK, Bytes, clientVars
<1>12. ASSUME ReceiveRequest(e, p) PROVE TypeOK'
  <2>1. jobs' \in Seq(Jobs)
      BY <1>12 DEF ReceiveRequest, TypeOK, Jobs
  <2> QED
      BY <1>1, <1>2, <1>3, <1>12, <2>1 DEF ReceiveRequest, TypeOK, Bytes, Jobs, clientVars
<1>13. ASSUME ReceiveDenied(e, p) PROVE TypeOK'
  <2>1. CASE e = "client" /\ pending[RequestOf(p)] > 0
    <3>1. pending' \in RequestCounts
        BY <1>2, <1>13, <2>1, PendingTypes DEF ReceiveDenied, TypeOK
    <3>2. retryTimer' \in Nat
        BY <1>13, <2>1, TimerTypes DEF ReceiveDenied, StartRetry, TypeOK
    <3> QED
        BY <1>1, <1>2, <1>3, <1>13, <2>1, <3>1, <3>2 DEF ReceiveDenied, TypeOK, Bytes
  <2>2. CASE ~(e = "client" /\ pending[RequestOf(p)] > 0)
      BY <1>6, <1>13, <2>2 DEF ReceiveDenied, Errors
  <2> QED
      BY <2>1, <2>2
<1>14. ASSUME ReceiveRefusal(e, p) PROVE TypeOK'
    BY <1>7, <1>14 DEF ReceiveRefusal
<1>15. ASSUME ReceiveOther(e, p) PROVE TypeOK'
    BY <1>5, <1>6, <1>7, <1>15 DEF ReceiveOther, Errors
<1> QED
    BY <1>8, <1>9, <1>10, <1>11, <1>12, <1>13, <1>14, <1>15 DEF Receive, p

LEMMA TypeMain ==
    ASSUME TypeOK, MainThread
    PROVE  TypeOK'
<1>1. /\ jobs \in Seq(Jobs) /\ jobs # <<>> /\ jobs' = Tail(jobs)
      /\ wire \in [Ends -> Seq(Bytes)]
    BY DEF MainThread, TypeOK, Jobs, Bytes
<1>2. jobs' \in Seq(Jobs)
    BY <1>1, HeadTailProperties
<1>3. CASE AcceptOrRefuse
  <2>1. CASE peer' = [peer EXCEPT !["server"] = HandShaken(@)]
               /\ wire' = Write("server", <<"handShake">>) /\ UNCHANGED clientVars
    <3>1. wire' \in [Ends -> Seq(Bytes)]
        BY <1>1, <2>1, WriteType, PacketKinds, EndsFacts
    <3>2. peer' \in [Ends -> PeerRecord]
        BY <2>1, PeerStates, EndsFacts DEF TypeOK
    <3> QED
        BY <1>2, <2>1, <3>1, <3>2 DEF MainThread, TypeOK, Jobs, Bytes, clientVars
  <2>2. CASE DisconnectFromHost("server")
      BY <1>2, <2>2, LeaveType, EndsFacts DEF MainThread, TypeOK, Jobs, Bytes
  <2>3. CASE UNCHANGED <<peer, clientVars, wire>>
      BY <1>2, <2>3 DEF MainThread, TypeOK, Jobs, clientVars
  <2> QED
      BY <1>3, <2>1, <2>2, <2>3 DEF AcceptOrRefuse
<1>4. CASE Answer(Head(jobs))
  <2>1. PICK p \in Bytes : wire' = Write("server", <<p>>)
      BY <1>4, PacketKinds DEF Answer, Bytes, Packets, Answers, Denials
  <2>2. wire' \in [Ends -> Seq(Bytes)]
      BY <1>1, <2>1, WriteType, PacketKinds, EndsFacts
  <2> QED
      BY <1>2, <1>4, <2>2 DEF Answer, MainThread, TypeOK, Jobs, Bytes, clientVars
<1> QED
    BY <1>3, <1>4 DEF MainThread

LEMMA TypeTimers ==
    ASSUME TypeOK
    PROVE  /\ PendingFires => TypeOK'
           /\ RetryFires => TypeOK'
           /\ Tick => TypeOK'
           /\ \A e \in Ends : TimeoutFires(e) => TypeOK'
           /\ \A e \in Ends : KeepAliveFires(e) => TypeOK'
<1> USE TimerTypes
<1>1. PendingFires => TypeOK'
    BY AbortType, EndsFacts DEF PendingFires, TypeOK, Bytes
<1>2. ASSUME RetryFires PROVE TypeOK'
  <2>1. wire' \in [Ends -> Seq(Bytes)]
      BY <1>2, WriteType, PacketKinds, EndsFacts
      DEF RetryFires, SendSeedUrlRequest, TypeOK, Bytes, Requests
  <2>2. pending' \in RequestCounts /\ pendingTimer' \in Nat
      BY <1>2, PendingTypes DEF RetryFires, SendSeedUrlRequest, TypeOK
  <2> QED
      BY <1>2, <2>1, <2>2 DEF RetryFires, TypeOK, Bytes
<1>3. ASSUME Tick PROVE TypeOK'
  <2>1. peer' \in [Ends -> PeerRecord]
    <3>1. \A e \in Ends :
            [peer[e] EXCEPT !.timeoutTimer = Less(@), !.keepAliveTimer = Less(@)] \in PeerRecord
        BY DEF TypeOK, PeerRecord
    <3> QED
        BY <1>3, <3>1 DEF Tick
  <2>2. silence' \in Nat
    <3>1. silence' = silence + 1 \/ silence' = silence
        BY <1>3, Zenon DEF Tick
    <3>2. silence \in Nat
        BY DEF TypeOK
    <3> QED
        BY <3>1, <3>2
  <2>3. Less(pendingTimer) \in Nat /\ Less(retryTimer) \in Nat
      BY DEF TypeOK, Less
  <2>4. /\ pendingTimer' = Less(pendingTimer) /\ retryTimer' = Less(retryTimer)
        /\ pending' = pending /\ jobs' = jobs /\ wire' = wire
        /\ link' = link /\ foreign' = foreign /\ error' = error
      BY <1>3 DEF Tick
  <2> QED
      BY <2>1, <2>2, <2>3, <2>4 DEF TypeOK
<1>4. ASSUME NEW e \in Ends, TimeoutFires(e) PROVE TypeOK'
  <2>1. CASE Abort(e)
      BY <1>4, <2>1, AbortType DEF TimeoutFires, TypeOK, Bytes
  <2>2. CASE ~Abort(e)
    <3>1. /\ peer' = [peer EXCEPT ![e].invalidate = FALSE,
                                  ![e].timeoutTimer = StartTimer(Period(peer[e]))]
          /\ UNCHANGED <<clientVars, wire>>
        BY <1>4, <2>2 DEF TimeoutFires
    <3>2. StartTimer(Period(peer[e])) \in Nat
        BY DEF Period
    <3>3. peer' \in [Ends -> PeerRecord]
      <4> DEFINE r == [peer[e] EXCEPT !.invalidate = FALSE,
                                      !.timeoutTimer = StartTimer(Period(peer[e]))]
      <4>1. peer \in [Ends -> PeerRecord]
          BY DEF TypeOK
      <4>2. r \in PeerRecord
          BY <3>2, <4>1 DEF PeerRecord
      <4>3. peer' = [peer EXCEPT ![e] = r]
          BY <3>1, <4>1
      <4> HIDE DEF r
      <4> QED
          BY <4>1, <4>2, <4>3
    <3> QED
        BY <1>4, <3>1, <3>3 DEF TimeoutFires, TypeOK, clientVars
  <2> QED
      BY <2>1, <2>2
<1>5. ASSUME NEW e \in Ends, KeepAliveFires(e) PROVE TypeOK'
  <2>1. wire' \in [Ends -> Seq(Bytes)]
      BY <1>5, WriteType, PacketKinds DEF KeepAliveFires, TypeOK, Bytes
  <2>2. peer' \in [Ends -> PeerRecord]
      BY <1>5 DEF KeepAliveFires, TypeOK, PeerRecord
  <2> QED
      BY <1>5, <2>1, <2>2 DEF KeepAliveFires, TypeOK, Bytes, clientVars
<1> QED
    BY <1>1, <1>2, <1>3, <1>4, <1>5

LEMMA TypeSends ==
    ASSUME TypeOK
    PROVE  /\ AskSeedUrl => TypeOK'
           /\ SendNodes => TypeOK'
           /\ \A e \in Ends : ForeignSends(e) => TypeOK'
<1>1. ASSUME AskSeedUrl PROVE TypeOK'
  <2>1. wire' \in [Ends -> Seq(Bytes)]
      BY <1>1, WriteType, PacketKinds, EndsFacts
      DEF AskSeedUrl, SendSeedUrlRequest, TypeOK, Bytes, Requests
  <2>2. pending' \in RequestCounts /\ pendingTimer' \in Nat
      BY <1>1, PendingTypes DEF AskSeedUrl, SendSeedUrlRequest, TypeOK
  <2> QED
      BY <1>1, <2>1, <2>2 DEF AskSeedUrl, TypeOK, Bytes
<1>2. ASSUME SendNodes PROVE TypeOK'
  <2>1. wire' \in [Ends -> Seq(Bytes)]
      BY <1>2, WriteType, PacketKinds, EndsFacts DEF SendNodes, TypeOK, Bytes
  <2> QED
      BY <1>2, <2>1 DEF SendNodes, TypeOK, Bytes, clientVars
<1>3. ASSUME NEW e \in Ends, ForeignSends(e) PROVE TypeOK'
  <2>1. PICK p \in Packets : wire' = Write(e, <<p>>)
      BY <1>3 DEF ForeignSends
  <2>2. wire' \in [Ends -> Seq(Bytes)]
      BY <2>1, WriteType, PacketKinds DEF TypeOK, Bytes
  <2> QED
      BY <1>3, <2>2 DEF ForeignSends, TypeOK, Bytes, clientVars
<1> QED
    BY <1>1, <1>2, <1>3

LEMMA TypeNext == TypeOK /\ [Next]_vars => TypeOK'
<1>1. TypeOK /\ UNCHANGED vars => TypeOK'
    BY DEF TypeOK, vars, clientVars
<1>2. TypeOK /\ Next => TypeOK'
    BY TypeConnections, TypeReceive, TypeMain, TypeTimers, TypeSends DEF Next, Fires
<1> QED
    BY <1>1, <1>2

\* The variables keep their types: no timer or counter of requests becomes
\* negative, and streams hold packets.
THEOREM TypeCorrect == Spec => []TypeOK
<1> QED
    BY TypeInit, TypeNext, PTL DEF Spec

-----------------------------------------------------------------------------
(* Loss of the network.  A live peer whose network is gone has a timer that *)
(* runs; data that came before the cut let it run once more at most.        *)

Timed(p, l, n) ==
    /\ p.timeoutTimer \in 1 .. Period(p) + 1
    /\ l = "cut" /\ p.invalidate => n + p.timeoutTimer <= Period(p) + 1
    /\ l = "cut" => n + p.timeoutTimer <= 2 * Period(p) + 1

LossInv ==
    /\ link = "cut" => \A e \in Ends : wire[e] = <<>>
    /\ silence > 0 => link = "cut" /\ jobs = <<>>
    /\ \A e \in Ends : Own(e) /\ Live(e) => Timed(peer[e], link, silence)

\* The peer e of a program that stays connected keeps its timer, and data only
\* come as long as there is a network.
Keeps(e) ==
    peer'[e].sock = "connected" =>
        /\ peer[e].sock = "connected"
        /\ peer'[e].timeoutTimer = peer[e].timeoutTimer
        /\ peer'[e].sent = peer[e].sent
        /\ link = "cut" => peer'[e].invalidate = peer[e].invalidate

LEMMA PeriodFacts ==
    ASSUME PeerTimeout > 0, HandShakeTimeout > 0,
           NEW p \in PeerRecord, p.sock = "connected"
    PROVE  /\ Period(p) \in Nat /\ Period(p) > 0
           /\ \A q \in PeerRecord : q.sock = "connected" /\ q.sent = p.sent
                                       => Period(q) = Period(p)
BY DEF Period

LEMMA KeepsTimed ==
    ASSUME TypeOK, TypeOK', LossInv, PeerTimeout > 0, HandShakeTimeout > 0,
           UNCHANGED <<link, foreign, silence>>, \A e \in Ends : Keeps(e)
    PROVE  \A e \in Ends : Own(e)' /\ Live(e)' => Timed(peer[e], link, silence)'
<1> SUFFICES ASSUME NEW e \in Ends, Own(e)', Live(e)'
             PROVE  Timed(peer[e], link, silence)'
    OBVIOUS
<1>1. /\ peer[e] \in PeerRecord /\ peer'[e] \in PeerRecord
      /\ peer[e].sock = "connected" /\ peer'[e].sock = "connected"
      /\ peer'[e].timeoutTimer = peer[e].timeoutTimer
      /\ peer'[e].sent = peer[e].sent
      /\ link = "cut" => peer'[e].invalidate = peer[e].invalidate
    BY DEF Keeps, Live, TypeOK
<1>2. Period(peer'[e]) = Period(peer[e])
    BY <1>1, PeriodFacts
<1>3. Timed(peer[e], link, silence)
    BY <1>1 DEF LossInv, Own, Live
<1>4. Timed(peer'[e], link, silence)
    BY <1>1, <1>2, <1>3 DEF Timed
<1> QED
    BY <1>2, <1>4 DEF Timed, Period

LEMMA AbortKeeps ==
    ASSUME TypeOK, NEW e \in Ends, Abort(e)
    PROVE  /\ \A x \in Ends : Keeps(x)
           /\ link = "cut" => \A x \in Ends : wire'[x] = <<>>
<1>1. \A x \in Ends : Keeps(x)
    BY DEF Abort, Keeps, Clean, TypeOK
<1>2. link = "cut" => \A x \in Ends : wire'[x] = <<>>
    BY EndsFacts DEF Abort, Reachable
<1> QED
    BY <1>1, <1>2

LEMMA LeaveKeeps ==
    ASSUME TypeOK, LossInv, NEW e \in Ends, DisconnectFromHost(e)
    PROVE  /\ \A x \in Ends : Keeps(x)
           /\ link = "cut" => \A x \in Ends : wire'[x] = <<>>
<1>1. \A x \in Ends : Keeps(x)
    BY DEF DisconnectFromHost, Keeps, Closing, TypeOK, PeerRecord
<1>2. link = "cut" => \A x \in Ends : wire'[x] = <<>>
    BY EndsFacts DEF DisconnectFromHost, LossInv, TypeOK
<1> QED
    BY <1>1, <1>2

LEMMA WriteKeeps ==
    ASSUME LossInv, TypeOK, NEW e \in Ends, link = "cut"
    PROVE  \A s : \A x \in Ends : Write(e, s)[x] = <<>>
BY EndsFacts DEF Write, Reachable, LossInv

\* A step that keeps the timers, the silence and an empty queue of jobs.
LEMMA LossKept ==
    ASSUME TypeOK, TypeOK', LossInv, PeerTimeout > 0, HandShakeTimeout > 0,
           UNCHANGED <<link, foreign, silence>>, \A e \in Ends : Keeps(e),
           link = "cut" => \A e \in Ends : wire'[e] = <<>>,
           jobs = <<>> => jobs' = <<>>
    PROVE  LossInv'
<1>1. \A e \in Ends : (Own(e) /\ Live(e) => Timed(peer[e], link, silence))'
    BY KeepsTimed
<1>2. (silence > 0 => link = "cut" /\ jobs = <<>>)'
    BY DEF LossInv
<1> QED
    BY <1>1, <1>2 DEF LossInv

LEMMA LossConnections ==
    ASSUME TypeOK, TypeOK', LossInv, PeerTimeout > 0, HandShakeTimeout > 0
    PROVE  /\ ConnectToHost => LossInv'
           /\ ConnectionFails => LossInv'
           /\ ServerThreadEnds => LossInv'
           /\ \A e \in Ends : /\ Disconnect(e) => LossInv'
                              /\ CloseEnds(e) => LossInv'
                              /\ RemoteClosed(e) => LossInv'
                              /\ SocketError(e) => LossInv'
<1> USE EndsFacts
<1>1. ASSUME ConnectToHost PROVE LossInv'
  <2>1. \A e \in Ends : Keeps(e)
      BY <1>1 DEF ConnectToHost, Keeps, Connecting, Clean, TypeOK
  <2> QED
      BY <1>1, <2>1, LossKept DEF ConnectToHost, LossInv
<1>2. ASSUME ConnectionFails PROVE LossInv'
    BY <1>2, AbortKeeps, LossKept DEF ConnectionFails
<1>3. ASSUME ServerThreadEnds PROVE LossInv'
  <2>1. \A e \in Ends : Keeps(e)
      BY <1>3 DEF ServerThreadEnds, Keeps, Clean, TypeOK
  <2> QED
      BY <1>3, <2>1, LossKept DEF ServerThreadEnds, LossInv
<1>4. ASSUME NEW e \in Ends, Disconnect(e) PROVE LossInv'
    BY <1>4, AbortKeeps, LeaveKeeps, LossKept DEF Disconnect
<1>5. ASSUME NEW e \in Ends, CloseEnds(e) PROVE LossInv'
  <2>1. \A x \in Ends : Keeps(x)
      BY <1>5 DEF CloseEnds, Keeps, Clean, TypeOK
  <2>2. link = "cut" => \A x \in Ends : wire'[x] = <<>>
      BY <1>5 DEF CloseEnds, LossInv, Reachable, TypeOK
  <2> QED
      BY <1>5, <2>1, <2>2, LossKept DEF CloseEnds
<1>6. ASSUME NEW e \in Ends, RemoteClosed(e) PROVE LossInv'
    BY <1>6, AbortKeeps, LossKept DEF RemoteClosed
<1>7. ASSUME NEW e \in Ends, SocketError(e) PROVE LossInv'
    BY <1>7, AbortKeeps, LossKept DEF SocketError
<1> QED
    BY <1>1, <1>2, <1>3, <1>4, <1>5, <1>6, <1>7

LEMMA LossEstablish ==
    ASSUME TypeOK, TypeOK', LossInv, PeerTimeout > 0, HandShakeTimeout > 0, Establish
    PROVE  LossInv'
<1>1. link # "cut" /\ link' = link /\ foreign' = foreign /\ silence' = silence
    BY DEF Establish
<1>2. silence = 0
    BY <1>1 DEF LossInv, TypeOK
<1>3. Timed(HandShaken(Connected), link, 0) /\ Timed(Connected, link, 0)
  <2>1. /\ HandShaken(Connected).timeoutTimer = PeerTimeout + 1
        /\ Period(HandShaken(Connected)) = PeerTimeout
        /\ Connected.timeoutTimer = HandShakeTimeout + 1
        /\ Period(Connected) = HandShakeTimeout
      BY DEF HandShaken, Connected, Clean, StartTimer, Period
  <2> QED
      BY <1>1, <2>1 DEF Timed
<1>4. \A e \in Ends : Own(e)' => peer'[e] \in {HandShaken(Connected), Connected}
    BY <1>1 DEF Establish, Own
<1>5. \A e \in Ends : Own(e)' => Timed(peer'[e], link', silence')
    BY <1>1, <1>2, <1>3, <1>4
<1>6. \A e \in Ends : Timed(peer'[e], link', silence') => Timed(peer[e], link, silence)'
    BY DEF Timed, Period
<1> QED
    BY <1>1, <1>2, <1>5, <1>6 DEF LossInv

LEMMA LossCut ==
    ASSUME TypeOK, LossInv, LinkCut, PeerTimeout > 0, HandShakeTimeout > 0
    PROVE  LossInv'
<1>1. silence = 0 /\ silence' = 0 /\ peer' = peer /\ foreign' = foreign
    BY DEF LinkCut, LossInv, TypeOK
<1>2. ASSUME NEW e \in Ends, Own(e), Live(e)
      PROVE  Timed(peer[e], "cut", 0)
  <2>1. Timed(peer[e], link, silence)
      BY <1>2 DEF LossInv
  <2>2. peer[e] \in PeerRecord /\ peer[e].sock = "connected"
      BY <1>2 DEF TypeOK, Live
  <2>3. Period(peer[e]) \in Nat /\ peer[e].timeoutTimer \in Nat
      BY <2>2, PeriodFacts DEF PeerRecord
  <2> QED
      BY <2>1, <2>3 DEF Timed
<1>3. \A e \in Ends : (Own(e) /\ Live(e) => Timed(peer[e], link, silence))'
    BY <1>1, <1>2 DEF LinkCut, Own, Live, Timed, Period
<1>4. \A e \in Ends : wire'[e] = <<>>
    BY DEF LinkCut
<1> QED
    BY <1>1, <1>3, <1>4 DEF LossInv

LEMMA LossReceive ==
    ASSUME TypeOK, TypeOK', LossInv, PeerTimeout > 0, HandShakeTimeout > 0,
           NEW e \in Ends, Receive(e)
    PROVE  LossInv'
<1>1. /\ wire[e] # <<>>
      /\ link' = link /\ foreign' = foreign /\ silence' = silence
    BY DEF Receive
<1>2. link # "cut"
    BY <1>1 DEF LossInv
<1>3. silence = 0
    BY <1>2 DEF LossInv, TypeOK
<1>4. \/ \E k \in Errors : FailAbort(e, k)
      \/ peer' = [peer EXCEPT ![e] = Touched(e)]
      \/ peer' = [peer EXCEPT ![e] = [Touched(e) EXCEPT !.authenticated = TRUE]]
    BY DEF Receive, ReceiveHandShake, ReceiveResponse, ReceiveAuthentication, ReceiveKeepAlive,
           ReceiveRequest, ReceiveDenied, ReceiveRefusal, ReceiveOther, Ignore, FailContinue, Errors
<1>5. Live(e)
    BY DEF Receive
<1>6. \A x \in Ends : Keeps(x)
  <2>1. CASE \E k \in Errors : FailAbort(e, k)
      BY <2>1, AbortKeeps DEF FailAbort
  <2>2. CASE \/ peer' = [peer EXCEPT ![e] = Touched(e)]
             \/ peer' = [peer EXCEPT ![e] = [Touched(e) EXCEPT !.authenticated = TRUE]]
    <3>1. ASSUME NEW x \in Ends, x # e PROVE Keeps(x)
      <4>1. peer'[x] = peer[x]
          BY <2>2, <3>1 DEF TypeOK
      <4> QED
          BY <1>2, <4>1 DEF Keeps
    <3>2. Keeps(e)
      <4> DEFINE T == Touched(e)
                 A == [T EXCEPT !.authenticated = TRUE]
      <4>1. /\ T.timeoutTimer = peer[e].timeoutTimer /\ A.timeoutTimer = T.timeoutTimer
            /\ T.sent = peer[e].sent /\ A.sent = T.sent
            /\ T.sock = peer[e].sock
        <5>1. peer[e] \in PeerRecord
            BY DEF TypeOK
        <5> QED
            BY <5>1 DEF Touched, PeerRecord
      <4>2. peer'[e] \in {T, A}
          BY <2>2 DEF TypeOK
      <4> HIDE DEF T, A
      <4> QED
          BY <1>2, <1>5, <4>1, <4>2 DEF Keeps, Live
    <3> QED
        BY <3>1, <3>2
  <2> QED
      BY <1>4, <2>1, <2>2
<1>7. \A x \in Ends : (Own(x) /\ Live(x) => Timed(peer[x], link, silence))'
    BY <1>1, <1>6, KeepsTimed
<1> QED
    BY <1>1, <1>2, <1>3, <1>7 DEF LossInv

LEMMA LossMain ==
    ASSUME TypeOK, TypeOK', LossInv, PeerTimeout > 0, HandShakeTimeout > 0, MainThread
    PROVE  LossInv'
<1>1. /\ link' = link /\ foreign' = foreign /\ silence' = silence
      /\ jobs # <<>>
    BY DEF MainThread
<1>2. silence = 0
    BY <1>1 DEF LossInv, TypeOK
<1>3. CASE /\ peer' = [peer EXCEPT !["server"] = HandShaken(@)]
           /\ wire' = Write("server", <<"handShake">>)
  <2>1. link = "cut" => \A e \in Ends : wire'[e] = <<>>
      BY <1>3, WriteKeeps, EndsFacts
  <2>2. \A e \in Ends : Own(e)' /\ Live(e)' => Timed(peer'[e], link', silence')
    <3>1. ASSUME Live("server")' PROVE Timed(peer'["server"], link', silence')
      <4>1. /\ peer'["server"].timeoutTimer = PeerTimeout + 1
            /\ Period(peer'["server"]) = PeerTimeout
          BY <1>3, EndsFacts DEF HandShaken, StartTimer, TypeOK, PeerRecord, Period
      <4> QED
          BY <1>1, <1>2, <4>1 DEF Timed
    <3>2. peer'["client"] = peer["client"]
        BY <1>3, EndsFacts DEF TypeOK
    <3> QED
        BY <1>1, <3>1, <3>2, EndsFacts DEF LossInv, Own, Live
  <2>3. \A e \in Ends : Timed(peer'[e], link', silence') => Timed(peer[e], link, silence)'
      BY DEF Timed, Period
  <2> QED
      BY <1>1, <1>2, <2>1, <2>2, <2>3 DEF LossInv
<1>4. CASE \/ DisconnectFromHost("server")
           \/ UNCHANGED <<peer, clientVars, wire>>
           \/ Answer(Head(jobs))
  <2>1. \A e \in Ends : Keeps(e)
    <3>1. peer' = peer => \A e \in Ends : Keeps(e)
        BY DEF Keeps
    <3> QED
        BY <1>4, <3>1, LeaveKeeps, EndsFacts DEF Answer
  <2>2. link = "cut" => \A e \in Ends : wire'[e] = <<>>
      BY <1>4, LeaveKeeps, WriteKeeps, EndsFacts DEF Answer, LossInv
  <2> QED
      BY <1>1, <2>1, <2>2, LossKept
<1> QED
    BY <1>3, <1>4 DEF MainThread, AcceptOrRefuse

LEMMA LossSends ==
    ASSUME TypeOK, TypeOK', LossInv, PeerTimeout > 0, HandShakeTimeout > 0
    PROVE  /\ AskSeedUrl => LossInv'
           /\ SendNodes => LossInv'
           /\ RetryFires => LossInv'
           /\ PendingFires => LossInv'
           /\ \A e \in Ends : ForeignSends(e) => LossInv'
           /\ \A e \in Ends : KeepAliveFires(e) => LossInv'
<1> USE EndsFacts
<1>1. peer' = peer => \A e \in Ends : Keeps(e)
    BY DEF Keeps
<1>2. AskSeedUrl => LossInv'
    BY <1>1, WriteKeeps, LossKept DEF AskSeedUrl, SendSeedUrlRequest
<1>3. SendNodes => LossInv'
    BY <1>1, WriteKeeps, LossKept DEF SendNodes
<1>4. RetryFires => LossInv'
    BY <1>1, WriteKeeps, LossKept DEF RetryFires, SendSeedUrlRequest
<1>5. PendingFires => LossInv'
    BY AbortKeeps, LossKept DEF PendingFires
<1>6. ASSUME NEW e \in Ends, ForeignSends(e) PROVE LossInv'
  <2>1. PICK p \in Packets : wire' = Write(e, <<p>>)
      BY <1>6 DEF ForeignSends
  <2> QED
      BY <1>1, <1>6, <2>1, WriteKeeps, LossKept DEF ForeignSends
<1>7. ASSUME NEW e \in Ends, KeepAliveFires(e) PROVE LossInv'
  <2>1. ASSUME NEW x \in Ends PROVE Keeps(x)
    <3>1. peer[x] \in PeerRecord
        BY DEF TypeOK
    <3>2. \/ peer'[x] = peer[x]
          \/ peer'[x] = [peer[x] EXCEPT !.keepAliveTimer = StartTimer(KeepAliveInterval)]
        BY <1>7 DEF KeepAliveFires, TypeOK
    <3> QED
        BY <3>1, <3>2 DEF Keeps, PeerRecord
  <2> QED
      BY <1>7, <2>1, WriteKeeps, LossKept DEF KeepAliveFires
<1> QED
    BY <1>2, <1>3, <1>4, <1>5, <1>6, <1>7

LEMMA LossTimeout ==
    ASSUME TypeOK, TypeOK', LossInv, PeerTimeout > 0, HandShakeTimeout > 0,
           NEW e \in Ends, TimeoutFires(e)
    PROVE  LossInv'
<1>1. /\ UNCHANGED <<jobs, link, foreign, silence>>
      /\ peer[e].timeoutTimer = 1
    BY DEF TimeoutFires
<1>2. CASE Abort(e)
    BY <1>1, <1>2, AbortKeeps, LossKept
<1>3. CASE ~Abort(e)
  <2>1. /\ peer' = [peer EXCEPT ![e].invalidate = FALSE,
                                ![e].timeoutTimer = StartTimer(Period(peer[e]))]
        /\ wire' = wire
        /\ Live(e) => peer[e].invalidate
      BY <1>3 DEF TimeoutFires, Live
  <2>2. ASSUME Own(e), Live(e) PROVE Timed(peer'[e], link, silence)
    <3>1. Timed(peer[e], link, silence) /\ peer[e].invalidate
        BY <2>1, <2>2 DEF LossInv
    <3>2. peer[e] \in PeerRecord /\ peer[e].sock = "connected" /\ peer'[e] \in PeerRecord
        BY <2>2 DEF TypeOK, Live
    <3>3. /\ peer'[e].timeoutTimer = StartTimer(Period(peer[e]))
          /\ peer'[e].invalidate = FALSE
          /\ peer'[e].sock = peer[e].sock /\ peer'[e].sent = peer[e].sent
        BY <2>1, <3>2 DEF TypeOK, PeerRecord
    <3>4. Period(peer'[e]) = Period(peer[e]) /\ Period(peer[e]) \in Nat /\ Period(peer[e]) > 0
        BY <3>2, <3>3, PeriodFacts
    <3>5. peer'[e].timeoutTimer = Period(peer[e]) + 1
        BY <3>3, <3>4 DEF StartTimer
    <3>6. link = "cut" => silence + 1 <= Period(peer[e]) + 1
        BY <1>1, <3>1 DEF Timed
    <3>7. silence \in Nat
        BY DEF TypeOK
    <3> QED
        BY <3>3, <3>4, <3>5, <3>6, <3>7 DEF Timed
  <2>3. \A x \in Ends : x # e => peer'[x] = peer[x]
      BY <2>1 DEF TypeOK
  <2>4. peer'[e].sock = peer[e].sock
      BY <2>1 DEF TypeOK, PeerRecord
  <2>5. ASSUME NEW x \in Ends, Own(x)', Live(x)' PROVE Timed(peer'[x], link, silence)
      BY <1>1, <2>2, <2>3, <2>4, <2>5 DEF LossInv, Own, Live
  <2>6. \A x \in Ends : Timed(peer'[x], link, silence) => Timed(peer[x], link, silence)'
      BY <1>1 DEF Timed, Period
  <2> QED
      BY <1>1, <2>1, <2>5, <2>6 DEF LossInv
<1> QED
    BY <1>2, <1>3

LEMMA LossTick ==
    ASSUME TypeOK, TypeOK', LossInv, Tick
    PROVE  LossInv'
<1>1. /\ UNCHANGED <<jobs, wire, link, foreign>> /\ jobs = <<>>
      /\ silence' \in Nat /\ silence \in Nat
      /\ silence' <= silence + 1
      /\ link # "cut" => silence' = silence
  <2>1. silence \in Nat
      BY DEF TypeOK
  <2>2. silence' = silence \/ (link = "cut" /\ silence' = silence + 1)
      BY DEF Tick
  <2>3. UNCHANGED <<jobs, wire, link, foreign>> /\ jobs = <<>>
      BY DEF Tick
  <2> QED
      BY <2>1, <2>2, <2>3
<1>2. ASSUME NEW e \in Ends, Own(e)', Live(e)' PROVE Timed(peer'[e], link, silence')
  <2>1. /\ peer[e] \in PeerRecord
        /\ peer'[e] = [peer[e] EXCEPT !.timeoutTimer = Less(@), !.keepAliveTimer = Less(@)]
        /\ peer[e].timeoutTimer # 1
      BY DEF Tick, TypeOK, NoTimerDue
  <2>2. /\ peer'[e].sock = peer[e].sock /\ peer'[e].sent = peer[e].sent
        /\ peer'[e].invalidate = peer[e].invalidate
        /\ peer'[e].timeoutTimer = Less(peer[e].timeoutTimer)
      BY <2>1 DEF PeerRecord
  <2>3. Timed(peer[e], link, silence)
      BY <1>1, <1>2, <2>2 DEF LossInv, Own, Live
  <2>4. Period(peer'[e]) = Period(peer[e]) /\ Period(peer[e]) \in Nat
      BY <2>2 DEF Period
  <2>5. peer[e].timeoutTimer \in 2 .. Period(peer[e]) + 1
      BY <2>1, <2>3, <2>4 DEF Timed
  <2>6. peer'[e].timeoutTimer = peer[e].timeoutTimer - 1
      BY <2>2, <2>4, <2>5 DEF Less
  <2>7. /\ link = "cut" /\ peer[e].invalidate
             => silence + peer[e].timeoutTimer <= Period(peer[e]) + 1
        /\ link = "cut" => silence + peer[e].timeoutTimer <= 2 * Period(peer[e]) + 1
      BY <2>3 DEF Timed
  <2>8. /\ link = "cut" /\ peer'[e].invalidate
             => silence' + peer'[e].timeoutTimer <= Period(peer[e]) + 1
        /\ link = "cut" => silence' + peer'[e].timeoutTimer <= 2 * Period(peer[e]) + 1
        /\ peer'[e].timeoutTimer \in 1 .. Period(peer[e]) + 1
      BY <1>1, <2>2, <2>4, <2>5, <2>6, <2>7
  <2> QED
      BY <2>4, <2>8 DEF Timed
<1>3. \A e \in Ends : Timed(peer'[e], link, silence') => Timed(peer[e], link, silence)'
    BY <1>1 DEF Timed, Period
<1>4. silence' > 0 => link = "cut"
    BY <1>1 DEF LossInv
<1> QED
    BY <1>1, <1>2, <1>3, <1>4 DEF LossInv

LEMMA LossInit == Init => LossInv
BY DEF Init, LossInv, Live, Clean

LEMMA LossNext ==
    ASSUME TypeOK, LossInv, [Next]_vars, PeerTimeout > 0, HandShakeTimeout > 0
    PROVE  LossInv'
<1>1. TypeOK'
    BY TypeNext
<1>2. CASE UNCHANGED vars
    BY <1>2 DEF vars, clientVars, LossInv, Own, Live, Timed, Period
<1>3. CASE Next
    BY <1>1, <1>3, LossConnections, LossEstablish, LossCut, LossReceive, LossMain, LossSends,
       LossTimeout, LossTick DEF Next, Fires
<1> QED
    BY <1>2, <1>3

LEMMA LossBound == TypeOK /\ LossInv => LossNoticedInTime
<1> SUFFICES ASSUME TypeOK, LossInv, NEW e \in Ends, Own(e), Live(e), link = "cut"
             PROVE  silence <= 2 * Period(peer[e])
    BY DEF LossNoticedInTime
<1>1. Period(peer[e]) \in Nat /\ silence \in Nat
    BY DEF Period, TypeOK
<1>2. /\ peer[e].timeoutTimer \in 1 .. Period(peer[e]) + 1
      /\ silence + peer[e].timeoutTimer <= 2 * Period(peer[e]) + 1
    BY DEF LossInv, Timed
<1> QED
    BY <1>1, <1>2

\* A peer whose network is gone gives up within twice its timeout, whatever the
\* timeouts are as long as the handshake and the peer timeout are set.
THEOREM LossNoticedSoon ==
    ASSUME PeerTimeout > 0, HandShakeTimeout > 0
    PROVE  Spec => []LossNoticedInTime
<1>1. Init => TypeOK /\ LossInv
    BY TypeInit, LossInit
<1>2. TypeOK /\ LossInv /\ [Next]_vars => (TypeOK /\ LossInv)'
    BY TypeNext, LossNext
<1> QED
    BY <1>1, <1>2, LossBound, PTL DEF Spec

-----------------------------------------------------------------------------
(* Counting packets in a stream. *)

One(x, ps) == IF x \in ps THEN 1 ELSE 0

Places(s, ps) == {i \in DOMAIN s : s[i] \in ps}

LEMMA CountFinite ==
    ASSUME NEW S, NEW s \in Seq(S), NEW ps
    PROVE  /\ IsFiniteSet(Places(s, ps))
           /\ Places(s, ps) \subseteq 1 .. Len(s)
           /\ Count(s, ps) = Cardinality(Places(s, ps))
           /\ Count(s, ps) \in Nat
<1>1. DOMAIN s = 1 .. Len(s) /\ Len(s) \in Nat
    BY LenProperties
<1>2. Places(s, ps) \subseteq 1 .. Len(s)
    BY <1>1 DEF Places
<1>3. IsFiniteSet(1 .. Len(s))
    BY <1>1, FS_Interval
<1>4. IsFiniteSet(Places(s, ps))
    BY <1>2, <1>3, FS_Subset
<1>5. Count(s, ps) = Cardinality(Places(s, ps))
    BY DEF Count, Places
<1> QED
    BY <1>2, <1>4, <1>5, FS_CardinalityType

LEMMA CountEmpty == \A ps : Count(<<>>, ps) = 0
<1>1. <<>> \in Seq({}) /\ Len(<<>>) = 0
    BY EmptySeq
<1>2. ASSUME NEW ps PROVE Count(<<>>, ps) = 0
  <2>1. Places(<<>>, ps) \subseteq 1 .. 0 /\ Count(<<>>, ps) = Cardinality(Places(<<>>, ps))
      BY <1>1, CountFinite
  <2>2. Places(<<>>, ps) = {}
      BY <2>1
  <2> QED
      BY <2>1, <2>2, FS_EmptySet
<1> QED
    BY <1>2

LEMMA CountAppend ==
    ASSUME NEW S, NEW s \in Seq(S), NEW x \in S, NEW ps
    PROVE  Count(s \o <<x>>, ps) = Count(s, ps) + One(x, ps)
<1> DEFINE t == s \o <<x>>
           n == Len(s)
<1>1. n \in Nat /\ DOMAIN s = 1 .. n
    BY LenProperties
<1>2. t \in Seq(S) /\ Len(t) = n + 1 /\ DOMAIN t = 1 .. n + 1
  <2>1. <<x>> \in Seq(S) /\ Len(<<x>>) = 1
      OBVIOUS
  <2>2. t \in Seq(S) /\ Len(t) = n + 1
      BY <2>1, ConcatProperties
  <2> QED
      BY <2>2, LenProperties
<1>3. t[n + 1] = x /\ \A i \in 1 .. n : t[i] = s[i]
    BY <1>1
<1> HIDE DEF t, n
<1>4. ~(n + 1 \in Places(s, ps)) /\ IsFiniteSet(Places(s, ps))
  <2>1. ~(n + 1 \in Places(s, ps))
      BY <1>1 DEF Places
  <2> QED
      BY <2>1, CountFinite
<1>5. CASE x \in ps
  <2>1. Places(t, ps) = Places(s, ps) \cup {n + 1}
      BY <1>1, <1>2, <1>3, <1>5 DEF Places
  <2>2. Cardinality(Places(t, ps)) = Cardinality(Places(s, ps)) + 1
      BY <1>4, <2>1, FS_AddElement
  <2> QED
      BY <1>2, <1>5, <2>2, CountFinite DEF One, t
<1>6. CASE ~(x \in ps)
  <2>1. Places(t, ps) = Places(s, ps)
      BY <1>1, <1>2, <1>3, <1>6 DEF Places
  <2>2. Count(t, ps) = Count(s, ps)
      BY <1>2, <2>1, CountFinite
  <2> QED
      BY <1>6, <2>2, CountFinite DEF One, t
<1> QED
    BY <1>5, <1>6

LEMMA CountTail ==
    ASSUME NEW S, NEW s \in Seq(S), s # <<>>, NEW ps
    PROVE  Count(s, ps) = Count(Tail(s), ps) + One(Head(s), ps)
<1> DEFINE t == Tail(s)
           n == Len(s)
<1>1. n \in Nat \ {0} /\ DOMAIN s = 1 .. n
    BY LenProperties, EmptySeq
<1>2. t \in Seq(S) /\ Len(t) = n - 1 /\ \A i \in 1 .. n - 1 : t[i] = s[i + 1]
    BY HeadTailProperties
<1>3. DOMAIN t = 1 .. n - 1
    BY <1>2, LenProperties
<1>4. Head(s) = s[1]
    OBVIOUS
<1> HIDE DEF t, n
<1> DEFINE P == Places(s, ps) \ {1}
           f == [i \in Places(t, ps) |-> i + 1]
<1>5. IsFiniteSet(Places(s, ps)) /\ IsFiniteSet(Places(t, ps))
    BY <1>2, CountFinite
<1>6. f \in Bijection(Places(t, ps), P)
  <2>1. \A i \in Places(t, ps) : i \in 1 .. n - 1 /\ f[i] = i + 1 /\ f[i] \in P
      BY <1>1, <1>2, <1>3 DEF Places
  <2>2. \A j \in P : j - 1 \in Places(t, ps) /\ f[j - 1] = j
      BY <1>1, <1>2, <1>3 DEF Places
  <2>3. f \in [Places(t, ps) -> P]
      BY <2>1
  <2>4. \A i, j \in Places(t, ps) : f[i] = f[j] => i = j
      BY <1>1, <2>1
  <2> HIDE DEF f, P
  <2> QED
      BY <2>2, <2>3, <2>4, Fun_IsBij
<1>7. Cardinality(P) = Cardinality(Places(t, ps))
  <2>1. ExistsBijection(Places(t, ps), P)
      BY <1>6 DEF ExistsBijection
  <2> HIDE DEF P
  <2> QED
      BY <1>5, <2>1, FS_Bijection
<1>8. Cardinality(P) = Cardinality(Places(s, ps)) - One(Head(s), ps)
  <2>1. 1 \in Places(s, ps) <=> Head(s) \in ps
      BY <1>1, <1>4 DEF Places
  <2>2. Cardinality(Places(s, ps)) \in Nat
      BY <1>5, FS_CardinalityType
  <2>3. Cardinality(P) = IF 1 \in Places(s, ps) THEN Cardinality(Places(s, ps)) - 1
                         ELSE Cardinality(Places(s, ps))
      BY <1>5, FS_RemoveElement
  <2> QED
      BY <2>1, <2>2, <2>3 DEF One
<1>9. /\ Count(s, ps) = Cardinality(Places(s, ps)) /\ Count(s, ps) \in Nat
      /\ Count(t, ps) = Cardinality(Places(t, ps)) /\ Count(t, ps) \in Nat
    BY <1>2, CountFinite
<1> QED
    BY <1>7, <1>8, <1>9 DEF One, t

LEMMA CountPrefix ==
    ASSUME NEW S, NEW s \in Seq(S), NEW n \in 0 .. Len(s), NEW ps
    PROVE  /\ SubSeq(s, 1, n) \in Seq(S)
           /\ Count(SubSeq(s, 1, n), ps) <= Count(s, ps)
<1> DEFINE t == SubSeq(s, 1, n)
<1>1. Len(s) \in Nat /\ DOMAIN s = 1 .. Len(s) /\ \A i \in 1 .. n : s[i] \in S
    BY LenProperties, ElementOfSeq
<1>2. t \in Seq(S) /\ Len(t) = n /\ \A i \in 1 .. n : t[i] = s[i]
    BY <1>1, SubSeqProperties
<1>3. DOMAIN t = 1 .. n
    BY <1>2, LenProperties
<1> HIDE DEF t
<1>4. Places(t, ps) \subseteq Places(s, ps)
    BY <1>1, <1>2, <1>3 DEF Places
<1>5. Cardinality(Places(t, ps)) <= Cardinality(Places(s, ps))
    BY <1>4, CountFinite, FS_Subset
<1> QED
    BY <1>2, <1>5, CountFinite DEF t

-----------------------------------------------------------------------------
(* The requests under way.  A step of a connected client adds no more of a  *)
(* type than it adds entries to the pending requests.                       *)

Out(w, j, r) == Count(w["server"], {r}) + Count(j, {r}) + Count(w["client"], AnswersTo(r))

CoverInv ==
    /\ peer["server"].sock = "absent" => jobs = <<>>
    /\ foreign = "none" /\ Live("client") => \A r \in Requests : Out(wire, jobs, r) <= pending[r]

\* The three streams of requests and answers shrink.
Shrinks ==
    \A r \in Requests :
        /\ Count(wire'["server"], {r}) <= Count(wire["server"], {r})
        /\ Count(jobs', {r}) <= Count(jobs, {r})
        /\ Count(wire'["client"], AnswersTo(r)) <= Count(wire["client"], AnswersTo(r))

LEMMA CountTypes ==
    ASSUME TypeOK
    PROVE  \A ps : /\ \A e \in Ends : Count(wire[e], ps) \in Nat
                   /\ Count(jobs, ps) \in Nat
BY CountFinite DEF TypeOK, Bytes, Jobs

LEMMA OutNat == TypeOK => \A r : Out(wire, jobs, r) \in Nat
BY CountTypes, EndsFacts DEF Out

\* A step of a client that was connected before.
LEMMA CoverStep ==
    ASSUME TypeOK, TypeOK', CoverInv, UNCHANGED foreign,
           Live("client")' => Live("client"),
           peer'["server"].sock = "absent" => jobs' = <<>>,
           \A r \in Requests : Out(wire', jobs', r) + pending[r] <= Out(wire, jobs, r) + pending'[r]
    PROVE  CoverInv'
<1>1. ASSUME foreign' = "none", Live("client")', NEW r \in Requests
      PROVE  Out(wire', jobs', r) <= pending'[r]
  <2>1. Out(wire, jobs, r) <= pending[r]
      BY <1>1 DEF CoverInv
  <2>2. pending[r] \in Nat /\ pending'[r] \in Nat
      BY DEF TypeOK, RequestCounts
  <2>3. Out(wire, jobs, r) \in Nat /\ Out(wire', jobs', r) \in Nat
    <3>1. Out(wire, jobs, r) \in Nat
        BY OutNat
    <3>2. Count(wire'["server"], {r}) \in Nat /\ Count(jobs', {r}) \in Nat
          /\ Count(wire'["client"], AnswersTo(r)) \in Nat
        BY CountFinite, EndsFacts DEF TypeOK, Bytes, Jobs
    <3> QED
        BY <3>1, <3>2 DEF Out
  <2> QED
      BY <2>1, <2>2, <2>3
<1>2. \A r : Out(wire, jobs, r)' = Out(wire', jobs', r)
    BY DEF Out, Count, AnswersTo
<1> QED
    BY <1>1, <1>2 DEF CoverInv

LEMMA CoverShrinks ==
    ASSUME TypeOK, TypeOK', CoverInv, UNCHANGED <<foreign, pending>>,
           Live("client")' => Live("client"),
           peer'["server"].sock = "absent" => jobs' = <<>>,
           Shrinks
    PROVE  CoverInv'
<1>1. ASSUME NEW r \in Requests
      PROVE  Out(wire', jobs', r) + pending[r] <= Out(wire, jobs, r) + pending'[r]
  <2>1. /\ Count(wire["server"], {r}) \in Nat /\ Count(jobs, {r}) \in Nat
        /\ Count(wire["client"], AnswersTo(r)) \in Nat
        /\ Count(wire'["server"], {r}) \in Nat /\ Count(jobs', {r}) \in Nat
        /\ Count(wire'["client"], AnswersTo(r)) \in Nat
      BY CountFinite, EndsFacts DEF TypeOK, Bytes, Jobs
  <2>2. pending[r] \in Nat /\ pending'[r] = pending[r]
      BY DEF TypeOK, RequestCounts
  <2>3. /\ Count(wire'["server"], {r}) <= Count(wire["server"], {r})
        /\ Count(jobs', {r}) <= Count(jobs, {r})
        /\ Count(wire'["client"], AnswersTo(r)) <= Count(wire["client"], AnswersTo(r))
      BY <1>1 DEF Shrinks
  <2> QED
      BY <2>1, <2>2, <2>3 DEF Out
<1> QED
    BY <1>1, CoverStep

\* One packet written, one read.
LEMMA WriteCount ==
    ASSUME TypeOK, NEW e \in Ends, NEW p \in Bytes
    PROVE  /\ Write(e, <<p>>)[e] = wire[e]
           /\ \A ps : Count(Write(e, <<p>>)[Other(e)], ps) <= Count(wire[Other(e)], ps) + One(p, ps)
           /\ \A ps : Count(Write(e, <<p>>)[Other(e)], ps) \in Nat
<1>1. wire \in [Ends -> Seq(Bytes)] /\ <<p>> \in Seq(Bytes)
    BY PacketKinds DEF TypeOK, Bytes
<1>2. Write(e, <<p>>) \in [Ends -> Seq(Bytes)]
    BY <1>1, WriteType
<1>3. Write(e, <<p>>)[e] = wire[e]
    BY <1>1, EndsFacts DEF Write
<1>4. ASSUME NEW ps
      PROVE  Count(Write(e, <<p>>)[Other(e)], ps) <= Count(wire[Other(e)], ps) + One(p, ps)
  <2>1. \/ Write(e, <<p>>)[Other(e)] = wire[Other(e)]
        \/ Write(e, <<p>>)[Other(e)] = wire[Other(e)] \o <<p>>
    <3>1. \/ Write(e, <<p>>) = wire
          \/ Write(e, <<p>>) = [wire EXCEPT ![Other(e)] = @ \o <<p>>]
        BY DEF Write
    <3> QED
        BY <1>1, <3>1, EndsFacts
  <2>2. Count(wire[Other(e)] \o <<p>>, ps) = Count(wire[Other(e)], ps) + One(p, ps)
      BY <1>1, EndsFacts, CountAppend
  <2>3. Count(wire[Other(e)], ps) \in Nat /\ One(p, ps) \in Nat
      BY CountTypes, EndsFacts DEF One
  <2>4. CASE Write(e, <<p>>)[Other(e)] = wire[Other(e)]
    <3>1. Count(Write(e, <<p>>)[Other(e)], ps) = Count(wire[Other(e)], ps)
        BY <2>4
    <3> QED
        BY <2>3, <3>1
  <2>5. CASE Write(e, <<p>>)[Other(e)] = wire[Other(e)] \o <<p>>
    <3>1. Count(Write(e, <<p>>)[Other(e)], ps) = Count(wire[Other(e)], ps) + One(p, ps)
        BY <2>2, <2>5
    <3> QED
        BY <2>3, <3>1
  <2> QED
      BY <2>1, <2>4, <2>5
<1>5. Write(e, <<p>>)[Other(e)] \in Seq(Bytes)
    BY <1>2, EndsFacts
<1>6. \A ps : Count(Write(e, <<p>>)[Other(e)], ps) \in Nat
    BY <1>5, CountFinite
<1> QED
    BY <1>3, <1>4, <1>6

LEMMA ReadCount ==
    ASSUME TypeOK, NEW e \in Ends, wire[e] # <<>>
    PROVE  /\ Read(e)[Other(e)] = wire[Other(e)]
           /\ Read(e)[e] = Tail(wire[e])
           /\ \A ps : Count(Tail(wire[e]), ps) + One(Head(wire[e]), ps) = Count(wire[e], ps)
           /\ \A ps : Count(Tail(wire[e]), ps) \in Nat /\ One(Head(wire[e]), ps) \in Nat
<1>1. wire \in [Ends -> Seq(Bytes)]
    BY DEF TypeOK, Bytes
<1>2. wire[e] \in Seq(Bytes) /\ Tail(wire[e]) \in Seq(Bytes)
    BY <1>1, HeadTailProperties
<1>3. \A ps : Count(Tail(wire[e]), ps) + One(Head(wire[e]), ps) = Count(wire[e], ps)
    BY <1>2, CountTail
<1>4. \A ps : Count(Tail(wire[e]), ps) \in Nat /\ One(Head(wire[e]), ps) \in Nat
    BY <1>2, CountFinite DEF One
<1> QED
    BY <1>1, <1>3, <1>4, EndsFacts DEF Read

LEMMA AnswersFacts ==
    /\ \A r \in Requests : \A p \in {"fin", "handShake", "authentication", "keepAlive",
                                      "keepAliveAck", "nodes"} \cup Requests :
          ~(p \in AnswersTo(r))
    /\ \A r \in Requests, p \in Answers \cup Denials : p \in AnswersTo(r) <=> r = RequestOf(p)
    /\ \A r \in Requests : \A p \in Answers \cup Denials : p # r
BY DEF AnswersTo, Answers, Denials, Requests, RequestOf

\* The steps that end or open a connection.
LEMMA AbortShrinks ==
    ASSUME TypeOK, TypeOK', NEW e \in Ends, Abort(e), UNCHANGED jobs
    PROVE  Shrinks
<1> USE EndsFacts
<1>1. PICK n \in 0 .. Len(wire[Other(e)]) :
          wire' = [x \in Ends |->
                     IF x = Other(e) /\ Reachable(Other(e))
                     THEN SubSeq(wire[Other(e)], 1, n) \o <<"fin">> ELSE <<>>]
    BY DEF Abort
<1>2. ASSUME NEW x \in Ends, NEW ps, ~("fin" \in ps)
      PROVE  Count(wire'[x], ps) <= Count(wire[x], ps)
  <2>1. wire[x] \in Seq(Bytes) /\ wire[Other(e)] \in Seq(Bytes)
      BY DEF TypeOK, Bytes
  <2>2. CASE wire'[x] = <<>>
      BY <2>1, <2>2, CountEmpty, CountFinite
  <2>3. CASE x = Other(e) /\ wire'[x] = SubSeq(wire[Other(e)], 1, n) \o <<"fin">>
    <3>1. /\ SubSeq(wire[x], 1, n) \in Seq(Bytes)
          /\ Count(SubSeq(wire[x], 1, n), ps) <= Count(wire[x], ps)
        BY <1>1, <2>1, <2>3, CountPrefix
    <3>2. Count(SubSeq(wire[x], 1, n) \o <<"fin">>, ps)
              = Count(SubSeq(wire[x], 1, n), ps) + One("fin", ps)
        BY <3>1, CountAppend, PacketKinds
    <3>4. wire'[x] = SubSeq(wire[x], 1, n) \o <<"fin">>
        BY <2>3
    <3>3. One("fin", ps) = 0 /\ Count(SubSeq(wire[x], 1, n), ps) \in Nat
        BY <1>2, <3>1, CountFinite DEF One
    <3> QED
        BY <3>1, <3>2, <3>3, <3>4
  <2> QED
      BY <1>1, <2>2, <2>3
<1>3. \A r \in Requests : ~("fin" \in {r}) /\ ~("fin" \in AnswersTo(r))
    BY AnswersFacts DEF Requests
<1>4. \A ps : Count(jobs, ps) \in Nat /\ Count(jobs', ps) = Count(jobs, ps)
    BY CountTypes DEF Count
<1> QED
    BY <1>2, <1>3, <1>4 DEF Shrinks

LEMMA LeaveShrinks ==
    ASSUME TypeOK, NEW e \in Ends, DisconnectFromHost(e), UNCHANGED jobs
    PROVE  Shrinks
<1>1. wire' = [wire EXCEPT ![e] = <<>>]
    BY DEF DisconnectFromHost
<1>2. ASSUME NEW x \in Ends, NEW ps PROVE Count(wire'[x], ps) <= Count(wire[x], ps)
  <2>1. Count(wire[x], ps) \in Nat
      BY CountTypes
  <2>2. wire'[x] = wire[x] \/ wire'[x] = <<>>
      BY <1>1 DEF TypeOK
  <2>3. CASE wire'[x] = wire[x]
      BY <2>1, <2>3
  <2>4. CASE wire'[x] = <<>>
      BY <2>1, <2>4, CountEmpty
  <2> QED
      BY <2>2, <2>3, <2>4
<1>3. \A ps : Count(jobs, ps) \in Nat /\ Count(jobs', ps) = Count(jobs, ps)
    BY CountTypes DEF Count
<1> QED
    BY <1>2, <1>3, EndsFacts DEF Shrinks

LEMMA SameShrinks ==
    ASSUME TypeOK, UNCHANGED <<wire, jobs>>
    PROVE  Shrinks
<1>1. \A ps : /\ Count(jobs, ps) \in Nat /\ Count(jobs', ps) = Count(jobs, ps)
              /\ \A e \in Ends : Count(wire[e], ps) \in Nat
                                 /\ Count(wire'[e], ps) = Count(wire[e], ps)
    BY CountTypes DEF Count
<1> QED
    BY <1>1, EndsFacts DEF Shrinks

LEMMA CoverConnections ==
    ASSUME TypeOK, TypeOK', CoverInv
    PROVE  /\ ConnectToHost => CoverInv'
           /\ ConnectionFails => CoverInv'
           /\ ServerThreadEnds => CoverInv'
           /\ LinkCut => CoverInv'
           /\ PendingFires => CoverInv'
           /\ \A e \in Ends : /\ Disconnect(e) => CoverInv'
                              /\ CloseEnds(e) => CoverInv'
                              /\ RemoteClosed(e) => CoverInv'
                              /\ SocketError(e) => CoverInv'
                              /\ TimeoutFires(e) => CoverInv'
<1> USE EndsFacts
<1>1. ASSUME NEW e \in Ends, Abort(e), UNCHANGED <<jobs, foreign>>,
             peer[e].sock # "absent"
      PROVE  CoverInv'
  <2>1. /\ Live("client")' => Live("client")
        /\ peer'["server"].sock = "absent" => peer["server"].sock = "absent"
        /\ pending' = pending
      BY <1>1 DEF Abort, Clean, Live, TypeOK
  <2> QED
      BY <1>1, <2>1, AbortShrinks, CoverShrinks DEF CoverInv
<1>2. ASSUME ConnectToHost PROVE CoverInv'
  <2>1. /\ ~Live("client")' /\ UNCHANGED <<jobs, foreign>>
        /\ peer'["server"] = peer["server"]
      BY <1>2 DEF ConnectToHost, Live, Connecting, Clean, TypeOK
  <2> QED
      BY <2>1 DEF CoverInv
<1>3. ASSUME ServerThreadEnds PROVE CoverInv'
  <2>1. /\ peer'["client"] = peer["client"] /\ UNCHANGED <<wire, jobs, foreign, pending>>
        /\ jobs = <<>>
      BY <1>3 DEF ServerThreadEnds, clientVars, TypeOK
  <2> QED
      BY <2>1, SameShrinks, CoverShrinks DEF Live
<1>4. ASSUME LinkCut PROVE CoverInv'
  <2>1. UNCHANGED <<peer, jobs, foreign, pending>> /\ \A e \in Ends : wire'[e] = <<>>
      BY <1>4 DEF LinkCut, clientVars
  <2>2. \A ps : /\ Count(jobs, ps) \in Nat /\ Count(jobs', ps) = Count(jobs, ps)
                /\ \A e \in Ends : Count(wire[e], ps) \in Nat /\ Count(wire'[e], ps) = 0
      BY <2>1, CountTypes, CountEmpty DEF Count
  <2>3. Shrinks
      BY <2>2 DEF Shrinks
  <2> QED
      BY <2>1, <2>3, CoverShrinks DEF Live, CoverInv
<1>5. ASSUME ConnectionFails PROVE CoverInv'
    BY <1>1, <1>5 DEF ConnectionFails
<1>6. ASSUME PendingFires PROVE CoverInv'
  <2>1. /\ Live("client")' => Live("client")
        /\ peer'["server"] = peer["server"]
        /\ UNCHANGED <<pending, jobs, foreign>> /\ Abort("client")
      BY <1>6 DEF PendingFires, Abort, Clean, Live, TypeOK
  <2> QED
      BY <2>1, AbortShrinks, CoverShrinks DEF CoverInv
<1>7. ASSUME NEW e \in Ends, DisconnectFromHost(e), UNCHANGED <<jobs, foreign>>
      PROVE  CoverInv'
  <2>1. /\ Live("client")' => Live("client")
        /\ peer'["server"].sock = "absent" => peer["server"].sock = "absent"
        /\ pending' = pending
      BY <1>7 DEF DisconnectFromHost, Closing, Live, TypeOK, PeerRecord
  <2> QED
      BY <1>7, <2>1, LeaveShrinks, CoverShrinks DEF CoverInv
<1>8. ASSUME NEW e \in Ends, Disconnect(e) PROVE CoverInv'
    BY <1>1, <1>7, <1>8 DEF Disconnect
<1>9. ASSUME NEW e \in Ends, RemoteClosed(e) \/ SocketError(e) PROVE CoverInv'
    BY <1>1, <1>9 DEF RemoteClosed, SocketError, Live
<1>10. ASSUME NEW e \in Ends, TimeoutFires(e) PROVE CoverInv'
  <2>1. CASE ~peer[e].invalidate /\ peer[e].sock \in {"connecting", "connected", "closing"}
      BY <1>1, <1>10, <2>1 DEF TimeoutFires
  <2>2. CASE ~(~peer[e].invalidate /\ peer[e].sock \in {"connecting", "connected", "closing"})
    <3>1. /\ peer' = [peer EXCEPT ![e].invalidate = FALSE,
                                  ![e].timeoutTimer = StartTimer(Period(peer[e]))]
          /\ UNCHANGED <<pending, wire, jobs, foreign>>
        BY <1>10, <2>2 DEF TimeoutFires, clientVars
    <3>2. ASSUME NEW x \in Ends PROVE peer'[x].sock = peer[x].sock
      <4>1. peer[x] \in PeerRecord
          BY DEF TypeOK
      <4>2. \/ peer'[x] = peer[x]
            \/ peer'[x] = [peer[x] EXCEPT !.invalidate = FALSE,
                                          !.timeoutTimer = StartTimer(Period(peer[e]))]
          BY <3>1, <4>1 DEF TypeOK
      <4> QED
          BY <4>1, <4>2 DEF PeerRecord
    <3> QED
        BY <3>1, <3>2, SameShrinks, CoverShrinks DEF Live, CoverInv
  <2> QED
      BY <2>1, <2>2
<1>11. ASSUME NEW e \in Ends, CloseEnds(e) PROVE CoverInv'
  <2>1. /\ Live("client")' => Live("client")
        /\ peer'["server"].sock = "absent" => peer["server"].sock = "absent"
        /\ UNCHANGED <<pending, jobs, foreign>>
        /\ wire' = [wire EXCEPT ![Other(e)] = IF Reachable(Other(e)) THEN Append(@, "fin") ELSE @]
      BY <1>11 DEF CloseEnds, Clean, Live, TypeOK, clientVars
  <2>2. ASSUME NEW x \in Ends, NEW ps, ~("fin" \in ps)
        PROVE  Count(wire'[x], ps) <= Count(wire[x], ps)
    <3>1. wire[x] \in Seq(Bytes) /\ Count(wire[x], ps) \in Nat
        BY CountTypes DEF TypeOK, Bytes
    <3>2. wire'[x] = wire[x] \/ wire'[x] = Append(wire[x], "fin")
        BY <2>1 DEF TypeOK
    <3>3. Append(wire[x], "fin") = wire[x] \o <<"fin">>
        BY <3>1, PacketKinds, AppendIsConcat
    <3>4. Count(wire[x] \o <<"fin">>, ps) = Count(wire[x], ps) + One("fin", ps)
        BY <3>1, CountAppend, PacketKinds
    <3>5. One("fin", ps) = 0
        BY <2>2 DEF One
    <3>6. CASE wire'[x] = wire[x]
      <4>1. Count(wire'[x], ps) = Count(wire[x], ps)
          BY <3>6
      <4> QED
          BY <3>1, <4>1
    <3>7. CASE wire'[x] = wire[x] \o <<"fin">>
      <4>1. Count(wire'[x], ps) = Count(wire[x], ps) + 0
          BY <3>4, <3>5, <3>7
      <4> QED
          BY <3>1, <4>1
    <3> QED
        BY <3>2, <3>3, <3>6, <3>7
  <2>3. \A r \in Requests : ~("fin" \in {r}) /\ ~("fin" \in AnswersTo(r))
      BY AnswersFacts DEF Requests
  <2>4. \A ps : Count(jobs, ps) \in Nat /\ Count(jobs', ps) = Count(jobs, ps)
      BY <2>1, CountTypes DEF Count
  <2>5. Shrinks
      BY <2>2, <2>3, <2>4 DEF Shrinks
  <2> QED
      BY <2>1, <2>5, CoverShrinks DEF CoverInv
<1> QED
    BY <1>2, <1>3, <1>4, <1>5, <1>6, <1>8, <1>9, <1>10, <1>11

LEMMA CoverEstablish ==
    ASSUME TypeOK, CoverInv, Establish
    PROVE  CoverInv'
<1>1. /\ jobs' = <<>> /\ pending' = pending /\ foreign' = foreign
    BY DEF Establish, CoverInv, clientVars
<1>2. /\ wire'["client"] = <<>>
      /\ wire'["server"] \in {<<>>, <<"handShake", "authentication">>}
    BY EndsFacts DEF Establish, Hello
<1>3. ASSUME NEW r \in Requests PROVE Count(wire'["server"], {r}) = 0
  <2>1. CASE wire'["server"] = <<>>
      BY <2>1, CountEmpty
  <2>2. CASE wire'["server"] = <<"handShake", "authentication">>
    <3>1. Places(<<"handShake", "authentication">>, {r}) = {}
        BY DEF Places, Requests
    <3>2. Count(<<"handShake", "authentication">>, {r}) = 0
        BY <3>1, FS_EmptySet DEF Count, Places
    <3> QED
        BY <2>2, <3>2
  <2> QED
      BY <1>2, <2>1, <2>2
<1>4. ASSUME NEW r \in Requests PROVE Out(wire', jobs', r) <= pending'[r]
  <2>1. /\ Count(wire'["server"], {r}) = 0 /\ Count(jobs', {r}) = 0
        /\ Count(wire'["client"], AnswersTo(r)) = 0
      BY <1>1, <1>2, <1>3, CountEmpty
  <2>2. Out(wire', jobs', r) = 0
      BY <2>1 DEF Out
  <2>3. pending'[r] \in Nat
      BY <1>1 DEF TypeOK, RequestCounts
  <2> QED
      BY <2>2, <2>3
<1>5. \A r : Out(wire, jobs, r)' = Out(wire', jobs', r)
    BY DEF Out, Count, AnswersTo
<1> QED
    BY <1>1, <1>4, <1>5 DEF CoverInv

\* A packet written by e that the other end counts for nothing, or one entry
\* more for a request that is written.
LEMMA CoverWrite ==
    ASSUME TypeOK, TypeOK', CoverInv, NEW e \in Ends, NEW p \in Bytes,
           wire' = Write(e, <<p>>), UNCHANGED <<jobs, foreign>>,
           \A x \in Ends : peer'[x].sock = peer[x].sock,
           \/ p \in {"nodes", "keepAlive", "keepAliveAck", "handShake"} /\ pending' = pending
           \/ /\ e = "client" /\ p \in Requests
              /\ pending' = AddRequests({p})
    PROVE  CoverInv'
<1>1. ASSUME NEW r \in Requests
      PROVE  Out(wire', jobs', r) + pending[r] <= Out(wire, jobs, r) + pending'[r]
  <2> DEFINE s == Count(wire["server"], {r})
             c == Count(wire["client"], AnswersTo(r))
             j == Count(jobs, {r})
             s2 == Count(wire'["server"], {r})
             c2 == Count(wire'["client"], AnswersTo(r))
  <2>1. /\ s \in Nat /\ c \in Nat /\ j \in Nat /\ s2 \in Nat /\ c2 \in Nat
        /\ pending[r] \in Nat
    <3>1. s \in Nat /\ c \in Nat /\ j \in Nat
        BY CountTypes, EndsFacts
    <3>2. s2 \in Nat /\ c2 \in Nat
        BY CountFinite, EndsFacts DEF TypeOK, Bytes
    <3> QED
        BY <3>1, <3>2 DEF TypeOK, RequestCounts
  <2>2. Out(wire, jobs, r) = s + j + c /\ Out(wire', jobs', r) = s2 + j + c2
    <3>1. Count(jobs', {r}) = j
        BY DEF Count
    <3> QED
        BY <3>1 DEF Out
  <2>3. CASE e = "client"
    <3>1. wire'["client"] = wire["client"] /\ s2 <= s + One(p, {r})
        BY <2>3, WriteCount, EndsFacts DEF Other
    <3>2. c2 = c
        BY <3>1
    <3>3. One(p, {r}) <= pending'[r] - pending[r]
      <4>1. CASE p \in {"nodes", "keepAlive", "keepAliveAck", "handShake"} /\ pending' = pending
        <5>1. One(p, {r}) = 0
            BY <4>1 DEF One, Requests
        <5> QED
            BY <2>1, <4>1, <5>1
      <4>2. CASE p \in Requests /\ pending' = AddRequests({p})
          BY <2>1, <4>2 DEF AddRequests, One
      <4> QED
          BY <4>1, <4>2
    <3>4. One(p, {r}) \in Nat /\ pending'[r] \in Nat
        BY DEF One, TypeOK, RequestCounts
    <3> HIDE DEF s, c, j, s2, c2
    <3> QED
        BY <2>1, <2>2, <3>1, <3>2, <3>3, <3>4
  <2>4. CASE e = "server"
    <3>1. wire'["server"] = wire["server"] /\ c2 <= c + One(p, AnswersTo(r))
        BY <2>4, WriteCount, EndsFacts DEF Other
    <3>2. s2 = s
        BY <3>1
    <3>3. One(p, AnswersTo(r)) = 0 /\ pending' = pending
        BY <2>4, AnswersFacts DEF One
    <3> HIDE DEF s, c, j, s2, c2
    <3> QED
        BY <2>1, <2>2, <3>1, <3>2, <3>3
  <2> QED
      BY <2>3, <2>4, EndsFacts
<1> QED
    BY <1>1, CoverStep, EndsFacts DEF Live, CoverInv

\* The server reads a packet: a request becomes a signal.
LEMMA CoverReadServer ==
    ASSUME TypeOK, TypeOK', CoverInv, wire["server"] # <<>>,
           UNCHANGED <<foreign, pending>>,
           wire'["server"] = Tail(wire["server"]),
           \A r \in Requests : Count(wire'["client"], AnswersTo(r)) <= Count(wire["client"], AnswersTo(r)),
           \/ jobs' = jobs
           \/ \E q \in Jobs : q \in {Head(wire["server"]), "authenticated"} /\ jobs' = jobs \o <<q>>,
           Live("client")' => Live("client"), peer'["server"].sock # "absent"
    PROVE  CoverInv'
<1>1. ASSUME NEW r \in Requests
      PROVE  Out(wire', jobs', r) + pending[r] <= Out(wire, jobs, r) + pending'[r]
  <2> DEFINE s == Count(wire["server"], {r})
             c == Count(wire["client"], AnswersTo(r))
             j == Count(jobs, {r})
             s2 == Count(wire'["server"], {r})
             c2 == Count(wire'["client"], AnswersTo(r))
             j2 == Count(jobs', {r})
             o == One(Head(wire["server"]), {r})
  <2>1. /\ s \in Nat /\ c \in Nat /\ j \in Nat /\ s2 \in Nat /\ c2 \in Nat /\ j2 \in Nat
        /\ o \in Nat
    <3>1. s \in Nat /\ c \in Nat /\ j \in Nat
        BY CountTypes, EndsFacts
    <3>2. s2 \in Nat /\ c2 \in Nat
        BY CountFinite, EndsFacts DEF TypeOK, Bytes
    <3>3. j2 \in Nat
        BY CountFinite DEF TypeOK
    <3> QED
        BY <3>1, <3>2, <3>3 DEF One
  <2>2. s2 + o = s
      BY ReadCount, EndsFacts
  <2>3. j2 <= j + o
    <3>1. CASE jobs' = jobs
      <4>1. j2 = j
          BY <3>1
      <4> HIDE DEF j, j2, o
      <4> QED
          BY <2>1, <4>1
    <3>2. CASE \E q \in Jobs : q \in {Head(wire["server"]), "authenticated"}
                              /\ jobs' = jobs \o <<q>>
      <4>1. PICK q \in Jobs : q \in {Head(wire["server"]), "authenticated"} /\ jobs' = jobs \o <<q>>
          BY <3>2
      <4>2. j2 = j + One(q, {r})
        <5>1. jobs \in Seq(Jobs)
            BY DEF TypeOK, Jobs
        <5>2. Count(jobs \o <<q>>, {r}) = j + One(q, {r})
            BY <5>1, CountAppend
        <5> QED
            BY <4>1, <5>2
      <4>3. One(q, {r}) <= o
        <5>1. CASE q = "authenticated"
          <6>1. One(q, {r}) = 0
              BY <5>1 DEF One, Requests
          <6> HIDE DEF o
          <6> QED
              BY <2>1, <6>1
        <5>2. CASE q = Head(wire["server"])
          <6>1. One(q, {r}) = o
              BY <5>2
          <6> HIDE DEF o
          <6> QED
              BY <2>1, <6>1
        <5> QED
            BY <4>1, <5>1, <5>2
      <4>4. One(q, {r}) \in Nat
          BY DEF One
      <4> HIDE DEF j, j2, o
      <4> QED
          BY <2>1, <4>2, <4>3, <4>4
    <3> QED
        BY <3>1, <3>2
  <2>4. c2 <= c
      OBVIOUS
  <2>5. Out(wire, jobs, r) = s + j + c /\ Out(wire', jobs', r) = s2 + j2 + c2
      BY DEF Out
  <2>6. pending[r] \in Nat /\ pending'[r] = pending[r]
      BY DEF TypeOK, RequestCounts
  <2> HIDE DEF s, c, j, s2, c2, j2, o
  <2> QED
      BY <2>1, <2>2, <2>3, <2>4, <2>5, <2>6
<1> QED
    BY <1>1, CoverStep

\* The client reads a packet: an answer takes its entry.
LEMMA CoverReadClient ==
    ASSUME TypeOK, TypeOK', CoverInv, wire["client"] # <<>>,
           UNCHANGED <<foreign, jobs>>,
           wire'["client"] = Tail(wire["client"]),
           \/ /\ \A r \in Requests : Count(wire'["server"], {r}) <= Count(wire["server"], {r})
              /\ Head(wire["client"]) \in Answers \cup Denials
              /\ pending' = TakeRequest(RequestOf(Head(wire["client"])))
           \/ \A r \in Requests :
                 Count(wire'["server"], {r}) + pending[r] <= Count(wire["server"], {r}) + pending'[r],
           Live("client")' => Live("client"),
           peer'["server"].sock = "absent" => peer["server"].sock = "absent"
    PROVE  CoverInv'
<1>1. ASSUME NEW r \in Requests
      PROVE  Out(wire', jobs', r) + pending[r] <= Out(wire, jobs, r) + pending'[r]
  <2> DEFINE s == Count(wire["server"], {r})
             c == Count(wire["client"], AnswersTo(r))
             j == Count(jobs, {r})
             s2 == Count(wire'["server"], {r})
             c2 == Count(wire'["client"], AnswersTo(r))
             j2 == Count(jobs', {r})
             o == One(Head(wire["client"]), AnswersTo(r))
  <2>1. /\ s \in Nat /\ c \in Nat /\ j \in Nat /\ s2 \in Nat /\ c2 \in Nat
        /\ o \in Nat /\ pending[r] \in Nat /\ pending'[r] \in Nat
    <3>1. s \in Nat /\ c \in Nat /\ j \in Nat
        BY CountTypes, EndsFacts
    <3>2. s2 \in Nat /\ c2 \in Nat
        BY CountFinite, EndsFacts DEF TypeOK, Bytes
    <3>3. pending[r] \in Nat /\ pending'[r] \in Nat
        BY DEF TypeOK, RequestCounts
    <3> QED
        BY <3>1, <3>2, <3>3 DEF One
  <2>2. c2 + o = c
      BY ReadCount, EndsFacts
  <2>3. j2 = j
      BY DEF Count
  <2>4. s2 + pending[r] <= s + pending'[r] + o
    <3>1. CASE /\ \A q \in Requests : Count(wire'["server"], {q}) <= Count(wire["server"], {q})
               /\ Head(wire["client"]) \in Answers \cup Denials
               /\ pending' = TakeRequest(RequestOf(Head(wire["client"])))
      <4>1. s2 <= s
          BY <3>1
      <4>2. o = IF r = RequestOf(Head(wire["client"])) THEN 1 ELSE 0
          BY <3>1, AnswersFacts DEF One
      <4>3. pending'[r] = IF r = RequestOf(Head(wire["client"])) THEN pending[r] - 1 ELSE pending[r]
          BY <3>1 DEF TakeRequest, TypeOK, RequestCounts
      <4> HIDE DEF s, s2, o
      <4> QED
          BY <2>1, <4>1, <4>2, <4>3
    <3>2. CASE \A q \in Requests :
                 Count(wire'["server"], {q}) + pending[q] <= Count(wire["server"], {q}) + pending'[q]
      <4>1. s2 + pending[r] <= s + pending'[r]
          BY <3>2
      <4> HIDE DEF s, s2, o
      <4> QED
          BY <2>1, <4>1
    <3> QED
        BY <3>1, <3>2
  <2>5. Out(wire, jobs, r) = s + j + c /\ Out(wire', jobs', r) = s2 + j2 + c2
      BY DEF Out
  <2> DEFINE pr  == pending[r]
             pr2 == pending'[r]
  <2>6. pr \in Nat /\ pr2 \in Nat /\ s2 + pr <= s + pr2 + o
      BY <2>1, <2>4
  <2> HIDE DEF s, c, j, s2, c2, j2, o, pr, pr2
  <2>7. s2 + j2 + c2 + pr <= s + j + c + pr2
      BY <2>1, <2>2, <2>3, <2>6
  <2> QED
      BY <2>5, <2>7 DEF pr, pr2
<1>2. peer'["server"].sock = "absent" => jobs' = <<>>
    BY DEF CoverInv
<1> QED
    BY <1>1, <1>2, CoverStep

\* The client's answer to the handshake: one entry for each request it sends.
LEMMA CoverFirstRequests ==
    ASSUME TypeOK, NEW s \in {<<"serverInfoRequest">>, <<"serverInfoRequest", "seedUrlRequest">>},
           Register({s[i] : i \in DOMAIN s}), NEW r \in Requests
    PROVE  Count(Write("client", s)["server"], {r}) + pending[r]
               <= Count(wire["server"], {r}) + pending'[r]
<1> DEFINE a == "serverInfoRequest"
           b == "seedUrlRequest"
           w == wire["server"]
<1>1. w \in Seq(Bytes) /\ a \in Bytes /\ b \in Bytes
    BY EndsFacts DEF TypeOK, Bytes, Packets, Requests
<1>2. Count(w, {r}) \in Nat /\ pending[r] \in Nat /\ One(a, {r}) \in Nat /\ One(b, {r}) \in Nat
    BY CountTypes, EndsFacts DEF TypeOK, RequestCounts, One
<1>3. Count(w \o <<a>>, {r}) = Count(w, {r}) + One(a, {r})
    BY <1>1, CountAppend
<1>4. Count(w \o <<a, b>>, {r}) = Count(w, {r}) + One(a, {r}) + One(b, {r})
  <2>1. w \o <<a>> \in Seq(Bytes)
      BY <1>1, PacketKinds, ConcatProperties
  <2>2. (w \o <<a>>) \o <<b>> = w \o (<<a>> \o <<b>>)
      BY <1>1, PacketKinds, ConcatAssociative
  <2>3. <<a>> \o <<b>> = <<a, b>>
    <3>1. /\ <<a>> \in Seq(Bytes) /\ <<b>> \in Seq(Bytes) /\ <<a, b>> \in Seq(Bytes)
          /\ Len(<<a>>) = 1 /\ Len(<<b>>) = 1 /\ Len(<<a, b>>) = 2
        BY <1>1
    <3>2. Len(<<a>> \o <<b>>) = 2 /\ <<a>> \o <<b>> \in Seq(Bytes)
          /\ \A i \in 1 .. 2 : (<<a>> \o <<b>>)[i] = IF i <= 1 THEN <<a>>[i] ELSE <<b>>[i - 1]
        BY <3>1, ConcatProperties
    <3>3. \A i \in 1 .. 2 : (<<a>> \o <<b>>)[i] = <<a, b>>[i]
        BY <3>2
    <3> QED
        BY <3>1, <3>2, <3>3, SeqEqual
  <2>4. Count((w \o <<a>>) \o <<b>>, {r}) = Count(w \o <<a>>, {r}) + One(b, {r})
      BY <1>1, <2>1, CountAppend
  <2> QED
      BY <1>3, <2>2, <2>3, <2>4
<1>5. Write("client", s)["server"] \in {w, w \o s}
  <2>1. \/ Write("client", s) = wire
        \/ Write("client", s) = [wire EXCEPT !["server"] = @ \o s]
      BY DEF Write, Other
  <2>2. wire \in [Ends -> Seq(Bytes)] /\ "server" \in Ends
      BY EndsFacts DEF TypeOK, Bytes
  <2> QED
      BY <2>1, <2>2
<1>6. CASE s = <<a>>
  <2>1. {s[i] : i \in DOMAIN s} = {a}
      BY <1>6
  <2>2. pending'[r] = pending[r] + One(a, {r})
      BY <2>1 DEF Register, AddRequests, One
  <2> HIDE DEF a, b, w
  <2>3. Count(Write("client", s)["server"], {r}) \in {Count(w, {r}), Count(w, {r}) + One(a, {r})}
      BY <1>3, <1>5, <1>6
  <2> QED
      BY <1>2, <2>2, <2>3 DEF w
<1>7. CASE s = <<a, b>>
  <2>1. {s[i] : i \in DOMAIN s} = {a, b}
    <3>1. DOMAIN s = {1, 2} /\ s[1] = a /\ s[2] = b
        BY <1>7
    <3> HIDE DEF a, b
    <3> QED
        BY <3>1
  <2>2. pending'[r] = pending[r] + One(a, {r}) + One(b, {r})
      BY <1>2, <2>1 DEF Register, AddRequests, One
  <2> HIDE DEF a, b, w
  <2>3. Count(Write("client", s)["server"], {r})
            \in {Count(w, {r}), Count(w, {r}) + One(a, {r}) + One(b, {r})}
      BY <1>4, <1>5, <1>7
  <2> QED
      BY <1>2, <2>2, <2>3 DEF w
<1> QED
    BY <1>6, <1>7

\* What a step of Receive may do to the streams and the pending requests.
LEMMA ReceiveCases ==
    ASSUME NEW e \in Ends, Receive(e)
    PROVE  LET p == Head(wire[e]) IN
           \/ Abort(e) /\ UNCHANGED jobs
           \/ /\ UNCHANGED pending /\ wire' = Read(e)
              /\ \/ jobs' = jobs
                 \/ e = "server" /\ \E q \in Jobs : q \in {p, "authenticated"} /\ jobs' = Append(jobs, q)
           \/ /\ e = "client" /\ UNCHANGED jobs /\ wire' = Read(e)
              /\ p \in Answers \cup Denials /\ pending' = TakeRequest(RequestOf(p))
           \/ /\ UNCHANGED <<pending, jobs>> /\ wire' = ReadAndWrite(e, <<"keepAliveAck">>)
           \/ /\ e = "client" /\ UNCHANGED jobs
              /\ \E s \in {<<"serverInfoRequest">>, <<"serverInfoRequest", "seedUrlRequest">>} :
                    Register({s[i] : i \in DOMAIN s}) /\ wire' = ReadAndWrite(e, s)
<1> DEFINE p == Head(wire[e])
           Cases == \/ Abort(e) /\ UNCHANGED jobs
                    \/ /\ UNCHANGED pending /\ wire' = Read(e)
                       /\ \/ jobs' = jobs
                          \/ e = "server" /\ \E q \in Jobs : q \in {p, "authenticated"}
                                                           /\ jobs' = Append(jobs, q)
                    \/ /\ e = "client" /\ UNCHANGED jobs /\ wire' = Read(e)
                       /\ p \in Answers \cup Denials /\ pending' = TakeRequest(RequestOf(p))
                    \/ /\ UNCHANGED <<pending, jobs>> /\ wire' = ReadAndWrite(e, <<"keepAliveAck">>)
                    \/ /\ e = "client" /\ UNCHANGED jobs
                       /\ \E s \in {<<"serverInfoRequest">>, <<"serverInfoRequest", "seedUrlRequest">>} :
                             Register({s[i] : i \in DOMAIN s}) /\ wire' = ReadAndWrite(e, s)
<1>1. ReceiveHandShake(e, p) => Cases
  <2>1. CASE p # "handShake"
      BY <2>1 DEF ReceiveHandShake, FailAbort
  <2>2. CASE p = "handShake" /\ e = "client"
      BY <2>2, Zenon DEF ReceiveHandShake
  <2>3. CASE p = "handShake" /\ e = "server"
      BY <2>3 DEF ReceiveHandShake
  <2> QED
      BY <2>1, <2>2, <2>3, EndsFacts
<1>2. ReceiveResponse(e, p) => Cases
    BY DEF ReceiveResponse
<1>3. ReceiveAuthentication(e, p) => Cases
    BY DEF ReceiveAuthentication, FailAbort, clientVars, Jobs
<1>4. ReceiveKeepAlive(e, p) => Cases
    BY DEF ReceiveKeepAlive, clientVars
<1>5. ReceiveRequest(e, p) => Cases
    BY EndsFacts DEF ReceiveRequest, clientVars, Jobs
<1>6. ReceiveDenied(e, p) => Cases
    BY DEF ReceiveDenied, FailContinue, clientVars
<1>7. ReceiveRefusal(e, p) \/ ReceiveOther(e, p) => Cases
    BY DEF ReceiveRefusal, ReceiveOther, Ignore, FailContinue, FailAbort, clientVars
<1> HIDE DEF Cases
<1>8. Cases
    BY <1>1, <1>2, <1>3, <1>4, <1>5, <1>6, <1>7 DEF Receive
<1> QED
    BY <1>8 DEF Cases

LEMMA CoverReceive ==
    ASSUME TypeOK, TypeOK', CoverInv, NEW e \in Ends, Receive(e)
    PROVE  CoverInv'
<1> DEFINE p == Head(wire[e])
<1>1. Live(e) /\ wire[e] # <<>> /\ foreign' = foreign
    BY DEF Receive
<1>2. /\ Live("client")' => Live("client")
      /\ peer'["server"].sock = "absent" => peer["server"].sock = "absent"
      /\ e = "server" => peer["server"].sock # "absent"
  <2>1. \/ \E k \in Errors : FailAbort(e, k)
        \/ peer' = [peer EXCEPT ![e] = Touched(e)]
        \/ peer' = [peer EXCEPT ![e] = [Touched(e) EXCEPT !.authenticated = TRUE]]
      BY DEF Receive, ReceiveHandShake, ReceiveResponse, ReceiveAuthentication, ReceiveKeepAlive,
             ReceiveRequest, ReceiveDenied, ReceiveRefusal, ReceiveOther, Ignore, FailContinue, Errors
  <2>2. /\ peer \in [Ends -> PeerRecord]
        /\ Touched(e).sock = "connected"
        /\ [Touched(e) EXCEPT !.authenticated = TRUE].sock = "connected"
        /\ Clean("unconnected").sock = "unconnected"
      BY <1>1 DEF TypeOK, Touched, Live, PeerRecord, Clean
  <2>3. \E q : peer' = [peer EXCEPT ![e] = q] /\ q.sock \in {"connected", "unconnected"}
      BY <2>1, <2>2 DEF FailAbort, Abort
  <2>4. PICK q : peer' = [peer EXCEPT ![e] = q] /\ q.sock \in {"connected", "unconnected"}
      BY <2>3
  <2> QED
      BY <1>1, <2>2, <2>4, EndsFacts DEF Live
<1>3. /\ wire[Other(e)] = Read(e)[Other(e)] /\ Read(e)[e] = Tail(wire[e])
    BY <1>1, ReadCount
<1>4. jobs \in Seq(Jobs) /\ \A q \in Jobs : Append(jobs, q) = jobs \o <<q>>
    BY AppendIsConcat DEF TypeOK, Jobs
<1>5. \A r \in Requests : /\ Count(wire["client"], AnswersTo(r)) \in Nat
                          /\ Count(wire["server"], {r}) \in Nat
                          /\ pending[r] \in Nat
    BY CountTypes, EndsFacts DEF TypeOK, RequestCounts
<1>6. CASE Abort(e) /\ UNCHANGED jobs
  <2>1. pending' = pending
      BY <1>6 DEF Abort
  <2>2. Shrinks
      BY <1>6, AbortShrinks
  <2>3. peer'["server"].sock = "absent" => jobs' = <<>>
      BY <1>2, <1>6 DEF CoverInv
  <2> QED
      BY <1>1, <1>2, <2>1, <2>2, <2>3, CoverShrinks
<1>7. CASE /\ UNCHANGED pending /\ wire' = Read(e)
           /\ \/ jobs' = jobs
              \/ e = "server" /\ \E q \in Jobs : q \in {p, "authenticated"} /\ jobs' = Append(jobs, q)
  <2>1. CASE e = "server"
    <3>1. /\ wire'["server"] = Tail(wire["server"]) /\ wire'["client"] = wire["client"]
          /\ wire["server"] # <<>>
        BY <1>1, <1>3, <1>7, <2>1 DEF Other
    <3>2. ASSUME NEW r \in Requests
          PROVE  Count(wire'["client"], AnswersTo(r)) <= Count(wire["client"], AnswersTo(r))
      <4>1. Count(wire'["client"], AnswersTo(r)) = Count(wire["client"], AnswersTo(r))
          BY <3>1
      <4>2. Count(wire["client"], AnswersTo(r)) \in Nat
          BY <1>5
      <4> QED
          BY <4>1, <4>2
    <3>3. \/ jobs' = jobs
          \/ \E q \in Jobs : q \in {Head(wire["server"]), "authenticated"} /\ jobs' = jobs \o <<q>>
        BY <1>4, <1>7, <2>1
    <3> QED
        BY <1>1, <1>2, <1>7, <2>1, <3>1, <3>2, <3>3, CoverReadServer
  <2>2. CASE e = "client"
    <3>1. /\ wire'["client"] = Tail(wire["client"]) /\ wire'["server"] = wire["server"]
          /\ wire["client"] # <<>> /\ jobs' = jobs
        BY <1>1, <1>3, <1>7, <2>2 DEF Other
    <3>2. ASSUME NEW r \in Requests
          PROVE  Count(wire'["server"], {r}) + pending[r] <= Count(wire["server"], {r}) + pending'[r]
      <4>1. Count(wire'["server"], {r}) = Count(wire["server"], {r})
          BY <3>1
      <4>2. pending'[r] = pending[r]
          BY <1>7
      <4>3. Count(wire["server"], {r}) \in Nat /\ pending[r] \in Nat
          BY <1>5
      <4> QED
          BY <4>1, <4>2, <4>3
    <3> QED
        BY <1>1, <1>2, <3>1, <3>2, CoverReadClient
  <2> QED
      BY <2>1, <2>2, EndsFacts
<1>8. CASE /\ e = "client" /\ UNCHANGED jobs /\ wire' = Read(e)
           /\ p \in Answers \cup Denials /\ pending' = TakeRequest(RequestOf(p))
  <2>1. /\ wire'["client"] = Tail(wire["client"]) /\ wire'["server"] = wire["server"]
        /\ wire["client"] # <<>>
      BY <1>1, <1>3, <1>8 DEF Other
  <2>2. ASSUME NEW r \in Requests PROVE Count(wire'["server"], {r}) <= Count(wire["server"], {r})
    <3>1. Count(wire'["server"], {r}) = Count(wire["server"], {r})
        BY <2>1
    <3> QED
        BY <1>5, <3>1
  <2> QED
      BY <1>1, <1>2, <1>8, <2>1, <2>2, CoverReadClient
<1>9. CASE UNCHANGED <<pending, jobs>> /\ wire' = ReadAndWrite(e, <<"keepAliveAck">>)
  <2>1. /\ wire'[e] = Tail(wire[e])
        /\ wire'[Other(e)] = Write(e, <<"keepAliveAck">>)[Other(e)]
      BY <1>9, EndsFacts DEF ReadAndWrite
  <2>2. \A ps : Count(wire'[Other(e)], ps) <= Count(wire[Other(e)], ps) + One("keepAliveAck", ps)
      BY <2>1, WriteCount, PacketKinds
  <2>3. \A r \in Requests : One("keepAliveAck", {r}) = 0 /\ One("keepAliveAck", AnswersTo(r)) = 0
      BY AnswersFacts DEF One, Requests
  <2>4. CASE e = "server"
    <3>1. ASSUME NEW r \in Requests
          PROVE  Count(wire'["client"], AnswersTo(r)) <= Count(wire["client"], AnswersTo(r))
      <4>1. Count(wire'["client"], AnswersTo(r)) <= Count(wire["client"], AnswersTo(r)) + 0
          BY <2>2, <2>3, <2>4 DEF Other
      <4>2. Count(wire["client"], AnswersTo(r)) \in Nat
          BY <1>5
      <4> QED
          BY <4>1, <4>2
    <3> QED
        BY <1>1, <1>2, <1>9, <2>1, <2>4, <3>1, CoverReadServer
  <2>5. CASE e = "client"
    <3>1. ASSUME NEW r \in Requests
          PROVE  Count(wire'["server"], {r}) + pending[r] <= Count(wire["server"], {r}) + pending'[r]
      <4>1. Count(wire'["server"], {r}) <= Count(wire["server"], {r}) + 0
          BY <2>2, <2>3, <2>5 DEF Other
      <4>2. Count(wire'["server"], {r}) \in Nat
          BY CountFinite, EndsFacts DEF TypeOK, Bytes
      <4>3. pending'[r] = pending[r]
          BY <1>9
      <4> QED
          BY <1>5, <4>1, <4>2, <4>3
    <3> QED
        BY <1>1, <1>2, <1>9, <2>1, <2>5, <3>1, CoverReadClient
  <2> QED
      BY <2>4, <2>5, EndsFacts
<1>10. CASE /\ e = "client" /\ UNCHANGED jobs
            /\ \E s \in {<<"serverInfoRequest">>, <<"serverInfoRequest", "seedUrlRequest">>} :
                  Register({s[i] : i \in DOMAIN s}) /\ wire' = ReadAndWrite(e, s)
  <2>1. PICK s \in {<<"serverInfoRequest">>, <<"serverInfoRequest", "seedUrlRequest">>} :
            Register({s[i] : i \in DOMAIN s}) /\ wire' = ReadAndWrite(e, s)
      BY <1>10
  <2>2. /\ wire'["client"] = Tail(wire["client"])
        /\ wire'["server"] = Write("client", s)["server"]
      BY <1>10, <2>1, EndsFacts DEF ReadAndWrite
  <2>3. \A r \in Requests :
            Count(wire'["server"], {r}) + pending[r] <= Count(wire["server"], {r}) + pending'[r]
      BY <2>1, <2>2, CoverFirstRequests
  <2> QED
      BY <1>1, <1>2, <1>10, <2>2, <2>3, CoverReadClient
<1> QED
    BY <1>6, <1>7, <1>8, <1>9, <1>10, ReceiveCases

\* The main thread turns a signal into an answer of its type.
LEMMA CoverAnswer ==
    ASSUME TypeOK, TypeOK', CoverInv, jobs # <<>>, jobs' = Tail(jobs),
           UNCHANGED <<peer, pending, foreign>>,
           NEW p \in Answers \cup Denials, Head(jobs) = RequestOf(p), wire' = Write("server", <<p>>)
    PROVE  CoverInv'
<1> USE EndsFacts
<1>1. p \in Bytes
    BY PacketKinds DEF Bytes
<1>2. ASSUME NEW r \in Requests
      PROVE  Out(wire', jobs', r) + pending[r] <= Out(wire, jobs, r) + pending'[r]
  <2> DEFINE s == Count(wire["server"], {r})
             c == Count(wire["client"], AnswersTo(r))
             j == Count(jobs, {r})
             s2 == Count(wire'["server"], {r})
             c2 == Count(wire'["client"], AnswersTo(r))
             j2 == Count(jobs', {r})
             o == One(Head(jobs), {r})
             pr == pending[r]
  <2>1. s \in Nat /\ c \in Nat /\ j \in Nat /\ pr \in Nat
      BY CountTypes DEF TypeOK, RequestCounts
  <2>2. s2 \in Nat /\ c2 \in Nat
      BY CountFinite DEF TypeOK, Bytes
  <2>3. j2 \in Nat
      BY CountFinite DEF TypeOK
  <2>4. j = j2 + o /\ o \in Nat
    <3>1. jobs \in Seq(Jobs)
        BY DEF TypeOK, Jobs
    <3>2. Count(jobs, {r}) = Count(Tail(jobs), {r}) + One(Head(jobs), {r})
        BY <3>1, CountTail
    <3> QED
        BY <3>2 DEF One
  <2>5. s2 = s
    <3>1. wire'["server"] = wire["server"]
        BY <1>1, WriteCount
    <3> QED
        BY <3>1
  <2>6. c2 <= c + One(p, AnswersTo(r))
      BY <1>1, WriteCount DEF Other
  <2>7. One(p, AnswersTo(r)) = o
      BY AnswersFacts DEF One
  <2>8. Out(wire, jobs, r) = s + j + c /\ Out(wire', jobs', r) = s2 + j2 + c2
      BY DEF Out
  <2>9. pending'[r] = pr
      OBVIOUS
  <2>10. c2 <= c + o
      BY <2>6, <2>7
  <2> HIDE DEF s, c, j, s2, c2, j2, o, pr
  <2>11. s2 + j2 + c2 + pr <= s + j + c + pr
      BY <2>1, <2>2, <2>3, <2>4, <2>5, <2>10
  <2> QED
      BY <2>8, <2>9, <2>11 DEF pr
<1>3. peer'["server"].sock = "absent" => jobs' = <<>>
    BY DEF CoverInv
<1>4. Live("client")' => Live("client")
    BY DEF Live
<1> QED
    BY <1>2, <1>3, <1>4, CoverStep

LEMMA TailShrinks ==
    ASSUME TypeOK, jobs # <<>>, jobs' = Tail(jobs),
           \/ wire' = wire
           \/ wire' = Write("server", <<"handShake">>)
           \/ DisconnectFromHost("server")
    PROVE  Shrinks
<1> USE EndsFacts
<1>1. ASSUME NEW r \in Requests PROVE Count(jobs', {r}) <= Count(jobs, {r})
  <2>1. jobs \in Seq(Jobs) /\ Tail(jobs) \in Seq(Jobs)
      BY HeadTailProperties DEF TypeOK, Jobs
  <2>2. Count(jobs, {r}) = Count(Tail(jobs), {r}) + One(Head(jobs), {r})
      BY <2>1, CountTail
  <2>3. Count(Tail(jobs), {r}) \in Nat /\ One(Head(jobs), {r}) \in Nat
      BY <2>1, CountFinite DEF One
  <2> QED
      BY <2>2, <2>3
<1>2. ASSUME NEW e \in Ends, NEW ps, ~("handShake" \in ps)
      PROVE  Count(wire'[e], ps) <= Count(wire[e], ps)
  <2>1. Count(wire[e], ps) \in Nat
      BY CountTypes
  <2>2. CASE wire' = wire
      BY <2>1, <2>2
  <2>3. CASE wire' = Write("server", <<"handShake">>)
    <3>1. CASE e = "server"
      <4>1. wire'[e] = wire[e]
          BY <2>3, <3>1, WriteCount, PacketKinds
      <4> QED
          BY <2>1, <4>1
    <3>2. CASE e = "client"
      <4>1. Count(wire'[e], ps) <= Count(wire[e], ps) + One("handShake", ps)
          BY <2>3, <3>2, WriteCount, PacketKinds DEF Other
      <4>2. One("handShake", ps) = 0
          BY <1>2 DEF One
      <4> QED
          BY <2>1, <4>1, <4>2
    <3> QED
        BY <3>1, <3>2
  <2>4. CASE DisconnectFromHost("server")
    <3>1. wire'[e] = wire[e] \/ wire'[e] = <<>>
        BY <2>4 DEF DisconnectFromHost, TypeOK
    <3>2. CASE wire'[e] = wire[e]
        BY <2>1, <3>2
    <3>3. CASE wire'[e] = <<>>
        BY <2>1, <3>3, CountEmpty
    <3> QED
        BY <3>1, <3>2, <3>3
  <2> QED
      BY <2>2, <2>3, <2>4
<1>3. \A r \in Requests : ~("handShake" \in {r}) /\ ~("handShake" \in AnswersTo(r))
    BY AnswersFacts DEF Requests
<1> QED
    BY <1>1, <1>2, <1>3 DEF Shrinks

LEMMA CoverMain ==
    ASSUME TypeOK, TypeOK', CoverInv, MainThread
    PROVE  CoverInv'
<1> USE EndsFacts
<1>1. jobs # <<>> /\ jobs' = Tail(jobs) /\ foreign' = foreign
      /\ peer["server"].sock # "absent"
    BY DEF MainThread, CoverInv
<1>2. CASE Head(jobs) = "authenticated" /\ AcceptOrRefuse
  <2>1. /\ peer'["client"] = peer["client"]
        /\ peer'["server"].sock # "absent"
        /\ pending' = pending
        /\ \/ wire' = wire
           \/ wire' = Write("server", <<"handShake">>)
           \/ DisconnectFromHost("server")
    <3>1. CASE /\ peer' = [peer EXCEPT !["server"] = HandShaken(@)]
               /\ wire' = Write("server", <<"handShake">>)
               /\ UNCHANGED clientVars
      <4>1. HandShaken(peer["server"]).sock = peer["server"].sock
          BY DEF HandShaken, TypeOK, PeerRecord
      <4> QED
          BY <1>1, <3>1, <4>1 DEF TypeOK, clientVars
    <3>2. CASE DisconnectFromHost("server")
      <4>1. Closing(peer["server"]).sock = "closing"
          BY DEF Closing, TypeOK, PeerRecord
      <4> QED
          BY <3>2, <4>1 DEF DisconnectFromHost, TypeOK
    <3>3. CASE UNCHANGED <<peer, clientVars, wire>>
        BY <1>1, <3>3 DEF clientVars
    <3> QED
        BY <1>2, <3>1, <3>2, <3>3 DEF AcceptOrRefuse
  <2>2. Shrinks
      BY <1>1, <2>1, TailShrinks
  <2> QED
      BY <1>1, <2>1, <2>2, CoverShrinks DEF Live
<1>3. CASE Head(jobs) # "authenticated" /\ Answer(Head(jobs))
  <2>1. Head(jobs) \in Requests
    <3>1. jobs \in Seq(Jobs)
        BY DEF TypeOK, Jobs
    <3>2. Head(jobs) \in Jobs
        BY <1>1, <3>1, HeadTailProperties
    <3> QED
        BY <1>3, <3>2 DEF Jobs
  <2>2. PICK p \in Answers \cup Denials : Head(jobs) = RequestOf(p) /\ wire' = Write("server", <<p>>)
      BY <1>3, <2>1 DEF Answer, Answers, Denials, Requests, RequestOf
  <2>3. UNCHANGED <<peer, pending>>
      BY <1>3 DEF Answer, clientVars
  <2> QED
      BY <1>1, <2>2, <2>3, CoverAnswer
<1> QED
    BY <1>2, <1>3 DEF MainThread

LEMMA CoverSends ==
    ASSUME TypeOK, TypeOK', CoverInv
    PROVE  /\ AskSeedUrl => CoverInv'
           /\ SendNodes => CoverInv'
           /\ RetryFires => CoverInv'
           /\ \A e \in Ends : KeepAliveFires(e) => CoverInv'
           /\ \A e \in Ends : ForeignSends(e) => CoverInv'
           /\ Tick => CoverInv'
<1> USE EndsFacts
<1>1. "seedUrlRequest" \in Bytes /\ "seedUrlRequest" \in Requests
    BY DEF Bytes, Packets, Requests
<1>2. ASSUME AskSeedUrl PROVE CoverInv'
    BY <1>1, <1>2, CoverWrite DEF AskSeedUrl, SendSeedUrlRequest, Register
<1>3. ASSUME RetryFires PROVE CoverInv'
    BY <1>1, <1>3, CoverWrite DEF RetryFires, SendSeedUrlRequest, Register
<1>4. ASSUME SendNodes PROVE CoverInv'
    BY <1>4, CoverWrite, PacketKinds DEF SendNodes, clientVars
<1>5. ASSUME NEW e \in Ends, KeepAliveFires(e) PROVE CoverInv'
  <2>1. ASSUME NEW x \in Ends PROVE peer'[x].sock = peer[x].sock
    <3>1. peer[x] \in PeerRecord
        BY DEF TypeOK
    <3>2. \/ peer'[x] = peer[x]
          \/ peer'[x] = [peer[x] EXCEPT !.keepAliveTimer = StartTimer(KeepAliveInterval)]
        BY <1>5 DEF KeepAliveFires, TypeOK
    <3> QED
        BY <3>1, <3>2 DEF PeerRecord
  <2> QED
      BY <1>5, <2>1, CoverWrite, PacketKinds DEF KeepAliveFires, clientVars
<1>6. ASSUME NEW e \in Ends, ForeignSends(e) PROVE CoverInv'
    BY <1>6 DEF ForeignSends, CoverInv
<1>7. ASSUME Tick PROVE CoverInv'
  <2>1. UNCHANGED <<pending, jobs, wire, foreign>>
      BY <1>7 DEF Tick
  <2>2. \A x \in Ends : peer'[x].sock = peer[x].sock
    <3>1. \A x \in Ends : /\ peer[x] \in PeerRecord
                         /\ peer'[x] = [peer[x] EXCEPT !.timeoutTimer = Less(@), !.keepAliveTimer = Less(@)]
        BY <1>7 DEF Tick, TypeOK
    <3> QED
        BY <3>1 DEF PeerRecord
  <2>3. /\ Live("client")' => Live("client")
        /\ peer'["server"].sock = "absent" => jobs' = <<>>
      BY <2>1, <2>2 DEF Live, CoverInv
  <2>4. Shrinks
      BY <2>1, SameShrinks
  <2> QED
      BY <2>1, <2>3, <2>4, CoverShrinks
<1> QED
    BY <1>2, <1>3, <1>4, <1>5, <1>6, <1>7

LEMMA CoverInit == Init => CoverInv
<1> SUFFICES ASSUME Init PROVE CoverInv
    OBVIOUS
<1>1. peer["client"].sock = "unconnected" /\ jobs = <<>>
    BY EndsFacts DEF Init, Clean
<1> QED
    BY <1>1 DEF CoverInv, Live

LEMMA CoverNext == TypeOK /\ CoverInv /\ [Next]_vars => CoverInv'
<1> SUFFICES ASSUME TypeOK, CoverInv, [Next]_vars PROVE CoverInv'
    OBVIOUS
<1>1. TypeOK'
    BY TypeNext
<1>2. CASE UNCHANGED vars
    BY <1>2 DEF vars, clientVars, CoverInv, Live, Out, Count, AnswersTo
<1>3. CASE Next
    BY <1>1, <1>3, CoverConnections, CoverEstablish, CoverReceive, CoverMain, CoverSends
    DEF Next, Fires
<1> QED
    BY <1>2, <1>3

LEMMA CoverBound == CoverInv => PendingCoversOutstanding
<1>1. \A r : Out(wire, jobs, r) = Outstanding(r)
    BY DEF Out, Outstanding
<1> QED
    BY <1>1 DEF CoverInv, PendingCoversOutstanding, ClientReady

\* Between two MyCrawler programs every request or answer under way has an entry
\* in the pending requests, however the connection was lost and made again.
THEOREM PendingCovers == Spec => []PendingCoversOutstanding
<1>1. Init => TypeOK /\ CoverInv
    BY TypeInit, CoverInit
<1>2. TypeOK /\ CoverInv /\ [Next]_vars => (TypeOK /\ CoverInv)'
    BY TypeNext, CoverNext
<1> QED
    BY <1>1, <1>2, CoverBound, PTL DEF Spec

-----------------------------------------------------------------------------
(* The order of the packets.  Stage counts the packets of the greeting that *)
(* the server has read; what is left of its stream is numbered from there.  *)
(* The server answers to its own handshake only, so that a client that has  *)
(* read one is a client the server has authenticated.                       *)

ClientSends == Requests \cup {"nodes", "keepAlive", "keepAliveAck"}
ServerSends == Answers \cup Denials \cup {"keepAlive", "keepAliveAck"}

Stage(p) == IF ~p.received THEN 0 ELSE IF ~p.authenticated THEN 1 ELSE 2

\* The server's stream: handshake, authentication, then packets of a client
\* that has been answered.  The end of the stream may come at any place.
ServerStream(p, s) ==
    \A i \in 1 .. Len(s) :
        \/ s[i] = "fin"
        \/ i + Stage(p) = 1 /\ s[i] = "handShake"
        \/ i + Stage(p) = 2 /\ s[i] = "authentication"
        \/ i + Stage(p) > 2 /\ p.sent /\ s[i] \in ClientSends

\* The server's peer p, the jobs j of its main thread, its stream s and the link
\* l.  On a prompt network something is always under way until the server has
\* sent its handshake, so that no time passes and no keep-alive timer fires.
ServerOrder(p, j, s, l) ==
    p.sock = "connected" =>
        /\ p.authenticated => p.received
        /\ p.sent => p.authenticated
        /\ p.keepAliveTimer > 0 => p.received
        /\ ServerStream(p, s)
        /\ ~p.authenticated => j = <<>>
        /\ \A i \in 1 .. Len(j) : j[i] = "authenticated" => i = 1 /\ ~p.sent
        /\ p.authenticated /\ ~p.sent => Len(j) > 0 /\ j[1] = "authenticated"
        /\ l = "prompt" =>
              /\ ~p.sent => p.keepAliveTimer # 1
              /\ Stage(p) = 0 => Len(s) > 0 /\ (Len(s) > 1 \/ s[1] = "fin")
              /\ Stage(p) = 1 => Len(s) > 0

\* The packets from the place n on are such as the server sends to a client
\* that it has answered.
AnsweredFrom(c, n) == \A i \in n .. Len(c) : c[i] \in ServerSends \cup {"fin"}

\* The client's peer p, its retry timer t, the server's peer q, the client's
\* stream c and the link l.
ClientOrder(p, t, q, c, l) ==
    /\ p.sock # "connected" => t = 0
    /\ p.sock = "connected" =>
        /\ ~p.received => p.keepAliveTimer = 0 /\ t = 0
        /\ p.received => AnsweredFrom(c, 1)
        /\ ~p.received /\ Len(c) > 0 =>
              /\ c[1] = "handShake" => AnsweredFrom(c, 2)
              /\ l = "prompt" => c[1] \in {"handShake", "fin"}
        /\ q.sock = "connected" =>
              /\ p.received => q.sent
              /\ ~q.sent => \A i \in 1 .. Len(c) : c[i] = "keepAlive"
              /\ l = "prompt" /\ ~p.received => (q.sent <=> Len(c) > 0)

ErrorsFew(er, l) ==
    /\ er["server"] = "none"
    /\ er["client"] = "none" \/ (er["client"] = "protocolId" /\ l # "prompt")

OrderInv ==
    foreign = "none" =>
        /\ ServerOrder(peer["server"], jobs, wire["server"], link)
        /\ ClientOrder(peer["client"], retryTimer, peer["server"], wire["client"], link)
        /\ ErrorsFew(error, link)

\* What reading, writing and cutting do to a stream.
LEMMA StreamTail ==
    ASSUME NEW S, NEW s \in Seq(S), s # <<>>
    PROVE  /\ Len(s) \in Nat \ {0} /\ Head(s) = s[1]
           /\ Tail(s) \in Seq(S) /\ Len(Tail(s)) = Len(s) - 1
           /\ \A i \in 1 .. Len(s) - 1 : Tail(s)[i] = s[i + 1]
<1>1. Len(s) \in Nat /\ Len(s) # 0
    BY LenProperties, EmptySeq
<1>2. /\ Tail(s) \in Seq(S) /\ Len(Tail(s)) = Len(s) - 1
      /\ \A i \in 1 .. Len(s) - 1 : Tail(s)[i] = s[i + 1]
    BY HeadTailProperties
<1> QED
    BY <1>1, <1>2

LEMMA StreamAdd ==
    ASSUME NEW S, NEW s \in Seq(S), NEW u \in Seq(S)
    PROVE  /\ Len(s) \in Nat /\ Len(u) \in Nat
           /\ s \o u \in Seq(S) /\ Len(s \o u) = Len(s) + Len(u)
           /\ \A i \in 1 .. Len(s) : (s \o u)[i] = s[i]
           /\ \A i \in Len(s) + 1 .. Len(s) + Len(u) : (s \o u)[i] = u[i - Len(s)]
BY LenProperties, ConcatProperties

LEMMA StreamEnd ==
    ASSUME NEW s \in Seq(Bytes), NEW n \in 0 .. Len(s), NEW t,
           t = SubSeq(s, 1, n) \o <<"fin">>
    PROVE  /\ n \in Nat /\ Len(s) \in Nat /\ Len(t) = n + 1 /\ t[n + 1] = "fin"
           /\ \A i \in 1 .. n : t[i] = s[i]
<1>1. Len(s) \in Nat /\ n \in Nat
    BY LenProperties
<1>2. \A i \in 1 .. n : s[i] \in Bytes
    BY <1>1, ElementOfSeq
<1>3. /\ SubSeq(s, 1, n) \in Seq(Bytes) /\ Len(SubSeq(s, 1, n)) = n
      /\ \A i \in 1 .. n : SubSeq(s, 1, n)[i] = s[i]
    BY <1>1, <1>2, SubSeqProperties
<1>4. <<"fin">> \in Seq(Bytes) /\ Len(<<"fin">>) = 1 /\ <<"fin">>[1] = "fin"
    BY PacketKinds
<1>5. /\ Len(t) = n + 1
      /\ \A i \in 1 .. n : t[i] = SubSeq(s, 1, n)[i]
      /\ \A i \in n + 1 .. n + 1 : t[i] = <<"fin">>[i - n]
    BY <1>3, <1>4, StreamAdd
<1> QED
    BY <1>1, <1>3, <1>4, <1>5

LEMMA StreamOne ==
    \A x \in Bytes : <<x>> \in Seq(Bytes) /\ Len(<<x>>) = 1 /\ \A i \in 1 .. 1 : <<x>>[i] = x
OBVIOUS

-----------------------------------------------------------------------------
(* The server's end. *)

Alike(p, q) ==
    /\ q.sock = p.sock /\ q.received = p.received
    /\ q.sent = p.sent /\ q.authenticated = p.authenticated

LEMMA ServerSame ==
    ASSUME NEW p \in PeerRecord, NEW q \in PeerRecord, NEW j, NEW s, NEW l,
           ServerOrder(p, j, s, l), Alike(p, q),
           p.sock = "connected" =>
               /\ q.keepAliveTimer > 0 => p.received
               /\ l = "prompt" /\ ~p.sent => q.keepAliveTimer # 1
    PROVE  ServerOrder(q, j, s, l)
BY DEF ServerOrder, ServerStream, Stage, Alike

LEMMA ServerGets ==
    ASSUME NEW p \in PeerRecord, NEW j, NEW s \in Seq(Bytes), NEW l, NEW u \in Seq(Bytes),
           ServerOrder(p, j, s, l),
           \A i \in 1 .. Len(u) : u[i] = "fin" \/ (p.sent /\ u[i] \in ClientSends)
    PROVE  ServerOrder(p, j, s \o u, l)
<1> SUFFICES ASSUME p.sock = "connected" PROVE ServerOrder(p, j, s \o u, l)
    BY DEF ServerOrder
<1> DEFINE t == s \o u
<1>1. /\ Len(s) \in Nat /\ Len(u) \in Nat /\ Len(t) = Len(s) + Len(u)
      /\ \A i \in 1 .. Len(s) : t[i] = s[i]
      /\ \A i \in Len(s) + 1 .. Len(s) + Len(u) : t[i] = u[i - Len(s)]
    BY StreamAdd
<1> HIDE DEF t
<1>2. p.sent => Stage(p) = 2
    BY DEF ServerOrder, Stage
<1>3. ServerStream(p, t)
  <2> SUFFICES ASSUME NEW i \in 1 .. Len(t)
               PROVE  \/ t[i] = "fin"
                      \/ i + Stage(p) = 1 /\ t[i] = "handShake"
                      \/ i + Stage(p) = 2 /\ t[i] = "authentication"
                      \/ i + Stage(p) > 2 /\ p.sent /\ t[i] \in ClientSends
      BY DEF ServerStream
  <2>1. CASE i \in 1 .. Len(s)
      BY <1>1, <2>1 DEF ServerOrder, ServerStream
  <2>2. CASE i \in Len(s) + 1 .. Len(s) + Len(u)
    <3>1. t[i] = u[i - Len(s)] /\ i - Len(s) \in 1 .. Len(u)
        BY <1>1, <2>2
    <3>2. t[i] = "fin" \/ (p.sent /\ t[i] \in ClientSends)
        BY <3>1
    <3> QED
        BY <1>2, <3>2
  <2> QED
      BY <1>1, <2>1, <2>2
<1>4. /\ Len(s) > 0 => Len(t) > 0 /\ t[1] = s[1]
      /\ Len(s) > 1 => Len(t) > 1
    BY <1>1
<1> QED
    BY <1>1, <1>3, <1>4 DEF ServerOrder, t

LEMMA ServerLosesEnd ==
    ASSUME NEW p \in PeerRecord, NEW j, NEW s \in Seq(Bytes), NEW l, NEW n \in 0 .. Len(s),
           ServerOrder(p, j, s, l)
    PROVE  ServerOrder(p, j, SubSeq(s, 1, n) \o <<"fin">>, l)
<1> PICK t : t = SubSeq(s, 1, n) \o <<"fin">>
    OBVIOUS
<1>1. /\ n \in Nat /\ Len(s) \in Nat /\ Len(t) = n + 1 /\ t[n + 1] = "fin"
      /\ \A i \in 1 .. n : t[i] = s[i]
    BY StreamEnd
<1>2. ASSUME p.sock = "connected" PROVE ServerStream(p, t)
    BY <1>1, <1>2 DEF ServerOrder, ServerStream
<1>3. Len(t) > 0 /\ (Len(t) > 1 \/ t[1] = "fin")
    BY <1>1
<1> QED
    BY <1>2, <1>3 DEF ServerOrder

LEMMA ServerCut ==
    ASSUME NEW p, NEW j, NEW s, NEW l, NEW k, k # "prompt", ServerOrder(p, j, s, l)
    PROVE  ServerOrder(p, j, <<>>, k)
<1>1. Len(<<>>) = 0
    OBVIOUS
<1> QED
    BY <1>1 DEF ServerOrder, ServerStream

\* The head of the stream leaves it; the stage of q is one more, or stays.
LEMMA ServerStreamTail ==
    ASSUME NEW p \in PeerRecord, NEW q \in PeerRecord, NEW s \in Seq(Bytes), s # <<>>,
           ServerStream(p, s), q.sent = p.sent,
           Stage(q) = Stage(p) + 1 \/ (Stage(q) = 2 /\ Stage(p) = 2)
    PROVE  ServerStream(q, Tail(s))
<1> PICK t : t = Tail(s)
    OBVIOUS
<1>1. /\ Len(s) \in Nat \ {0} /\ Len(t) = Len(s) - 1
      /\ \A i \in 1 .. Len(s) - 1 : t[i] = s[i + 1]
    BY StreamTail
<1>2. Stage(p) \in 0 .. 2 /\ Stage(q) \in 0 .. 2
    BY DEF Stage
<1> SUFFICES ASSUME NEW i \in 1 .. Len(t)
             PROVE  \/ t[i] = "fin"
                    \/ i + Stage(q) = 1 /\ t[i] = "handShake"
                    \/ i + Stage(q) = 2 /\ t[i] = "authentication"
                    \/ i + Stage(q) > 2 /\ q.sent /\ t[i] \in ClientSends
    BY DEF ServerStream
<1>3. t[i] = s[i + 1] /\ i + 1 \in 1 .. Len(s)
    BY <1>1
<1>4. \/ s[i + 1] = "fin"
      \/ i + 1 + Stage(p) = 1 /\ s[i + 1] = "handShake"
      \/ i + 1 + Stage(p) = 2 /\ s[i + 1] = "authentication"
      \/ i + 1 + Stage(p) > 2 /\ p.sent /\ s[i + 1] \in ClientSends
    BY <1>3 DEF ServerStream
<1> QED
    BY <1>2, <1>3, <1>4

\* What the server finds at the head of its stream.
LEMMA ServerHead ==
    ASSUME NEW p \in PeerRecord, NEW j, NEW s \in Seq(Bytes), NEW l, ServerOrder(p, j, s, l),
           p.sock = "connected", s # <<>>, Head(s) # "fin"
    PROVE  /\ ~p.received => Head(s) = "handShake"
           /\ p.received /\ ~p.authenticated => Head(s) = "authentication"
           /\ p.authenticated => p.received /\ p.sent /\ Head(s) \in ClientSends
<1>1. Len(s) \in Nat \ {0} /\ Head(s) = s[1]
    BY StreamTail
<1>2. \/ 1 + Stage(p) = 1 /\ s[1] = "handShake"
      \/ 1 + Stage(p) = 2 /\ s[1] = "authentication"
      \/ 1 + Stage(p) > 2 /\ p.sent /\ s[1] \in ClientSends
    BY <1>1 DEF ServerOrder, ServerStream
<1> QED
    BY <1>1, <1>2 DEF ServerOrder, Stage

LEMMA ServerGreeted ==
    ASSUME NEW p \in PeerRecord, NEW q \in PeerRecord, NEW j, NEW s \in Seq(Bytes), NEW l,
           ServerOrder(p, j, s, l), p.sock = "connected", s # <<>>, Head(s) # "fin",
           ~p.received, q.received, q.sock = "connected", q.keepAliveTimer # 1,
           q.sent = p.sent, q.authenticated = p.authenticated
    PROVE  ServerOrder(q, j, Tail(s), l)
<1>1. Stage(p) = 0 /\ Stage(q) = 1 /\ ServerStream(p, s) /\ ~p.authenticated /\ ~p.sent
    BY DEF Stage, ServerOrder
<1>2. ServerStream(q, Tail(s))
    BY <1>1, ServerStreamTail
<1>3. Len(s) \in Nat \ {0} /\ Head(s) = s[1] /\ Len(Tail(s)) = Len(s) - 1
    BY StreamTail
<1>4. l = "prompt" => Len(Tail(s)) > 0
    BY <1>1, <1>3 DEF ServerOrder
<1> QED
    BY <1>1, <1>2, <1>4 DEF ServerOrder

LEMMA ServerAuthenticates ==
    ASSUME NEW p \in PeerRecord, NEW q \in PeerRecord, NEW j \in Seq(Jobs), NEW s \in Seq(Bytes),
           NEW l, ServerOrder(p, j, s, l), p.sock = "connected", s # <<>>,
           p.received, ~p.authenticated, q.authenticated,
           q.received, q.sock = "connected", q.keepAliveTimer # 1, q.sent = p.sent
    PROVE  ServerOrder(q, Append(j, "authenticated"), Tail(s), l)
<1>1. Stage(p) = 1 /\ Stage(q) = 2 /\ ServerStream(p, s) /\ ~p.sent /\ j = <<>>
    BY DEF Stage, ServerOrder
<1>2. ServerStream(q, Tail(s))
    BY <1>1, ServerStreamTail
<1>3. PICK k : k = Append(j, "authenticated")
    OBVIOUS
<1>4. Len(k) = 1 /\ k[1] = "authenticated"
    BY <1>1, <1>3
<1>5. \A i \in 1 .. Len(k) : i = 1
    BY <1>4
<1>6. ServerOrder(q, k, Tail(s), l)
    BY <1>1, <1>2, <1>4, <1>5 DEF ServerOrder
<1> QED
    BY <1>3, <1>6

LEMMA ServerListens ==
    ASSUME NEW p \in PeerRecord, NEW q \in PeerRecord, NEW j \in Seq(Jobs), NEW s \in Seq(Bytes),
           NEW l, ServerOrder(p, j, s, l), p.sock = "connected", s # <<>>,
           p.authenticated, p.sent, Alike(p, q), q.keepAliveTimer # 1,
           NEW k, k = j \/ \E x \in Requests : k = Append(j, x)
    PROVE  ServerOrder(q, k, Tail(s), l)
<1>1. Stage(p) = 2 /\ Stage(q) = 2 /\ ServerStream(p, s) /\ p.received
    BY DEF Stage, ServerOrder, Alike
<1>2. ServerStream(q, Tail(s))
    BY <1>1, ServerStreamTail DEF Alike
<1>3. Len(j) \in Nat /\ \A i \in 1 .. Len(j) : j[i] # "authenticated"
    BY LenProperties DEF ServerOrder
<1>4. \A i \in 1 .. Len(k) : k[i] # "authenticated"
  <2>1. CASE k = j
      BY <1>3, <2>1
  <2>2. ASSUME NEW x \in Requests, k = Append(j, x)
        PROVE  \A i \in 1 .. Len(k) : k[i] # "authenticated"
    <3>1. /\ Len(k) = Len(j) + 1 /\ k[Len(j) + 1] = x
          /\ \A i \in 1 .. Len(j) : k[i] = j[i]
      <4>1. x \in Jobs
          BY DEF Jobs
      <4> QED
          BY <2>2, <4>1, AppendProperties
    <3> QED
        BY <1>3, <3>1 DEF Requests
  <2> QED
      BY <2>1, <2>2
<1> QED
    BY <1>1, <1>2, <1>4 DEF ServerOrder, Alike

\* The main thread handles the first signal.
LEMMA ServerAnswers ==
    ASSUME NEW p \in PeerRecord, NEW q \in PeerRecord, NEW j \in Seq(Jobs), j # <<>>,
           NEW s, NEW l, ServerOrder(p, j, s, l), p.sock = "connected"
    PROVE  /\ p.authenticated
           /\ Head(j) = "authenticated" /\ q = HandShaken(p) => ~p.sent /\ ServerOrder(q, Tail(j), s, l)
           /\ Head(j) # "authenticated" => p.sent /\ ServerOrder(p, Tail(j), s, l)
<1>1. /\ Len(j) \in Nat \ {0} /\ Head(j) = j[1] /\ Len(Tail(j)) = Len(j) - 1
      /\ \A i \in 1 .. Len(j) - 1 : Tail(j)[i] = j[i + 1]
    BY StreamTail
<1>2. p.authenticated /\ p.received
    BY <1>1, LenProperties, EmptySeq DEF ServerOrder
<1> PICK k : k = Tail(j)
    OBVIOUS
<1>3. \A i \in 1 .. Len(k) : k[i] # "authenticated"
    BY <1>1 DEF ServerOrder
<1>4. Head(j) # "authenticated" => p.sent
    BY <1>1, <1>2 DEF ServerOrder
<1>5. Head(j) = "authenticated" => ~p.sent
    BY <1>1 DEF ServerOrder
<1>6. ASSUME Head(j) # "authenticated" PROVE ServerOrder(p, k, s, l)
    BY <1>2, <1>3, <1>4, <1>6 DEF ServerOrder
<1>7. ASSUME Head(j) = "authenticated", q = HandShaken(p) PROVE ServerOrder(q, k, s, l)
  <2>1. /\ q.sent /\ q.sock = "connected" /\ q.received /\ q.authenticated
        /\ q.keepAliveTimer = p.keepAliveTimer
      BY <1>2, <1>7 DEF HandShaken, PeerRecord
  <2>2. Stage(p) = 2 /\ Stage(q) = 2
      BY <1>2, <2>1 DEF Stage
  <2>3. ServerStream(q, s)
      BY <2>1, <2>2 DEF ServerOrder, ServerStream
  <2> QED
      BY <1>2, <1>3, <2>1, <2>2, <2>3 DEF ServerOrder
<1> QED
    BY <1>2, <1>4, <1>5, <1>6, <1>7

-----------------------------------------------------------------------------
(* The client's end. *)

LEMMA ClientSame ==
    ASSUME NEW p \in PeerRecord, NEW p2 \in PeerRecord, NEW t \in Nat, NEW t2 \in Nat,
           NEW q, NEW q2, NEW c, NEW l, ClientOrder(p, t, q, c, l),
           p2.sock = p.sock, p2.received = p.received, t = 0 => t2 = 0,
           ~p.received => p2.keepAliveTimer = 0 \/ p2.keepAliveTimer = p.keepAliveTimer,
           q2.sock = "connected" => q.sock = "connected" /\ q2.sent = q.sent
    PROVE  ClientOrder(p2, t2, q2, c, l)
BY DEF ClientOrder

LEMMA ClientNotConnected ==
    ASSUME NEW p, NEW q, NEW c, NEW l, p.sock # "connected"
    PROVE  ClientOrder(p, 0, q, c, l)
BY DEF ClientOrder

\* The server closes its end: the client loses the end of its stream.
LEMMA ClientLosesEnd ==
    ASSUME NEW p \in PeerRecord, NEW t, NEW q, NEW q2, NEW c \in Seq(Bytes), NEW l,
           NEW n \in 0 .. Len(c), ClientOrder(p, t, q, c, l), q2.sock # "connected"
    PROVE  ClientOrder(p, t, q2, SubSeq(c, 1, n) \o <<"fin">>, l)
<1> PICK d : d = SubSeq(c, 1, n) \o <<"fin">>
    OBVIOUS
<1>1. /\ n \in Nat /\ Len(c) \in Nat /\ Len(d) = n + 1 /\ d[n + 1] = "fin"
      /\ \A i \in 1 .. n : d[i] = c[i]
    BY StreamEnd
<1>2. /\ AnsweredFrom(c, 1) => AnsweredFrom(d, 1)
      /\ AnsweredFrom(c, 2) => AnsweredFrom(d, 2)
    BY <1>1 DEF AnsweredFrom
<1>3. d[1] = "fin" \/ (Len(c) > 0 /\ d[1] = c[1])
    BY <1>1
<1> QED
    BY <1>2, <1>3 DEF ClientOrder

LEMMA ClientCut ==
    ASSUME NEW p, NEW t, NEW q, NEW q2, NEW c, NEW l, NEW k, k # "prompt",
           ClientOrder(p, t, q, c, l),
           q2.sock = "connected" => q.sock = "connected" /\ q2.sent = q.sent
    PROVE  ClientOrder(p, t, q2, <<>>, k)
<1>1. Len(<<>>) = 0
    OBVIOUS
<1>2. \A i : ~(i \in 1 .. 0) /\ ~(i \in 2 .. 0)
    OBVIOUS
<1>3. AnsweredFrom(<<>>, 1) /\ AnsweredFrom(<<>>, 2)
    BY <1>1, <1>2 DEF AnsweredFrom
<1> QED
    BY <1>1, <1>2, <1>3 DEF ClientOrder

\* A packet is written to the client: the end of the stream, a packet of a
\* server that has answered, or a keep-alive packet that time let it send.
LEMMA ClientGets ==
    ASSUME NEW p \in PeerRecord, NEW t, NEW q, NEW c \in Seq(Bytes), NEW l, NEW x \in Bytes,
           ClientOrder(p, t, q, c, l),
           \/ x = "fin" /\ q.sock # "connected"
           \/ x \in ServerSends /\ q.sock = "connected" /\ q.sent
           \/ x = "keepAlive" /\ q.sock = "connected" /\ l # "prompt"
    PROVE  ClientOrder(p, t, q, c \o <<x>>, l)
<1> PICK d : d = c \o <<x>>
    OBVIOUS
<1>1. /\ Len(c) \in Nat /\ Len(d) = Len(c) + 1 /\ d[Len(c) + 1] = x
      /\ \A i \in 1 .. Len(c) : d[i] = c[i]
  <2>1. /\ Len(c) \in Nat /\ Len(d) = Len(c) + 1
        /\ \A i \in 1 .. Len(c) : d[i] = c[i]
        /\ \A i \in Len(c) + 1 .. Len(c) + 1 : d[i] = <<x>>[i - Len(c)]
      BY StreamAdd, StreamOne
  <2> QED
      BY <2>1, StreamOne
<1>2. x \in ServerSends \cup {"fin"} /\ x # "handShake"
    BY DEF ServerSends, Answers, Denials
<1>3. /\ AnsweredFrom(c, 1) => AnsweredFrom(d, 1)
      /\ AnsweredFrom(c, 2) => AnsweredFrom(d, 2)
  <2>1. \A i \in 1 .. Len(d) : i \in 1 .. Len(c) \/ d[i] = x
      BY <1>1
  <2>2. \A i \in 2 .. Len(d) : i \in 2 .. Len(c) \/ d[i] = x
      BY <1>1
  <2> QED
      BY <1>1, <1>2, <2>1, <2>2 DEF AnsweredFrom
<1>4. /\ Len(d) > 0
      /\ Len(c) = 0 => d[1] = x
      /\ Len(c) > 0 => d[1] = c[1]
    BY <1>1
<1>5. ASSUME q.sock = "connected", ~q.sent, p.sock = "connected"
      PROVE  \A i \in 1 .. Len(d) : d[i] = "keepAlive"
  <2>1. x = "keepAlive" /\ \A i \in 1 .. Len(c) : c[i] = "keepAlive"
      BY <1>5 DEF ClientOrder
  <2> QED
      BY <1>1, <2>1
<1>6. l = "prompt" /\ ~p.received /\ p.sock = "connected" /\ Len(c) = 0 =>
          x = "fin" /\ q.sock # "connected"
    BY DEF ClientOrder
<1>7. l = "prompt" /\ ~p.received /\ p.sock = "connected" /\ q.sock = "connected" => q.sent
    BY DEF ClientOrder
<1>8. p.sock = "connected" /\ ~p.received /\ d[1] = "handShake" => AnsweredFrom(d, 2)
    BY <1>1, <1>2, <1>3, <1>4 DEF ClientOrder
<1>9. p.sock = "connected" /\ ~p.received /\ l = "prompt" => d[1] \in {"handShake", "fin"}
    BY <1>1, <1>4, <1>6 DEF ClientOrder
<1> QED
    BY <1>3, <1>4, <1>5, <1>7, <1>8, <1>9 DEF ClientOrder

LEMMA ClientGetsHandShake ==
    ASSUME NEW p \in PeerRecord, NEW t, NEW q, NEW q2, NEW c \in Seq(Bytes), NEW l,
           ClientOrder(p, t, q, c, l), q.sock = "connected", ~q.sent, q2.sent
    PROVE  ClientOrder(p, t, q2, c \o <<"handShake">>, l)
<1> SUFFICES ASSUME p.sock = "connected" PROVE ClientOrder(p, t, q2, c \o <<"handShake">>, l)
    BY DEF ClientOrder
<1> PICK d : d = c \o <<"handShake">>
    OBVIOUS
<1>1. /\ Len(c) \in Nat /\ Len(d) = Len(c) + 1 /\ d[Len(c) + 1] = "handShake"
      /\ \A i \in 1 .. Len(c) : d[i] = c[i]
  <2>1. "handShake" \in Bytes
      BY PacketKinds
  <2>2. /\ Len(c) \in Nat /\ Len(d) = Len(c) + 1
        /\ \A i \in 1 .. Len(c) : d[i] = c[i]
        /\ \A i \in Len(c) + 1 .. Len(c) + 1 : d[i] = <<"handShake">>[i - Len(c)]
      BY <2>1, StreamAdd, StreamOne
  <2> QED
      BY <2>1, <2>2, StreamOne
<1>2. ~p.received /\ \A i \in 1 .. Len(c) : c[i] = "keepAlive"
    BY DEF ClientOrder
<1>3. l = "prompt" => Len(c) = 0
    BY <1>1, <1>2 DEF ClientOrder
<1>4. d[1] = "handShake" => Len(d) = 1
    BY <1>1, <1>2
<1>5. d[1] = "handShake" => AnsweredFrom(d, 2)
    BY <1>4 DEF AnsweredFrom
<1>6. Len(d) > 0 /\ (Len(c) = 0 => d[1] = "handShake")
    BY <1>1
<1> QED
    BY <1>2, <1>3, <1>5, <1>6 DEF ClientOrder

\* The handshake is lost on its way.
LEMMA ClientMissesHandShake ==
    ASSUME NEW p \in PeerRecord, NEW t, NEW q, NEW q2, NEW c \in Seq(Bytes), NEW l,
           ClientOrder(p, t, q, c, l), q.sock = "connected", q2.sent, l # "prompt"
    PROVE  ClientOrder(p, t, q2, c, l)
BY DEF ClientOrder

\* What the client finds at the head of its stream.
LEMMA ClientHead ==
    ASSUME NEW p \in PeerRecord, NEW t, NEW q, NEW c \in Seq(Bytes), NEW l,
           ClientOrder(p, t, q, c, l), p.sock = "connected", c # <<>>, Head(c) # "fin"
    PROVE  /\ p.received => Head(c) \in ServerSends
           /\ ~p.received /\ l = "prompt" => Head(c) = "handShake"
           /\ (p.received \/ Head(c) = "handShake") /\ q.sock = "connected" => q.sent
<1>1. Len(c) \in Nat \ {0} /\ Head(c) = c[1]
    BY StreamTail
<1>2. 1 \in 1 .. Len(c) /\ Len(c) > 0
    BY <1>1
<1> QED
    BY <1>1, <1>2 DEF ClientOrder, AnsweredFrom

LEMMA ClientGreeted ==
    ASSUME NEW p \in PeerRecord, NEW p2 \in PeerRecord, NEW t, NEW q, NEW c \in Seq(Bytes), NEW l,
           ClientOrder(p, t, q, c, l), p.sock = "connected", c # <<>>, Head(c) = "handShake",
           ~p.received, p2.received, p2.sock = "connected"
    PROVE  ClientOrder(p2, t, q, Tail(c), l)
<1> PICK d : d = Tail(c)
    OBVIOUS
<1>1. /\ Len(c) \in Nat \ {0} /\ Head(c) = c[1] /\ Len(d) = Len(c) - 1
      /\ \A i \in 1 .. Len(c) - 1 : d[i] = c[i + 1]
    BY StreamTail
<1>2. AnsweredFrom(c, 2) /\ (q.sock = "connected" => q.sent)
    BY <1>1, ClientHead DEF ClientOrder
<1>3. AnsweredFrom(d, 1)
  <2>1. \A i \in 1 .. Len(d) : d[i] = c[i + 1] /\ i + 1 \in 2 .. Len(c)
      BY <1>1
  <2> QED
      BY <1>2, <2>1 DEF AnsweredFrom
<1> QED
    BY <1>2, <1>3 DEF ClientOrder

LEMMA ClientListens ==
    ASSUME NEW p \in PeerRecord, NEW p2 \in PeerRecord, NEW t, NEW t2, NEW q,
           NEW c \in Seq(Bytes), NEW l,
           ClientOrder(p, t, q, c, l), p.sock = "connected", c # <<>>,
           p.received, p2.received, p2.sock = "connected"
    PROVE  ClientOrder(p2, t2, q, Tail(c), l)
<1> PICK d : d = Tail(c)
    OBVIOUS
<1>1. /\ Len(c) \in Nat \ {0} /\ Len(d) = Len(c) - 1
      /\ \A i \in 1 .. Len(c) - 1 : d[i] = c[i + 1]
    BY StreamTail
<1>2. AnsweredFrom(d, 1)
  <2>1. \A i \in 1 .. Len(d) : d[i] = c[i + 1] /\ i + 1 \in 1 .. Len(c)
      BY <1>1
  <2> QED
      BY <2>1 DEF ClientOrder, AnsweredFrom
<1> QED
    BY <1>2 DEF ClientOrder

-----------------------------------------------------------------------------
(* The steps. *)

LEMMA OrderPrimed ==
    /\ ServerOrder(peer'["server"], jobs', wire'["server"], link')
    /\ ClientOrder(peer'["client"], retryTimer', peer'["server"], wire'["client"], link')
    /\ ErrorsFew(error', link')
    => OrderInv'
BY DEF OrderInv, ServerOrder, ClientOrder, ErrorsFew, ServerStream, AnsweredFrom, Stage

LEMMA OrderTypes ==
    ASSUME TypeOK
    PROVE  /\ peer["server"] \in PeerRecord /\ peer["client"] \in PeerRecord
           /\ wire["server"] \in Seq(Bytes) /\ wire["client"] \in Seq(Bytes)
           /\ jobs \in Seq(Jobs) /\ retryTimer \in Nat
           /\ wire \in [Ends -> Seq(Bytes)] /\ peer \in [Ends -> PeerRecord]
BY EndsFacts DEF TypeOK, Bytes, Jobs

LEMMA OrderTypesNext ==
    ASSUME TypeOK'
    PROVE  /\ peer'["server"] \in PeerRecord /\ peer'["client"] \in PeerRecord
           /\ wire'["server"] \in Seq(Bytes) /\ wire'["client"] \in Seq(Bytes)
           /\ jobs' \in Seq(Jobs) /\ retryTimer' \in Nat
BY EndsFacts DEF TypeOK, Bytes, Jobs

\* The streams after a packet was written.
LEMMA WriteFacts ==
    ASSUME TypeOK, foreign = "none", NEW e \in Ends, NEW u \in Seq(Bytes)
    PROVE  /\ Write(e, u)[e] = wire[e]
           /\ IF Live(e) /\ Live(Other(e)) /\ link # "cut"
              THEN Write(e, u)[Other(e)] = wire[Other(e)] \o u
              ELSE Write(e, u)[Other(e)] = wire[Other(e)]
           /\ ReadAndWrite(e, u)[e] = Tail(wire[e])
           /\ ReadAndWrite(e, u)[Other(e)] = Write(e, u)[Other(e)]
<1>1. wire \in [Ends -> Seq(Bytes)]
    BY DEF TypeOK, Bytes
<1>2. Own(Other(e))
    BY EndsFacts DEF Own, Ends
<1> QED
    BY <1>1, <1>2, EndsFacts DEF Write, ReadAndWrite, Reachable

\* An end that was connecting or connected aborts.
LEMMA OrderAbort ==
    ASSUME TypeOK, TypeOK', OrderInv, foreign = "none", NEW e \in Ends, Abort(e),
           UNCHANGED <<jobs, link>>, ErrorsFew(error', link)
    PROVE  OrderInv'
<1> USE EndsFacts, OrderTypes
<1>1. PICK n \in 0 .. Len(wire[Other(e)]) :
          wire' = [x \in Ends |->
                     IF x = Other(e) /\ Reachable(Other(e))
                     THEN SubSeq(wire[Other(e)], 1, n) \o <<"fin">> ELSE <<>>]
    BY DEF Abort
<1>2. /\ peer'[e].sock = "unconnected" /\ peer'[Other(e)] = peer[Other(e)]
      /\ e = "client" => retryTimer' = 0
      /\ e = "server" => retryTimer' = retryTimer
    BY DEF Abort, Clean, ClientTimersStop
<1>3. /\ ServerOrder(peer["server"], jobs, wire["server"], link)
      /\ ClientOrder(peer["client"], retryTimer, peer["server"], wire["client"], link)
    BY DEF OrderInv
<1>4. CASE e = "client"
  <2>1. ClientOrder(peer'["client"], retryTimer', peer'["server"], wire'["client"], link')
      BY <1>2, <1>4, ClientNotConnected
  <2>2. ServerOrder(peer["server"], jobs, wire'["server"], link)
    <3>1. CASE Reachable("server")
        BY <1>1, <1>3, <1>4, <3>1, ServerLosesEnd DEF Other
    <3>2. CASE ~Reachable("server")
      <4>1. wire'["server"] = <<>>
          BY <1>1, <1>4, <3>2 DEF Other
      <4>2. CASE link = "cut"
          BY <1>3, <4>1, <4>2, ServerCut
      <4>3. CASE peer["server"].sock # "connected"
          BY <4>3 DEF ServerOrder
      <4> QED
          BY <3>2, <4>2, <4>3 DEF Reachable, Live
    <3> QED
        BY <3>1, <3>2
  <2>3. peer'["server"] = peer["server"]
      BY <1>2, <1>4 DEF Other
  <2> QED
      BY <2>1, <2>2, <2>3, OrderPrimed
<1>5. CASE e = "server"
  <2>1. ServerOrder(peer'["server"], jobs', wire'["server"], link')
      BY <1>2, <1>5 DEF ServerOrder
  <2>2. ClientOrder(peer["client"], retryTimer, peer'["server"], wire'["client"], link)
    <3>1. CASE Reachable("client")
        BY <1>1, <1>2, <1>3, <1>5, <3>1, ClientLosesEnd DEF Other
    <3>2. CASE ~Reachable("client")
      <4>1. wire'["client"] = <<>>
          BY <1>1, <1>5, <3>2 DEF Other
      <4>2. CASE link = "cut"
        <5>1. peer'["server"].sock # "connected" /\ link # "prompt"
            BY <1>2, <1>5, <4>2
        <5> QED
            BY <1>3, <4>1, <5>1, ClientCut
      <4>3. CASE peer["client"].sock # "connected"
          BY <1>3, <4>3 DEF ClientOrder
      <4> QED
          BY <3>2, <4>2, <4>3 DEF Reachable, Live
    <3> QED
        BY <3>1, <3>2
  <2>3. peer'["client"] = peer["client"]
      BY <1>2, <1>5 DEF Other
  <2> QED
      BY <1>2, <1>5, <2>1, <2>2, <2>3, OrderPrimed
<1> QED
    BY <1>4, <1>5

LEMMA OrderLeave ==
    ASSUME TypeOK, TypeOK', OrderInv, foreign = "none", NEW e \in Ends, DisconnectFromHost(e),
           e = "client" => UNCHANGED jobs, UNCHANGED <<link, error>>
    PROVE  OrderInv'
<1> USE EndsFacts, OrderTypes
<1>1. /\ peer'[e].sock = "closing" /\ peer'[Other(e)] = peer[Other(e)]
      /\ wire'[Other(e)] = wire[Other(e)]
      /\ e = "client" => retryTimer' = 0
      /\ e = "server" => retryTimer' = retryTimer
    BY DEF DisconnectFromHost, Closing, PeerRecord, ClientTimersStop
<1>2. /\ ServerOrder(peer["server"], jobs, wire["server"], link)
      /\ ClientOrder(peer["client"], retryTimer, peer["server"], wire["client"], link)
      /\ ErrorsFew(error', link')
    BY DEF OrderInv
<1>3. CASE e = "client"
  <2>1. ClientOrder(peer'["client"], retryTimer', peer'["server"], wire'["client"], link')
      BY <1>1, <1>3, ClientNotConnected
  <2>2. peer'["server"] = peer["server"] /\ wire'["server"] = wire["server"]
      BY <1>1, <1>3 DEF Other
  <2> QED
      BY <1>2, <1>3, <2>1, <2>2, OrderPrimed
<1>4. CASE e = "server"
  <2>1. ServerOrder(peer'["server"], jobs', wire'["server"], link')
      BY <1>1, <1>4 DEF ServerOrder
  <2>2. peer'["client"] = peer["client"] /\ wire'["client"] = wire["client"]
      BY <1>1, <1>4 DEF Other
  <2>3. ClientOrder(peer["client"], retryTimer, peer'["server"], wire["client"], link)
      BY <1>1, <1>2, <1>4, ClientSame
  <2> QED
      BY <1>1, <1>2, <1>4, <2>1, <2>2, <2>3, OrderPrimed
<1> QED
    BY <1>3, <1>4

LEMMA OrderConnections ==
    ASSUME TypeOK, TypeOK', CoverInv, OrderInv, foreign = "none"
    PROVE  /\ ConnectToHost => OrderInv'
           /\ Establish => OrderInv'
           /\ ConnectionFails => OrderInv'
           /\ ServerThreadEnds => OrderInv'
           /\ LinkCut => OrderInv'
           /\ PendingFires => OrderInv'
           /\ \A e \in Ends : /\ Disconnect(e) => OrderInv'
                              /\ RemoteClosed(e) => OrderInv'
                              /\ SocketError(e) => OrderInv'
<1> USE EndsFacts, OrderTypes
<1>1. /\ ServerOrder(peer["server"], jobs, wire["server"], link)
      /\ ClientOrder(peer["client"], retryTimer, peer["server"], wire["client"], link)
      /\ ErrorsFew(error, link)
    BY DEF OrderInv
<1>2. ASSUME ConnectToHost PROVE OrderInv'
  <2>1. /\ peer'["server"] = peer["server"] /\ peer'["client"].sock = "connecting"
        /\ retryTimer' = 0 /\ UNCHANGED <<jobs, wire, link, error>>
      BY <1>1, <1>2 DEF ConnectToHost, Connecting, Clean, clientVars, ClientOrder
  <2>2. ClientOrder(peer'["client"], retryTimer', peer'["server"], wire'["client"], link')
      BY <2>1, ClientNotConnected
  <2> QED
      BY <1>1, <2>1, <2>2, OrderPrimed
<1>3. ASSUME Establish PROVE OrderInv'
  <2>1. /\ jobs' = <<>> /\ retryTimer' = 0
        /\ wire'["server"] = <<"handShake", "authentication">> /\ wire'["client"] = <<>>
        /\ peer'["client"] = HandShaken(Connected) /\ peer'["server"] = Connected
        /\ error'["client"] = "none" /\ error'["server"] = "none"
      BY <1>1, <1>3 DEF Establish, Own, Hello, clientVars, CoverInv, ClientOrder
  <2>2. /\ ~Connected.received /\ ~Connected.authenticated /\ ~Connected.sent
        /\ Connected.keepAliveTimer = 0 /\ Connected.sock = "connected"
      BY DEF Connected, Clean
  <2>3. /\ ~HandShaken(Connected).received /\ HandShaken(Connected).keepAliveTimer = 0
      BY DEF HandShaken, Connected, Clean
  <2>4. /\ Len(<<>>) = 0 /\ Len(<<"handShake", "authentication">>) = 2
        /\ <<"handShake", "authentication">>[1] = "handShake"
        /\ <<"handShake", "authentication">>[2] = "authentication"
      OBVIOUS
  <2>5. Stage(Connected) = 0
      BY <2>2 DEF Stage
  <2>6. ServerStream(Connected, <<"handShake", "authentication">>)
    <3>1. \A i \in 1 .. 2 : i = 1 \/ i = 2
        OBVIOUS
    <3> QED
        BY <2>4, <2>5, <3>1 DEF ServerStream
  <2>7. ServerOrder(peer'["server"], jobs', wire'["server"], link')
      BY <2>1, <2>2, <2>4, <2>5, <2>6 DEF ServerOrder
  <2>8. ClientOrder(peer'["client"], retryTimer', peer'["server"], wire'["client"], link')
      BY <2>1, <2>2, <2>3, <2>4 DEF ClientOrder
  <2> QED
      BY <2>1, <2>7, <2>8, OrderPrimed DEF ErrorsFew
<1>4. ASSUME ServerThreadEnds PROVE OrderInv'
  <2>1. /\ peer'["client"] = peer["client"] /\ peer'["server"].sock = "absent"
        /\ UNCHANGED <<jobs, wire, link, error, retryTimer>>
      BY <1>4 DEF ServerThreadEnds, Clean, clientVars
  <2>2. ServerOrder(peer'["server"], jobs', wire'["server"], link')
      BY <2>1 DEF ServerOrder
  <2>3. ClientOrder(peer["client"], retryTimer, peer'["server"], wire["client"], link)
      BY <1>1, <2>1, ClientSame
  <2> QED
      BY <1>1, <2>1, <2>2, <2>3, OrderPrimed
<1>5. ASSUME LinkCut PROVE OrderInv'
  <2>1. /\ link' = "cut" /\ wire'["server"] = <<>> /\ wire'["client"] = <<>>
        /\ UNCHANGED <<peer, jobs, error, retryTimer>>
      BY <1>5 DEF LinkCut, clientVars
  <2>2. ServerOrder(peer["server"], jobs, <<>>, "cut")
      BY <1>1, ServerCut
  <2>3. ClientOrder(peer["client"], retryTimer, peer["server"], <<>>, "cut")
      BY <1>1, ClientCut
  <2>4. ErrorsFew(error, "cut")
      BY <1>1 DEF ErrorsFew
  <2> QED
      BY <2>1, <2>2, <2>3, <2>4, OrderPrimed
<1>6. ASSUME ConnectionFails PROVE OrderInv'
    BY <1>1, <1>6, OrderAbort DEF ConnectionFails
<1>7. ASSUME PendingFires PROVE OrderInv'
    BY <1>1, <1>7, OrderAbort DEF PendingFires
<1>8. ASSUME NEW e \in Ends, Disconnect(e) PROVE OrderInv'
    BY <1>1, <1>8, OrderAbort, OrderLeave DEF Disconnect
<1>9. ASSUME NEW e \in Ends, RemoteClosed(e) PROVE OrderInv'
    BY <1>1, <1>9, OrderAbort DEF RemoteClosed
<1>10. ASSUME NEW e \in Ends, SocketError(e) PROVE OrderInv'
    BY <1>1, <1>10, OrderAbort DEF SocketError
<1> QED
    BY <1>2, <1>3, <1>4, <1>5, <1>6, <1>7, <1>8, <1>9, <1>10

LEMMA OrderCloses ==
    ASSUME TypeOK, TypeOK', OrderInv, foreign = "none", NEW e \in Ends, CloseEnds(e)
    PROVE  OrderInv'
<1> USE EndsFacts, OrderTypes
<1>1. /\ ServerOrder(peer["server"], jobs, wire["server"], link)
      /\ ClientOrder(peer["client"], retryTimer, peer["server"], wire["client"], link)
      /\ ErrorsFew(error, link)
    BY DEF OrderInv
<1>2. /\ peer[e].sock = "closing" /\ peer'[e].sock = "unconnected"
      /\ peer'[Other(e)] = peer[Other(e)] /\ wire'[e] = wire[e]
      /\ UNCHANGED <<jobs, link, error, retryTimer>>
    BY DEF CloseEnds, Clean, clientVars
<1>3. \/ wire'[Other(e)] = wire[Other(e)] \o <<"fin">>
      \/ wire'[Other(e)] = wire[Other(e)]
  <2>1. Append(wire[Other(e)], "fin") = wire[Other(e)] \o <<"fin">>
      BY AppendIsConcat, PacketKinds
  <2>2. wire' = [wire EXCEPT ![Other(e)] =
                   IF Reachable(Other(e)) THEN Append(@, "fin") ELSE @]
      BY DEF CloseEnds
  <2> QED
      BY <2>1, <2>2
<1>4. CASE e = "client"
  <2>1. retryTimer' = 0
      BY <1>1, <1>2, <1>4 DEF ClientOrder
  <2>2. ClientOrder(peer'["client"], retryTimer', peer'["server"], wire'["client"], link')
      BY <1>2, <1>4, <2>1, ClientNotConnected
  <2>3. ServerOrder(peer["server"], jobs, wire["server"] \o <<"fin">>, link)
    <3>1. \E u \in Seq(Bytes) : u = <<"fin">> /\ \A i \in 1 .. Len(u) : u[i] = "fin"
        BY StreamOne, PacketKinds
    <3> QED
        BY <1>1, <3>1, ServerGets
  <2>4. ServerOrder(peer'["server"], jobs', wire'["server"], link')
      BY <1>1, <1>2, <1>3, <1>4, <2>3 DEF Other
  <2> QED
      BY <1>1, <1>2, <2>2, <2>4, OrderPrimed
<1>5. CASE e = "server"
  <2>1. ServerOrder(peer'["server"], jobs', wire'["server"], link')
      BY <1>2, <1>5 DEF ServerOrder
  <2>2. ClientOrder(peer["client"], retryTimer, peer'["server"], wire["client"], link)
      BY <1>1, <1>2, <1>5, ClientSame
  <2>3. ClientOrder(peer["client"], retryTimer, peer'["server"], wire["client"] \o <<"fin">>, link)
      BY <1>2, <1>5, <2>2, ClientGets, PacketKinds
  <2>4. ClientOrder(peer'["client"], retryTimer', peer'["server"], wire'["client"], link')
      BY <1>2, <1>3, <1>5, <2>2, <2>3 DEF Other
  <2> QED
      BY <1>1, <1>2, <2>1, <2>4, OrderPrimed
<1> QED
    BY <1>4, <1>5

\* The client writes packets of a client that has been answered.
LEMMA OrderClientWrites ==
    ASSUME TypeOK, TypeOK', OrderInv, foreign = "none",
           NEW u \in Seq(Bytes), \A i \in 1 .. Len(u) : u[i] \in ClientSends,
           Live("client") => peer["client"].received
    PROVE  ServerOrder(peer["server"], jobs, Write("client", u)["server"], link)
<1> USE EndsFacts, OrderTypes
<1>1. ServerOrder(peer["server"], jobs, wire["server"], link)
    BY DEF OrderInv
<1>2. CASE Live("client") /\ Live("server") /\ link # "cut"
  <2>1. peer["server"].sent
      BY <1>2 DEF OrderInv, ClientOrder, Live
  <2>2. ServerOrder(peer["server"], jobs, wire["server"] \o u, link)
      BY <1>1, <2>1, ServerGets
  <2> QED
      BY <1>2, <2>2, WriteFacts DEF Other
<1>3. CASE ~(Live("client") /\ Live("server") /\ link # "cut")
  <2>1. Write("client", u)["server"] = wire["server"]
      BY <1>3, WriteFacts DEF Other
  <2> QED
      BY <1>1, <2>1
<1> QED
    BY <1>2, <1>3

LEMMA OneIsSent ==
    ASSUME NEW x \in ClientSends
    PROVE  <<x>> \in Seq(Bytes) /\ \A i \in 1 .. Len(<<x>>) : <<x>>[i] \in ClientSends
<1>1. x \in Bytes
    BY PacketKinds DEF ClientSends, Bytes
<1> QED
    BY <1>1, StreamOne

LEMMA OrderSends ==
    ASSUME TypeOK, TypeOK', OrderInv, foreign = "none"
    PROVE  /\ AskSeedUrl => OrderInv'
           /\ SendNodes => OrderInv'
           /\ RetryFires => OrderInv'
           /\ \A e \in Ends : KeepAliveFires(e) => OrderInv'
<1> USE EndsFacts, OrderTypes, OrderTypesNext
<1>1. /\ ServerOrder(peer["server"], jobs, wire["server"], link)
      /\ ClientOrder(peer["client"], retryTimer, peer["server"], wire["client"], link)
      /\ ErrorsFew(error, link)
    BY DEF OrderInv
<1>2. ASSUME NEW x \in ClientSends, wire' = Write("client", <<x>>), UNCHANGED <<peer, jobs, link, error>>,
             Live("client") => peer["client"].received, retryTimer = 0 => retryTimer' = 0
      PROVE  OrderInv'
  <2>1. ServerOrder(peer["server"], jobs, Write("client", <<x>>)["server"], link)
      BY <1>2, OneIsSent, OrderClientWrites
  <2>2. Write("client", <<x>>)["client"] = wire["client"]
      BY OneIsSent, WriteFacts
  <2>3. ClientOrder(peer["client"], retryTimer', peer["server"], wire["client"], link)
      BY <1>1, <1>2, ClientSame
  <2> QED
      BY <1>1, <1>2, <2>1, <2>2, <2>3, OrderPrimed
<1>3. {"seedUrlRequest", "nodes", "keepAlive"} \subseteq ClientSends
    BY DEF ClientSends, Requests
<1>4. ASSUME AskSeedUrl PROVE OrderInv'
    BY <1>2, <1>3, <1>4 DEF AskSeedUrl, SendSeedUrlRequest, ClientReady
<1>5. ASSUME SendNodes PROVE OrderInv'
    BY <1>2, <1>3, <1>5 DEF SendNodes, ClientReady, clientVars
<1>6. ASSUME RetryFires PROVE OrderInv'
  <2>1. Live("client") => peer["client"].received
      BY <1>1, <1>6 DEF RetryFires, ClientOrder, Live
  <2> QED
      BY <1>2, <1>3, <1>6, <2>1 DEF RetryFires, SendSeedUrlRequest
<1>7. StartTimer(KeepAliveInterval) \in Nat /\ StartTimer(KeepAliveInterval) # 1
    BY DEF StartTimer
<1>8. ASSUME NEW e \in Ends, KeepAliveFires(e) PROVE OrderInv'
  <2>1. /\ peer[e].keepAliveTimer = 1
        /\ peer'[e] = [peer[e] EXCEPT !.keepAliveTimer = StartTimer(KeepAliveInterval)]
        /\ peer'[Other(e)] = peer[Other(e)]
        /\ wire' = Write(e, <<"keepAlive">>)
        /\ UNCHANGED <<retryTimer, jobs, link, error>>
      BY <1>8 DEF KeepAliveFires, clientVars
  <2>2. /\ Alike(peer[e], peer'[e]) /\ peer[e] \in PeerRecord /\ peer'[e] \in PeerRecord
        /\ peer'[e].keepAliveTimer = StartTimer(KeepAliveInterval)
    <3>1. peer[e] \in PeerRecord
        OBVIOUS
    <3> HIDE EndsFacts, OrderTypes, OrderTypesNext
    <3>2. Alike(peer[e], peer'[e]) /\ peer'[e].keepAliveTimer = StartTimer(KeepAliveInterval)
        BY <2>1, <3>1 DEF Alike, PeerRecord
    <3>3. peer'[e] \in PeerRecord
        BY EndsFacts, OrderTypesNext
    <3> QED
        BY <3>1, <3>2, <3>3
  <2>3. CASE e = "client"
    <3>1. Live("client") => peer["client"].received
        BY <1>1, <2>1, <2>3 DEF ClientOrder, Live
    <3>2. ServerOrder(peer["server"], jobs, Write("client", <<"keepAlive">>)["server"], link)
        BY <1>3, <3>1, OneIsSent, OrderClientWrites
    <3>3. Write("client", <<"keepAlive">>)["client"] = wire["client"]
        BY <1>3, OneIsSent, WriteFacts
    <3>4. ClientOrder(peer'["client"], retryTimer, peer["server"], wire["client"], link)
      <4>1. CASE Live("client")
        <5>1. /\ peer'["client"].sock = peer["client"].sock
              /\ peer'["client"].received = peer["client"].received
            BY <2>2, <2>3 DEF Alike
        <5> QED
            BY <1>1, <3>1, <4>1, <5>1, ClientSame
      <4>2. CASE ~Live("client")
          BY <1>1, <2>2, <2>3, <4>2, ClientNotConnected DEF Alike, Live, ClientOrder
      <4> QED
          BY <4>1, <4>2
    <3> QED
        BY <1>1, <2>1, <2>3, <3>2, <3>3, <3>4, OrderPrimed DEF Other
  <2>4. CASE e = "server"
    <3>1. ServerOrder(peer'["server"], jobs, wire["server"], link)
      <4>1. peer["server"].sock = "connected" => peer["server"].received
          BY <1>1, <2>1, <2>4 DEF ServerOrder
      <4> QED
          BY <1>1, <1>7, <2>2, <2>4, <4>1, ServerSame
    <3>2. ClientOrder(peer["client"], retryTimer, peer["server"], wire'["client"], link)
      <4>1. CASE Live("server") /\ Live("client") /\ link # "cut"
        <5>1. wire'["client"] = wire["client"] \o <<"keepAlive">>
            BY <2>1, <2>4, <4>1, <1>3, OneIsSent, WriteFacts DEF Other
        <5>2. peer["server"].sent \/ link # "prompt"
            BY <1>1, <2>1, <2>4, <4>1 DEF ServerOrder, Live
        <5>3. "keepAlive" \in ServerSends /\ "keepAlive" \in Bytes
            BY PacketKinds DEF ServerSends
        <5> QED
            BY <1>1, <4>1, <5>1, <5>2, <5>3, ClientGets DEF Live
      <4>2. CASE ~(Live("server") /\ Live("client") /\ link # "cut")
        <5>1. wire'["client"] = wire["client"]
            BY <2>1, <2>4, <4>2, <1>3, OneIsSent, WriteFacts DEF Other
        <5> QED
            BY <1>1, <5>1
      <4> QED
          BY <4>1, <4>2
    <3>3. ClientOrder(peer["client"], retryTimer, peer'["server"], wire'["client"], link)
      <4>1. wire'["client"] \in Seq(Bytes)
          OBVIOUS
      <4> QED
          BY <2>2, <2>4, <3>2, ClientSame DEF Alike
    <3>4. wire'["server"] = wire["server"] /\ peer'["client"] = peer["client"]
        BY <2>1, <2>4, <1>3, OneIsSent, WriteFacts DEF Other
    <3> QED
        BY <1>1, <2>1, <3>1, <3>3, <3>4, OrderPrimed
  <2> QED
      BY <2>3, <2>4
<1> QED
    BY <1>4, <1>5, <1>6, <1>8

LEMMA OrderTimers ==
    ASSUME TypeOK, TypeOK', OrderInv, foreign = "none"
    PROVE  /\ Tick => OrderInv'
           /\ \A e \in Ends : TimeoutFires(e) => OrderInv'
<1> USE EndsFacts, OrderTypes, OrderTypesNext
<1>1. /\ ServerOrder(peer["server"], jobs, wire["server"], link)
      /\ ClientOrder(peer["client"], retryTimer, peer["server"], wire["client"], link)
      /\ ErrorsFew(error, link)
    BY DEF OrderInv
<1>2. \A n \in Nat : Less(n) \in Nat /\ (n = 0 => Less(n) = 0) /\ (Less(n) > 0 => n > 0)
    BY DEF Less
<1>3. ASSUME Tick PROVE OrderInv'
  <2>1. /\ UNCHANGED <<jobs, wire, link, error>> /\ retryTimer' = Less(retryTimer) /\ jobs = <<>>
        /\ \A e \in Ends : peer'[e] = [peer[e] EXCEPT !.timeoutTimer = Less(@),
                                                      !.keepAliveTimer = Less(@)]
        /\ link = "prompt" => wire["server"] = <<>>
      BY <1>3 DEF Tick, Quiet
  <2>2. \A e \in Ends : /\ Alike(peer[e], peer'[e])
                        /\ peer'[e].keepAliveTimer = Less(peer[e].keepAliveTimer)
                        /\ peer[e].keepAliveTimer \in Nat
    <3> SUFFICES ASSUME NEW e \in Ends
                 PROVE  /\ Alike(peer[e], peer'[e])
                        /\ peer'[e].keepAliveTimer = Less(peer[e].keepAliveTimer)
                        /\ peer[e].keepAliveTimer \in Nat
        OBVIOUS
    <3>1. peer[e] \in PeerRecord
        OBVIOUS
    <3> HIDE EndsFacts, OrderTypes, OrderTypesNext
    <3> QED
        BY <2>1, <3>1 DEF Alike, PeerRecord
  <2>3. Len(<<>>) = 0
      OBVIOUS
  <2>4. link = "prompt" /\ peer["server"].sock = "connected" => peer["server"].sent
    <3>1. peer["server"].sock = "connected" /\ ~peer["server"].authenticated => Stage(peer["server"]) \in {0, 1}
        BY DEF Stage
    <3> QED
        BY <1>1, <2>1, <2>3, <3>1 DEF ServerOrder
  <2>5. ServerOrder(peer'["server"], jobs, wire["server"], link)
    <3>1. peer["server"].sock = "connected" /\ peer'["server"].keepAliveTimer > 0 => peer["server"].received
        BY <1>1, <1>2, <2>2 DEF ServerOrder
    <3> QED
        BY <1>1, <2>2, <2>4, <3>1, ServerSame
  <2>6. ClientOrder(peer'["client"], retryTimer', peer'["server"], wire["client"], link)
    <3>1. peer["client"].sock = "connected" /\ ~peer["client"].received
             => peer'["client"].keepAliveTimer = 0
        BY <1>1, <1>2, <2>2 DEF ClientOrder
    <3>2. CASE peer["client"].sock = "connected"
      <4>1. /\ peer'["client"].sock = peer["client"].sock
            /\ peer'["client"].received = peer["client"].received
            /\ peer'["server"].sock = peer["server"].sock /\ peer'["server"].sent = peer["server"].sent
            /\ retryTimer = 0 => retryTimer' = 0
          BY <1>2, <2>1, <2>2 DEF Alike
      <4> QED
          BY <1>1, <3>1, <3>2, <4>1, ClientSame
    <3>3. CASE peer["client"].sock # "connected"
        BY <1>1, <1>2, <2>1, <2>2, <3>3, ClientNotConnected DEF Alike, ClientOrder
    <3> QED
        BY <3>2, <3>3
  <2> QED
      BY <1>1, <2>1, <2>5, <2>6, OrderPrimed
<1>4. ASSUME NEW e \in Ends, TimeoutFires(e) PROVE OrderInv'
  <2>1. CASE Abort(e)
      BY <1>1, <1>4, <2>1, OrderAbort DEF TimeoutFires
  <2>2. CASE /\ peer' = [peer EXCEPT ![e].invalidate = FALSE,
                                     ![e].timeoutTimer = StartTimer(Period(peer[e]))]
             /\ UNCHANGED <<clientVars, wire>>
    <3>1. UNCHANGED <<retryTimer, jobs, wire, link, error>>
        BY <1>4, <2>2 DEF TimeoutFires, clientVars
    <3>2. \A x \in Ends : Alike(peer[x], peer'[x]) /\ peer'[x].keepAliveTimer = peer[x].keepAliveTimer
      <4>1. peer'[Other(e)] = peer[Other(e)]
          BY <2>2
      <4>2. peer'[e] = [[peer[e] EXCEPT !.invalidate = FALSE] EXCEPT !.timeoutTimer = StartTimer(Period(peer[e]))]
          BY <2>2
      <4>3. Alike(peer[e], peer'[e]) /\ peer'[e].keepAliveTimer = peer[e].keepAliveTimer
          BY <4>2 DEF Alike, PeerRecord
      <4> QED
          BY <4>1, <4>3 DEF Alike, Other
    <3>3. ServerOrder(peer'["server"], jobs, wire["server"], link)
      <4>1. peer["server"].sock = "connected" =>
                /\ peer["server"].keepAliveTimer > 0 => peer["server"].received
                /\ link = "prompt" /\ ~peer["server"].sent => peer["server"].keepAliveTimer # 1
          BY <1>1 DEF ServerOrder
      <4> QED
          BY <1>1, <3>2, <4>1, ServerSame
    <3>4. ClientOrder(peer'["client"], retryTimer, peer'["server"], wire["client"], link)
      <4>1. /\ peer'["client"].sock = peer["client"].sock
            /\ peer'["client"].received = peer["client"].received
            /\ peer'["client"].keepAliveTimer = peer["client"].keepAliveTimer
            /\ peer'["server"].sock = peer["server"].sock /\ peer'["server"].sent = peer["server"].sent
          BY <3>2 DEF Alike
      <4> QED
          BY <1>1, <4>1, ClientSame
    <3> QED
        BY <1>1, <3>1, <3>3, <3>4, OrderPrimed
  <2> QED
      BY <1>4, <2>1, <2>2 DEF TimeoutFires
<1> QED
    BY <1>3, <1>4

\* The main thread accepts or refuses the client, or answers a request.
LEMMA OrderMain ==
    ASSUME TypeOK, TypeOK', OrderInv, foreign = "none", MainThread
    PROVE  OrderInv'
<1> USE EndsFacts, OrderTypes, OrderTypesNext
<1>1. /\ ServerOrder(peer["server"], jobs, wire["server"], link)
      /\ ClientOrder(peer["client"], retryTimer, peer["server"], wire["client"], link)
      /\ ErrorsFew(error, link)
    BY DEF OrderInv
<1>2. jobs # <<>> /\ jobs' = Tail(jobs) /\ UNCHANGED <<link, error>>
    BY DEF MainThread
<1>3. ASSUME Live("server")
      PROVE  /\ Head(jobs) = "authenticated" =>
                   ~peer["server"].sent
                   /\ ServerOrder(HandShaken(peer["server"]), Tail(jobs), wire["server"], link)
             /\ Head(jobs) # "authenticated" =>
                   peer["server"].sent /\ ServerOrder(peer["server"], Tail(jobs), wire["server"], link)
  <2>1. HandShaken(peer["server"]) \in PeerRecord
      BY PeerStates
  <2> QED
      BY <1>1, <1>2, <1>3, <2>1, ServerAnswers DEF Live
<1>4. CASE /\ Head(jobs) = "authenticated"
           /\ peer' = [peer EXCEPT !["server"] = HandShaken(@)]
           /\ wire' = Write("server", <<"handShake">>)
           /\ UNCHANGED clientVars
  <2>1. /\ peer'["server"] = HandShaken(peer["server"]) /\ peer'["client"] = peer["client"]
        /\ retryTimer' = retryTimer
      BY <1>4 DEF clientVars
  <2>2. peer'["server"].sent /\ peer'["server"].sock = peer["server"].sock
      BY <2>1 DEF HandShaken, PeerRecord
  <2>3. "handShake" \in Bytes /\ <<"handShake">> \in Seq(Bytes)
      BY PacketKinds
  <2>4. /\ wire'["server"] = wire["server"]
        /\ IF Live("server") /\ Live("client") /\ link # "cut"
           THEN wire'["client"] = wire["client"] \o <<"handShake">>
           ELSE wire'["client"] = wire["client"]
      BY <1>4, <2>3, WriteFacts DEF Other
  <2>5. ServerOrder(peer'["server"], jobs', wire'["server"], link')
    <3>1. CASE Live("server")
        BY <1>2, <1>3, <1>4, <2>1, <2>4, <3>1
    <3>2. CASE ~Live("server")
        BY <2>2, <3>2 DEF ServerOrder, Live
    <3> QED
        BY <3>1, <3>2
  <2>6. ClientOrder(peer["client"], retryTimer, peer'["server"], wire'["client"], link)
    <3>1. CASE Live("server") /\ Live("client") /\ link # "cut"
      <4>1. peer["server"].sock = "connected" /\ ~peer["server"].sent
          BY <1>3, <1>4, <3>1 DEF Live
      <4>2. ClientOrder(peer["client"], retryTimer, peer'["server"],
                        wire["client"] \o <<"handShake">>, link)
          BY <1>1, <2>2, <4>1, ClientGetsHandShake
      <4> QED
          BY <2>4, <3>1, <4>2
    <3>2. CASE Live("server") /\ link = "cut"
        BY <1>1, <2>2, <2>4, <3>2, ClientMissesHandShake DEF Live
    <3>3. CASE ~Live("client")
        BY <1>1, <3>3 DEF ClientOrder, Live
    <3>4. CASE ~Live("server")
        BY <1>1, <2>2, <2>4, <3>4, ClientSame DEF Live
    <3> QED
        BY <3>1, <3>2, <3>3, <3>4
  <2> QED
      BY <1>1, <1>2, <2>1, <2>5, <2>6, OrderPrimed
<1>5. CASE Live("server") /\ DisconnectFromHost("server")
    BY <1>2, <1>5, OrderLeave
<1>6. CASE /\ Head(jobs) = "authenticated" /\ ~Live("server") /\ UNCHANGED <<peer, clientVars, wire>>
    BY <1>1, <1>2, <1>6, OrderPrimed DEF clientVars, Live, ServerOrder
<1>7. CASE Head(jobs) # "authenticated" /\ Answer(Head(jobs))
  <2>1. UNCHANGED <<peer, retryTimer>>
      BY <1>7 DEF Answer, clientVars
  <2>2. PICK p \in Answers \cup Denials : wire' = Write("server", <<p>>)
      BY <1>7 DEF Answer, Answers, Denials
  <2>3. p \in Bytes /\ <<p>> \in Seq(Bytes) /\ p \in ServerSends
      BY PacketKinds DEF ServerSends, Bytes
  <2>4. /\ wire'["server"] = wire["server"]
        /\ IF Live("server") /\ Live("client") /\ link # "cut"
           THEN wire'["client"] = wire["client"] \o <<p>>
           ELSE wire'["client"] = wire["client"]
      BY <2>2, <2>3, WriteFacts DEF Other
  <2>5. ServerOrder(peer["server"], jobs', wire'["server"], link)
    <3>1. CASE Live("server")
        BY <1>2, <1>3, <1>7, <2>4, <3>1
    <3>2. CASE ~Live("server")
        BY <3>2 DEF ServerOrder, Live
    <3> QED
        BY <3>1, <3>2
  <2>6. ClientOrder(peer["client"], retryTimer, peer["server"], wire'["client"], link)
    <3>1. CASE Live("server") /\ Live("client") /\ link # "cut"
      <4>1. peer["server"].sock = "connected" /\ peer["server"].sent
          BY <1>3, <1>7, <3>1 DEF Live
      <4>2. ClientOrder(peer["client"], retryTimer, peer["server"], wire["client"] \o <<p>>, link)
          BY <1>1, <2>3, <4>1, ClientGets
      <4> QED
          BY <2>4, <3>1, <4>2
    <3>2. CASE ~(Live("server") /\ Live("client") /\ link # "cut")
      <4>1. wire'["client"] = wire["client"]
          BY <2>4, <3>2
      <4> QED
          BY <1>1, <4>1
    <3> QED
        BY <3>1, <3>2
  <2> QED
      BY <1>1, <1>2, <2>1, <2>5, <2>6, OrderPrimed
<1> QED
    BY <1>4, <1>5, <1>6, <1>7 DEF MainThread, AcceptOrRefuse

\* A response or a denial at the head of the client's stream is pending.
LEMMA AnswerIsPending ==
    ASSUME TypeOK, CoverInv, foreign = "none", Live("client"), wire["client"] # <<>>,
           Head(wire["client"]) \in Answers \cup Denials
    PROVE  pending[RequestOf(Head(wire["client"]))] > 0
<1> PICK p : p = Head(wire["client"])
    OBVIOUS
<1> PICK r : r = RequestOf(p)
    OBVIOUS
<1>1. r \in Requests /\ p \in AnswersTo(r)
    BY DEF RequestOf, Requests, AnswersTo, Answers, Denials
<1>2. Out(wire, jobs, r) <= pending[r]
    BY <1>1 DEF CoverInv
<1>3. One(p, AnswersTo(r)) = 1
    BY <1>1 DEF One
<1>4. \E a, b, c, d \in Nat : /\ a + One(p, AnswersTo(r)) = b /\ b = Count(wire["client"], AnswersTo(r))
                              /\ c = Count(wire["server"], {r}) /\ d = Count(jobs, {r})
  <2>1. "client" \in Ends /\ "server" \in Ends
      BY EndsFacts
  <2>2. /\ Count(Tail(wire["client"]), AnswersTo(r)) + One(Head(wire["client"]), AnswersTo(r))
             = Count(wire["client"], AnswersTo(r))
        /\ Count(Tail(wire["client"]), AnswersTo(r)) \in Nat
      BY <2>1, ReadCount
  <2>3. /\ Count(wire["client"], AnswersTo(r)) \in Nat
        /\ Count(wire["server"], {r}) \in Nat /\ Count(jobs, {r}) \in Nat
      BY <2>1, CountTypes
  <2> QED
      BY <2>2, <2>3
<1>5. Out(wire, jobs, r) \in Nat /\ Out(wire, jobs, r) > 0
    BY <1>3, <1>4 DEF Out
<1>6. pending[r] \in Nat
    BY <1>1 DEF TypeOK, RequestCounts
<1> QED
    BY <1>2, <1>5, <1>6

LEMMA TouchedFacts ==
    ASSUME TypeOK, NEW e \in Ends
    PROVE  LET q == Touched(e) IN
           /\ q \in PeerRecord /\ q.sock = peer[e].sock /\ q.received
           /\ q.sent = peer[e].sent /\ q.authenticated = peer[e].authenticated
           /\ q.keepAliveTimer # 1
           /\ [q EXCEPT !.authenticated = TRUE] \in PeerRecord
           /\ [q EXCEPT !.authenticated = TRUE].authenticated
           /\ [q EXCEPT !.authenticated = TRUE].sock = peer[e].sock
           /\ [q EXCEPT !.authenticated = TRUE].received
           /\ [q EXCEPT !.authenticated = TRUE].sent = peer[e].sent
           /\ [q EXCEPT !.authenticated = TRUE].keepAliveTimer # 1
<1>1. peer[e] \in PeerRecord
    BY DEF TypeOK
<1>2. StartTimer(KeepAliveInterval) \in Nat /\ StartTimer(KeepAliveInterval) # 1
    BY DEF StartTimer
<1>3. PICK p \in PeerRecord : p = peer[e]
    BY <1>1
<1>4. PICK k \in Nat : k = StartTimer(KeepAliveInterval)
    BY <1>2
<1>5. PICK q : q = [[[p EXCEPT !.invalidate = TRUE] EXCEPT !.received = TRUE] EXCEPT !.keepAliveTimer = k]
    OBVIOUS
<1>6. Touched(e) = q
    BY <1>3, <1>4, <1>5 DEF Touched
<1>7. /\ q \in PeerRecord /\ q.sock = p.sock /\ q.received
      /\ q.sent = p.sent /\ q.authenticated = p.authenticated
      /\ q.keepAliveTimer = k
    BY <1>5 DEF PeerRecord
<1>8. PICK r : r = [q EXCEPT !.authenticated = TRUE]
    OBVIOUS
<1>9. /\ r \in PeerRecord /\ r.authenticated /\ r.sock = p.sock /\ r.received /\ r.sent = p.sent
      /\ r.keepAliveTimer = k
    BY <1>7, <1>8 DEF PeerRecord
<1> QED
    BY <1>2, <1>3, <1>4, <1>6, <1>7, <1>8, <1>9

\* What the server does with a packet of a MyCrawler client.
LEMMA ServerReceives ==
    ASSUME TypeOK, OrderInv, foreign = "none", Receive("server")
    PROVE  LET q == peer["server"]
               p == Head(wire["server"]) IN
           /\ UNCHANGED <<pendingTimer, retryTimer, error, link>>
           /\ \/ /\ ~q.received /\ peer' = [peer EXCEPT !["server"] = Touched("server")]
                 /\ p = "handShake" /\ jobs' = jobs /\ wire' = Read("server")
              \/ /\ q.received /\ ~q.authenticated
                 /\ peer' = [peer EXCEPT !["server"] = [Touched("server") EXCEPT !.authenticated = TRUE]]
                 /\ p = "authentication" /\ jobs' = Append(jobs, "authenticated") /\ wire' = Read("server")
              \/ /\ q.authenticated /\ q.sent /\ peer' = [peer EXCEPT !["server"] = Touched("server")]
                 /\ jobs' = IF p \in Requests THEN Append(jobs, p) ELSE jobs
                 /\ wire' = IF p = "keepAlive" THEN ReadAndWrite("server", <<"keepAliveAck">>)
                            ELSE Read("server")
<1> DEFINE q == peer["server"]
           p == Head(wire["server"])
<1>1. /\ q \in PeerRecord /\ wire["server"] \in Seq(Bytes)
      /\ ServerOrder(q, jobs, wire["server"], link)
      /\ q.sock = "connected" /\ wire["server"] # <<>> /\ p # "fin"
      /\ UNCHANGED link
    BY OrderTypes DEF OrderInv, Receive, Live
<1>2. /\ ~q.received => p = "handShake"
      /\ q.received /\ ~q.authenticated => p = "authentication"
      /\ q.authenticated => q.received /\ q.sent /\ p \in ClientSends
    BY <1>1, ServerHead
<1>3. \/ ReceiveHandShake("server", p) \/ ReceiveResponse("server", p)
      \/ ReceiveAuthentication("server", p)
      \/ /\ q.received /\ q.authenticated
         /\ \/ ReceiveKeepAlive("server", p) \/ ReceiveRequest("server", p) \/ ReceiveDenied("server", p)
            \/ ReceiveRefusal("server", p) \/ ReceiveOther("server", p)
    BY DEF Receive
<1> HIDE DEF p
<1>4. CASE ~q.received
  <2>1. ReceiveHandShake("server", p) /\ p = "handShake"
      BY <1>2, <1>3, <1>4 DEF ReceiveResponse, ReceiveAuthentication
  <2> QED
      BY <1>1, <1>4, <2>1 DEF ReceiveHandShake, p
<1>5. CASE q.received /\ ~q.authenticated
  <2>1. ReceiveAuthentication("server", p) /\ p = "authentication"
      BY <1>2, <1>3, <1>5 DEF ReceiveHandShake, ReceiveResponse, Answers
  <2> QED
      BY <1>1, <1>5, <2>1 DEF ReceiveAuthentication, clientVars, p
<1>6. CASE q.authenticated
  <2>1. q.received /\ q.sent /\ p \in ClientSends
      BY <1>2, <1>6
  <2>2. \/ ReceiveKeepAlive("server", p) \/ ReceiveRequest("server", p)
        \/ ReceiveOther("server", p)
      BY <1>3, <1>6, <2>1 DEF ReceiveHandShake, ReceiveResponse, ReceiveAuthentication, ReceiveDenied,
                             ReceiveRefusal, ClientSends, Answers, Denials, Requests
  <2>3. CASE ReceiveKeepAlive("server", p)
      BY <1>1, <1>6, <2>1, <2>3 DEF ReceiveKeepAlive, Requests, clientVars, p
  <2>4. CASE ReceiveRequest("server", p)
      BY <1>1, <1>6, <2>1, <2>4 DEF ReceiveRequest, Requests, clientVars, p
  <2>5. CASE ReceiveOther("server", p)
    <3>1. Ignore("server") /\ p \in {"keepAliveAck", "nodes"}
        BY <2>1, <2>5 DEF ReceiveOther, ClientSends, Requests
    <3> QED
        BY <1>1, <1>6, <2>1, <3>1 DEF Ignore, Requests, clientVars, p
  <2> QED
      BY <2>2, <2>3, <2>4, <2>5
<1> QED
    BY <1>4, <1>5, <1>6

LEMMA ClientReceives ==
    ASSUME TypeOK, CoverInv, OrderInv, foreign = "none", Receive("client")
    PROVE  LET q == peer["client"]
               p == Head(wire["client"]) IN
           /\ UNCHANGED <<jobs, link>>
           /\ \/ /\ ~q.received /\ link # "prompt" /\ FailAbort("client", "protocolId")
              \/ /\ ~q.received /\ p = "handShake" /\ UNCHANGED <<retryTimer, error>>
                 /\ peer' = [peer EXCEPT !["client"] = Touched("client")]
                 /\ \E s \in {<<"serverInfoRequest">>, <<"serverInfoRequest", "seedUrlRequest">>} :
                       Register({s[i] : i \in DOMAIN s}) /\ wire' = ReadAndWrite("client", s)
              \/ /\ q.received /\ peer' = [peer EXCEPT !["client"] = Touched("client")]
                 /\ UNCHANGED error /\ p \in ServerSends
                 /\ p \in Answers => pendingTimer' = 0
                 /\ p \in Denials => pendingTimer' = pendingTimer /\ retryTimer' = StartRetry(p)
                 /\ p \notin Answers \cup Denials => UNCHANGED <<pendingTimer, retryTimer>>
                 /\ wire' = IF p = "keepAlive" THEN ReadAndWrite("client", <<"keepAliveAck">>)
                            ELSE Read("client")
<1> DEFINE q == peer["client"]
           p == Head(wire["client"])
<1>1. /\ q \in PeerRecord /\ wire["client"] \in Seq(Bytes)
      /\ ClientOrder(q, retryTimer, peer["server"], wire["client"], link)
      /\ q.sock = "connected" /\ wire["client"] # <<>> /\ p # "fin"
      /\ UNCHANGED link
    BY OrderTypes DEF OrderInv, Receive, Live
<1>2. /\ q.received => p \in ServerSends
      /\ ~q.received /\ link = "prompt" => p = "handShake"
    BY <1>1, ClientHead
<1>3. p \in Answers \cup Denials => pending[RequestOf(p)] > 0
    BY <1>1, AnswerIsPending DEF Live
<1>4. \/ ReceiveHandShake("client", p) \/ ReceiveResponse("client", p)
      \/ ReceiveAuthentication("client", p)
      \/ /\ q.received
         /\ \/ ReceiveKeepAlive("client", p) \/ ReceiveRequest("client", p) \/ ReceiveDenied("client", p)
            \/ ReceiveRefusal("client", p) \/ ReceiveOther("client", p)
    BY DEF Receive
<1> HIDE DEF p
<1>5. CASE ~q.received
  <2>1. ReceiveHandShake("client", p)
      BY <1>4, <1>5 DEF ReceiveResponse, ReceiveAuthentication
  <2>2. CASE p = "handShake"
      BY <1>1, <1>5, <2>1, <2>2 DEF ReceiveHandShake, p
  <2>3. CASE p # "handShake"
      BY <1>1, <1>2, <1>5, <2>1, <2>3 DEF ReceiveHandShake, FailAbort
  <2> QED
      BY <2>2, <2>3
<1>6. CASE q.received
  <2>1. p \in ServerSends
      BY <1>2, <1>6
  <2>2. \/ ReceiveResponse("client", p) \/ ReceiveDenied("client", p)
        \/ ReceiveKeepAlive("client", p) \/ ReceiveOther("client", p)
      BY <1>4, <1>6, <2>1 DEF ReceiveHandShake, ReceiveAuthentication, ReceiveRequest,
                             ReceiveRefusal, ServerSends, Answers, Denials, Requests
  <2>3. CASE ReceiveResponse("client", p)
      BY <1>1, <1>3, <1>6, <2>1, <2>3 DEF ReceiveResponse, Answers, Denials, p
  <2>4. CASE ReceiveDenied("client", p)
      BY <1>1, <1>3, <1>6, <2>1, <2>4 DEF ReceiveDenied, Answers, Denials, p
  <2>5. CASE ReceiveKeepAlive("client", p)
      BY <1>1, <1>6, <2>1, <2>5 DEF ReceiveKeepAlive, Answers, Denials, clientVars, p
  <2>6. CASE ReceiveOther("client", p)
    <3>1. Ignore("client") /\ p = "keepAliveAck"
        BY <2>1, <2>6 DEF ReceiveOther, ServerSends, Answers, Denials
    <3> QED
        BY <1>1, <1>6, <2>1, <3>1 DEF Ignore, Answers, Denials, clientVars, p
  <2> QED
      BY <2>2, <2>3, <2>4, <2>5, <2>6
<1> QED
    BY <1>5, <1>6

LEMMA OrderReceiveServer ==
    ASSUME TypeOK, TypeOK', OrderInv, foreign = "none", Receive("server")
    PROVE  OrderInv'
<1> USE EndsFacts, OrderTypes, OrderTypesNext
<1> DEFINE p == peer["server"]
           s == wire["server"]
<1>1. /\ ServerOrder(p, jobs, s, link)
      /\ ClientOrder(peer["client"], retryTimer, p, wire["client"], link)
      /\ ErrorsFew(error, link)
    BY DEF OrderInv
<1>2. UNCHANGED <<retryTimer, error, link>>
    BY ServerReceives
<1>3. p.sock = "connected" /\ s # <<>> /\ Head(s) # "fin"
    BY DEF Receive, Live
<1>4. /\ Read("server")["server"] = Tail(s) /\ Read("server")["client"] = wire["client"]
    BY <1>3, ReadCount DEF Other
<1>5. /\ peer'["client"] = peer["client"]
      /\ peer'["server"].sock = "connected" /\ peer'["server"].sent = p.sent
      /\ wire'["server"] = Tail(s)
      /\ \/ wire'["client"] = wire["client"]
         \/ /\ p.sent /\ wire'["client"] = wire["client"] \o <<"keepAliveAck">>
  <2>1. peer'["client"] = peer["client"] /\ peer'["server"].sock = "connected" /\ peer'["server"].sent = p.sent
      BY <1>3, ServerReceives, TouchedFacts
  <2>2. wire' = Read("server") \/ (p.sent /\ wire' = ReadAndWrite("server", <<"keepAliveAck">>))
      BY ServerReceives
  <2>3. "keepAliveAck" \in ClientSends
      BY DEF ClientSends
  <2>4. CASE p.sent /\ wire' = ReadAndWrite("server", <<"keepAliveAck">>)
    <3>1. /\ wire'["server"] = Tail(s)
          /\ wire'["client"] \in {wire["client"], wire["client"] \o <<"keepAliveAck">>}
      <4>1. PICK u \in Seq(Bytes) : u = <<"keepAliveAck">>
          BY <2>3, OneIsSent
      <4>2. wire' = ReadAndWrite("server", u) /\ Other("server") = "client"
          BY <2>4, <4>1 DEF Other
      <4>3. /\ wire'["server"] = Tail(s)
            /\ wire'["client"] \in {wire["client"], wire["client"] \o u}
        <5>1. /\ ReadAndWrite("server", u)["server"] = Tail(wire["server"])
              /\ ReadAndWrite("server", u)[Other("server")] = Write("server", u)[Other("server")]
              /\ \/ Write("server", u)[Other("server")] = wire[Other("server")] \o u
                 \/ Write("server", u)[Other("server")] = wire[Other("server")]
            BY WriteFacts
        <5> QED
            BY <4>2, <5>1
      <4> QED
          BY <4>1, <4>3
    <3> QED
        BY <2>1, <2>4, <3>1
  <2> QED
      BY <1>4, <2>1, <2>2, <2>4
<1>6. ServerOrder(peer'["server"], jobs', Tail(s), link)
  <2> DEFINE q == Touched("server")
             qa == [q EXCEPT !.authenticated = TRUE]
  <2>1. /\ q \in PeerRecord /\ q.sock = p.sock /\ q.received
        /\ q.sent = p.sent /\ q.authenticated = p.authenticated
        /\ q.keepAliveTimer # 1
        /\ qa \in PeerRecord /\ qa.authenticated /\ qa.sock = p.sock /\ qa.received /\ qa.sent = p.sent
        /\ qa.keepAliveTimer # 1
      BY TouchedFacts
  <2>2. \/ ~p.received /\ peer'["server"] = q /\ jobs' = jobs
        \/ p.received /\ ~p.authenticated /\ peer'["server"] = qa /\ jobs' = Append(jobs, "authenticated")
        \/ /\ p.authenticated /\ p.sent /\ peer'["server"] = q
           /\ jobs' = jobs \/ \E x \in Requests : jobs' = Append(jobs, x)
      BY ServerReceives
  <2> HIDE DEF q, qa, p, s
  <2>3. p \in PeerRecord /\ s \in Seq(Bytes) /\ jobs \in Seq(Jobs)
      BY DEF p, s
  <2>4. CASE ~p.received /\ peer'["server"] = q /\ jobs' = jobs
    <3>1. ServerOrder(q, jobs, Tail(s), link)
        BY <1>1, <1>3, <2>1, <2>3, <2>4, ServerGreeted
    <3> QED
        BY <2>4, <3>1
  <2>5. CASE p.received /\ ~p.authenticated /\ peer'["server"] = qa /\ jobs' = Append(jobs, "authenticated")
    <3>1. ServerOrder(qa, Append(jobs, "authenticated"), Tail(s), link)
        BY <1>1, <1>3, <2>1, <2>3, <2>5, ServerAuthenticates
    <3> QED
        BY <2>5, <3>1
  <2>6. CASE /\ p.authenticated /\ p.sent /\ peer'["server"] = q
             /\ jobs' = jobs \/ \E x \in Requests : jobs' = Append(jobs, x)
    <3>1. p.received /\ p.received \in BOOLEAN /\ q.received \in BOOLEAN
        BY <1>1, <1>3, <2>1, <2>3, <2>6 DEF ServerOrder, PeerRecord
    <3>2. Alike(p, q)
        BY <2>1, <3>1 DEF Alike
    <3>3. ServerOrder(q, jobs', Tail(s), link)
        BY <1>1, <1>3, <2>1, <2>3, <2>6, <3>2, ServerListens
    <3> QED
        BY <2>6, <3>3
  <2> QED
      BY <2>2, <2>4, <2>5, <2>6
<1>7. ClientOrder(peer["client"], retryTimer, p, wire'["client"], link)
  <2>1. CASE wire'["client"] = wire["client"]
      BY <1>1, <2>1
  <2>2. CASE p.sent /\ wire'["client"] = wire["client"] \o <<"keepAliveAck">>
    <3>1. "keepAliveAck" \in Bytes /\ "keepAliveAck" \in ServerSends
        BY PacketKinds DEF ServerSends
    <3>2. ClientOrder(peer["client"], retryTimer, p, wire["client"] \o <<"keepAliveAck">>, link)
        BY <1>1, <1>3, <2>2, <3>1, ClientGets
    <3> QED
        BY <2>2, <3>2
  <2> QED
      BY <1>5, <2>1, <2>2
<1>8. ClientOrder(peer["client"], retryTimer, peer'["server"], wire'["client"], link)
    BY <1>3, <1>5, <1>7, ClientSame
<1> QED
    BY <1>1, <1>2, <1>5, <1>6, <1>8, OrderPrimed

LEMMA OrderReceiveClient ==
    ASSUME TypeOK, TypeOK', CoverInv, OrderInv, foreign = "none", Receive("client")
    PROVE  OrderInv'
<1> USE EndsFacts, OrderTypes, OrderTypesNext
<1> DEFINE p == peer["client"]
           q == Touched("client")
           c == wire["client"]
<1>1. /\ ServerOrder(peer["server"], jobs, wire["server"], link)
      /\ ClientOrder(p, retryTimer, peer["server"], c, link)
      /\ ErrorsFew(error, link)
    BY DEF OrderInv
<1>2. p.sock = "connected" /\ c # <<>> /\ Head(c) # "fin"
    BY DEF Receive, Live
<1>3. UNCHANGED <<jobs, link>>
    BY ClientReceives
<1>4. /\ q \in PeerRecord /\ q.sock = p.sock /\ q.received
    BY TouchedFacts
<1>5. CASE link # "prompt" /\ FailAbort("client", "protocolId")
  <2>1. Abort("client") /\ error' = [error EXCEPT !["client"] = "protocolId"]
      BY <1>5 DEF FailAbort
  <2>2. ErrorsFew(error', link)
      BY <1>1, <1>5, <2>1 DEF ErrorsFew, TypeOK
  <2> QED
      BY <1>3, <2>1, <2>2, OrderAbort
<1>6. ASSUME peer' = [peer EXCEPT !["client"] = q], UNCHANGED error,
             p.received \/ (Head(c) = "handShake" /\ UNCHANGED retryTimer),
             NEW u \in Seq(Bytes), wire' = ReadAndWrite("client", u),
             \A i \in 1 .. Len(u) : u[i] \in ClientSends
      PROVE  OrderInv'
  <2>1. peer'["client"] = q /\ peer'["server"] = peer["server"]
      BY <1>6
  <2>2. wire'["client"] = Tail(c) /\ wire'["server"] = Write("client", u)["server"]
      BY <1>6, WriteFacts DEF Other
  <2>3. peer["server"].sock = "connected" => peer["server"].sent
      BY <1>1, <1>2, <1>6, ClientHead
  <2>4. ServerOrder(peer["server"], jobs, wire'["server"], link)
    <3>1. CASE Live("client") /\ Live("server") /\ link # "cut"
      <4>1. wire'["server"] = wire["server"] \o u /\ peer["server"].sent
          BY <2>2, <2>3, <3>1, WriteFacts DEF Other, Live
      <4>2. ServerOrder(peer["server"], jobs, wire["server"] \o u, link)
          BY <1>1, <1>6, <4>1, ServerGets
      <4> QED
          BY <4>1, <4>2
    <3>2. CASE ~(Live("client") /\ Live("server") /\ link # "cut")
      <4>1. wire'["server"] = wire["server"]
          BY <2>2, <3>2, WriteFacts DEF Other
      <4> QED
          BY <1>1, <4>1
    <3> QED
        BY <3>1, <3>2
  <2>5. ClientOrder(q, retryTimer', peer["server"], Tail(c), link)
    <3>1. CASE p.received
        BY <1>1, <1>2, <1>4, <3>1, ClientListens
    <3>2. CASE ~p.received /\ Head(c) = "handShake" /\ UNCHANGED retryTimer
      <4>1. ClientOrder(q, retryTimer, peer["server"], Tail(c), link)
          BY <1>1, <1>2, <1>4, <3>2, ClientGreeted
      <4> QED
          BY <3>2, <4>1
    <3> QED
        BY <1>6, <3>1, <3>2
  <2> QED
      BY <1>1, <1>3, <1>6, <2>1, <2>2, <2>4, <2>5, OrderPrimed
<1>7. ASSUME peer' = [peer EXCEPT !["client"] = q], UNCHANGED error, p.received, wire' = Read("client")
      PROVE  OrderInv'
  <2>1. peer'["client"] = q /\ peer'["server"] = peer["server"]
      BY <1>7
  <2>2. wire'["client"] = Tail(c) /\ wire'["server"] = wire["server"]
      BY <1>2, <1>7, ReadCount DEF Other
  <2>3. ClientOrder(q, retryTimer', peer["server"], Tail(c), link)
      BY <1>1, <1>2, <1>4, <1>7, ClientListens
  <2> QED
      BY <1>1, <1>3, <1>7, <2>1, <2>2, <2>3, OrderPrimed
<1>8. CASE /\ p.received /\ peer' = [peer EXCEPT !["client"] = q] /\ UNCHANGED error
           /\ wire' = Read("client") \/ wire' = ReadAndWrite("client", <<"keepAliveAck">>)
  <2>1. "keepAliveAck" \in ClientSends
      BY DEF ClientSends
  <2> QED
      BY <1>6, <1>7, <1>8, <2>1, OneIsSent
<1>9. CASE /\ ~p.received /\ Head(c) = "handShake" /\ UNCHANGED <<retryTimer, error>>
           /\ peer' = [peer EXCEPT !["client"] = q]
           /\ \E s \in {<<"serverInfoRequest">>, <<"serverInfoRequest", "seedUrlRequest">>} :
                 wire' = ReadAndWrite("client", s)
  <2>1. PICK s \in {<<"serverInfoRequest">>, <<"serverInfoRequest", "seedUrlRequest">>} :
            wire' = ReadAndWrite("client", s)
      BY <1>9
  <2>2. {"serverInfoRequest", "seedUrlRequest"} \subseteq ClientSends \cap Bytes
      BY PacketKinds DEF ClientSends, Requests, Bytes
  <2>3. s \in Seq(Bytes) /\ \A i \in 1 .. Len(s) : s[i] \in ClientSends
    <3>1. CASE s = <<"serverInfoRequest">>
        BY <2>2, <3>1, OneIsSent
    <3>2. CASE s = <<"serverInfoRequest", "seedUrlRequest">>
      <4>1. /\ Len(s) = 2 /\ s[1] = "serverInfoRequest" /\ s[2] = "seedUrlRequest"
          BY <3>2
      <4>2. s \in Seq(Bytes)
          BY <2>2, <3>2
      <4>3. \A i \in 1 .. 2 : i = 1 \/ i = 2
          OBVIOUS
      <4> QED
          BY <2>2, <4>1, <4>2, <4>3
    <3> QED
        BY <2>1, <3>1, <3>2
  <2> QED
      BY <1>6, <1>9, <2>1, <2>3
<1> QED
    BY <1>5, <1>8, <1>9, ClientReceives

LEMMA OrderInit == Init => OrderInv
<1> SUFFICES ASSUME Init PROVE OrderInv
    OBVIOUS
<1>1. /\ peer["client"].sock = "unconnected" /\ peer["server"].sock = "absent"
      /\ retryTimer = 0 /\ error["server"] = "none" /\ error["client"] = "none"
    BY EndsFacts DEF Init, Clean
<1> QED
    BY <1>1 DEF OrderInv, ServerOrder, ClientOrder, ErrorsFew

LEMMA OrderNext == TypeOK /\ CoverInv /\ OrderInv /\ [Next]_vars => OrderInv'
<1> SUFFICES ASSUME TypeOK, CoverInv, OrderInv, [Next]_vars PROVE OrderInv'
    OBVIOUS
<1>1. TypeOK'
    BY TypeNext
<1>2. CASE UNCHANGED vars
    BY <1>2, OrderPrimed DEF vars, clientVars, OrderInv
<1>3. CASE Next
  <2>1. foreign' = foreign
      BY <1>3 DEF Next, ConnectToHost, Establish, ConnectionFails, ServerThreadEnds, LinkCut, AskSeedUrl,
             SendNodes, MainThread, PendingFires, RetryFires, Tick, Disconnect, CloseEnds, RemoteClosed,
             SocketError, Receive, ForeignSends, Fires, TimeoutFires, KeepAliveFires
  <2>2. CASE foreign # "none"
      BY <2>1, <2>2 DEF OrderInv
  <2>3. CASE foreign = "none"
    <3>1. \A e \in Ends : ~ForeignSends(e)
        BY <2>3, EndsFacts DEF ForeignSends
    <3>2. \A e \in Ends : Receive(e) => OrderInv'
        BY <1>1, <2>3, EndsFacts, OrderReceiveServer, OrderReceiveClient
    <3> QED
        BY <1>1, <1>3, <2>3, <3>1, <3>2, OrderConnections, OrderCloses, OrderSends, OrderTimers, OrderMain
        DEF Next, Fires
  <2> QED
      BY <2>2, <2>3
<1> QED
    BY <1>2, <1>3

\* Two MyCrawler programs follow the protocol: the authentication comes before
\* any packet and every response finds its request, whatever was lost before;
\* a keep-alive packet passes the server's handshake on a slow network only.
THEOREM ProtocolFollowed == Spec => []NoProtocolError
<1>1. Init => TypeOK /\ CoverInv /\ OrderInv
    BY TypeInit, CoverInit, OrderInit
<1>2. TypeOK /\ CoverInv /\ OrderInv /\ [Next]_vars => (TypeOK /\ CoverInv /\ OrderInv)'
    BY TypeNext, CoverNext, OrderNext
<1>3. OrderInv => NoProtocolError
    BY DEF OrderInv, NoProtocolError, ErrorsFew, Ends
<1> QED
    BY <1>1, <1>2, <1>3, PTL DEF Spec

-----------------------------------------------------------------------------
(* Timeouts on a network that delivers.  Time only passes when nothing is    *)
(* under way, so that it is enough to say what is under way: an end that is  *)
(* not to be timed out has had data, or will send a keep-alive packet before *)
(* the timer is due, or has something coming; a pending request has an       *)
(* answer coming, or was denied and is made again before its timer is due.   *)

Has(s, ps) == \E i \in 1 .. Len(s) : s[i] \in ps

\* Something the end will read: q is the peer at the other end, s the stream to
\* read and o the one to the other end, which acknowledges a keep-alive packet.
Coming(q, s, o) == s # <<>> \/ q.sock = "closing" \/ Has(o, {"keepAlive"})

EndIsComing(q, s) == q.sock = "closing" \/ Has(s, {"fin"})

Watch(p, q, s, o) ==
    p.sock = "connected" =>
        /\ q.sock # "connected" => EndIsComing(q, s)
        /\ p.keepAliveTimer <= KeepAliveInterval + 1
        /\ p.received => p.keepAliveTimer >= 1
        /\ ~p.received \/ ~p.sent => p.timeoutTimer # 1
        /\ p.received => \/ p.invalidate
                         \/ p.keepAliveTimer < p.timeoutTimer
                         \/ p.timeoutTimer > 1 /\ Coming(q, s, o)

\* A request that is on its way, in the jobs j or answered.
InFlight(j, s, o) == Has(s, Answers \cup Denials) \/ Has(o, Requests) \/ Has(j, Requests)

\* The client's peer p with its timers t of the pending requests and y of the
\* next request; q is the server's peer.
Patient(p, t, y, q, j, s, o) ==
    /\ p.sock # "connected" => t = 0
    /\ p.sock = "connected" =>
        /\ p.sent
        /\ ~Has(s, {"serverInfoDenied"})
        /\ InFlight(j, s, o) => t \in {0, PendingTimeout + 1}
        /\ \/ t = 0
           \/ 1 <= y /\ y < t
           \/ t = PendingTimeout + 1 /\ (EndIsComing(q, s) \/ InFlight(j, s, o))

WatchOf(e) == Watch(peer[e], peer[Other(e)], wire[e], wire[Other(e)])

PatientClient == Patient(peer["client"], pendingTimer, retryTimer, peer["server"], jobs,
                         wire["client"], wire["server"])

WatchInv ==
    foreign = "none" /\ link = "prompt" =>
        /\ \A e \in Ends : WatchOf(e)
        /\ PatientClient

LEMMA HasTail ==
    ASSUME NEW S, NEW s \in Seq(S), s # <<>>, NEW ps
    PROVE  Has(s, ps) <=> Head(s) \in ps \/ Has(Tail(s), ps)
<1> PICK t : t = Tail(s)
    OBVIOUS
<1>1. /\ Len(s) \in Nat \ {0} /\ Head(s) = s[1] /\ Len(t) = Len(s) - 1
      /\ \A i \in 1 .. Len(s) - 1 : t[i] = s[i + 1]
    BY StreamTail
<1>2. Has(t, ps) => Has(s, ps)
  <2>1. \A i \in 1 .. Len(t) : i + 1 \in 1 .. Len(s) /\ t[i] = s[i + 1]
      BY <1>1
  <2> QED
      BY <2>1 DEF Has
<1>3. Head(s) \in ps => Has(s, ps)
    BY <1>1 DEF Has
<1>4. Has(s, ps) => Head(s) \in ps \/ Has(t, ps)
  <2>1. \A i \in 1 .. Len(s) : i = 1 \/ (i - 1 \in 1 .. Len(t) /\ s[i] = t[i - 1])
      BY <1>1
  <2> QED
      BY <1>1, <2>1 DEF Has
<1> QED
    BY <1>2, <1>3, <1>4

LEMMA HasAdd ==
    ASSUME NEW S, NEW s \in Seq(S), NEW u \in Seq(S), NEW ps
    PROVE  Has(s \o u, ps) <=> Has(s, ps) \/ Has(u, ps)
<1> PICK t : t = s \o u
    OBVIOUS
<1>1. /\ Len(s) \in Nat /\ Len(u) \in Nat /\ Len(t) = Len(s) + Len(u)
      /\ \A i \in 1 .. Len(s) : t[i] = s[i]
      /\ \A i \in Len(s) + 1 .. Len(s) + Len(u) : t[i] = u[i - Len(s)]
    BY StreamAdd
<1>2. Has(s, ps) => Has(t, ps)
    BY <1>1 DEF Has
<1>3. Has(u, ps) => Has(t, ps)
  <2>1. \A i \in 1 .. Len(u) : Len(s) + i \in 1 .. Len(t) /\ t[Len(s) + i] = u[i]
      BY <1>1
  <2> QED
      BY <2>1 DEF Has
<1>4. Has(t, ps) => Has(s, ps) \/ Has(u, ps)
  <2>1. \A i \in 1 .. Len(t) : \/ i \in 1 .. Len(s) /\ t[i] = s[i]
                               \/ i - Len(s) \in 1 .. Len(u) /\ t[i] = u[i - Len(s)]
      BY <1>1
  <2> QED
      BY <2>1 DEF Has
<1> QED
    BY <1>2, <1>3, <1>4

LEMMA HasMore ==
    ASSUME NEW s \in Seq(Bytes), NEW u \in Seq(Bytes), NEW s2, s2 = s \/ s2 = s \o u
    PROVE  \A ps : /\ Has(s, ps) => Has(s2, ps)
                   /\ Has(s2, ps) => Has(s, ps) \/ Has(u, ps)
<1>1. CASE s2 = s
    BY <1>1
<1>2. CASE s2 = s \o u
  <2>1. \A ps : Has(s \o u, ps) <=> Has(s, ps) \/ Has(u, ps)
      BY HasAdd
  <2> QED
      BY <1>2, <2>1
<1> QED
    BY <1>1, <1>2

LEMMA HasOne ==
    /\ \A x, ps : Has(<<x>>, ps) <=> x \in ps
    /\ \A ps : ~Has(<<>>, ps)
BY DEF Has

LEMMA HasEnd ==
    ASSUME NEW s \in Seq(Bytes), NEW n \in 0 .. Len(s), NEW ps
    PROVE  /\ Has(SubSeq(s, 1, n) \o <<"fin">>, ps) => Has(s, ps) \/ "fin" \in ps
           /\ "fin" \in ps => Has(SubSeq(s, 1, n) \o <<"fin">>, ps)
<1> PICK t : t = SubSeq(s, 1, n) \o <<"fin">>
    OBVIOUS
<1>1. /\ n \in Nat /\ Len(s) \in Nat /\ Len(t) = n + 1 /\ t[n + 1] = "fin"
      /\ \A i \in 1 .. n : t[i] = s[i]
    BY StreamEnd
<1>2. \A i \in 1 .. Len(t) : t[i] = "fin" \/ (i \in 1 .. Len(s) /\ t[i] = s[i])
    BY <1>1
<1>3. "fin" \in ps => Has(t, ps)
    BY <1>1 DEF Has
<1>4. Has(t, ps) => Has(s, ps) \/ "fin" \in ps
    BY <1>2 DEF Has
<1> QED
    BY <1>3, <1>4

\* What a stream has is not empty.
LEMMA HasSome == \A s, ps : Has(s, ps) => s # <<>>
BY HasOne

LEMMA WatchPrimed ==
    /\ Watch(peer'["client"], peer'["server"], wire'["client"], wire'["server"])
    /\ Watch(peer'["server"], peer'["client"], wire'["server"], wire'["client"])
    /\ Patient(peer'["client"], pendingTimer', retryTimer', peer'["server"], jobs',
               wire'["client"], wire'["server"])
    => WatchInv'
BY DEF WatchInv, WatchOf, PatientClient, Watch, Patient, Coming, EndIsComing, InFlight, Has, Other, Ends,
       Answers, Denials, Requests

-----------------------------------------------------------------------------
(* An end of the connection, whatever the other one does. *)

LEMMA WatchPassive ==
    ASSUME NEW p, NEW q, NEW q2, NEW s, NEW s2, NEW o, NEW o2, Watch(p, q, s, o),
           p.sock = "connected" =>
               /\ q2.sock # "connected" => EndIsComing(q2, s2)
               /\ Coming(q, s, o) => Coming(q2, s2, o2)
    PROVE  Watch(p, q2, s2, o2)
BY DEF Watch

LEMMA EndComes == \A q, s, o : EndIsComing(q, s) => Coming(q, s, o)
BY HasSome DEF EndIsComing, Coming

\* Packets are added at both ends.
LEMMA WatchAdds ==
    ASSUME NEW p, NEW q, NEW q2, NEW s \in Seq(Bytes), NEW s2, NEW o \in Seq(Bytes), NEW o2,
           NEW u \in Seq(Bytes), NEW v \in Seq(Bytes), Watch(p, q, s, o), q2.sock = q.sock,
           s2 = s \/ s2 = s \o u, o2 = o \/ o2 = o \o v
    PROVE  Watch(p, q2, s2, o2)
<1>1. Has(s, {"fin"}) => Has(s2, {"fin"})
    BY HasMore
<1>2. Has(o, {"keepAlive"}) => Has(o2, {"keepAlive"})
    BY HasMore
<1>3. s # <<>> => s2 # <<>>
  <2>1. Len(s) \in Nat /\ Len(u) \in Nat /\ Len(s \o u) = Len(s) + Len(u)
      BY StreamAdd
  <2>2. s # <<>> => Len(s) # 0
      BY EmptySeq
  <2>3. Len(<<>>) = 0
      OBVIOUS
  <2> QED
      BY <2>1, <2>2, <2>3
<1> QED
    BY <1>1, <1>2, <1>3, WatchPassive DEF Watch, EndIsComing, Coming

LEMMA WatchKeepAlive ==
    ASSUME NEW p \in PeerRecord, NEW p2 \in PeerRecord, NEW q, NEW s, NEW o, NEW o2,
           Watch(p, q, s, o), p.keepAliveTimer = 1,
           p2 = [p EXCEPT !.keepAliveTimer = StartTimer(KeepAliveInterval)],
           p.sock = "connected" => Coming(q, s, o2)
    PROVE  Watch(p2, q, s, o2)
<1>1. /\ p2.sock = p.sock /\ p2.received = p.received /\ p2.sent = p.sent
      /\ p2.invalidate = p.invalidate /\ p2.timeoutTimer = p.timeoutTimer
      /\ p2.keepAliveTimer = KeepAliveInterval + 1 /\ p.timeoutTimer \in Nat
    BY DEF PeerRecord, StartTimer
<1> QED
    BY <1>1 DEF Watch

LEMMA WatchTimeout ==
    ASSUME NEW p \in PeerRecord, NEW p2 \in PeerRecord, NEW q, NEW s, NEW o,
           KeepAliveInterval < PeerTimeout,
           Watch(p, q, s, o), p.timeoutTimer = 1,
           p2 = [p EXCEPT !.invalidate = FALSE, !.timeoutTimer = StartTimer(Period(p))]
    PROVE  Watch(p2, q, s, o)
<1> PICK k : k = StartTimer(Period(p))
    OBVIOUS
<1>1. /\ p2.sock = p.sock /\ p2.received = p.received /\ p2.sent = p.sent
      /\ p2.timeoutTimer = k /\ p2.keepAliveTimer = p.keepAliveTimer
      /\ p.keepAliveTimer \in Nat
    BY DEF PeerRecord
<1> SUFFICES ASSUME p.sock = "connected" PROVE Watch(p2, q, s, o)
    BY <1>1 DEF Watch
<1>2. p.received /\ p.sent
    BY DEF Watch
<1>3. k = PeerTimeout + 1
    BY <1>2 DEF Period, StartTimer
<1> QED
    BY <1>1, <1>2, <1>3 DEF Watch

LEMMA WatchHandShaken ==
    ASSUME NEW p \in PeerRecord, NEW q, NEW s, NEW o, KeepAliveInterval < PeerTimeout,
           Watch(p, q, s, o), p.sock = "connected" => p.received
    PROVE  Watch(HandShaken(p), q, s, o)
<1> PICK p2 : p2 = HandShaken(p)
    OBVIOUS
<1>1. /\ p2.sock = p.sock /\ p2.received = p.received /\ p2.sent
      /\ p2.timeoutTimer = PeerTimeout + 1 /\ p2.keepAliveTimer = p.keepAliveTimer
      /\ p.keepAliveTimer \in Nat
    BY DEF PeerRecord, HandShaken, StartTimer
<1> QED
    BY <1>1 DEF Watch

\* Data came in.
LEMMA WatchReads ==
    ASSUME NEW p \in PeerRecord, NEW p2 \in PeerRecord, NEW q, NEW s \in Seq(Bytes), NEW o, NEW o2,
           Watch(p, q, s, o), s # <<>>, Head(s) # "fin",
           p2.sock = p.sock, p2.received, p2.sent = p.sent, p2.invalidate,
           p2.timeoutTimer = p.timeoutTimer, p2.keepAliveTimer = StartTimer(KeepAliveInterval)
    PROVE  Watch(p2, q, Tail(s), o2)
<1>1. Has(s, {"fin"}) => Has(Tail(s), {"fin"})
    BY HasTail
<1>2. p2.keepAliveTimer = KeepAliveInterval + 1
    BY DEF StartTimer
<1> QED
    BY <1>1, <1>2 DEF Watch, EndIsComing

LEMMA WatchTick ==
    ASSUME NEW p \in PeerRecord, NEW p2, NEW q, NEW q2,
           Watch(p, q, <<>>, <<>>), q.sock # "closing", q2.sock = q.sock,
           p.sock = "connected" => p.received /\ p.sent,
           p.timeoutTimer # 1, p.keepAliveTimer # 1,
           p2 = [p EXCEPT !.timeoutTimer = Less(@), !.keepAliveTimer = Less(@)]
    PROVE  Watch(p2, q2, <<>>, <<>>)
<1>1. p.timeoutTimer \in Nat /\ p.keepAliveTimer \in Nat
    BY DEF PeerRecord
<1>2. /\ p2.sock = p.sock /\ p2.received = p.received /\ p2.sent = p.sent
      /\ p2.invalidate = p.invalidate /\ p2.timeoutTimer = Less(p.timeoutTimer)
      /\ p2.keepAliveTimer = Less(p.keepAliveTimer)
    BY DEF PeerRecord
<1> SUFFICES ASSUME p.sock = "connected" PROVE Watch(p2, q2, <<>>, <<>>)
    BY <1>2 DEF Watch
<1>3. q.sock = "connected" /\ ~Coming(q, <<>>, <<>>)
    BY HasOne DEF Watch, EndIsComing, Coming
<1>4. /\ p.keepAliveTimer <= KeepAliveInterval + 1 /\ p.keepAliveTimer >= 1
      /\ p.invalidate \/ p.keepAliveTimer < p.timeoutTimer
    BY <1>3 DEF Watch
<1>5. /\ Less(p.keepAliveTimer) = p.keepAliveTimer - 1
      /\ p.invalidate \/ Less(p.timeoutTimer) = p.timeoutTimer - 1
    BY <1>1, <1>4 DEF Less
<1> QED
    BY <1>1, <1>2, <1>3, <1>4, <1>5 DEF Watch

-----------------------------------------------------------------------------
(* The client's pending requests. *)

LEMMA PatientAway ==
    ASSUME NEW p, NEW y, NEW q, NEW j, NEW s, NEW o, p.sock # "connected"
    PROVE  Patient(p, 0, y, q, j, s, o)
BY DEF Patient

LEMMA PatientSame ==
    ASSUME NEW p, NEW p2, NEW t, NEW y, NEW q, NEW q2, NEW j, NEW j2, NEW s, NEW s2, NEW o, NEW o2,
           Patient(p, t, y, q, j, s, o), p2.sock = p.sock, p2.sent = p.sent,
           p.sock = "connected" =>
               /\ Has(s2, {"serverInfoDenied"}) => Has(s, {"serverInfoDenied"})
               /\ InFlight(j2, s2, o2) => InFlight(j, s, o)
               /\ EndIsComing(q, s) \/ InFlight(j, s, o) => EndIsComing(q2, s2) \/ InFlight(j2, s2, o2)
    PROVE  Patient(p2, t, y, q2, j2, s2, o2)
BY DEF Patient

LEMMA PatientAsks ==
    ASSUME NEW p, NEW p2, NEW t, NEW y, NEW y2, NEW q, NEW j, NEW s, NEW s2, NEW o, NEW o2,
           Patient(p, t, y, q, j, s, o), p.sock = "connected", p2.sock = p.sock, p2.sent = p.sent,
           Has(s2, {"serverInfoDenied"}) => Has(s, {"serverInfoDenied"}),
           EndIsComing(q, s2) \/ InFlight(j, s2, o2)
    PROVE  Patient(p2, PendingTimeout + 1, y2, q, j, s2, o2)
BY DEF Patient

LEMMA PatientAnswered ==
    ASSUME NEW p, NEW p2, NEW t, NEW y, NEW y2, NEW q, NEW j, NEW s, NEW s2, NEW o, NEW o2,
           Patient(p, t, y, q, j, s, o), p.sock = "connected", p2.sock = p.sock, p2.sent = p.sent,
           Has(s2, {"serverInfoDenied"}) => Has(s, {"serverInfoDenied"})
    PROVE  Patient(p2, 0, y2, q, j, s2, o2)
BY DEF Patient

LEMMA PatientDenied ==
    ASSUME NEW p, NEW p2, NEW t \in Nat, NEW y, NEW q, NEW j, NEW s, NEW s2, NEW o, NEW o2,
           SeedUrlInterval < PendingTimeout,
           Patient(p, t, y, q, j, s, o), p.sock = "connected", p2.sock = p.sock, p2.sent = p.sent,
           InFlight(j, s, o), Has(s2, {"serverInfoDenied"}) => Has(s, {"serverInfoDenied"})
    PROVE  Patient(p2, t, StartTimer(SeedUrlInterval), q, j, s2, o2)
BY DEF Patient, StartTimer

LEMMA PatientTick ==
    ASSUME NEW p, NEW p2, NEW t \in Nat, NEW y \in Nat, NEW q, NEW q2,
           Patient(p, t, y, q, <<>>, <<>>, <<>>), q.sock # "closing",
           p2.sock = p.sock, p2.sent = p.sent, t # 1, y # 1
    PROVE  Patient(p2, Less(t), Less(y), q2, <<>>, <<>>, <<>>)
<1>1. ~EndIsComing(q, <<>>) /\ ~InFlight(<<>>, <<>>, <<>>)
    BY HasOne DEF EndIsComing, InFlight
<1>2. /\ Less(0) = 0
      /\ \A n \in Nat : n > 0 => Less(n) = n - 1
    BY DEF Less
<1> QED
    BY <1>1, <1>2, HasOne DEF Patient

-----------------------------------------------------------------------------
(* The steps. *)

LEMMA WatchFacts ==
    ASSUME WatchInv, foreign = "none", link = "prompt"
    PROVE  /\ Watch(peer["client"], peer["server"], wire["client"], wire["server"])
           /\ Watch(peer["server"], peer["client"], wire["server"], wire["client"])
           /\ Patient(peer["client"], pendingTimer, retryTimer, peer["server"], jobs,
                      wire["client"], wire["server"])
BY EndsFacts DEF WatchInv, WatchOf, PatientClient, Other

LEMMA WatchGone == \A p, q, s, o : p.sock # "connected" => Watch(p, q, s, o)
BY DEF Watch

LEMMA WatchAbort ==
    ASSUME TypeOK, TypeOK', WatchInv, foreign = "none", link = "prompt", NEW e \in Ends, Abort(e),
           UNCHANGED <<jobs, link>>
    PROVE  WatchInv'
<1> USE EndsFacts, OrderTypes
<1>1. PICK n \in 0 .. Len(wire[Other(e)]) :
          wire' = [x \in Ends |->
                     IF x = Other(e) /\ Reachable(Other(e))
                     THEN SubSeq(wire[Other(e)], 1, n) \o <<"fin">> ELSE <<>>]
    BY DEF Abort
<1>2. /\ peer'[e].sock = "unconnected" /\ peer'[Other(e)] = peer[Other(e)]
      /\ e = "client" => pendingTimer' = 0 /\ retryTimer' = 0
      /\ e = "server" => pendingTimer' = pendingTimer /\ retryTimer' = retryTimer
    BY DEF Abort, Clean, ClientTimersStop
<1>3. /\ wire'[e] = <<>>
      /\ Live(Other(e)) => wire'[Other(e)] = SubSeq(wire[Other(e)], 1, n) \o <<"fin">>
    BY <1>1 DEF Reachable
<1>4. Live(Other(e)) => Has(wire'[Other(e)], {"fin"})
  <2>1. wire[Other(e)] \in Seq(Bytes) /\ "fin" \in {"fin"}
      OBVIOUS
  <2>2. Has(SubSeq(wire[Other(e)], 1, n) \o <<"fin">>, {"fin"})
      BY <2>1, HasEnd
  <2> QED
      BY <1>3, <2>2
<1>5. Watch(peer'[e], peer'[Other(e)], wire'[e], wire'[Other(e)])
    BY <1>2, WatchGone
<1>6. Watch(peer'[Other(e)], peer'[e], wire'[Other(e)], wire'[e])
  <2>1. Watch(peer[Other(e)], peer[e], wire[Other(e)], wire[e])
      BY WatchFacts DEF Other
  <2>2. Live(Other(e)) => EndIsComing(peer'[e], wire'[Other(e)])
      BY <1>4 DEF EndIsComing
  <2> QED
      BY <1>2, <2>1, <2>2, EndComes, WatchPassive DEF Live
<1>7. CASE e = "client"
  <2>1. Patient(peer'["client"], pendingTimer', retryTimer', peer'["server"], jobs',
                wire'["client"], wire'["server"])
      BY <1>2, <1>7, PatientAway
  <2> QED
      BY <1>5, <1>6, <1>7, <2>1, WatchPrimed DEF Other
<1>8. CASE e = "server"
  <2>1. ASSUME Live("client")
        PROVE  /\ Has(wire'["client"], {"serverInfoDenied"}) => Has(wire["client"], {"serverInfoDenied"})
               /\ Has(wire'["client"], Answers \cup Denials) => Has(wire["client"], Answers \cup Denials)
               /\ EndIsComing(peer'["server"], wire'["client"])
    <3>1. wire'["client"] = SubSeq(wire["client"], 1, n) \o <<"fin">> /\ n \in 0 .. Len(wire["client"])
        BY <1>3, <1>8, <2>1 DEF Other
    <3>2. ~("fin" \in {"serverInfoDenied"}) /\ ~("fin" \in Answers \cup Denials)
        BY DEF Answers, Denials
    <3> QED
        BY <3>1, <3>2, HasEnd DEF EndIsComing
  <2>2. Live("client") /\ InFlight(jobs', wire'["client"], wire'["server"])
            => InFlight(jobs, wire["client"], wire["server"])
      BY <1>3, <1>8, <2>1, HasOne DEF InFlight
  <2>3. peer'["client"] = peer["client"]
      BY <1>2, <1>8 DEF Other
  <2>4. Patient(peer["client"], pendingTimer, retryTimer, peer'["server"], jobs',
                wire'["client"], wire'["server"])
      BY <2>1, <2>2, PatientSame, WatchFacts DEF Live
  <2> QED
      BY <1>2, <1>5, <1>6, <1>8, <2>3, <2>4, WatchPrimed DEF Other
<1> QED
    BY <1>7, <1>8

LEMMA WatchLeave ==
    ASSUME TypeOK, TypeOK', WatchInv, foreign = "none", link = "prompt", NEW e \in Ends,
           DisconnectFromHost(e), UNCHANGED link,
           Has(jobs', Requests) => Has(jobs, Requests)
    PROVE  WatchInv'
<1> USE EndsFacts, OrderTypes
<1>1. /\ peer'[e].sock = "closing" /\ peer'[Other(e)] = peer[Other(e)]
      /\ wire'[Other(e)] = wire[Other(e)] /\ wire'[e] = <<>>
      /\ e = "client" => pendingTimer' = 0 /\ retryTimer' = 0
      /\ e = "server" => pendingTimer' = pendingTimer /\ retryTimer' = retryTimer
    BY DEF DisconnectFromHost, Closing, PeerRecord, ClientTimersStop
<1>2. Watch(peer'[e], peer'[Other(e)], wire'[e], wire'[Other(e)])
    BY <1>1, WatchGone
<1>3. EndIsComing(peer'[e], wire'[Other(e)])
    BY <1>1 DEF EndIsComing
<1>4. Watch(peer'[Other(e)], peer'[e], wire'[Other(e)], wire'[e])
  <2>1. Watch(peer[Other(e)], peer[e], wire[Other(e)], wire[e])
      BY WatchFacts DEF Other
  <2> QED
      BY <1>1, <1>3, <2>1, EndComes, WatchPassive
<1>5. CASE e = "client"
  <2>1. Patient(peer'["client"], pendingTimer', retryTimer', peer'["server"], jobs',
                wire'["client"], wire'["server"])
      BY <1>1, <1>5, PatientAway
  <2> QED
      BY <1>2, <1>4, <1>5, <2>1, WatchPrimed DEF Other
<1>6. CASE e = "server"
  <2>1. /\ peer'["client"] = peer["client"] /\ wire'["client"] = wire["client"] /\ wire'["server"] = <<>>
        /\ EndIsComing(peer'["server"], wire'["client"])
      BY <1>1, <1>3, <1>6 DEF Other
  <2>2. InFlight(jobs', wire'["client"], wire'["server"])
            => InFlight(jobs, wire["client"], wire["server"])
      BY <2>1, HasOne DEF InFlight
  <2>3. Patient(peer["client"], pendingTimer, retryTimer, peer'["server"], jobs',
                wire'["client"], wire'["server"])
      BY <2>1, <2>2, PatientSame, WatchFacts
  <2> QED
      BY <1>1, <1>2, <1>4, <1>6, <2>1, <2>3, WatchPrimed DEF Other
<1> QED
    BY <1>5, <1>6

LEMMA WatchCloses ==
    ASSUME TypeOK, TypeOK', WatchInv, foreign = "none", link = "prompt", NEW e \in Ends, CloseEnds(e)
    PROVE  WatchInv'
<1> USE EndsFacts, OrderTypes
<1>1. /\ peer[e].sock = "closing" /\ peer'[e].sock = "unconnected"
      /\ peer'[Other(e)] = peer[Other(e)] /\ wire'[e] = wire[e]
      /\ UNCHANGED <<jobs, link, retryTimer, pendingTimer>>
    BY DEF CloseEnds, Clean, clientVars
<1>2. /\ Live(Other(e)) => wire'[Other(e)] = wire[Other(e)] \o <<"fin">>
      /\ ~Live(Other(e)) => wire'[Other(e)] = wire[Other(e)]
  <2>1. Append(wire[Other(e)], "fin") = wire[Other(e)] \o <<"fin">>
      BY AppendIsConcat, PacketKinds
  <2>2. wire' = [wire EXCEPT ![Other(e)] =
                   IF Reachable(Other(e)) THEN Append(@, "fin") ELSE @]
      BY DEF CloseEnds
  <2> QED
      BY <2>1, <2>2 DEF Reachable
<1>3. /\ \A ps : Has(wire'[Other(e)], ps) => Has(wire[Other(e)], ps) \/ "fin" \in ps
      /\ Live(Other(e)) => Has(wire'[Other(e)], {"fin"})
  <2>1. PICK u \in Seq(Bytes) : u = <<"fin">>
      BY PacketKinds
  <2>2. wire'[Other(e)] \in {wire[Other(e)], wire[Other(e)] \o u}
      BY <1>2, <2>1
  <2>3. \A ps : Has(u, ps) => "fin" \in ps
      BY <2>1, HasOne
  <2>4. \A ps : Has(wire'[Other(e)], ps) => Has(wire[Other(e)], ps) \/ Has(u, ps)
      BY <2>2, HasMore
  <2>5. Live(Other(e)) => Has(wire'[Other(e)], {"fin"})
    <3>1. wire[Other(e)] \in Seq(Bytes) /\ Has(u, {"fin"})
        BY <2>1, HasOne
    <3>2. Has(wire[Other(e)] \o u, {"fin"})
        BY <3>1, HasAdd
    <3> QED
        BY <1>2, <2>1, <3>2
  <2> QED
      BY <2>3, <2>4, <2>5
<1>4. Watch(peer'[e], peer'[Other(e)], wire'[e], wire'[Other(e)])
    BY <1>1, WatchGone
<1>5. Watch(peer'[Other(e)], peer'[e], wire'[Other(e)], wire'[e])
  <2>1. Watch(peer[Other(e)], peer[e], wire[Other(e)], wire[e])
      BY WatchFacts DEF Other
  <2>2. Live(Other(e)) => EndIsComing(peer'[e], wire'[Other(e)])
      BY <1>3 DEF EndIsComing
  <2> QED
      BY <1>1, <2>1, <2>2, EndComes, WatchPassive DEF Live
<1>6. CASE e = "client"
  <2>1. pendingTimer' = 0
      BY <1>1, <1>6, WatchFacts DEF Patient
  <2>2. Patient(peer'["client"], pendingTimer', retryTimer', peer'["server"], jobs',
                wire'["client"], wire'["server"])
      BY <1>1, <1>6, <2>1, PatientAway
  <2> QED
      BY <1>4, <1>5, <1>6, <2>2, WatchPrimed DEF Other
<1>7. CASE e = "server"
  <2>1. /\ peer'["client"] = peer["client"] /\ wire'["server"] = wire["server"]
        /\ Has(wire'["client"], {"serverInfoDenied"}) => Has(wire["client"], {"serverInfoDenied"})
        /\ Has(wire'["client"], Answers \cup Denials) => Has(wire["client"], Answers \cup Denials)
        /\ Live("client") => EndIsComing(peer'["server"], wire'["client"])
      BY <1>1, <1>3, <1>7 DEF Other, EndIsComing, Answers, Denials
  <2>2. InFlight(jobs', wire'["client"], wire'["server"])
            => InFlight(jobs, wire["client"], wire["server"])
      BY <1>1, <2>1 DEF InFlight
  <2>3. Patient(peer["client"], pendingTimer, retryTimer, peer'["server"], jobs',
                wire'["client"], wire'["server"])
      BY <2>1, <2>2, PatientSame, WatchFacts DEF Live
  <2> QED
      BY <1>1, <1>4, <1>5, <1>7, <2>1, <2>3, WatchPrimed DEF Other
<1> QED
    BY <1>6, <1>7

LEMMA WatchConnections ==
    ASSUME TypeOK, TypeOK', CoverInv, WatchInv, foreign = "none", link = "prompt"
    PROVE  /\ ConnectToHost => WatchInv'
           /\ Establish => WatchInv'
           /\ ServerThreadEnds => WatchInv'
           /\ LinkCut => WatchInv'
<1> USE EndsFacts, OrderTypes
<1>1. ASSUME ConnectToHost PROVE WatchInv'
  <2>1. /\ peer["client"].sock = "unconnected" /\ peer["server"].sock = "absent"
        /\ peer'["server"] = peer["server"] /\ peer'["client"].sock = "connecting"
        /\ UNCHANGED <<pendingTimer, retryTimer, jobs, wire>>
      BY <1>1 DEF ConnectToHost, Connecting, Clean, clientVars
  <2>2. pendingTimer' = 0
      BY <2>1, WatchFacts DEF Patient
  <2>3. /\ Watch(peer'["client"], peer'["server"], wire'["client"], wire'["server"])
        /\ Watch(peer'["server"], peer'["client"], wire'["server"], wire'["client"])
        /\ Patient(peer'["client"], 0, retryTimer', peer'["server"], jobs',
                   wire'["client"], wire'["server"])
      BY <2>1, WatchGone, PatientAway
  <2> QED
      BY <2>2, <2>3, WatchPrimed
<1>2. ASSUME Establish PROVE WatchInv'
  <2>1. /\ peer["client"].sock = "connecting" /\ jobs' = <<>>
        /\ UNCHANGED <<pendingTimer, retryTimer>>
        /\ wire'["server"] = <<"handShake", "authentication">> /\ wire'["client"] = <<>>
        /\ peer'["client"] = HandShaken(Connected) /\ peer'["server"] = Connected
      BY <1>2 DEF Establish, Own, Hello, clientVars, CoverInv
  <2>2. pendingTimer' = 0
      BY <2>1, WatchFacts DEF Patient
  <2>3. \A n \in Nat : StartTimer(n) # 1
      BY DEF StartTimer
  <2>4. /\ ~Connected.received /\ Connected.timeoutTimer # 1
        /\ Connected.keepAliveTimer = 0 /\ Connected.sock = "connected"
      BY <2>3 DEF Connected, Clean
  <2>5. /\ ~HandShaken(Connected).received /\ HandShaken(Connected).timeoutTimer # 1
        /\ HandShaken(Connected).keepAliveTimer = 0 /\ HandShaken(Connected).sock = "connected"
        /\ HandShaken(Connected).sent
      BY <2>3 DEF HandShaken, Connected, Clean
  <2>6. /\ Watch(peer'["client"], peer'["server"], wire'["client"], wire'["server"])
        /\ Watch(peer'["server"], peer'["client"], wire'["server"], wire'["client"])
      BY <2>1, <2>4, <2>5 DEF Watch
  <2>7. Patient(peer'["client"], pendingTimer', retryTimer', peer'["server"], jobs',
                wire'["client"], wire'["server"])
      BY <2>1, <2>2, <2>5, HasOne DEF Patient
  <2> QED
      BY <2>6, <2>7, WatchPrimed
<1>3. ASSUME ServerThreadEnds PROVE WatchInv'
  <2>1. /\ peer["server"].sock = "unconnected"
        /\ peer'["client"] = peer["client"] /\ peer'["server"].sock = "absent"
        /\ UNCHANGED <<jobs, wire, pendingTimer, retryTimer>>
      BY <1>3 DEF ServerThreadEnds, Clean, clientVars
  <2>2. /\ \A s : EndIsComing(peer["server"], s) <=> EndIsComing(peer'["server"], s)
        /\ \A s, o : Coming(peer["server"], s, o) <=> Coming(peer'["server"], s, o)
      BY <2>1 DEF EndIsComing, Coming
  <2>3. Watch(peer["client"], peer["server"], wire["client"], wire["server"])
      BY WatchFacts
  <2>4. Watch(peer["client"], peer'["server"], wire["client"], wire["server"])
      BY <2>1, <2>2, <2>3 DEF Watch
  <2>5. Patient(peer["client"], pendingTimer, retryTimer, peer'["server"], jobs,
                wire["client"], wire["server"])
      BY <2>2, PatientSame, WatchFacts
  <2> QED
      BY <2>1, <2>4, <2>5, WatchGone, WatchPrimed
<1>4. ASSUME LinkCut PROVE WatchInv'
    BY <1>4 DEF LinkCut, WatchInv
<1> QED
    BY <1>1, <1>2, <1>3, <1>4

\* A packet is written: what both ends wait for.
LEMMA WatchWrites ==
    ASSUME TypeOK, WatchInv, foreign = "none", link = "prompt", NEW e \in Ends, NEW x \in Bytes,
           wire' = Write(e, <<x>>)
    PROVE  /\ wire'[e] = wire[e]
           /\ wire'[Other(e)] \in {wire[Other(e)], wire[Other(e)] \o <<x>>}
           /\ Live(e) /\ Live(Other(e)) => wire'[Other(e)] = wire[Other(e)] \o <<x>>
           /\ Watch(peer[e], peer[Other(e)], wire'[e], wire'[Other(e)])
           /\ \A q : q.sock = peer[e].sock =>
                  Watch(peer[Other(e)], q, wire'[Other(e)], wire'[e])
<1> USE EndsFacts, OrderTypes
<1>1. PICK u \in Seq(Bytes) : u = <<x>>
    BY StreamOne
<1>2. /\ wire'[e] = wire[e]
      /\ wire'[Other(e)] \in {wire[Other(e)], wire[Other(e)] \o u}
      /\ Live(e) /\ Live(Other(e)) => wire'[Other(e)] = wire[Other(e)] \o u
    BY <1>1, WriteFacts
<1>3. /\ Watch(peer[e], peer[Other(e)], wire[e], wire[Other(e)])
      /\ Watch(peer[Other(e)], peer[e], wire[Other(e)], wire[e])
    BY WatchFacts DEF Other
<1>4. Watch(peer[e], peer[Other(e)], wire'[e], wire'[Other(e)])
    BY <1>2, <1>3, WatchAdds
<1>5. ASSUME NEW q, q.sock = peer[e].sock
      PROVE  Watch(peer[Other(e)], q, wire'[Other(e)], wire'[e])
    BY <1>2, <1>3, <1>5, WatchAdds
<1> QED
    BY <1>1, <1>2, <1>4, <1>5

\* A packet that is neither a request nor an answer to one.
LEMMA PatientWrites ==
    ASSUME TypeOK, WatchInv, foreign = "none", link = "prompt", NEW e \in Ends, NEW x \in Bytes,
           wire' = Write(e, <<x>>), x \notin Requests \cup Answers \cup Denials,
           NEW p, NEW q, NEW j, p.sock = peer["client"].sock, p.sent = peer["client"].sent,
           q.sock = peer["server"].sock, Has(j, Requests) <=> Has(jobs, Requests)
    PROVE  Patient(p, pendingTimer, retryTimer, q, j, wire'["client"], wire'["server"])
<1> USE EndsFacts, OrderTypes
<1>1. PICK u \in Seq(Bytes) : u = <<x>>
    BY StreamOne
<1>2. \A ps : Has(u, ps) => x \in ps
    BY <1>1, HasOne
<1>3. ~Has(u, Requests) /\ ~Has(u, Answers \cup Denials) /\ ~Has(u, {"serverInfoDenied"})
    BY <1>2 DEF Denials
<1>4. /\ wire'["client"] \in {wire["client"], wire["client"] \o u}
      /\ wire'["server"] \in {wire["server"], wire["server"] \o u}
    BY <1>1, WatchWrites DEF Other
<1>5. /\ InFlight(jobs, wire["client"], wire["server"]) <=> InFlight(jobs, wire'["client"], wire'["server"])
      /\ EndIsComing(peer["server"], wire["client"]) => EndIsComing(peer["server"], wire'["client"])
      /\ Has(wire'["client"], {"serverInfoDenied"}) => Has(wire["client"], {"serverInfoDenied"})
  <2>1. /\ wire'["client"] = wire["client"] \/ wire'["client"] = wire["client"] \o u
        /\ wire'["server"] = wire["server"] \/ wire'["server"] = wire["server"] \o u
      BY <1>4
  <2>2. \A ps : /\ Has(wire["client"], ps) => Has(wire'["client"], ps)
                /\ Has(wire'["client"], ps) => Has(wire["client"], ps) \/ Has(u, ps)
      BY <2>1, HasMore
  <2>3. \A ps : /\ Has(wire["server"], ps) => Has(wire'["server"], ps)
                /\ Has(wire'["server"], ps) => Has(wire["server"], ps) \/ Has(u, ps)
      BY <2>1, HasMore
  <2> QED
      BY <1>3, <2>2, <2>3 DEF InFlight, EndIsComing
<1>6. \A s, o : InFlight(j, s, o) <=> InFlight(jobs, s, o)
    BY DEF InFlight
<1>7. \A s : EndIsComing(q, s) <=> EndIsComing(peer["server"], s)
    BY DEF EndIsComing
<1> QED
    BY <1>5, <1>6, <1>7, PatientSame, WatchFacts

\* The client makes a request: it is on its way, or the server has gone.
LEMMA PatientRequests ==
    ASSUME TypeOK, WatchInv, foreign = "none", link = "prompt", NEW x \in Requests,
           wire' = Write("client", <<x>>), Live("client"), NEW y
    PROVE  Patient(peer["client"], PendingTimeout + 1, y, peer["server"], jobs,
                   wire'["client"], wire'["server"])
<1> USE EndsFacts, OrderTypes
<1>1. x \in Bytes
    BY PacketKinds DEF Bytes
<1>2. wire'["client"] = wire["client"]
    BY <1>1, WatchWrites
<1>3. EndIsComing(peer["server"], wire'["client"]) \/ InFlight(jobs, wire'["client"], wire'["server"])
  <2>1. CASE Live("server")
    <3>1. PICK u \in Seq(Bytes) : u = <<x>>
        BY <1>1, StreamOne
    <3>2. wire'["server"] = wire["server"] \o u
        BY <1>1, <2>1, <3>1, WatchWrites DEF Other
    <3>3. Has(u, Requests)
        BY <3>1, HasOne
    <3>4. Has(wire["server"] \o u, Requests)
        BY <3>3, HasAdd
    <3> QED
        BY <3>2, <3>4 DEF InFlight
  <2>2. CASE ~Live("server")
      BY <1>2, <2>2, WatchFacts DEF Watch, Live
  <2> QED
      BY <2>1, <2>2
<1> QED
    BY <1>2, <1>3, PatientAsks, WatchFacts DEF Live

LEMMA WatchSends ==
    ASSUME TypeOK, TypeOK', OrderInv, WatchInv, foreign = "none", link = "prompt", UNCHANGED link,
           SeedUrlInterval < PendingTimeout
    PROVE  /\ AskSeedUrl => WatchInv'
           /\ SendNodes => WatchInv'
           /\ RetryFires => WatchInv'
           /\ \A e \in Ends : KeepAliveFires(e) => WatchInv'
<1> USE EndsFacts, OrderTypes, OrderTypesNext
<1>1. {"seedUrlRequest", "nodes", "keepAlive"} \subseteq Bytes /\ "seedUrlRequest" \in Requests
    BY PacketKinds DEF Requests, Bytes
<1>2. ASSUME Live("client"), wire' = Write("client", <<"seedUrlRequest">>), UNCHANGED <<peer, jobs>>,
             Register({"seedUrlRequest"})
      PROVE  WatchInv'
  <2>1. pendingTimer' = PendingTimeout + 1
      BY <1>2 DEF Register, StartTimer
  <2>2. Patient(peer["client"], pendingTimer', retryTimer', peer["server"], jobs,
                wire'["client"], wire'["server"])
      BY <1>1, <1>2, <2>1, PatientRequests
  <2>3. /\ Watch(peer["client"], peer["server"], wire'["client"], wire'["server"])
        /\ Watch(peer["server"], peer["client"], wire'["server"], wire'["client"])
      BY <1>1, <1>2, WatchWrites DEF Other
  <2> QED
      BY <1>2, <2>2, <2>3, WatchPrimed
<1>3. ASSUME AskSeedUrl PROVE WatchInv'
    BY <1>2, <1>3 DEF AskSeedUrl, SendSeedUrlRequest, ClientReady
<1>4. ASSUME RetryFires PROVE WatchInv'
  <2>1. Live("client")
      BY <1>4 DEF RetryFires, OrderInv, ClientOrder, Live
  <2> QED
      BY <1>2, <1>4, <2>1 DEF RetryFires, SendSeedUrlRequest
<1>5. {"nodes", "keepAlive"} \cap (Requests \cup Answers \cup Denials) = {}
    BY DEF Requests, Answers, Denials
<1>6. ASSUME SendNodes PROVE WatchInv'
  <2>1. wire' = Write("client", <<"nodes">>) /\ UNCHANGED <<peer, jobs, pendingTimer, retryTimer>>
      BY <1>6 DEF SendNodes, clientVars
  <2>2. Patient(peer["client"], pendingTimer, retryTimer, peer["server"], jobs,
                wire'["client"], wire'["server"])
      BY <1>1, <1>5, <2>1, PatientWrites
  <2>3. /\ Watch(peer["client"], peer["server"], wire'["client"], wire'["server"])
        /\ Watch(peer["server"], peer["client"], wire'["server"], wire'["client"])
      BY <1>1, <2>1, WatchWrites DEF Other
  <2> QED
      BY <2>1, <2>2, <2>3, WatchPrimed
<1>7. ASSUME NEW e \in Ends, KeepAliveFires(e) PROVE WatchInv'
  <2>1. /\ peer[e].keepAliveTimer = 1
        /\ peer'[e] = [peer[e] EXCEPT !.keepAliveTimer = StartTimer(KeepAliveInterval)]
        /\ peer'[Other(e)] = peer[Other(e)]
        /\ wire' = Write(e, <<"keepAlive">>)
        /\ UNCHANGED <<pendingTimer, retryTimer, jobs>>
      BY <1>7 DEF KeepAliveFires, clientVars
  <2>2. /\ Alike(peer[e], peer'[e]) /\ peer[e] \in PeerRecord /\ peer'[e] \in PeerRecord
    <3>1. peer[e] \in PeerRecord
        OBVIOUS
    <3> HIDE EndsFacts, OrderTypes, OrderTypesNext
    <3>2. Alike(peer[e], peer'[e])
        BY <2>1, <3>1 DEF Alike, PeerRecord
    <3> QED
        BY <3>1, <3>2, EndsFacts, OrderTypesNext
  <2>3. Watch(peer'[Other(e)], peer'[e], wire'[Other(e)], wire'[e])
      BY <1>1, <2>1, <2>2, WatchWrites DEF Alike
  <2>4. Watch(peer'[e], peer'[Other(e)], wire'[e], wire'[Other(e)])
    <3>1. ASSUME Live(e) PROVE Coming(peer[Other(e)], wire[e], wire'[Other(e)])
      <4>1. CASE Live(Other(e))
        <5>1. PICK u \in Seq(Bytes) : u = <<"keepAlive">>
            BY <1>1, StreamOne
        <5>2. wire'[Other(e)] = wire[Other(e)] \o u
            BY <1>1, <2>1, <3>1, <4>1, <5>1, WatchWrites
        <5>3. Has(u, {"keepAlive"})
            BY <5>1, HasOne
        <5>4. Has(wire[Other(e)] \o u, {"keepAlive"})
            BY <5>3, HasAdd
        <5> QED
            BY <5>2, <5>4 DEF Coming
      <4>2. CASE ~Live(Other(e))
        <5>1. Watch(peer[e], peer[Other(e)], wire[e], wire[Other(e)])
            BY WatchFacts DEF Other
        <5> QED
            BY <3>1, <4>2, <5>1, EndComes DEF Watch, Live
      <4> QED
          BY <4>1, <4>2
    <3>2. /\ wire'[e] = wire[e]
          /\ Watch(peer[e], peer[Other(e)], wire[e], wire[Other(e)])
        BY <1>1, <2>1, WatchWrites, WatchFacts DEF Other
    <3> QED
        BY <2>1, <2>2, <3>1, <3>2, WatchKeepAlive DEF Live
  <2>5. Patient(peer'["client"], pendingTimer, retryTimer, peer'["server"], jobs,
                wire'["client"], wire'["server"])
    <3>1. /\ peer'["client"].sock = peer["client"].sock /\ peer'["client"].sent = peer["client"].sent
          /\ peer'["server"].sock = peer["server"].sock
        BY <2>1, <2>2 DEF Alike, Other
    <3> QED
        BY <1>1, <1>5, <2>1, <3>1, PatientWrites
  <2> QED
      BY <2>1, <2>3, <2>4, <2>5, WatchPrimed DEF Other
<1> QED
    BY <1>3, <1>4, <1>6, <1>7

\* On a prompt network a state where time passes is one where both ends are
\* connected and have read each other's handshake, or none is connected.
LEMMA TickGreeted ==
    ASSUME TypeOK, OrderInv, WatchInv, foreign = "none", link = "prompt", Tick
    PROVE  \A e \in Ends : Live(e) => peer[e].received /\ peer[e].sent
<1> USE EndsFacts, OrderTypes
<1>1. /\ jobs = <<>> /\ wire["server"] = <<>> /\ wire["client"] = <<>>
      /\ \A e \in Ends : peer[e].sock # "closing"
    BY DEF Tick, Quiet
<1>2. Len(<<>>) = 0
    OBVIOUS
<1>3. \A e \in Ends : Live(e) => Live(Other(e))
    BY <1>1, WatchFacts, HasOne DEF Watch, EndIsComing, Live, Other
<1>4. Live("server") => peer["server"].received /\ peer["server"].sent
  <2>1. ~peer["server"].authenticated => Stage(peer["server"]) \in {0, 1}
      BY DEF Stage
  <2> QED
      BY <1>1, <1>2, <2>1 DEF OrderInv, ServerOrder, Live
<1>5. Live("client") => peer["client"].received /\ peer["client"].sent
  <2>1. Live("client") => peer["client"].sent
      BY WatchFacts DEF Patient, Live
  <2>2. Live("client") => peer["server"].sent /\ peer["server"].sock = "connected"
      BY <1>3, <1>4 DEF Other, Live
  <2> QED
      BY <1>1, <1>2, <2>1, <2>2 DEF OrderInv, ClientOrder, Live
<1> QED
    BY <1>4, <1>5

LEMMA WatchTimers ==
    ASSUME TypeOK, TypeOK', OrderInv, WatchInv, foreign = "none", link = "prompt", UNCHANGED link,
           KeepAliveInterval < PeerTimeout
    PROVE  /\ Tick => WatchInv'
           /\ \A e \in Ends : TimeoutFires(e) => WatchInv'
<1> USE EndsFacts, OrderTypes, OrderTypesNext
<1>1. ASSUME Tick PROVE WatchInv'
  <2>1. /\ UNCHANGED <<jobs, wire>> /\ jobs = <<>>
        /\ pendingTimer' = Less(pendingTimer) /\ retryTimer' = Less(retryTimer)
        /\ pendingTimer # 1 /\ retryTimer # 1
        /\ \A e \in Ends :
              /\ peer'[e] = [peer[e] EXCEPT !.timeoutTimer = Less(@), !.keepAliveTimer = Less(@)]
              /\ peer[e].timeoutTimer # 1 /\ peer[e].keepAliveTimer # 1
              /\ wire[e] = <<>> /\ peer[e].sock # "closing"
      BY <1>1 DEF Tick, Quiet, NoTimerDue
  <2>2. \A e \in Ends : Alike(peer[e], peer'[e])
    <3> SUFFICES ASSUME NEW e \in Ends PROVE Alike(peer[e], peer'[e])
        OBVIOUS
    <3>1. peer[e] \in PeerRecord
        OBVIOUS
    <3> HIDE EndsFacts, OrderTypes, OrderTypesNext
    <3> QED
        BY <2>1, <3>1 DEF Alike, PeerRecord
  <2>3. ASSUME NEW e \in Ends
        PROVE  Watch(peer'[e], peer'[Other(e)], wire'[e], wire'[Other(e)])
    <3>1. Watch(peer[e], peer[Other(e)], <<>>, <<>>)
        BY <2>1, WatchFacts DEF Other
    <3>2. peer[e].sock = "connected" => peer[e].received /\ peer[e].sent
        BY <1>1, TickGreeted DEF Live
    <3>3. peer'[Other(e)].sock = peer[Other(e)].sock
        BY <2>2 DEF Alike
    <3>4. Watch(peer'[e], peer'[Other(e)], <<>>, <<>>)
        BY <2>1, <3>1, <3>2, <3>3, WatchTick
    <3> QED
        BY <2>1, <3>4
  <2>4. Patient(peer'["client"], pendingTimer', retryTimer', peer'["server"], jobs',
                wire'["client"], wire'["server"])
    <3>1. Patient(peer["client"], pendingTimer, retryTimer, peer["server"], <<>>, <<>>, <<>>)
        BY <2>1, WatchFacts
    <3>2. /\ peer'["client"].sock = peer["client"].sock /\ peer'["client"].sent = peer["client"].sent
          /\ peer["server"].sock # "closing" /\ pendingTimer \in Nat /\ retryTimer \in Nat
        BY <2>1, <2>2 DEF Alike, TypeOK
    <3>3. Patient(peer'["client"], pendingTimer', retryTimer', peer'["server"], <<>>, <<>>, <<>>)
        BY <2>1, <3>1, <3>2, PatientTick
    <3> QED
        BY <2>1, <3>3
  <2> QED
      BY <2>3, <2>4, WatchPrimed DEF Other
<1>2. ASSUME NEW e \in Ends, TimeoutFires(e) PROVE WatchInv'
  <2>1. CASE Abort(e)
      BY <1>2, <2>1, WatchAbort DEF TimeoutFires
  <2>2. CASE /\ peer' = [peer EXCEPT ![e].invalidate = FALSE,
                                     ![e].timeoutTimer = StartTimer(Period(peer[e]))]
             /\ UNCHANGED <<clientVars, wire>>
    <3>1. UNCHANGED <<pendingTimer, retryTimer, jobs, wire>> /\ peer[e].timeoutTimer = 1
        BY <1>2, <2>2 DEF TimeoutFires, clientVars
    <3>2. /\ peer'[Other(e)] = peer[Other(e)]
          /\ peer'[e] = [[peer[e] EXCEPT !.invalidate = FALSE]
                            EXCEPT !.timeoutTimer = StartTimer(Period(peer[e]))]
        BY <2>2
    <3>3. Alike(peer[e], peer'[e])
      <4>1. peer[e] \in PeerRecord
          OBVIOUS
      <4> HIDE EndsFacts, OrderTypes, OrderTypesNext
      <4> QED
          BY <3>2, <4>1 DEF Alike, PeerRecord
    <3>4. /\ Watch(peer[e], peer[Other(e)], wire[e], wire[Other(e)])
          /\ Watch(peer[Other(e)], peer[e], wire[Other(e)], wire[e])
        BY WatchFacts DEF Other
    <3>5. Watch(peer'[e], peer[Other(e)], wire[e], wire[Other(e)])
        BY <3>1, <3>2, <3>4, WatchTimeout
    <3>6. Watch(peer[Other(e)], peer'[e], wire[Other(e)], wire[e])
        BY <3>3, <3>4 DEF Watch, Alike, EndIsComing, Coming
    <3>7. Patient(peer'["client"], pendingTimer, retryTimer, peer'["server"], jobs,
                  wire["client"], wire["server"])
      <4>1. /\ peer'["client"].sock = peer["client"].sock /\ peer'["client"].sent = peer["client"].sent
            /\ peer'["server"].sock = peer["server"].sock
          BY <3>2, <3>3 DEF Alike, Other
      <4> QED
          BY <4>1, WatchFacts DEF Patient, EndIsComing
    <3> QED
        BY <3>1, <3>2, <3>5, <3>6, <3>7, WatchPrimed DEF Other
  <2> QED
      BY <1>2, <2>1, <2>2 DEF TimeoutFires
<1> QED
    BY <1>1, <1>2

LEMMA WatchMain ==
    ASSUME TypeOK, TypeOK', OrderInv, WatchInv, foreign = "none", link = "prompt", UNCHANGED link,
           KeepAliveInterval < PeerTimeout, MainThread
    PROVE  WatchInv'
<1> USE EndsFacts, OrderTypes, OrderTypesNext
<1>1. jobs # <<>> /\ jobs' = Tail(jobs)
    BY DEF MainThread
<1>2. Has(jobs, Requests) <=> Head(jobs) \in Requests \/ Has(Tail(jobs), Requests)
    BY <1>1, HasTail
<1>3. Head(jobs) \in Jobs
    BY <1>1, HeadTailProperties
<1>4. CASE /\ Head(jobs) = "authenticated"
           /\ peer' = [peer EXCEPT !["server"] = HandShaken(@)]
           /\ wire' = Write("server", <<"handShake">>)
           /\ UNCHANGED clientVars
  <2>1. /\ peer'["server"] = HandShaken(peer["server"]) /\ peer'["client"] = peer["client"]
        /\ UNCHANGED <<pendingTimer, retryTimer>>
      BY <1>4 DEF clientVars
  <2>2. peer'["server"].sock = peer["server"].sock
      BY <2>1 DEF HandShaken, PeerRecord
  <2>3. "handShake" \in Bytes /\ "handShake" \notin Requests \cup Answers \cup Denials
      BY PacketKinds DEF Requests, Answers, Denials
  <2>4. Has(jobs', Requests) <=> Has(jobs, Requests)
      BY <1>1, <1>2, <1>4 DEF Requests
  <2>5. Patient(peer'["client"], pendingTimer', retryTimer', peer'["server"], jobs',
                wire'["client"], wire'["server"])
      BY <1>4, <2>1, <2>2, <2>3, <2>4, PatientWrites
  <2>6. Watch(peer'["client"], peer'["server"], wire'["client"], wire'["server"])
      BY <1>4, <2>1, <2>2, <2>3, WatchWrites DEF Other
  <2>7. peer["server"].sock = "connected" => peer["server"].received
    <3>1. ServerOrder(peer["server"], jobs, wire["server"], link)
        BY DEF OrderInv
    <3> QED
        BY <1>1, <3>1, ServerAnswers DEF ServerOrder
  <2>8. Watch(peer["server"], peer'["client"], wire'["server"], wire'["client"])
      BY <1>4, <2>1, <2>3, WatchWrites DEF Other
  <2>9. Watch(peer'["server"], peer'["client"], wire'["server"], wire'["client"])
      BY <2>1, <2>7, <2>8, WatchHandShaken
  <2> QED
      BY <2>5, <2>6, <2>9, WatchPrimed
<1>5. CASE DisconnectFromHost("server")
    BY <1>1, <1>2, <1>5, WatchLeave
<1>6. CASE Head(jobs) = "authenticated" /\ UNCHANGED <<peer, clientVars, wire>>
  <2>1. UNCHANGED <<peer, wire, pendingTimer, retryTimer>>
      BY <1>6 DEF clientVars
  <2>2. Has(jobs', Requests) <=> Has(jobs, Requests)
      BY <1>1, <1>2, <1>6 DEF Requests
  <2>3. Patient(peer["client"], pendingTimer, retryTimer, peer["server"], jobs',
                wire["client"], wire["server"])
      BY <2>2, WatchFacts DEF Patient, InFlight
  <2> QED
      BY <2>1, <2>3, WatchFacts, WatchPrimed
<1>7. CASE Head(jobs) # "authenticated" /\ Answer(Head(jobs))
  <2>1. UNCHANGED <<peer, pendingTimer, retryTimer>>
      BY <1>7 DEF Answer, clientVars
  <2>2. PICK p \in (Answers \cup Denials) \ {"serverInfoDenied"} : wire' = Write("server", <<p>>)
      BY <1>7 DEF Answer, Answers, Denials
  <2>3. p \in Bytes
      BY PacketKinds DEF Bytes
  <2>4. PICK u \in Seq(Bytes) : u = <<p>>
      BY <2>3, StreamOne
  <2>5. /\ wire'["server"] = wire["server"]
        /\ wire'["client"] = wire["client"] \/ wire'["client"] = wire["client"] \o u
        /\ Live("server") /\ Live("client") => wire'["client"] = wire["client"] \o u
        /\ Watch(peer["client"], peer["server"], wire'["client"], wire'["server"])
        /\ Watch(peer["server"], peer["client"], wire'["server"], wire'["client"])
      BY <2>2, <2>3, <2>4, WatchWrites DEF Other
  <2>6. Has(u, Answers \cup Denials) /\ ~Has(u, {"serverInfoDenied"})
      BY <2>2, <2>4, HasOne
  <2>7. Has(jobs, Requests)
      BY <1>2, <1>3, <1>7 DEF Jobs
  <2>8. \A ps : /\ Has(wire["client"], ps) => Has(wire'["client"], ps)
                /\ Has(wire'["client"], ps) => Has(wire["client"], ps) \/ Has(u, ps)
      BY <2>5, HasMore
  <2>9. Has(wire'["client"], {"serverInfoDenied"}) => Has(wire["client"], {"serverInfoDenied"})
      BY <2>6, <2>8
  <2>10. Live("client") => \/ EndIsComing(peer["server"], wire'["client"])
                           \/ InFlight(jobs', wire'["client"], wire'["server"])
    <3>1. CASE Live("server") /\ Live("client")
      <4>1. Has(wire["client"] \o u, Answers \cup Denials)
          BY <2>6, HasAdd
      <4> QED
          BY <2>5, <3>1, <4>1 DEF InFlight
    <3>2. CASE ~Live("server")
        BY <2>5, <3>2 DEF Watch, Live
    <3> QED
        BY <3>1, <3>2
  <2>11. InFlight(jobs, wire["client"], wire["server"])
      BY <2>7 DEF InFlight
  <2>12. Patient(peer["client"], pendingTimer, retryTimer, peer["server"], jobs',
                 wire'["client"], wire'["server"])
      BY <2>9, <2>10, <2>11, PatientSame, WatchFacts DEF Live
  <2> QED
      BY <2>1, <2>5, <2>12, WatchPrimed
<1> QED
    BY <1>4, <1>5, <1>6, <1>7 DEF MainThread, AcceptOrRefuse

LEMMA TouchedTimers ==
    ASSUME TypeOK, NEW e \in Ends
    PROVE  LET q == Touched(e) IN
           /\ q.invalidate /\ q.timeoutTimer = peer[e].timeoutTimer
           /\ q.keepAliveTimer = StartTimer(KeepAliveInterval)
           /\ [q EXCEPT !.authenticated = TRUE].invalidate
           /\ [q EXCEPT !.authenticated = TRUE].timeoutTimer = peer[e].timeoutTimer
           /\ [q EXCEPT !.authenticated = TRUE].keepAliveTimer = StartTimer(KeepAliveInterval)
<1>1. PICK p \in PeerRecord : p = peer[e]
    BY DEF TypeOK
<1>2. PICK k : k = StartTimer(KeepAliveInterval)
    OBVIOUS
<1>3. PICK q : q = [[[p EXCEPT !.invalidate = TRUE] EXCEPT !.received = TRUE] EXCEPT !.keepAliveTimer = k]
    OBVIOUS
<1>4. Touched(e) = q
    BY <1>1, <1>2, <1>3 DEF Touched
<1>5. q.invalidate /\ q.timeoutTimer = p.timeoutTimer /\ q.keepAliveTimer = k
    BY <1>3 DEF PeerRecord
<1>6. PICK r : r = [q EXCEPT !.authenticated = TRUE]
    OBVIOUS
<1>7. r.invalidate /\ r.timeoutTimer = p.timeoutTimer /\ r.keepAliveTimer = k
    BY <1>3, <1>6 DEF PeerRecord
<1> QED
    BY <1>1, <1>2, <1>4, <1>5, <1>6, <1>7

\* A packet is read, and maybe others are written: what both ends wait for.
LEMMA WatchReceives ==
    ASSUME TypeOK, TypeOK', WatchInv, foreign = "none", link = "prompt", NEW e \in Ends,
           Live(e), wire[e] # <<>>, Head(wire[e]) # "fin",
           \/ peer' = [peer EXCEPT ![e] = Touched(e)]
           \/ peer' = [peer EXCEPT ![e] = [Touched(e) EXCEPT !.authenticated = TRUE]],
           NEW u \in Seq(Bytes), wire'[e] = Tail(wire[e]),
           wire'[Other(e)] = wire[Other(e)] \/ wire'[Other(e)] = wire[Other(e)] \o u,
           Head(wire[e]) = "keepAlive" /\ Live(Other(e)) => wire'[Other(e)] # <<>>
    PROVE  /\ peer'[Other(e)] = peer[Other(e)]
           /\ peer'[e].sock = peer[e].sock /\ peer'[e].sent = peer[e].sent
           /\ Watch(peer'[e], peer'[Other(e)], wire'[e], wire'[Other(e)])
           /\ Watch(peer'[Other(e)], peer'[e], wire'[Other(e)], wire'[e])
<1> USE EndsFacts, OrderTypes
<1>1. /\ peer'[Other(e)] = peer[Other(e)]
      /\ peer'[e].sock = peer[e].sock /\ peer'[e].sent = peer[e].sent
      /\ peer'[e].received /\ peer'[e].invalidate /\ peer'[e].timeoutTimer = peer[e].timeoutTimer
      /\ peer'[e].keepAliveTimer = StartTimer(KeepAliveInterval)
  <2>1. /\ peer'[Other(e)] = peer[Other(e)]
        /\ peer'[e] = Touched(e) \/ peer'[e] = [Touched(e) EXCEPT !.authenticated = TRUE]
      OBVIOUS
  <2> HIDE EndsFacts, OrderTypes
  <2>2. PICK q : q = Touched(e)
      OBVIOUS
  <2>3. PICK r : r = [Touched(e) EXCEPT !.authenticated = TRUE]
      OBVIOUS
  <2>4. /\ q.sock = peer[e].sock /\ q.received /\ q.sent = peer[e].sent
        /\ q.invalidate /\ q.timeoutTimer = peer[e].timeoutTimer
        /\ q.keepAliveTimer = StartTimer(KeepAliveInterval)
      BY <2>2, TouchedFacts, TouchedTimers
  <2>5. /\ r.sock = peer[e].sock /\ r.received /\ r.sent = peer[e].sent
        /\ r.invalidate /\ r.timeoutTimer = peer[e].timeoutTimer
        /\ r.keepAliveTimer = StartTimer(KeepAliveInterval)
      BY <2>3, TouchedFacts, TouchedTimers
  <2>6. peer'[e] = q \/ peer'[e] = r
      BY <2>1, <2>2, <2>3
  <2> QED
      BY <2>1, <2>4, <2>5, <2>6
<1>2. peer'[e] \in PeerRecord /\ peer[e] \in PeerRecord
    BY OrderTypesNext
<1>3. /\ Watch(peer[e], peer[Other(e)], wire[e], wire[Other(e)])
      /\ Watch(peer[Other(e)], peer[e], wire[Other(e)], wire[e])
    BY WatchFacts DEF Other
<1>4. Watch(peer'[e], peer'[Other(e)], wire'[e], wire'[Other(e)])
  <2>1. wire[e] \in Seq(Bytes) /\ wire[e] # <<>> /\ Head(wire[e]) # "fin"
      OBVIOUS
  <2>2. Watch(peer'[e], peer[Other(e)], Tail(wire[e]), wire'[Other(e)])
      BY <1>1, <1>2, <1>3, <2>1, WatchReads
  <2> QED
      BY <1>1, <2>2
<1>5. Watch(peer[Other(e)], peer'[e], wire'[Other(e)], wire'[e])
  <2>1. peer'[e].sock = "connected" /\ peer[e].sock = "connected"
      BY <1>1 DEF Live
  <2>2. wire[Other(e)] # <<>> => wire'[Other(e)] # <<>>
    <3>1. /\ Len(wire[Other(e)]) \in Nat /\ Len(u) \in Nat
          /\ Len(wire[Other(e)] \o u) = Len(wire[Other(e)]) + Len(u)
        BY StreamAdd
    <3>2. wire[Other(e)] # <<>> => Len(wire[Other(e)]) # 0
        BY EmptySeq
    <3>3. Len(<<>>) = 0
        OBVIOUS
    <3> QED
        BY <3>1, <3>2, <3>3
  <2>3. Has(wire[e], {"keepAlive"}) => Head(wire[e]) = "keepAlive" \/ Has(wire'[e], {"keepAlive"})
      BY HasTail
  <2>4. Live(Other(e)) /\ Coming(peer[e], wire[Other(e)], wire[e])
            => Coming(peer'[e], wire'[Other(e)], wire'[e])
      BY <2>1, <2>2, <2>3 DEF Coming
  <2> QED
      BY <1>3, <2>1, <2>4, WatchPassive DEF Live
<1> QED
    BY <1>1, <1>4, <1>5

LEMMA JobOne == \A x \in Jobs : <<x>> \in Seq(Jobs)
OBVIOUS

LEMMA HasJob ==
    ASSUME NEW j \in Seq(Jobs), NEW x \in Jobs, NEW ps
    PROVE  Has(Append(j, x), ps) <=> Has(j, ps) \/ x \in ps
<1>1. PICK v \in Seq(Jobs) : v = <<x>>
    BY JobOne
<1>2. Append(j, x) = j \o v
    BY <1>1, AppendIsConcat
<1>3. Has(v, ps) <=> x \in ps
    BY <1>1, HasOne
<1>4. Has(j \o v, ps) <=> Has(j, ps) \/ Has(v, ps)
    BY HasAdd
<1> QED
    BY <1>2, <1>3, <1>4

LEMMA WatchReceiveServer ==
    ASSUME TypeOK, TypeOK', OrderInv, WatchInv, foreign = "none", link = "prompt", Receive("server")
    PROVE  WatchInv'
<1> USE EndsFacts, OrderTypes
<1>1. Live("server") /\ wire["server"] # <<>> /\ Head(wire["server"]) # "fin"
    BY DEF Receive
<1>2. UNCHANGED <<pendingTimer, retryTimer, link>>
    BY ServerReceives
<1>3. PICK u \in Seq(Bytes) : u = <<"keepAliveAck">>
    BY PacketKinds
<1>4. \/ peer' = [peer EXCEPT !["server"] = Touched("server")]
      \/ peer' = [peer EXCEPT !["server"] = [Touched("server") EXCEPT !.authenticated = TRUE]]
    BY ServerReceives
<1>5. /\ wire'["server"] = Tail(wire["server"])
      /\ wire'["client"] = wire["client"] \/ wire'["client"] = wire["client"] \o u
      /\ Head(wire["server"]) = "keepAlive" /\ Live("client") => wire'["client"] = wire["client"] \o u
  <2>1. CASE wire' = Read("server") /\ Head(wire["server"]) # "keepAlive"
      BY <1>1, <2>1, ReadCount DEF Other
  <2>2. CASE wire' = ReadAndWrite("server", u)
    <3>1. /\ ReadAndWrite("server", u)["server"] = Tail(wire["server"])
          /\ ReadAndWrite("server", u)[Other("server")] = Write("server", u)[Other("server")]
          /\ IF Live("server") /\ Live(Other("server")) /\ link # "cut"
             THEN Write("server", u)[Other("server")] = wire[Other("server")] \o u
             ELSE Write("server", u)[Other("server")] = wire[Other("server")]
        BY WriteFacts
    <3>2. Other("server") = "client"
        BY DEF Other
    <3> QED
        BY <1>1, <2>2, <3>1, <3>2
  <2>3. \/ wire' = Read("server") /\ Head(wire["server"]) # "keepAlive"
        \/ wire' = ReadAndWrite("server", <<"keepAliveAck">>)
      BY ServerReceives
  <2> QED
      BY <1>3, <2>1, <2>2, <2>3
<1>6. wire["client"] \o u # <<>>
  <2>1. Len(wire["client"] \o u) = Len(wire["client"]) + Len(u) /\ Len(wire["client"]) \in Nat
      BY StreamAdd
  <2>2. Len(u) = 1 /\ Len(<<>>) = 0
      BY <1>3
  <2> QED
      BY <2>1, <2>2
<1>7. /\ peer'["client"] = peer["client"] /\ peer'["server"].sock = peer["server"].sock
      /\ Watch(peer'["server"], peer'["client"], wire'["server"], wire'["client"])
      /\ Watch(peer'["client"], peer'["server"], wire'["client"], wire'["server"])
  <2>1. Other("server") = "client" /\ "server" \in Ends
      BY DEF Other
  <2>2. /\ wire'["server"] = Tail(wire["server"])
        /\ wire'[Other("server")] = wire[Other("server")] \/ wire'[Other("server")] = wire[Other("server")] \o u
        /\ Head(wire["server"]) = "keepAlive" /\ Live(Other("server")) => wire'[Other("server")] # <<>>
      BY <1>5, <1>6, <2>1
  <2>3. /\ peer'[Other("server")] = peer[Other("server")] /\ peer'["server"].sock = peer["server"].sock
        /\ Watch(peer'["server"], peer'[Other("server")], wire'["server"], wire'[Other("server")])
        /\ Watch(peer'[Other("server")], peer'["server"], wire'[Other("server")], wire'["server"])
      BY <1>1, <1>4, <2>1, <2>2, WatchReceives
  <2> QED
      BY <2>1, <2>3
<1>8. Has(jobs', Requests) <=> Has(jobs, Requests) \/ Head(wire["server"]) \in Requests
  <2>1. \/ jobs' = jobs /\ Head(wire["server"]) \notin Requests
        \/ jobs' = Append(jobs, "authenticated") /\ Head(wire["server"]) \notin Requests
        \/ jobs' = Append(jobs, Head(wire["server"])) /\ Head(wire["server"]) \in Requests
      BY ServerReceives DEF Requests
  <2>2. \A x \in Jobs : Has(Append(jobs, x), Requests) <=> Has(jobs, Requests) \/ x \in Requests
      BY HasJob
  <2>3. "authenticated" \in Jobs /\ Requests \subseteq Jobs /\ "authenticated" \notin Requests
      BY DEF Jobs, Requests
  <2> QED
      BY <2>1, <2>2, <2>3
<1>9. Has(wire["server"], Requests) <=> Head(wire["server"]) \in Requests \/ Has(wire'["server"], Requests)
    BY <1>1, <1>5, HasTail
<1>10. /\ Has(wire'["client"], Answers \cup Denials) <=> Has(wire["client"], Answers \cup Denials)
       /\ Has(wire'["client"], {"serverInfoDenied"}) <=> Has(wire["client"], {"serverInfoDenied"})
       /\ Has(wire["client"], {"fin"}) => Has(wire'["client"], {"fin"})
  <2>1. \A ps : /\ Has(wire["client"], ps) => Has(wire'["client"], ps)
                /\ Has(wire'["client"], ps) => Has(wire["client"], ps) \/ Has(u, ps)
      BY <1>5, HasMore
  <2>2. ~Has(u, Answers \cup Denials) /\ ~Has(u, {"serverInfoDenied"})
    <3>1. \A ps : Has(u, ps) <=> "keepAliveAck" \in ps
        BY <1>3, HasOne
    <3>2. "keepAliveAck" \notin Answers \cup Denials /\ "keepAliveAck" \notin {"serverInfoDenied"}
        BY DEF Answers, Denials
    <3> QED
        BY <3>1, <3>2
  <2> QED
      BY <2>1, <2>2
<1>11. /\ InFlight(jobs', wire'["client"], wire'["server"]) <=> InFlight(jobs, wire["client"], wire["server"])
       /\ EndIsComing(peer["server"], wire["client"]) => EndIsComing(peer'["server"], wire'["client"])
    BY <1>7, <1>8, <1>9, <1>10 DEF InFlight, EndIsComing
<1>12. Patient(peer'["client"], pendingTimer', retryTimer', peer'["server"], jobs',
               wire'["client"], wire'["server"])
  <2>1. Patient(peer["client"], pendingTimer, retryTimer, peer'["server"], jobs',
                wire'["client"], wire'["server"])
      BY <1>10, <1>11, PatientSame, WatchFacts
  <2> QED
      BY <1>2, <1>7, <2>1
<1> QED
    BY <1>7, <1>12, WatchPrimed

LEMMA WatchClientReads ==
    ASSUME TypeOK, TypeOK', WatchInv, foreign = "none", link = "prompt", Receive("client"),
           peer' = [peer EXCEPT !["client"] = Touched("client")], NEW u \in Seq(Bytes), u # <<>>,
           \/ wire' = ReadAndWrite("client", u)
           \/ wire' = Read("client") /\ Head(wire["client"]) # "keepAlive"
    PROVE  /\ wire'["client"] = Tail(wire["client"])
           /\ wire'["server"] = wire["server"] \/ wire'["server"] = wire["server"] \o u
           /\ wire' = ReadAndWrite("client", u) /\ Live("server") => wire'["server"] = wire["server"] \o u
           /\ peer'["server"] = peer["server"]
           /\ peer'["client"].sock = peer["client"].sock /\ peer'["client"].sent = peer["client"].sent
           /\ Watch(peer'["client"], peer'["server"], wire'["client"], wire'["server"])
           /\ Watch(peer'["server"], peer'["client"], wire'["server"], wire'["client"])
<1> USE EndsFacts, OrderTypes
<1>1. Live("client") /\ wire["client"] # <<>> /\ Head(wire["client"]) # "fin"
    BY DEF Receive
<1>2. Other("client") = "server" /\ "client" \in Ends
    BY DEF Other
<1>3. /\ wire'["client"] = Tail(wire["client"])
      /\ wire'["server"] = wire["server"] \/ wire'["server"] = wire["server"] \o u
      /\ wire' = ReadAndWrite("client", u) /\ Live("server") => wire'["server"] = wire["server"] \o u
      /\ wire' = Read("client") \/ wire' = ReadAndWrite("client", u)
  <2>1. /\ ReadAndWrite("client", u)["client"] = Tail(wire["client"])
        /\ ReadAndWrite("client", u)[Other("client")] = Write("client", u)[Other("client")]
        /\ IF Live("client") /\ Live(Other("client")) /\ link # "cut"
           THEN Write("client", u)[Other("client")] = wire[Other("client")] \o u
           ELSE Write("client", u)[Other("client")] = wire[Other("client")]
      BY WriteFacts
  <2>2. CASE wire' = ReadAndWrite("client", u)
      BY <1>1, <1>2, <2>1, <2>2
  <2>3. CASE wire' = Read("client") /\ wire' # ReadAndWrite("client", u)
      BY <1>1, <2>3, ReadCount DEF Other
  <2> QED
      BY <2>2, <2>3
<1>4. wire["server"] \o u # <<>>
  <2>1. Len(wire["server"] \o u) = Len(wire["server"]) + Len(u) /\ Len(wire["server"]) \in Nat /\ Len(u) \in Nat
      BY StreamAdd
  <2>2. Len(u) # 0 /\ Len(<<>>) = 0
      BY EmptySeq
  <2> QED
      BY <2>1, <2>2
<1>5. /\ wire'[Other("client")] = wire[Other("client")] \/ wire'[Other("client")] = wire[Other("client")] \o u
      /\ Head(wire["client"]) = "keepAlive" /\ Live(Other("client")) => wire'[Other("client")] # <<>>
    BY <1>2, <1>3, <1>4
<1>6. /\ peer'[Other("client")] = peer[Other("client")]
      /\ peer'["client"].sock = peer["client"].sock /\ peer'["client"].sent = peer["client"].sent
      /\ Watch(peer'["client"], peer'[Other("client")], wire'["client"], wire'[Other("client")])
      /\ Watch(peer'[Other("client")], peer'["client"], wire'[Other("client")], wire'["client"])
    BY <1>1, <1>2, <1>3, <1>5, WatchReceives
<1> QED
    BY <1>2, <1>3, <1>6

\* What the client writes once it has read the handshake of the server.
LEMMA FirstRequests ==
    \A u \in {<<"serverInfoRequest">>, <<"serverInfoRequest", "seedUrlRequest">>} :
        u \in Seq(Bytes) /\ u # <<>> /\ Has(u, Requests) /\ 1 \in DOMAIN u
<1>1. {"serverInfoRequest", "seedUrlRequest"} \subseteq Bytes
    BY PacketKinds DEF Requests, Bytes
<1>2. "serverInfoRequest" \in Requests
    BY DEF Requests
<1>3. ASSUME NEW u, u = <<"serverInfoRequest">>
      PROVE  u \in Seq(Bytes) /\ Len(u) = 1 /\ u[1] = "serverInfoRequest" /\ 1 \in DOMAIN u
    BY <1>1, <1>3
<1>4. ASSUME NEW u, u = <<"serverInfoRequest", "seedUrlRequest">>
      PROVE  u \in Seq(Bytes) /\ Len(u) = 2 /\ u[1] = "serverInfoRequest" /\ 1 \in DOMAIN u
    BY <1>1, <1>4
<1>5. \A u : (Len(u) = 1 \/ Len(u) = 2) /\ u[1] = "serverInfoRequest" => Has(u, Requests)
    BY <1>2 DEF Has
<1> QED
    BY <1>3, <1>4, <1>5, HasSome

LEMMA WatchReceiveClient ==
    ASSUME TypeOK, TypeOK', CoverInv, OrderInv, WatchInv, foreign = "none", link = "prompt",
           SeedUrlInterval < PendingTimeout, Receive("client")
    PROVE  WatchInv'
<1> USE EndsFacts, OrderTypes
<1> DEFINE s == wire["client"]
           x == Head(wire["client"])
<1>1. Live("client") /\ s # <<>> /\ x # "fin"
    BY DEF Receive
<1>2. UNCHANGED <<jobs, link>>
    BY ClientReceives
<1>3. Patient(peer["client"], pendingTimer, retryTimer, peer["server"], jobs, s, wire["server"])
    BY WatchFacts
<1>4. /\ \A ps : Has(s, ps) <=> x \in ps \/ Has(Tail(s), ps)
      /\ ~Has(s, {"serverInfoDenied"})
    BY <1>1, <1>3, HasTail DEF Patient, Live
<1>5. CASE /\ x = "handShake" /\ peer' = [peer EXCEPT !["client"] = Touched("client")]
           /\ \E u \in {<<"serverInfoRequest">>, <<"serverInfoRequest", "seedUrlRequest">>} :
                 Register({u[i] : i \in DOMAIN u}) /\ wire' = ReadAndWrite("client", u)
  <2>1. PICK u \in {<<"serverInfoRequest">>, <<"serverInfoRequest", "seedUrlRequest">>} :
            Register({u[i] : i \in DOMAIN u}) /\ wire' = ReadAndWrite("client", u)
      BY <1>5
  <2>2. u \in Seq(Bytes) /\ u # <<>> /\ Has(u, Requests) /\ 1 \in DOMAIN u
      BY <2>1, FirstRequests
  <2>3. pendingTimer' = PendingTimeout + 1
    <3>1. PICK R : R = {u[i] : i \in DOMAIN u}
        OBVIOUS
    <3>2. R # {}
        BY <2>2, <3>1
    <3> QED
        BY <2>1, <3>1, <3>2 DEF Register, StartTimer
  <2>4. /\ wire'["client"] = Tail(s) /\ peer'["server"] = peer["server"]
        /\ Live("server") => wire'["server"] = wire["server"] \o u
        /\ peer'["client"].sock = peer["client"].sock /\ peer'["client"].sent = peer["client"].sent
        /\ Watch(peer'["client"], peer'["server"], wire'["client"], wire'["server"])
        /\ Watch(peer'["server"], peer'["client"], wire'["server"], wire'["client"])
      BY <1>5, <2>1, <2>2, WatchClientReads
  <2>5. EndIsComing(peer["server"], Tail(s)) \/ InFlight(jobs, Tail(s), wire'["server"])
    <3>1. CASE Live("server")
      <4>1. Has(wire["server"] \o u, Requests)
          BY <2>2, HasAdd
      <4> QED
          BY <2>4, <3>1, <4>1 DEF InFlight
    <3>2. CASE ~Live("server")
      <4>1. EndIsComing(peer["server"], s)
          BY <1>1, <3>2, WatchFacts DEF Watch, Live
      <4> QED
          BY <1>1, <1>4, <4>1 DEF EndIsComing
    <3> QED
        BY <3>1, <3>2
  <2>6. Patient(peer'["client"], PendingTimeout + 1, retryTimer', peer["server"], jobs,
                Tail(s), wire'["server"])
      BY <1>1, <1>3, <1>4, <2>4, <2>5, PatientAsks DEF Live
  <2> QED
      BY <1>2, <2>3, <2>4, <2>6, WatchPrimed
<1>6. CASE /\ peer' = [peer EXCEPT !["client"] = Touched("client")] /\ x \in ServerSends
           /\ x \in Answers => pendingTimer' = 0
           /\ x \in Denials => pendingTimer' = pendingTimer /\ retryTimer' = StartRetry(x)
           /\ x \notin Answers \cup Denials => UNCHANGED <<pendingTimer, retryTimer>>
           /\ wire' = IF x = "keepAlive" THEN ReadAndWrite("client", <<"keepAliveAck">>)
                      ELSE Read("client")
  <2>1. PICK u \in Seq(Bytes) : u = <<"keepAliveAck">>
      BY PacketKinds
  <2>2. u # <<>>
      BY <2>1
  <2>3. \/ wire' = ReadAndWrite("client", u)
        \/ wire' = Read("client") /\ Head(wire["client"]) # "keepAlive"
      BY <1>6, <2>1
  <2>4. /\ wire'["client"] = Tail(s) /\ peer'["server"] = peer["server"]
        /\ wire'["server"] = wire["server"] \/ wire'["server"] = wire["server"] \o u
        /\ peer'["client"].sock = peer["client"].sock /\ peer'["client"].sent = peer["client"].sent
        /\ Watch(peer'["client"], peer'["server"], wire'["client"], wire'["server"])
        /\ Watch(peer'["server"], peer'["client"], wire'["server"], wire'["client"])
      BY <1>6, <2>2, <2>3, WatchClientReads
  <2>5. Patient(peer'["client"], pendingTimer', retryTimer', peer["server"], jobs,
                Tail(s), wire'["server"])
    <3>1. CASE x \in Answers
      <4>1. Patient(peer'["client"], 0, retryTimer', peer["server"], jobs, Tail(s), wire'["server"])
          BY <1>1, <1>3, <1>4, <2>4, PatientAnswered DEF Live
      <4> QED
          BY <1>6, <3>1, <4>1
    <3>2. CASE x \in Denials
      <4>1. x = "seedUrlDenied"
          BY <1>4, <3>2 DEF Denials
      <4>2. pendingTimer' = pendingTimer /\ retryTimer' = StartTimer(SeedUrlInterval)
          BY <1>6, <3>2, <4>1 DEF StartRetry
      <4>3. InFlight(jobs, s, wire["server"])
          BY <1>4, <3>2 DEF InFlight
      <4>4. pendingTimer \in Nat
          BY DEF TypeOK
      <4>5. Patient(peer'["client"], pendingTimer, StartTimer(SeedUrlInterval), peer["server"], jobs,
                    Tail(s), wire'["server"])
          BY <1>1, <1>3, <1>4, <2>4, <4>3, <4>4, PatientDenied DEF Live
      <4> QED
          BY <4>2, <4>5
    <3>3. CASE x \notin Answers \cup Denials
      <4>1. Has(wire'["server"], Requests) <=> Has(wire["server"], Requests)
        <5>1. \A ps : Has(u, ps) <=> "keepAliveAck" \in ps
            BY <2>1, HasOne
        <5>2. ~Has(u, Requests)
            BY <5>1 DEF Requests
        <5>3. \A ps : /\ Has(wire["server"], ps) => Has(wire'["server"], ps)
                      /\ Has(wire'["server"], ps) => Has(wire["server"], ps) \/ Has(u, ps)
            BY <2>4, HasMore
        <5> QED
            BY <5>2, <5>3
      <4>2. InFlight(jobs, Tail(s), wire'["server"]) <=> InFlight(jobs, s, wire["server"])
          BY <1>4, <3>3, <4>1 DEF InFlight
      <4>3. EndIsComing(peer["server"], s) => EndIsComing(peer["server"], Tail(s))
          BY <1>1, <1>4 DEF EndIsComing
      <4>4. Patient(peer'["client"], pendingTimer, retryTimer, peer["server"], jobs,
                    Tail(s), wire'["server"])
          BY <1>3, <1>4, <2>4, <4>2, <4>3, PatientSame
      <4> QED
          BY <1>6, <3>3, <4>4
    <3> QED
        BY <3>1, <3>2, <3>3
  <2> QED
      BY <1>2, <2>4, <2>5, WatchPrimed
<1> QED
    BY <1>5, <1>6, ClientReceives

LEMMA WatchInit == Init => WatchInv
<1> SUFFICES ASSUME Init PROVE WatchInv
    OBVIOUS
<1>1. /\ peer["client"].sock = "unconnected" /\ peer["server"].sock = "absent"
      /\ pendingTimer = 0
    BY EndsFacts DEF Init, Clean
<1> QED
    BY <1>1, WatchGone, PatientAway DEF WatchInv, WatchOf, PatientClient, Ends

LEMMA WatchNext ==
    ASSUME KeepAliveInterval < PeerTimeout, SeedUrlInterval < PendingTimeout,
           TypeOK, CoverInv, OrderInv, WatchInv, [Next]_vars
    PROVE  WatchInv'
<1>1. TypeOK'
    BY TypeNext
<1>2. CASE UNCHANGED vars
    BY <1>2, WatchFacts, WatchPrimed DEF vars, clientVars, WatchInv
<1>3. CASE Next
  <2>1. /\ foreign' = foreign
        /\ link' = link \/ link' = "cut"
      BY <1>3 DEF Next, ConnectToHost, Establish, ConnectionFails, ServerThreadEnds, LinkCut, AskSeedUrl,
             SendNodes, MainThread, PendingFires, RetryFires, Tick, Disconnect, CloseEnds, RemoteClosed,
             SocketError, Receive, ForeignSends, Fires, TimeoutFires, KeepAliveFires
  <2>2. CASE foreign # "none" \/ link' # "prompt"
      BY <2>1, <2>2 DEF WatchInv
  <2>3. CASE foreign = "none" /\ link' = "prompt"
    <3>1. link = "prompt" /\ UNCHANGED link
        BY <2>1, <2>3
    <3>2. \A e \in Ends : ~ForeignSends(e) /\ ~SocketError(e)
        BY <2>3, <3>1, EndsFacts DEF ForeignSends, SocketError
    <3>3. \A e \in Ends : Receive(e) => WatchInv'
        BY <1>1, <2>3, <3>1, EndsFacts, WatchReceiveServer, WatchReceiveClient
    <3>4. /\ \A e \in Ends : Disconnect(e) => WatchInv'
          /\ \A e \in Ends : RemoteClosed(e) => WatchInv'
          /\ ConnectionFails => WatchInv'
          /\ PendingFires => WatchInv'
      <4>1. \A e \in Ends : Abort(e) /\ UNCHANGED jobs => WatchInv'
          BY <1>1, <2>3, <3>1, WatchAbort
      <4>2. \A e \in Ends : DisconnectFromHost(e) /\ UNCHANGED jobs => WatchInv'
          BY <1>1, <2>3, <3>1, WatchLeave
      <4> QED
          BY <4>1, <4>2, EndsFacts DEF Disconnect, RemoteClosed, ConnectionFails, PendingFires
    <3>5. \A e \in Ends : CloseEnds(e) => WatchInv'
        BY <1>1, <2>3, <3>1, WatchCloses
    <3>6. \A e \in Ends : Fires(e) => WatchInv'
        BY <1>1, <2>3, <3>1, WatchTimers, WatchSends DEF Fires
    <3>7. /\ ConnectToHost => WatchInv'
          /\ Establish => WatchInv'
          /\ ServerThreadEnds => WatchInv'
          /\ LinkCut => WatchInv'
        BY <1>1, <2>3, <3>1, WatchConnections
    <3>8. /\ AskSeedUrl => WatchInv'
          /\ SendNodes => WatchInv'
          /\ RetryFires => WatchInv'
          /\ MainThread => WatchInv'
          /\ Tick => WatchInv'
        BY <1>1, <2>3, <3>1, WatchSends, WatchMain, WatchTimers
    <3> QED
        BY <1>3, <3>2, <3>3, <3>4, <3>5, <3>6, <3>7, <3>8 DEF Next
  <2> QED
      BY <2>2, <2>3
<1> QED
    BY <1>2, <1>3

LEMMA WatchBound ==
    ASSUME SeedUrlInterval < PendingTimeout, TypeOK, WatchInv
    PROVE  NoFalseTimeout
<1> SUFFICES ASSUME foreign = "none", link = "prompt"
             PROVE  /\ \A e \in Ends : Live(e) /\ peer[e].timeoutTimer = 1 => peer[e].invalidate
                    /\ pendingTimer # 1
    BY DEF NoFalseTimeout
<1>1. ASSUME NEW e \in Ends, Live(e), peer[e].timeoutTimer = 1 PROVE peer[e].invalidate
  <2>1. Watch(peer[e], peer[Other(e)], wire[e], wire[Other(e)])
      BY DEF WatchInv, WatchOf
  <2>2. peer[e].keepAliveTimer \in Nat
      BY DEF TypeOK, PeerRecord
  <2> QED
      BY <1>1, <2>1, <2>2 DEF Watch, Live
<1>2. pendingTimer # 1
    BY WatchFacts DEF Patient, TypeOK
<1> QED
    BY <1>1, <1>2

\* On a network that delivers, two MyCrawler programs are never timed out:
\* keep-alive packets that are more frequent than the timeout of a peer keep
\* both ends, and a denied request is made again before the timer of the pending
\* requests, which the denial leaves running.  The default intervals satisfy
\* both hypotheses; MCClient::setSeedUrlRequestInterval can break the second.
THEOREM NeverTimedOut ==
    ASSUME KeepAliveInterval < PeerTimeout, SeedUrlInterval < PendingTimeout
    PROVE  Spec => []NoFalseTimeout
<1>1. Init => TypeOK /\ CoverInv /\ OrderInv /\ WatchInv
    BY TypeInit, CoverInit, OrderInit, WatchInit
<1>2. TypeOK /\ CoverInv /\ OrderInv /\ WatchInv /\ [Next]_vars
          => (TypeOK /\ CoverInv /\ OrderInv /\ WatchInv)'
    BY TypeNext, CoverNext, OrderNext, WatchNext
<1>3. TypeOK /\ WatchInv => NoFalseTimeout
    BY WatchBound
<1> QED
    BY <1>1, <1>2, <1>3, PTL DEF Spec
=============================================================================
