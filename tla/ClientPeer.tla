----------------------------- MODULE ClientPeer -----------------------------
(***************************************************************************)
(* One connection between a client and the server: the MCClientPeer of     *)
(* MCClient at one end, the MCClientPeer of a MCClientThread at the other, *)
(* and the two byte streams between them, cut into packets.                *)
(*                                                                         *)
(* Time advances in ticks of DefaultKeepAliveInterval (30 s), the unit of  *)
(* the timeouts.  A timer is 0 when it is not running, n + 1 when n ticks  *)
(* are left and 1 when it is due; as a Qt timer it repeats until killed.   *)
(* Time does not pass over a due timer, nor over a signal the server's     *)
(* main thread has not handled: it answers within one tick.                *)
(*                                                                         *)
(* The connect timer that connected_ replaces without killing it is left   *)
(* out: its number matches no timer, so timerEvent ignores it.             *)
(***************************************************************************)
EXTENDS Naturals, Sequences, FiniteSets

CONSTANTS
    ConnectTimeout, HandShakeTimeout, PeerTimeout, PendingTimeout,
    KeepAliveInterval,
    SeedUrlInterval,   \* m_nSeedUrlRequestInterval of MCClient
    MaxPending,        \* bound: requests of a type the client has pending, one
                       \* less when the network is not prompt
    MaxWire            \* bound: packets in a stream when time passes

ASSUME PeerAssumption ==
    /\ ConnectTimeout \in Nat /\ HandShakeTimeout \in Nat
    /\ PendingTimeout \in Nat /\ PeerTimeout \in Nat
    /\ KeepAliveInterval \in Nat \ {0}
    /\ SeedUrlInterval \in Nat \ {0}
    /\ MaxPending \in Nat /\ MaxWire \in Nat

VARIABLES
    peer,           \* the private data of the two MCClientPeer objects
    pending,        \* the client's d->pendingRequests, counted by type
    pendingTimer,   \* its d->pendingRequestTimeoutTimer
    retryTimer,     \* m_idSeedUrlRequestTimer of MCClient
    jobs,           \* signals of the server's peer for the main thread
    wire,           \* wire[e]: packets written to e and not yet read by it
    link,           \* what the network does
    foreign,        \* the end another program plays, or "none"
    error,          \* the last errorProcessingPacket signal of each end
                    \* for this connection
    silence         \* ticks since the network was cut

clientVars == <<pending, pendingTimer, retryTimer>>
vars == <<peer, clientVars, jobs, wire, link, foreign, error, silence>>

Ends     == {"client", "server"}
Other(e) == IF e = "client" THEN "server" ELSE "client"

Requests == {"serverInfoRequest", "seedUrlRequest"}
Answers  == {"serverInfoResponse", "seedUrlResponse"}
Denials  == {"serverInfoDenied", "seedUrlDenied"}

\* The request a response or a RequestDenied packet is about.
RequestOf(p) == IF p \in {"serverInfoResponse", "serverInfoDenied"}
                THEN "serverInfoRequest" ELSE "seedUrlRequest"

\* "malformed" is any packet with a wrong size or type, or bytes that are not
\* a handshake; "badContent" any packet whose content is invalid or corrupted.
Packets == {"handShake", "authentication", "keepAlive", "keepAliveAck",
            "nodes", "malformed", "badContent", "connectionRefused"}
             \cup Requests \cup Answers \cup Denials

Errors == {"none", "protocolId", "packet", "authentication",
           "responseWithoutRequest", "content"}

Links == {"prompt", "slow", "cut"}

PeerRecord == [sock : {"absent", "unconnected", "connecting", "connected", "closing"},
               received : BOOLEAN,       \* receivedHandShake
               sent : BOOLEAN,           \* sentHandShake
               invalidate : BOOLEAN,     \* invalidateTimeout
               authenticated : BOOLEAN,
               timeoutTimer : Nat, keepAliveTimer : Nat]

-----------------------------------------------------------------------------
(* States of a peer: initConnection_, killAllTimers_, connecting_,         *)
(* connected_, closing_, disconnected_ and sendHandShakePacket_.           *)

Less(n) == IF n = 0 THEN 0 ELSE n - 1

StartTimer(n) == IF n > 0 THEN n + 1 ELSE 0

Clean(s) == [sock |-> s, received |-> FALSE, sent |-> FALSE,
             invalidate |-> FALSE, authenticated |-> FALSE,
             timeoutTimer |-> 0, keepAliveTimer |-> 0]

Connecting    == [Clean("connecting") EXCEPT !.timeoutTimer = StartTimer(ConnectTimeout)]
Connected     == [Clean("connected")  EXCEPT !.timeoutTimer = StartTimer(HandShakeTimeout)]
Closing(p)    == [p EXCEPT !.sock = "closing", !.timeoutTimer = 0, !.keepAliveTimer = 0]

HandShaken(p) == [p EXCEPT !.sent = TRUE, !.timeoutTimer = StartTimer(PeerTimeout)]

PendingBound == IF link = "prompt" THEN MaxPending ELSE MaxPending - 1

Live(e)      == peer[e].sock = "connected"
Own(e)       == foreign # e

\* The period of the timer in timeoutTimer.
Period(p) == IF p.sent THEN PeerTimeout
             ELSE IF p.sock = "connecting" THEN ConnectTimeout ELSE HandShakeTimeout

\* MCClient is in ConnectedState once the handshake of the server was read.
ClientReady == Live("client") /\ peer["client"].received

\* Packets reach the end e.
Reachable(e) == Live(e) /\ link # "cut"

Write(e, s) ==   \* the streams after e has written s; another program reads at once
    IF Live(e) /\ Reachable(Other(e)) /\ Own(Other(e))
    THEN [wire EXCEPT ![Other(e)] = @ \o s]
    ELSE wire

Read(e) == [wire EXCEPT ![e] = Tail(@)]

ReadAndWrite(e, s) ==
    [x \in Ends |-> IF x = e THEN Tail(wire[e]) ELSE Write(e, s)[x]]

\* The timers of the client that stop when its socket closes.
ClientTimersStop(e) ==
    IF e = "client" THEN pendingTimer' = 0 /\ retryTimer' = 0
    ELSE UNCHANGED <<pendingTimer, retryTimer>>

\* QAbstractSocket::abort drops what is not sent yet: the other end reads a
\* prefix of it and then the end of the stream.
Abort(e) ==
    LET o == Other(e) IN
    /\ peer' = [peer EXCEPT ![e] = Clean("unconnected")]
    /\ \E n \in 0 .. Len(wire[o]) :
          wire' = [x \in Ends |->
                     IF x = o /\ Reachable(o) THEN SubSeq(wire[o], 1, n) \o <<"fin">>
                     ELSE <<>>]
    /\ ClientTimersStop(e)
    /\ UNCHANGED pending

\* QAbstractSocket::disconnectFromHost on a connected socket.
DisconnectFromHost(e) ==
    /\ peer' = [peer EXCEPT ![e] = Closing(@)]
    /\ wire' = [wire EXCEPT ![e] = <<>>]
    /\ ClientTimersStop(e)
    /\ UNCHANGED pending

-----------------------------------------------------------------------------
Init ==
    /\ peer = [e \in Ends |-> Clean(IF e = "client" THEN "unconnected" ELSE "absent")]
    /\ pending = [r \in Requests |-> 0]
    /\ pendingTimer = 0
    /\ retryTimer = 0
    /\ jobs = <<>>
    /\ wire = [e \in Ends |-> <<>>]
    /\ foreign \in Ends \cup {"none"}
    /\ link \in IF foreign = "none" THEN {"prompt", "slow"} ELSE {"prompt"}
    /\ error = [e \in Ends |-> "none"]
    /\ silence = 0

-----------------------------------------------------------------------------
(* Connections and disconnections. *)

\* MCClient::connectToHost.  Another program may play the client.
ConnectToHost ==
    /\ peer["client"].sock = "unconnected" /\ peer["server"].sock = "absent"
    /\ \A r \in Requests : pending[r] < PendingBound
    /\ peer' = [peer EXCEPT !["client"] =
                  IF Own("client") THEN Connecting ELSE Clean("connecting")]
    /\ UNCHANGED <<clientVars, jobs, wire, link, foreign, error, silence>>

\* sendHandShakePacket_ and sendAuthenticationPacket_.  The content of the
\* second, the network the client is on, is abstracted: Server reads its address.
Hello == <<"handShake", "authentication">>

\* connected_ at both ends; MCClient::peerConnected_ sends its packets at once.
Establish ==
    /\ peer["client"].sock = "connecting" /\ peer["server"].sock = "absent"
    /\ link # "cut"
    /\ peer' = [e \in Ends |->
                  IF ~Own(e) THEN Clean("connected")
                  ELSE IF e = "client" THEN HandShaken(Connected) ELSE Connected]
    /\ wire' = [e \in Ends |->
                  IF e = "server" /\ Own("client")
                  THEN Hello ELSE <<>>]
    /\ error' = [e \in Ends |-> "none"]
    /\ UNCHANGED <<clientVars, jobs, link, foreign, silence>>

ConnectionFails ==
    /\ peer["client"].sock = "connecting"
    /\ Abort("client")
    /\ UNCHANGED <<jobs, link, foreign, error, silence>>

\* MCClientPeer::disconnect, called by MCClient or at the end of
\* MCClientThread::run.
Disconnect(e) ==
    /\ \/ peer[e].sock = "connecting" /\ Abort(e)
       \/ Live(e) /\ DisconnectFromHost(e)
    /\ UNCHANGED <<jobs, link, foreign, error, silence>>

\* A closing socket has sent its last byte.
CloseEnds(e) ==
    /\ peer[e].sock = "closing"
    /\ peer' = [peer EXCEPT ![e] = Clean("unconnected")]
    /\ wire' = [wire EXCEPT ![Other(e)] =
                  IF Reachable(Other(e)) THEN Append(@, "fin") ELSE @]
    /\ UNCHANGED <<clientVars, jobs, link, foreign, error, silence>>

RemoteClosed(e) ==
    /\ Live(e) /\ wire[e] # <<>> /\ Head(wire[e]) = "fin"
    /\ Abort(e)
    /\ UNCHANGED <<jobs, link, foreign, error, silence>>

\* The worker thread ends once the main thread has seen the disconnection.
ServerThreadEnds ==
    /\ peer["server"].sock = "unconnected" /\ jobs = <<>>
    /\ peer' = [peer EXCEPT !["server"] = Clean("absent")]
    /\ UNCHANGED <<clientVars, jobs, wire, link, foreign, error, silence>>

LinkCut ==
    /\ link # "cut"
    /\ link' = "cut"
    /\ wire' = [e \in Ends |-> <<>>]
    /\ UNCHANGED <<peer, clientVars, jobs, foreign, error, silence>>

\* The network or the system gives up a connection without a packet.
SocketError(e) ==
    /\ link = "cut" /\ Live(e)
    /\ Abort(e)
    /\ UNCHANGED <<jobs, link, foreign, error, silence>>

-----------------------------------------------------------------------------
(* Packets the client sends on its own. *)

\* The pending requests of each type.  A MCClientPeerRequestInfo is valid once
\* it stands for a request; its times, of which the ping is made, are left out.
RequestCounts == [Requests -> Nat]

\* MCClientPeerRequestsQueuesContainer: addRequest for each of rs, takeRequest
\* (from either end: requests of a type differ only in their time).
AddRequests(rs) == [r \in Requests |-> pending[r] + (IF r \in rs THEN 1 ELSE 0)]

TakeRequest(r) == [pending EXCEPT ![r] = @ - 1]

\* registerRequest_: the timer of all pending requests starts again.
Register(rs) ==
    /\ pending' = AddRequests(rs)
    /\ pendingTimer' = IF rs # {} THEN StartTimer(PendingTimeout) ELSE pendingTimer

SendSeedUrlRequest ==
    /\ Register({"seedUrlRequest"})
    /\ wire' = Write("client", <<"seedUrlRequest">>)

\* A crawl is finished and its nodes were sent.
AskSeedUrl ==
    /\ Own("client") /\ ClientReady
    /\ pending["seedUrlRequest"] + (IF retryTimer > 0 THEN 1 ELSE 0) < PendingBound
    /\ SendSeedUrlRequest
    /\ UNCHANGED <<peer, retryTimer, jobs, link, foreign, error, silence>>

\* MCClient::sendDataNodes and sendLinkNodes.
SendNodes ==
    /\ Own("client") /\ ClientReady
    /\ wire["server"] = <<>>
    /\ wire' = Write("client", <<"nodes">>)
    /\ UNCHANGED <<peer, clientVars, jobs, link, foreign, error, silence>>

-----------------------------------------------------------------------------
(* Packets received: processIncomingData_ and processPacket_, one packet   *)
(* per step.                                                               *)

\* The state of the peer e once data has come in: with the handshake, data
\* restarts the keep-alive timer.
Touched(e) ==
    [peer[e] EXCEPT !.invalidate = TRUE,
                    !.received = TRUE,
                    !.keepAliveTimer = StartTimer(KeepAliveInterval)]

\* errorProcessingPacket_ with AbortBehavior, and with the two others.
FailAbort(e, kind) ==
    /\ error' = [error EXCEPT ![e] = kind]
    /\ Abort(e)
    /\ UNCHANGED jobs

FailContinue(e, kind) ==
    /\ error' = [error EXCEPT ![e] = kind]
    /\ peer' = [peer EXCEPT ![e] = Touched(e)]
    /\ wire' = Read(e)
    /\ UNCHANGED <<clientVars, jobs>>

\* A packet that changes nothing but the liveness of the peer.
Ignore(e) ==
    /\ peer' = [peer EXCEPT ![e] = Touched(e)]
    /\ wire' = Read(e)
    /\ UNCHANGED <<clientVars, jobs, error>>

\* The first bytes must be a handshake (a packet shorter than one is judged at
\* once instead of waiting for the bytes that follow it).  The client answers the server's with
\* a request for its information and, when it has nothing to crawl, for a Url.
ReceiveHandShake(e, p) ==
    /\ ~peer[e].received
    /\ IF p # "handShake" THEN FailAbort(e, "protocolId")
       ELSE /\ peer' = [peer EXCEPT ![e] = Touched(e)]
            /\ IF e = "client"
               THEN \E s \in {<<"serverInfoRequest">>,
                              <<"serverInfoRequest", "seedUrlRequest">>} :
                       /\ wire' = ReadAndWrite(e, s)
                       /\ Register({s[i] : i \in DOMAIN s})
               ELSE wire' = Read(e) /\ UNCHANGED <<pending, pendingTimer>>
            /\ UNCHANGED <<retryTimer, jobs, error>>

\* Variant: the first response takes every request of its type.
ReceiveResponseTakesAll(e, p) ==
    /\ peer[e].received /\ p \in Answers
    /\ IF e = "client" THEN pendingTimer' = 0 ELSE UNCHANGED pendingTimer
    /\ error' = IF e = "client" /\ pending[RequestOf(p)] > 0 THEN error
                ELSE [error EXCEPT ![e] = "responseWithoutRequest"]
    /\ pending' = IF e = "client" THEN [pending EXCEPT ![RequestOf(p)] = 0] ELSE pending
    /\ peer' = [peer EXCEPT ![e] = Touched(e)]
    /\ wire' = Read(e)
    /\ UNCHANGED <<retryTimer, jobs>>

\* The signals of a response reach MCClient, which stops asking again when it
\* has a Url.
StopRetry(p) == IF p = "seedUrlResponse" THEN 0 ELSE retryTimer

\* MCClient::peerRequestDenied_
StartRetry(p) == IF p = "seedUrlDenied" THEN StartTimer(SeedUrlInterval) ELSE retryTimer

\* unregisterRequest_ and the error of a response nobody asked for.  A release
\* build drops it; in a debug build the notification asserts.
ReceiveResponse(e, p) ==
    LET known == e = "client" /\ pending[RequestOf(p)] > 0 IN
    /\ peer[e].received /\ p \in Answers
    /\ IF e = "client" THEN pendingTimer' = 0 ELSE UNCHANGED pendingTimer
    /\ IF known
       THEN /\ pending' = TakeRequest(RequestOf(p))
            /\ retryTimer' = StopRetry(p)
            /\ UNCHANGED error
       ELSE /\ error' = [error EXCEPT ![e] = "responseWithoutRequest"]
            /\ UNCHANGED <<pending, retryTimer>>
    /\ peer' = [peer EXCEPT ![e] = Touched(e)]
    /\ wire' = Read(e)
    /\ UNCHANGED jobs

\* The server processes nothing before the authentication packet.
ReceiveAuthentication(e, p) ==
    /\ peer[e].received /\ p \notin Answers
    /\ e = "server" /\ ~peer[e].authenticated
    /\ IF p # "authentication" THEN FailAbort(e, "authentication")
       ELSE /\ peer' = [peer EXCEPT ![e] = [Touched(e) EXCEPT !.authenticated = TRUE]]
            /\ jobs' = Append(jobs, "authenticated")
            /\ wire' = Read(e)
            /\ UNCHANGED <<clientVars, error>>

ReceiveKeepAlive(e, p) ==
    /\ p = "keepAlive"
    /\ peer' = [peer EXCEPT ![e] = Touched(e)]
    /\ wire' = ReadAndWrite(e, <<"keepAliveAck">>)
    /\ UNCHANGED <<clientVars, jobs, error>>

\* A request is a signal: only MCClientThread listens to it.
ReceiveRequest(e, p) ==
    /\ p \in Requests
    /\ jobs' = IF e = "server" THEN Append(jobs, p) ELSE jobs
    /\ peer' = [peer EXCEPT ![e] = Touched(e)]
    /\ wire' = Read(e)
    /\ UNCHANGED <<clientVars, error>>

\* Variant: a request that is denied is not made again.
ReceiveDeniedNoRetry(e, p) ==
    /\ p \in Denials
    /\ pending' = [pending EXCEPT ![RequestOf(p)] = Less(@)]
    /\ peer' = [peer EXCEPT ![e] = Touched(e)]
    /\ wire' = Read(e)
    /\ UNCHANGED <<pendingTimer, retryTimer, jobs, error>>

\* processRequestDeniedPacket_; the timer of the pending requests runs on.
ReceiveDenied(e, p) ==
    /\ p \in Denials
    /\ IF e = "client" /\ pending[RequestOf(p)] > 0
       THEN /\ pending' = TakeRequest(RequestOf(p))
            /\ retryTimer' = StartRetry(p)
            /\ peer' = [peer EXCEPT ![e] = Touched(e)]
            /\ wire' = Read(e)
            /\ UNCHANGED <<pendingTimer, jobs, error>>
       ELSE FailContinue(e, "responseWithoutRequest")

\* The reason of a refusal is a signal of an error, and nothing more: the
\* server closes the connection.
ReceiveRefusal(e, p) == p = "connectionRefused" /\ Ignore(e)

ReceiveOther(e, p) ==
    \/ p \in {"keepAliveAck", "nodes"} /\ Ignore(e)
    \/ p = "badContent" /\ FailContinue(e, "content")
    \/ p \in {"handShake", "authentication", "malformed"} /\ FailAbort(e, "packet")

Receive(e) ==
    /\ Own(e) /\ Live(e) /\ wire[e] # <<>> /\ Head(wire[e]) # "fin"
    /\ LET p == Head(wire[e]) IN
          \/ ReceiveHandShake(e, p)
          \/ ReceiveResponse(e, p)
          \/ ReceiveAuthentication(e, p)
          \/ /\ peer[e].received /\ (e = "client" \/ peer[e].authenticated)
             /\ \/ ReceiveKeepAlive(e, p)
                \/ ReceiveRequest(e, p)
                \/ ReceiveDenied(e, p)
                \/ ReceiveRefusal(e, p)
                \/ ReceiveOther(e, p)
    /\ UNCHANGED <<link, foreign, silence>>

-----------------------------------------------------------------------------
(* The server's main thread: Server says when it accepts a client and      *)
(* UrlDispatch when it has a Url.  Its calls reach the peer even when the   *)
(* connection is already lost.                                             *)

AcceptOrRefuse ==
    \/ /\ peer' = [peer EXCEPT !["server"] = HandShaken(@)]
       /\ wire' = Write("server", <<"handShake">>)
       /\ UNCHANGED clientVars
    \/ IF Live("server") THEN DisconnectFromHost("server")
       ELSE UNCHANGED <<peer, clientVars, wire>>

\* Variant: a request for a Url is not answered when there is none.
AnswerOrNot(r) ==
    /\ \E p \in {"serverInfoResponse", "seedUrlResponse", "none"} :
          wire' = IF p = "none" THEN wire ELSE Write("server", <<p>>)
    /\ UNCHANGED <<peer, clientVars>>

Answer(r) ==
    /\ \E p \in IF r = "serverInfoRequest" THEN {"serverInfoResponse"}
                ELSE {"seedUrlResponse", "seedUrlDenied"} :
          wire' = Write("server", <<p>>)
    /\ UNCHANGED <<peer, clientVars>>

MainThread ==
    /\ jobs # <<>>
    /\ jobs' = Tail(jobs)
    /\ \/ Head(jobs) = "authenticated" /\ AcceptOrRefuse
       \/ Head(jobs) # "authenticated" /\ Answer(Head(jobs))
    /\ UNCHANGED <<link, foreign, error, silence>>

-----------------------------------------------------------------------------
(* Another program at one end: any packet, once the last one was handled. *)

ForeignSends(e) ==
    /\ foreign = e /\ Live(e) /\ wire[Other(e)] = <<>> /\ jobs = <<>>
    /\ \E p \in Packets : wire' = Write(e, <<p>>)
    /\ UNCHANGED <<peer, clientVars, jobs, link, foreign, error, silence>>

-----------------------------------------------------------------------------
(* Timers. *)

\* Variant: data that came long ago still counts.
TimeoutFiresNeverSilent(e) ==
    /\ peer[e].timeoutTimer = 1
    /\ IF ~peer[e].invalidate /\ peer[e].sock \in {"connecting", "connected", "closing"}
       THEN Abort(e)
       ELSE /\ peer' = [peer EXCEPT ![e].timeoutTimer = StartTimer(Period(peer[e]))]
            /\ UNCHANGED <<clientVars, wire>>
    /\ UNCHANGED <<jobs, link, foreign, error, silence>>

\* timerEvent of the connect, handshake and peer timeouts; abort() does nothing
\* to a socket that is not connected, whose timer goes on.
TimeoutFires(e) ==
    /\ peer[e].timeoutTimer = 1
    /\ IF ~peer[e].invalidate /\ peer[e].sock \in {"connecting", "connected", "closing"}
       THEN Abort(e)
       ELSE /\ peer' = [peer EXCEPT ![e].invalidate = FALSE,
                                    ![e].timeoutTimer = StartTimer(Period(peer[e]))]
            /\ UNCHANGED <<clientVars, wire>>
    /\ UNCHANGED <<jobs, link, foreign, error, silence>>

PendingFires ==
    /\ pendingTimer = 1
    /\ Abort("client")
    /\ UNCHANGED <<jobs, link, foreign, error, silence>>

KeepAliveFires(e) ==
    /\ peer[e].keepAliveTimer = 1
    /\ peer' = [peer EXCEPT ![e].keepAliveTimer = StartTimer(KeepAliveInterval)]
    /\ wire' = Write(e, <<"keepAlive">>)
    /\ UNCHANGED <<clientVars, jobs, link, foreign, error, silence>>

\* Variant: the new request is sent without being registered.
RetryFiresUnregistered ==
    /\ retryTimer = 1
    /\ retryTimer' = 0
    /\ wire' = Write("client", <<"seedUrlRequest">>)
    /\ UNCHANGED <<peer, pending, pendingTimer, jobs, link, foreign, error, silence>>

\* MCClient::timerEvent: the request that was denied is made again.
RetryFires ==
    /\ retryTimer = 1
    /\ retryTimer' = 0
    /\ SendSeedUrlRequest
    /\ UNCHANGED <<peer, jobs, link, foreign, error, silence>>

NoTimerDue ==
    /\ \A e \in Ends : peer[e].timeoutTimer # 1 /\ peer[e].keepAliveTimer # 1
    /\ pendingTimer # 1 /\ retryTimer # 1

\* A prompt network delivers within a tick.
Quiet ==
    /\ \A e \in Ends : wire[e] = <<>> /\ peer[e].sock \notin {"connecting", "closing"}
    /\ peer["server"].sock # "unconnected"

Tick ==
    /\ NoTimerDue /\ jobs = <<>>
    /\ link = "prompt" => Quiet
    /\ \A e \in Ends : Len(wire[e]) <= MaxWire
    /\ peer' = [e \in Ends |->
                  [peer[e] EXCEPT !.timeoutTimer = Less(@), !.keepAliveTimer = Less(@)]]
    /\ pendingTimer' = Less(pendingTimer)
    /\ retryTimer' = Less(retryTimer)
    /\ silence' = IF link = "cut" /\ silence <= 2 * PeerTimeout + 2 * HandShakeTimeout
                  THEN silence + 1 ELSE silence
    /\ UNCHANGED <<pending, jobs, wire, link, foreign, error>>

-----------------------------------------------------------------------------
Fires(e) == TimeoutFires(e) \/ KeepAliveFires(e)

Next ==
    \/ ConnectToHost \/ Establish \/ ConnectionFails \/ ServerThreadEnds
    \/ LinkCut \/ AskSeedUrl \/ SendNodes \/ MainThread
    \/ PendingFires \/ RetryFires \/ Tick
    \/ \E e \in Ends :
          \/ Disconnect(e) \/ CloseEnds(e) \/ RemoteClosed(e) \/ SocketError(e)
          \/ Receive(e) \/ ForeignSends(e) \/ Fires(e)

Spec == Init /\ [][Next]_vars

\* Timers fire and time passes; the main thread and the sockets make progress;
\* a socket that closes has sent its last byte, in time, on a prompt network.
\* Nobody is obliged to connect, to ask or to leave.
FairSpec ==
    /\ Spec
    /\ WF_vars(Tick) /\ WF_vars(MainThread)
    /\ WF_vars(PendingFires) /\ WF_vars(RetryFires)
    /\ \A e \in Ends : WF_vars(Receive(e)) /\ WF_vars(RemoteClosed(e)) /\ WF_vars(Fires(e))
    /\ \A e \in Ends : WF_vars(link = "prompt" /\ CloseEnds(e))

-----------------------------------------------------------------------------
(* Properties. *)

TypeOK ==
    /\ peer \in [Ends -> PeerRecord]
    /\ pending \in RequestCounts
    /\ pendingTimer \in Nat /\ retryTimer \in Nat
    /\ jobs \in Seq({"authenticated"} \cup Requests)
    /\ wire \in [Ends -> Seq(Packets \cup {"fin"})]
    /\ link \in Links /\ foreign \in Ends \cup {"none"}
    /\ error \in [Ends -> Errors]
    /\ silence \in Nat

Count(s, ps) == Cardinality({i \in DOMAIN s : s[i] \in ps})

AnswersTo(r) == {p \in Answers \cup Denials : RequestOf(p) = r}

\* The requests of type r that are on their way, or their answers.
Outstanding(r) ==
    Count(wire["server"], {r}) + Count(jobs, {r})
      + Count(wire["client"], AnswersTo(r))

\* Two MyCrawler programs see no protocol error: the authentication comes
\* before any packet and every response finds its request.  The exception is
\* a slow network, where a keep-alive packet may pass the server's handshake.
NoProtocolError ==
    foreign = "none" =>
        \A e \in Ends :
            \/ error[e] = "none"
            \/ e = "client" /\ error[e] = "protocolId" /\ link # "prompt"

\* Every request or answer under way has an entry in d->pendingRequests,
\* whatever timeouts, aborts and reconnections happened before.
PendingCoversOutstanding ==
    foreign = "none" /\ ClientReady => \A r \in Requests : Outstanding(r) <= pending[r]

\* On a network that delivers, no live peer is ever timed out: keep-alive
\* packets and their acknowledgments are frequent enough, and the retry of a
\* denied request comes before the timer of the pending requests, which the
\* denial leaves running.
NoFalseTimeout ==
    foreign = "none" /\ link = "prompt" =>
        /\ \A e \in Ends : Live(e) /\ peer[e].timeoutTimer = 1 => peer[e].invalidate
        /\ pendingTimer # 1

\* A peer notices that its network is gone within twice its timeout: once for
\* the data that came before, once for the silence.
LossNoticedInTime ==
    \A e \in Ends : Own(e) /\ Live(e) /\ link = "cut" =>
        silence <= 2 * Period(peer[e])

\* A request on its way to the server ends in an answer for a live client.
RequestsAnswered ==
    \A r \in Requests :
        (foreign = "none" /\ link = "prompt" /\ ClientReady /\ Outstanding(r) > 0)
            ~> (~ClientReady \/ link = "cut"
                  \/ Count(wire["client"], AnswersTo(r)) > 0)
=============================================================================
