---------------------------- MODULE ServerProofs ----------------------------
(***************************************************************************)
(* Safety of the server's connection side, for every set of clients and    *)
(* addresses.                                                              *)
(*                                                                         *)
(* The argument is about the order of the signals a client has waiting.    *)
(* Rank numbers the signals of a connection in the order the worker emits  *)
(* them; the queue is strictly increasing in rank, everything in it is     *)
(* ahead of what the main thread has handled (conn) and not ahead of what  *)
(* the socket has done.  From it follows what the slots rely on: a client  *)
(* authenticates once, its disconnection is handled once and before its    *)
(* finished(), and therefore the table holds exactly the accepted clients. *)
(***************************************************************************)
EXTENDS Server, TLAPS

\* The helpers of the history and of the set of threads are always unfolded.
USE DEF HistoryAdd, HistoryRemove, AddClient, Listens, SetError, ReadNetworkInfo

\* Signals in the order the worker emits them.  Errors come at any time.
Rank(e) ==
    CASE e = "error"             -> 0
      [] e = "socketConnected"   -> 1
      [] e = "authenticated"     -> 2
      [] e = "socketClosing"     -> 3
      [] e = "socketUnconnected" -> 4
      [] e = "finished"          -> 5
      [] OTHER                   -> 6

In(q, e) == \E i \in 1..Len(q) : q[i] = e

Ordered(q) ==
    /\ \A i, j \in 1..Len(q) :
          i < j /\ q[i] # "error" /\ q[j] # "error" => Rank(q[i]) < Rank(q[j])
    /\ \A i \in 1..Len(q) : q[i] = "finished" => i = Len(q)

Pending(c, e) == In(events[c], e)

\* A thread that is not there, or has not begun, has no state; the peer has
\* none once run() has returned.
WorkerClean(c) ==
    /\ c \in threads <=> worker[c] # "none"
    /\ worker[c] \in {"none", "starting"} =>
          /\ events[c] = <<>>
          /\ conn[c] = "Unconnected"
          /\ ~authenticated[c]
    /\ sock[c] # "unconnected" => PeerAlive(c)
    /\ worker[c] \in {"exiting", "returning"} => sock[c] # "connected"
    /\ sentHandShake[c] => PeerAlive(c)
    /\ ~PeerAlive(c) => calls[c] = <<>>

\* The queue is ordered, ahead of the main thread, and not ahead of the socket.
QueueBounded(c) ==
    /\ Ordered(events[c])
    /\ Pending(c, "finished") <=> worker[c] = "finished"
    /\ Pending(c, "socketConnected") => conn[c] = "Unconnected"
    /\ Pending(c, "authenticated") =>
          /\ conn[c] \in {"Unconnected", "Authenticating"}
          /\ sock[c] = "connected" => peerAuth[c]
    /\ Pending(c, "socketClosing") => conn[c] # "Closing" /\ sock[c] # "connected"
    /\ Pending(c, "socketUnconnected") => sock[c] = "unconnected"
    /\ conn[c] = "Unconnected" /\ ~Pending(c, "socketConnected") =>
          /\ ~Pending(c, "authenticated")
          /\ ~Pending(c, "socketClosing")
          /\ ~Pending(c, "socketUnconnected")

\* The main thread knows, or will hear, that the socket was connected, and
\* that it is no longer.
ConnTracksSock(c) ==
    /\ sock[c] # "unconnected" =>
          conn[c] # "Unconnected" \/ Pending(c, "socketConnected")
    /\ sock[c] = "unconnected" =>
          \/ Pending(c, "socketUnconnected")
          \/ conn[c] = "Unconnected" /\ ~Pending(c, "socketConnected")
    /\ conn[c] = "Closing" => sock[c] # "connected"

\* The main thread has heard of an authentication only if the peer made it.
AuthTracked(c) ==
    /\ authenticated[c] =>
          /\ sock[c] = "connected" => peerAuth[c]
          /\ ~Pending(c, "authenticated")
          /\ ~Pending(c, "socketConnected")
    /\ conn[c] = "Connected" => authenticated[c]
    /\ refused[c] => authenticated[c]
    /\ Registered(c) /\ IsRemote(c) => hwAddr[c] \in Macs

\* The server's handshake is only on its way to registered clients.
HandShakeTracked(c) ==
    /\ sentHandShake[c] => Registered(c)
    /\ In(calls[c], "sendHandShake") => Registered(c)

ClientInv(c) ==
    /\ WorkerClean(c)
    /\ QueueBounded(c)
    /\ ConnTracksSock(c)
    /\ AuthTracked(c)
    /\ HandShakeTracked(c)

AllClientsInv == \A c \in Clients : ClientInv(c)

ServerInv ==
    /\ serverState = "Closed" <=> ~listening
    /\ serverState = "Closed" => threads = {}

TableInv == TableMatchesClients /\ ConnectedOrInHistory

IInv == TypeOK /\ AllClientsInv /\ ServerInv /\ TableInv

-----------------------------------------------------------------------------
(* Queues. *)

\* The sequences of one to three signals that the worker posts.
LEMMA EventSeqs ==
  /\ <<>> \in Seq(Events)
  /\ \A e \in Events : <<e>> \in Seq(Events) /\ Len(<<e>>) = 1
  /\ \A e, f \in Events : <<e, f>> \in Seq(Events) /\ Len(<<e, f>>) = 2
  /\ \A e, f, g \in Events : <<e, f, g>> \in Seq(Events) /\ Len(<<e, f, g>>) = 3
  OBVIOUS

\* Posting appends to the queue of one client and leaves the others alone.
LEMMA PostFacts ==
  ASSUME events \in [Clients -> Seq(Events)],
         NEW c \in Clients, NEW es \in Seq(Events), Post(c, es)
  PROVE  /\ events' \in [Clients -> Seq(Events)]
         /\ \A d \in Clients \ {c} : events'[d] = events[d]
         /\ Len(events'[c]) = Len(events[c]) + Len(es)
         /\ \A i \in 1..Len(events[c]) : events'[c][i] = events[c][i]
         /\ \A i \in 1..Len(es) : events'[c][Len(events[c]) + i] = es[i]
<1>1. events'[c] = events[c] \o es
  BY DEF Post
<1>2. events[c] \in Seq(Events)
  OBVIOUS
<1>3. \A d \in Clients \ {c} : events'[d] = events[d]
  BY DEF Post
<1>4. events[c] \o es \in Seq(Events)
  BY <1>2
<1>5. events' \in [Clients -> Seq(Events)]
  BY <1>4 DEF Post
<1>6. Len(events'[c]) = Len(events[c]) + Len(es)
  BY <1>1, <1>2
<1>7. \A i \in 1..Len(events[c]) : events'[c][i] = events[c][i]
  BY <1>1, <1>2
<1>8. \A i \in 1..Len(es) : events'[c][Len(events[c]) + i] = es[i]
  BY <1>1, <1>2
<1> QED
  BY <1>3, <1>5, <1>6, <1>7, <1>8

\* Delivering removes the oldest signal of one client.
LEMMA DeliverFacts ==
  ASSUME events \in [Clients -> Seq(Events)],
         NEW c \in Clients, NEW e, Deliver(c, e)
  PROVE  /\ events' \in [Clients -> Seq(Events)]
         /\ \A d \in Clients \ {c} : events'[d] = events[d]
         /\ Len(events[c]) > 0
         /\ events[c][1] = e
         /\ Len(events'[c]) = Len(events[c]) - 1
         /\ \A i \in 1..Len(events'[c]) : events'[c][i] = events[c][i + 1]
  BY DEF Deliver

-----------------------------------------------------------------------------
(* Type correctness. *)

\* The initial state is well typed.
LEMMA TypeInit == Init => TypeOK
<1> USE ServerAssumption DEF ServerAssumption
<1> SUFFICES ASSUME Init PROVE TypeOK
  OBVIOUS
<1>1. /\ serverState \in ServerStates
      /\ listening \in BOOLEAN
      /\ threads \in SUBSET Clients
  BY DEF Init, ServerStates
<1>2. /\ remoteTable \in [Macs -> Clients \cup {NoClient}]
      /\ remoteIp \subseteq Nat \X Macs
      /\ localTable \subseteq Nat \X Clients
      /\ history \subseteq Macs
  BY DEF Init
<1>3. /\ conn \in [Clients -> ConnStates]
      /\ authenticated \in [Clients -> BOOLEAN]
      /\ refused \in [Clients -> BOOLEAN]
  BY DEF Init, ConnStates
<1>4. /\ events \in [Clients -> Seq(Events)]
      /\ calls \in [Clients -> Seq(Calls)]
  BY DEF Init
<1>5. /\ worker \in [Clients -> WorkerPhases]
      /\ quitNow \in [Clients -> BOOLEAN]
  BY DEF Init, WorkerPhases
<1>6. /\ sock \in [Clients -> SockStates]
      /\ peerAuth \in [Clients -> BOOLEAN]
      /\ hwAddr \in [Clients -> Macs \cup {NoMac}]
      /\ sentHandShake \in [Clients -> BOOLEAN]
  BY DEF Init, SockStates
<1> QED
  BY <1>1, <1>2, <1>3, <1>4, <1>5, <1>6 DEF TypeOK

\* SocketLost keeps the types, whatever it posts.
LEMMA TypeSocketLost ==
  ASSUME TypeOK, NEW c \in Clients, NEW es \in Seq(Events), SocketLost(c, es)
  PROVE  /\ events' \in [Clients -> Seq(Events)]
         /\ sock' \in [Clients -> SockStates]
         /\ peerAuth' \in [Clients -> BOOLEAN]
         /\ sentHandShake' \in [Clients -> BOOLEAN]
         /\ hwAddr' = hwAddr
<1>1. events' \in [Clients -> Seq(Events)]
  BY PostFacts DEF SocketLost, TypeOK
<1> QED
  BY <1>1 DEF SocketLost, TypeOK, SockStates

\* So does DisconnectFromHost.
LEMMA TypeDisconnect ==
  ASSUME TypeOK, NEW c \in Clients, DisconnectFromHost(c)
  PROVE  /\ events' \in [Clients -> Seq(Events)]
         /\ sock' \in [Clients -> SockStates]
         /\ peerAuth' \in [Clients -> BOOLEAN]
         /\ sentHandShake' \in [Clients -> BOOLEAN]
         /\ hwAddr' = hwAddr
<1>1. CASE /\ sock' = [sock EXCEPT ![c] = "closing"]
           /\ Post(c, <<"socketClosing">>)
           /\ UNCHANGED <<peerAuth, hwAddr, sentHandShake>>
  <2>1. <<"socketClosing">> \in Seq(Events)
    BY EventSeqs DEF Events
  <2>2. events' \in [Clients -> Seq(Events)]
    BY <1>1, <2>1, PostFacts DEF TypeOK
  <2> QED
    BY <1>1, <2>2 DEF TypeOK, SockStates
<1>2. CASE SocketLost(c, <<"socketClosing", "socketUnconnected">>)
  <2>1. <<"socketClosing", "socketUnconnected">> \in Seq(Events)
    BY EventSeqs DEF Events
  <2> QED
    BY <1>2, <2>1, TypeSocketLost
<1>3. CASE UNCHANGED <<peerVars, events>>
  BY <1>3 DEF TypeOK, peerVars
<1> QED
  BY <1>1, <1>2, <1>3 DEF DisconnectFromHost

\* The tables keep their types when the client has a hardware address.
LEMMA TypeTables ==
  ASSUME TypeOK, NEW c \in Clients, hwAddr[c] \in Macs \/ IsLocal(c),
         TableAdd(c) \/ TableRemove(c)
  PROVE  /\ remoteTable' \in [Macs -> Clients \cup {NoClient}]
         /\ remoteIp' \subseteq Nat \X Macs
         /\ localTable' \subseteq Nat \X Clients
<1>1. PeerIp[c] \in Nat /\ PeerPort[c] \in Nat
  BY ServerAssumption DEF ServerAssumption
<1>2. /\ remoteTable \in [Macs -> Clients \cup {NoClient}]
      /\ remoteIp \subseteq Nat \X Macs
      /\ localTable \subseteq Nat \X Clients
  BY DEF TypeOK
<1>3. CASE IsLocal(c)
  <2>1. remoteTable' = remoteTable /\ remoteIp' = remoteIp
    BY <1>3 DEF TableAdd, TableRemove
  <2>2. localTable' \subseteq localTable \cup {<<PeerPort[c], c>>}
    BY <1>3 DEF TableAdd, TableRemove
  <2>3. <<PeerPort[c], c>> \in Nat \X Clients
    BY <1>1
  <2> QED
    BY <1>2, <2>1, <2>2, <2>3
<1>4. CASE ~IsLocal(c)
  <2>1. hwAddr[c] \in Macs
    BY <1>4
  <2>2. localTable' = localTable
    BY <1>4 DEF TableAdd, TableRemove
  <2>3. remoteIp' \subseteq remoteIp \cup {<<PeerIp[c], hwAddr[c]>>}
    BY <1>4 DEF TableAdd, TableRemove
  <2>4. <<PeerIp[c], hwAddr[c]>> \in Nat \X Macs
    BY <1>1, <2>1
  <2>5. remoteTable' \in [Macs -> Clients \cup {NoClient}]
    BY <1>2, <1>4, <2>1 DEF TableAdd, TableRemove
  <2> QED
    BY <1>2, <2>2, <2>3, <2>4, <2>5
<1> QED
  BY <1>3, <1>4

\* The worker's and the network's steps keep the types.
LEMMA TypeWorker ==
  ASSUME TypeOK, NEW c \in Clients, Worker(c) \/ Network(c)
  PROVE  TypeOK'
<1>1. CASE AttachSocket(c)
  <2>1. <<"socketConnected">> \in Seq(Events)
    BY EventSeqs DEF Events
  <2>2. events' \in [Clients -> Seq(Events)]
    BY <1>1, <2>1, PostFacts DEF TypeOK, AttachSocket
  <2> QED
    BY <1>1, <2>2 DEF TypeOK, AttachSocket, WorkerPhases, SockStates,
                      serverVars, tableVars, threadVars
<1>2. CASE AttachFails(c)
  <2>1. <<"error">> \in Seq(Events)
    BY EventSeqs DEF Events
  <2>2. events' \in [Clients -> Seq(Events)]
    BY <1>2, <2>1, PostFacts DEF TypeOK, AttachFails
  <2> QED
    BY <1>2, <2>2 DEF TypeOK, AttachFails, WorkerPhases,
                      serverVars, tableVars, threadVars, peerVars
<1>3. CASE EnterEventLoop(c)
  BY <1>3 DEF TypeOK, EnterEventLoop, WorkerPhases,
              serverVars, tableVars, threadVars, peerVars
<1>4. CASE SocketFlushes(c)
  <2>1. /\ <<"error", "socketUnconnected">> \in Seq(Events)
        /\ <<"socketUnconnected">> \in Seq(Events)
    BY EventSeqs DEF Events
  <2>2. PICK es \in Seq(Events) : SocketLost(c, es)
    BY <1>4, <2>1 DEF SocketFlushes
  <2> QED
    BY <1>4, <2>2, TypeSocketLost
       DEF TypeOK, SocketFlushes, serverVars, tableVars, threadVars, runVars
<1>5. CASE PeerSendsHandShake(c)
  BY <1>5 DEF TypeOK, PeerSendsHandShake, TakeCall,
              serverVars, tableVars, threadVars, runVars
<1>6. CASE PeerRefusesConnection(c)
  <2>1. calls' \in [Clients -> Seq(Calls)]
    BY <1>6 DEF TypeOK, PeerRefusesConnection, TakeCall
  <2> QED
    BY <1>6, <2>1, TypeDisconnect
       DEF TypeOK, PeerRefusesConnection, TakeCall,
           serverVars, tableVars, threadVars, runVars
<1>7. CASE LeaveEventLoop(c)
  BY <1>7, TypeDisconnect
     DEF TypeOK, LeaveEventLoop, WorkerPhases, serverVars, tableVars, threadVars
<1>8. CASE DisconnectReturns(c)
  <2>1. /\ <<>> \in Seq(Events)
        /\ <<"error">> \in Seq(Events)
    BY EventSeqs DEF Events
  <2>2. PICK es \in Seq(Events) : Post(c, es)
    BY <1>8, <2>1 DEF DisconnectReturns
  <2>3. events' \in [Clients -> Seq(Events)]
    BY <2>2, PostFacts DEF TypeOK
  <2> QED
    BY <1>8, <2>3 DEF TypeOK, DisconnectReturns, WorkerPhases,
                      serverVars, tableVars, threadVars, peerVars
<1>9. CASE RunReturns(c)
  <2>1. /\ <<"finished">> \in Seq(Events)
        /\ <<"socketUnconnected", "finished">> \in Seq(Events)
    BY EventSeqs DEF Events
  <2>2. PICK es \in Seq(Events) : SocketLost(c, es)
    BY <1>9, <2>1 DEF RunReturns
  <2> QED
    BY <1>9, <2>2, TypeSocketLost
       DEF TypeOK, RunReturns, WorkerPhases, serverVars, tableVars, threadVars
<1>10. CASE IncomingConnection(c)
  BY <1>10 DEF TypeOK, IncomingConnection, WorkerPhases,
               tableVars, threadVars, peerVars
<1>11. CASE \E m \in Macs \cup {NoMac} : PeerAuthenticates(c, m)
  <2>1. PICK m \in Macs \cup {NoMac} : PeerAuthenticates(c, m)
    BY <1>11
  <2>2. <<"authenticated">> \in Seq(Events)
    BY EventSeqs DEF Events
  <2>3. events' \in [Clients -> Seq(Events)]
    BY <2>1, <2>2, PostFacts DEF TypeOK, PeerAuthenticates
  <2> QED
    BY <2>1, <2>3 DEF TypeOK, PeerAuthenticates,
                      serverVars, tableVars, threadVars, runVars
<1>12. CASE PeerDrops(c)
  <2>1. /\ <<"error", "socketClosing", "socketUnconnected">> \in Seq(Events)
        /\ <<"socketClosing", "socketUnconnected">> \in Seq(Events)
    BY EventSeqs DEF Events
  <2>2. PICK es \in Seq(Events) : SocketLost(c, es)
    BY <1>12, <2>1 DEF PeerDrops
  <2> QED
    BY <1>12, <2>2, TypeSocketLost
       DEF TypeOK, PeerDrops, serverVars, tableVars, threadVars, runVars
<1> QED
  BY <1>1, <1>2, <1>3, <1>4, <1>5, <1>6, <1>7, <1>8, <1>9, <1>10, <1>11, <1>12
     DEF Worker, Network

\* The slots of the main thread keep the types.  Those that change the table
\* need a hardware address there, which MustRefuse and AuthTracked give.
LEMMA TypeMain ==
  ASSUME TypeOK, NEW c \in Clients, AuthTracked(c), Main(c)
  PROVE  TypeOK'
<1>1. \A e : Deliver(c, e) => events' \in [Clients -> Seq(Events)]
  BY DeliverFacts DEF TypeOK
<1>2. \A call \in Calls : CallPeer(c, call) => calls' \in [Clients -> Seq(Calls)]
  BY DEF TypeOK, CallPeer
<1>3. CASE OnSocketConnected(c)
  BY <1>1, <1>3 DEF TypeOK, OnSocketConnected, ConnStates,
                    serverVars, tableVars, peerVars, runVars
<1>4. CASE OnSocketClosing(c)
  BY <1>1, <1>4 DEF TypeOK, OnSocketClosing, ConnStates,
                    serverVars, tableVars, peerVars, runVars
<1>5. Authenticated(c) =>
          /\ events' \in [Clients -> Seq(Events)]
          /\ authenticated' \in [Clients -> BOOLEAN]
          /\ conn' \in [Clients -> ConnStates]
  BY <1>1 DEF TypeOK, Authenticated, ConnStates
<1>6. CASE OnAuthenticatedRefuse(c)
  <2>1. calls' \in [Clients -> Seq(Calls)]
    BY <1>2, <1>6 DEF OnAuthenticatedRefuse, Calls
  <2> QED
    BY <1>5, <1>6, <2>1 DEF TypeOK, OnAuthenticatedRefuse, Authenticated,
                            serverVars, tableVars, peerVars, runVars
<1>7. CASE OnAuthenticatedAccept(c)
  <2>1. hwAddr[c] \in Macs \/ IsLocal(c)
    BY <1>7 DEF OnAuthenticatedAccept, MustRefuse, TypeOK, IsLocal, IsRemote
  <2>2. /\ remoteTable' \in [Macs -> Clients \cup {NoClient}]
        /\ remoteIp' \subseteq Nat \X Macs
        /\ localTable' \subseteq Nat \X Clients
    BY <1>7, <2>1, TypeTables DEF OnAuthenticatedAccept
  <2>3. history' \subseteq Macs
    BY <1>7 DEF OnAuthenticatedAccept, TypeOK
  <2>4. calls' \in [Clients -> Seq(Calls)]
    BY <1>2, <1>7 DEF OnAuthenticatedAccept, Calls
  <2> QED
    BY <1>5, <1>7, <2>2, <2>3, <2>4
       DEF TypeOK, OnAuthenticatedAccept, Authenticated,
           serverVars, peerVars, runVars
<1>8. CASE OnSocketUnconnected(c)
  <2>1. /\ remoteTable' \in [Macs -> Clients \cup {NoClient}]
        /\ remoteIp' \subseteq Nat \X Macs
        /\ localTable' \subseteq Nat \X Clients
        /\ history' \subseteq Macs
    <3>1. CASE Registered(c)
      <4>1. hwAddr[c] \in Macs \/ IsLocal(c)
        BY <3>1 DEF AuthTracked, IsLocal, IsRemote
      <4>2. history' \subseteq Macs
        BY <1>8, <3>1, <4>1 DEF OnSocketUnconnected, TypeOK, IsRemote, IsLocal
      <4> QED
        BY <1>8, <3>1, <4>1, <4>2, TypeTables DEF OnSocketUnconnected
    <3>2. CASE ~Registered(c)
      BY <1>8, <3>2 DEF OnSocketUnconnected, TypeOK, tableVars
    <3> QED
      BY <3>1, <3>2
  <2>2. /\ conn' \in [Clients -> ConnStates]
        /\ quitNow' \in [Clients -> BOOLEAN]
        /\ events' \in [Clients -> Seq(Events)]
    BY <1>1, <1>8 DEF OnSocketUnconnected, TypeOK, ConnStates
  <2> QED
    BY <1>8, <2>1, <2>2 DEF TypeOK, OnSocketUnconnected, serverVars, peerVars
<1>9. CASE OnError(c)
  BY <1>1, <1>9 DEF TypeOK, OnError,
                    serverVars, tableVars, threadVars, peerVars, runVars
<1>10. CASE OnFinished(c)
  <2>1. /\ threads' \in SUBSET Clients
        /\ listening' \in BOOLEAN
        /\ serverState' \in ServerStates
    BY <1>10 DEF TypeOK, OnFinished, ServerStates
  <2>2. /\ worker' \in [Clients -> WorkerPhases]
        /\ quitNow' \in [Clients -> BOOLEAN]
        /\ conn' \in [Clients -> ConnStates]
        /\ authenticated' \in [Clients -> BOOLEAN]
        /\ refused' \in [Clients -> BOOLEAN]
        /\ hwAddr' \in [Clients -> Macs \cup {NoMac}]
        /\ events' \in [Clients -> Seq(Events)]
    BY <1>1, <1>10 DEF TypeOK, OnFinished, WorkerPhases, ConnStates
  <2> QED
    BY <1>10, <2>1, <2>2 DEF TypeOK, OnFinished, tableVars
<1> QED
  BY <1>3, <1>4, <1>6, <1>7, <1>8, <1>9, <1>10 DEF Main

\* The user's operations keep the types.
LEMMA TypeUser ==
  ASSUME TypeOK, Listen \/ Close \/ UNCHANGED vars
  PROVE  TypeOK'
<1>1. CASE Listen
  BY <1>1 DEF TypeOK, Listen, ServerStates,
              tableVars, threadVars, peerVars, runVars
<1>2. CASE Close
  BY <1>2 DEF TypeOK, Close, ServerStates, tableVars, threadVars, peerVars
<1>3. CASE UNCHANGED vars
  BY <1>3 DEF TypeOK, vars, serverVars, tableVars, threadVars, peerVars, runVars
<1> QED
  BY <1>1, <1>2, <1>3

-----------------------------------------------------------------------------
(* Queues, in terms of the signals that are in them. *)

\* What posting es to an ordered queue leaves: an ordered queue, when es is
\* ordered and comes after everything that is waiting.
LEMMA PostOrder ==
  ASSUME events \in [Clients -> Seq(Events)],
         NEW c \in Clients, NEW es \in Seq(Events), Post(c, es),
         Ordered(events[c]), Ordered(es), ~In(events[c], "finished"),
         \A e, f \in Events \ {"error"} :
            In(events[c], e) /\ In(es, f) => Rank(e) < Rank(f)
  PROVE  Ordered(events'[c])
<1> DEFINE q == events[c]
           r == events'[c]
<1>1. /\ q \in Seq(Events)
      /\ r \in Seq(Events)
      /\ Len(r) = Len(q) + Len(es)
      /\ \A i \in 1..Len(q) : r[i] = q[i]
      /\ \A i \in 1..Len(es) : r[Len(q) + i] = es[i]
  BY PostFacts
<1>2. Len(q) \in Nat /\ Len(es) \in Nat
  BY <1>1
<1>3. \A i \in 1..Len(r) :
         \/ i \in 1..Len(q) /\ r[i] = q[i]
         \/ i - Len(q) \in 1..Len(es) /\ r[i] = es[i - Len(q)]
  <2> TAKE i \in 1..Len(r)
  <2>1. CASE i <= Len(q)
    BY <1>1, <1>2, <2>1
  <2>2. CASE i > Len(q)
    <3>1. i - Len(q) \in 1..Len(es)
      BY <1>1, <1>2, <2>2
    <3>2. r[Len(q) + (i - Len(q))] = es[i - Len(q)]
      BY <1>1, <3>1
    <3> QED
      BY <1>2, <3>1, <3>2
  <2> QED
    BY <1>2, <2>1, <2>2
<1> HIDE DEF q, r
<1>4. ASSUME NEW i \in 1..Len(r), NEW j \in 1..Len(r),
             i < j, r[i] # "error", r[j] # "error"
      PROVE  Rank(r[i]) < Rank(r[j])
  <2>1. CASE i \in 1..Len(q) /\ r[i] = q[i] /\ j \in 1..Len(q) /\ r[j] = q[j]
    BY <1>4, <2>1 DEF Ordered, q
  <2>2. CASE /\ i - Len(q) \in 1..Len(es) /\ r[i] = es[i - Len(q)]
             /\ j - Len(q) \in 1..Len(es) /\ r[j] = es[j - Len(q)]
    <3>1. i - Len(q) < j - Len(q)
      BY <1>1, <1>2, <1>4
    <3> QED
      BY <1>4, <2>2, <3>1 DEF Ordered
  <2>3. CASE /\ i \in 1..Len(q) /\ r[i] = q[i]
             /\ j - Len(q) \in 1..Len(es) /\ r[j] = es[j - Len(q)]
    <3>1. In(q, r[i]) /\ In(es, r[j])
      BY <2>3 DEF In
    <3>2. r[i] \in Events /\ r[j] \in Events
      BY <1>1
    <3> QED
      BY <1>4, <3>1, <3>2 DEF q
  <2>4. CASE /\ j \in 1..Len(q)
             /\ i - Len(q) \in 1..Len(es)
    BY <1>2, <1>4, <2>4
  <2> QED
    BY <1>3, <2>1, <2>2, <2>3, <2>4
<1>5. ASSUME NEW i \in 1..Len(r), r[i] = "finished"
      PROVE  i = Len(r)
  <2>1. ~(i \in 1..Len(q) /\ r[i] = q[i])
    BY <1>5 DEF In, q
  <2>2. i - Len(q) \in 1..Len(es) /\ r[i] = es[i - Len(q)]
    BY <1>3, <2>1
  <2>3. i - Len(q) = Len(es)
    BY <1>5, <2>2 DEF Ordered
  <2> QED
    BY <1>1, <1>2, <2>3
<1> QED
  BY <1>4, <1>5 DEF Ordered, r

\* What is waiting after a signal is posted.
LEMMA PostPending ==
  ASSUME events \in [Clients -> Seq(Events)],
         NEW c \in Clients, NEW es \in Seq(Events), Post(c, es)
  PROVE  \A e : In(events'[c], e) <=> In(events[c], e) \/ In(es, e)
<1> DEFINE q == events[c]
           r == events'[c]
<1>1. /\ q \in Seq(Events)
      /\ Len(r) = Len(q) + Len(es)
      /\ \A i \in 1..Len(q) : r[i] = q[i]
      /\ \A i \in 1..Len(es) : r[Len(q) + i] = es[i]
  BY PostFacts
<1>2. Len(q) \in Nat /\ Len(es) \in Nat
  BY <1>1
<1> HIDE DEF q, r
<1> TAKE e
<1>3. ASSUME In(q, e) PROVE In(r, e)
  BY <1>1, <1>2, <1>3 DEF In
<1>4. ASSUME In(es, e) PROVE In(r, e)
  <2>1. PICK i \in 1..Len(es) : es[i] = e
    BY <1>4 DEF In
  <2>2. Len(q) + i \in 1..Len(r)
    BY <1>1, <1>2
  <2>3. r[Len(q) + i] = e
    BY <1>1, <2>1
  <2> QED
    BY <2>2, <2>3 DEF In
<1>5. ASSUME In(r, e) PROVE In(q, e) \/ In(es, e)
  <2>1. PICK i \in 1..Len(r) : r[i] = e
    BY <1>5 DEF In
  <2>2. CASE i <= Len(q)
    BY <1>1, <1>2, <2>1, <2>2 DEF In
  <2>3. CASE i > Len(q)
    <3>1. i - Len(q) \in 1..Len(es)
      BY <1>1, <1>2, <2>3
    <3>2. r[Len(q) + (i - Len(q))] = es[i - Len(q)]
      BY <1>1, <3>1
    <3>3. es[i - Len(q)] = e
      BY <1>2, <2>1, <3>2
    <3> QED
      BY <3>1, <3>3 DEF In
  <2> QED
    BY <1>2, <2>2, <2>3
<1> QED
  BY <1>3, <1>4, <1>5 DEF q, r

\* What delivering the oldest signal of an ordered queue says about the rest.
LEMMA DeliverOrder ==
  ASSUME events \in [Clients -> Seq(Events)],
         NEW c \in Clients, NEW e \in Events, Deliver(c, e), Ordered(events[c])
  PROVE  /\ Ordered(events'[c])
         /\ In(events[c], e)
         /\ \A f \in Events : f # e => (In(events'[c], f) <=> In(events[c], f))
         /\ e # "error" => \A f \in Events :
               f # "error" /\ In(events'[c], f) => Rank(e) < Rank(f)
         /\ e = "finished" => events'[c] = <<>> /\ Len(events[c]) = 1
<1> DEFINE q == events[c]
           r == events'[c]
<1>1. /\ q \in Seq(Events)
      /\ r \in Seq(Events)
      /\ Len(q) > 0
      /\ q[1] = e
      /\ Len(r) = Len(q) - 1
      /\ \A i \in 1..Len(r) : r[i] = q[i + 1]
  BY DeliverFacts
<1>2. Len(q) \in Nat /\ Len(r) \in Nat
  BY <1>1
<1> HIDE DEF q, r
<1>3. \A i \in 1..Len(r) : i + 1 \in 1..Len(q)
  BY <1>1, <1>2
<1>4. Ordered(r)
  <2>1. ASSUME NEW i \in 1..Len(r), NEW j \in 1..Len(r),
               i < j, r[i] # "error", r[j] # "error"
        PROVE  Rank(r[i]) < Rank(r[j])
    <3>1. i + 1 < j + 1
      BY <2>1
    <3> QED
      BY <1>1, <1>3, <2>1, <3>1 DEF Ordered, q
  <2>2. ASSUME NEW i \in 1..Len(r), r[i] = "finished"
        PROVE  i = Len(r)
    <3>1. i + 1 = Len(q)
      BY <1>1, <1>3, <2>2 DEF Ordered, q
    <3> QED
      BY <1>1, <1>2, <3>1
  <2> QED
    BY <2>1, <2>2 DEF Ordered
<1>5. In(q, e)
  BY <1>1, <1>2 DEF In
<1>6. ASSUME NEW f \in Events, f # e
      PROVE  In(r, f) <=> In(q, f)
  <2>1. ASSUME In(r, f) PROVE In(q, f)
    BY <1>1, <1>3, <2>1 DEF In
  <2>2. ASSUME In(q, f) PROVE In(r, f)
    <3>1. PICK i \in 1..Len(q) : q[i] = f
      BY <2>2 DEF In
    <3>2. i - 1 \in 1..Len(r)
      BY <1>1, <1>2, <1>6, <3>1
    <3>3. r[i - 1] = q[(i - 1) + 1]
      BY <1>1, <3>2
    <3> QED
      BY <3>1, <3>2, <3>3 DEF In
  <2> QED
    BY <2>1, <2>2
<1>7. ASSUME e # "error", NEW f \in Events, f # "error", In(r, f)
      PROVE  Rank(e) < Rank(f)
  <2>1. PICK i \in 1..Len(r) : r[i] = f
    BY <1>7 DEF In
  <2>2. /\ 1 \in 1..Len(q) /\ i + 1 \in 1..Len(q)
        /\ 1 < i + 1
        /\ q[1] = e /\ q[i + 1] = f
    BY <1>1, <1>2, <1>3, <2>1
  <2> QED
    BY <1>7, <2>2 DEF Ordered, q
<1>8. ASSUME e = "finished"
      PROVE  r = <<>> /\ Len(q) = 1
  <2>1. 1 = Len(q)
    BY <1>1, <1>2, <1>8 DEF Ordered, q
  <2> QED
    BY <1>1, <2>1
<1> QED
  BY <1>4, <1>5, <1>6, <1>7, <1>8 DEF q, r

-----------------------------------------------------------------------------
(* The invariant of a client. *)

\* A client none of whose variables changes keeps its invariant.
Untouched(d) ==
    /\ events'[d] = events[d]
    /\ conn'[d] = conn[d]
    /\ authenticated'[d] = authenticated[d]
    /\ refused'[d] = refused[d]
    /\ worker'[d] = worker[d]
    /\ calls'[d] = calls[d]
    /\ sock'[d] = sock[d]
    /\ peerAuth'[d] = peerAuth[d]
    /\ hwAddr'[d] = hwAddr[d]
    /\ sentHandShake'[d] = sentHandShake[d]
    /\ d \in threads' <=> d \in threads

LEMMA UntouchedInv ==
  ASSUME NEW d \in Clients, ClientInv(d), Untouched(d)
  PROVE  ClientInv(d)'
<1>1. WorkerClean(d)'
  BY DEF ClientInv, Untouched, WorkerClean, PeerAlive
<1>2. QueueBounded(d)'
  BY DEF ClientInv, Untouched, QueueBounded, Pending
<1>3. ConnTracksSock(d)'
  BY DEF ClientInv, Untouched, ConnTracksSock, Pending
<1>4. AuthTracked(d)'
  BY DEF ClientInv, Untouched, AuthTracked, Pending, Registered, IsRemote
<1>5. HandShakeTracked(d)'
  BY DEF ClientInv, Untouched, HandShakeTracked, Registered
<1> QED
  BY <1>1, <1>2, <1>3, <1>4, <1>5 DEF ClientInv

\* A step for client c touches no other client.
LEMMA OthersUntouched ==
  ASSUME TypeOK, NEW c \in Clients, Network(c) \/ Worker(c) \/ Main(c),
         NEW d \in Clients, d # c
  PROVE  Untouched(d)
<1> USE DEF Untouched, TypeOK, Post,
            serverVars, tableVars, threadVars, peerVars, runVars
<1>1. CASE IncomingConnection(c)
  BY <1>1 DEF IncomingConnection
<1>2. CASE \E m \in Macs \cup {NoMac} : PeerAuthenticates(c, m)
  BY <1>2 DEF PeerAuthenticates
<1>3. CASE PeerDrops(c)
  BY <1>3 DEF PeerDrops, SocketLost
<1>4. CASE AttachSocket(c)
  BY <1>4 DEF AttachSocket
<1>5. CASE AttachFails(c)
  BY <1>5 DEF AttachFails
<1>6. CASE EnterEventLoop(c)
  BY <1>6 DEF EnterEventLoop
<1>7. CASE SocketFlushes(c)
  BY <1>7 DEF SocketFlushes, SocketLost
<1>8. CASE PeerSendsHandShake(c)
  BY <1>8 DEF PeerSendsHandShake, TakeCall
<1>9. CASE PeerRefusesConnection(c)
  BY <1>9 DEF PeerRefusesConnection, TakeCall, DisconnectFromHost, SocketLost
<1>10. CASE LeaveEventLoop(c)
  BY <1>10 DEF LeaveEventLoop, DisconnectFromHost, SocketLost
<1>11. CASE DisconnectReturns(c)
  BY <1>11 DEF DisconnectReturns
<1>12. CASE RunReturns(c)
  BY <1>12 DEF RunReturns, SocketLost
<1>13. CASE OnSocketConnected(c)
  BY <1>13 DEF OnSocketConnected, Deliver
<1>14. CASE OnSocketClosing(c)
  BY <1>14 DEF OnSocketClosing, Deliver
<1>15. CASE OnAuthenticatedRefuse(c)
  BY <1>15 DEF OnAuthenticatedRefuse, Authenticated, Deliver, CallPeer
<1>16. CASE OnAuthenticatedAccept(c)
  BY <1>16 DEF OnAuthenticatedAccept, Authenticated, Deliver, CallPeer
<1>17. CASE OnSocketUnconnected(c)
  BY <1>17 DEF OnSocketUnconnected, Deliver
<1>18. CASE OnError(c)
  BY <1>18 DEF OnError, Deliver
<1>19. CASE OnFinished(c)
  BY <1>19 DEF OnFinished, Deliver
<1> QED
  BY <1>1, <1>2, <1>3, <1>4, <1>5, <1>6, <1>7, <1>8, <1>9, <1>10, <1>11, <1>12,
     <1>13, <1>14, <1>15, <1>16, <1>17, <1>18, <1>19 DEF Network, Worker, Main

\* The sequences the worker posts are ordered, and hold what they show.
LEMMA PostedSeqs ==
  /\ Ordered(<<>>) /\ \A e : ~In(<<>>, e)
  /\ \A e \in Events : Ordered(<<e>>) /\ \A f : In(<<e>>, f) <=> f = e
  /\ \A e, f \in Events : e # "finished" /\ Rank(e) < Rank(f) =>
        Ordered(<<e, f>>) /\ \A g : In(<<e, f>>, g) <=> g \in {e, f}
  /\ LET three == <<"error", "socketClosing", "socketUnconnected">> IN
        /\ Ordered(three)
        /\ \A g : In(three, g) <=>
                     g \in {"error", "socketClosing", "socketUnconnected"}
<1>1. Ordered(<<>>) /\ \A e : ~In(<<>>, e)
  BY DEF Ordered, In
<1>2. ASSUME NEW e \in Events
      PROVE  Ordered(<<e>>) /\ \A f : In(<<e>>, f) <=> f = e
  <2>1. Len(<<e>>) = 1 /\ <<e>>[1] = e /\ 1..1 = {1}
    OBVIOUS
  <2> QED
    BY <2>1 DEF Ordered, In
<1>3. ASSUME NEW e \in Events, NEW f \in Events,
             e # "finished", Rank(e) < Rank(f)
      PROVE  Ordered(<<e, f>>) /\ \A g : In(<<e, f>>, g) <=> g \in {e, f}
  <2>1. Len(<<e, f>>) = 2 /\ <<e, f>>[1] = e /\ <<e, f>>[2] = f /\ 1..2 = {1, 2}
    OBVIOUS
  <2> QED
    BY <1>3, <2>1 DEF Ordered, In
<1>4. LET three == <<"error", "socketClosing", "socketUnconnected">> IN
        /\ Ordered(three)
        /\ \A g : In(three, g) <=>
                     g \in {"error", "socketClosing", "socketUnconnected"}
  <2> DEFINE three == <<"error", "socketClosing", "socketUnconnected">>
  <2>1. /\ Len(three) = 3
        /\ three[1] = "error"
        /\ three[2] = "socketClosing"
        /\ three[3] = "socketUnconnected"
        /\ 1..3 = {1, 2, 3}
    OBVIOUS
  <2> HIDE DEF three
  <2>2. Ordered(three)
    BY <2>1 DEF Ordered, Rank
  <2>3. \A g : In(three, g) <=>
                  g \in {"error", "socketClosing", "socketUnconnected"}
    BY <2>1 DEF In
  <2> QED
    BY <2>2, <2>3 DEF three
<1> QED
  BY <1>1, <1>2, <1>3, <1>4

\* A sequence that is ordered and comes after all that waits is posted safely.
LEMMA Posted ==
  ASSUME TypeOK, NEW c \in Clients, QueueBounded(c),
         NEW es \in Seq(Events), Post(c, es), Ordered(es),
         worker[c] # "finished",
         \A e, f \in Events \ {"error"} :
            Pending(c, e) /\ In(es, f) => Rank(e) < Rank(f)
  PROVE  /\ Ordered(events'[c])
         /\ \A e : In(events'[c], e) <=> In(events[c], e) \/ In(es, e)
  BY PostOrder, PostPending DEF TypeOK, QueueBounded, Pending

\* The ways the socket is lost leave the invariant true: es has the signals
\* the socket still owes, and finished() if and only if run() returns.
LEMMA LostInv ==
  ASSUME TypeOK, NEW c \in Clients, ClientInv(c), PeerAlive(c),
         NEW es \in Seq(Events), SocketLost(c, es), Ordered(es),
         ~In(es, "socketConnected"), ~In(es, "authenticated"),
         In(es, "socketClosing") <=> sock[c] = "connected",
         In(es, "socketUnconnected") <=> sock[c] # "unconnected",
         \/ /\ In(es, "finished")
            /\ worker'[c] = "finished" /\ calls'[c] = <<>>
         \/ /\ ~In(es, "finished")
            /\ PeerAlive(c)'
            /\ \A call : In(calls'[c], call) => In(calls[c], call),
         UNCHANGED <<conn, authenticated, refused, threads>>
  PROVE  ClientInv(c)'
<1> USE DEF ClientInv
<1>1. /\ sock'[c] = "unconnected"
      /\ peerAuth'[c] = FALSE
      /\ sentHandShake'[c] = FALSE
      /\ hwAddr' = hwAddr
  BY DEF SocketLost, TypeOK
<1>2. sock[c] \in {"unconnected", "connected", "closing"}
  BY DEF TypeOK, SockStates
<1>3. /\ Ordered(events'[c])
      /\ \A e : In(events'[c], e) <=> In(events[c], e) \/ In(es, e)
  <2>1. worker[c] # "finished"
    BY DEF PeerAlive
  <2>2. \A e, f \in Events \ {"error"} :
           Pending(c, e) /\ In(es, f) => Rank(e) < Rank(f)
    BY <1>2, <2>1 DEF Events, Rank, QueueBounded
  <2> QED
    BY <2>1, <2>2, Posted DEF SocketLost
<1>4. WorkerClean(c)'
  <2>1. /\ worker[c] \in {"attached", "running", "exiting", "returning"}
        /\ worker'[c] \in {"attached", "running", "exiting", "returning", "finished"}
        /\ worker'[c] = "finished" => calls'[c] = <<>>
    BY DEF PeerAlive
  <2> QED
    BY <1>1, <2>1 DEF WorkerClean, PeerAlive
<1>5. QueueBounded(c)'
  BY <1>1, <1>2, <1>3 DEF QueueBounded, ConnTracksSock, Pending, PeerAlive
<1>6. ConnTracksSock(c)'
  BY <1>1, <1>2, <1>3 DEF ConnTracksSock, Pending, QueueBounded
<1>7. AuthTracked(c)'
  BY <1>1, <1>3 DEF AuthTracked, Pending, Registered, IsRemote
<1>8. HandShakeTracked(c)'
  <2>1. In(calls'[c], "sendHandShake") => In(calls[c], "sendHandShake")
    BY PostedSeqs
  <2> QED
    BY <1>1, <2>1 DEF HandShakeTracked, Registered
<1> QED
  BY <1>4, <1>5, <1>6, <1>7, <1>8

\* So do steps that change nothing of the peer or of the queue.
LEMMA StaysInv ==
  ASSUME NEW c \in Clients, ClientInv(c), PeerAlive(c), PeerAlive(c)',
         worker'[c] \in {"exiting", "returning"} => sock[c] # "connected",
         UNCHANGED <<peerVars, events>>,
         \A call : In(calls'[c], call) => In(calls[c], call),
         UNCHANGED <<conn, authenticated, refused, threads>>
  PROVE  ClientInv(c)'
<1>1. WorkerClean(c)'
  BY DEF ClientInv, WorkerClean, PeerAlive, peerVars
<1>2. QueueBounded(c)'
  BY DEF ClientInv, QueueBounded, Pending, PeerAlive, peerVars
<1>3. ConnTracksSock(c)'
  BY DEF ClientInv, ConnTracksSock, Pending, peerVars
<1>4. AuthTracked(c)'
  BY DEF ClientInv, AuthTracked, Pending, Registered, IsRemote, peerVars
<1>5. HandShakeTracked(c)'
  BY DEF ClientInv, HandShakeTracked, Registered, peerVars
<1> QED
  BY <1>1, <1>2, <1>3, <1>4, <1>5 DEF ClientInv

\* So does disconnectFromHost, in the event loop or after it.
LEMMA DisconnectInv ==
  ASSUME TypeOK, NEW c \in Clients, ClientInv(c), PeerAlive(c), PeerAlive(c)',
         DisconnectFromHost(c),
         \A call : In(calls'[c], call) => In(calls[c], call),
         UNCHANGED <<conn, authenticated, refused, threads>>
  PROVE  ClientInv(c)'
<1>1. CASE /\ sock[c] = "connected"
           /\ sock' = [sock EXCEPT ![c] = "closing"]
           /\ Post(c, <<"socketClosing">>)
           /\ UNCHANGED <<peerAuth, hwAddr, sentHandShake>>
  <2> DEFINE es == <<"socketClosing">>
  <2>1. es \in Seq(Events) /\ Ordered(es) /\ \A e : In(es, e) <=> e = "socketClosing"
    BY EventSeqs, PostedSeqs DEF Events
  <2> HIDE DEF es
  <2>2. worker[c] # "finished"
    BY DEF PeerAlive
  <2>3. \A e, f \in Events \ {"error"} :
           Pending(c, e) /\ In(es, f) => Rank(e) < Rank(f)
    BY <1>1, <2>1, <2>2 DEF Events, Rank, ClientInv, QueueBounded
  <2>4. /\ Ordered(events'[c])
        /\ \A e : In(events'[c], e) <=> In(events[c], e) \/ e = "socketClosing"
    BY <1>1, <2>1, <2>2, <2>3, Posted DEF ClientInv, es
  <2>5. sock'[c] = "closing"
    BY <1>1 DEF TypeOK
  <2>6. WorkerClean(c)'
    <3>1. /\ worker[c] \in {"attached", "running", "exiting", "returning"}
          /\ worker'[c] \in {"attached", "running", "exiting", "returning"}
      BY DEF PeerAlive
    <3> QED
      BY <1>1, <2>5, <3>1 DEF ClientInv, WorkerClean, PeerAlive
  <2>7. QueueBounded(c)'
    BY <1>1, <2>4, <2>5
       DEF ClientInv, QueueBounded, ConnTracksSock, Pending, PeerAlive
  <2>8. ConnTracksSock(c)'
    BY <1>1, <2>4, <2>5 DEF ClientInv, ConnTracksSock, Pending
  <2>9. AuthTracked(c)'
    BY <1>1, <2>4, <2>5 DEF ClientInv, AuthTracked, Pending, Registered, IsRemote
  <2>10. HandShakeTracked(c)'
    BY <1>1 DEF ClientInv, HandShakeTracked, Registered
  <2> QED
    BY <2>6, <2>7, <2>8, <2>9, <2>10 DEF ClientInv
<1>2. CASE /\ sock[c] = "connected"
           /\ SocketLost(c, <<"socketClosing", "socketUnconnected">>)
  <2> DEFINE es == <<"socketClosing", "socketUnconnected">>
  <2>1. /\ es \in Seq(Events)
        /\ Ordered(es)
        /\ \A e : In(es, e) <=> e \in {"socketClosing", "socketUnconnected"}
    BY EventSeqs, PostedSeqs DEF Events, Rank
  <2>2. SocketLost(c, es)
    BY <1>2
  <2> HIDE DEF es
  <2> QED
    BY <1>2, <2>1, <2>2, LostInv
<1>3. CASE sock[c] # "connected" /\ UNCHANGED <<peerVars, events>>
  BY <1>3, StaysInv
<1> QED
  BY <1>1, <1>2, <1>3 DEF DisconnectFromHost

\* The steps of the network and of the worker.
LEMMA WorkerInv ==
  ASSUME TypeOK, NEW c \in Clients, ClientInv(c), Worker(c) \/ Network(c)
  PROVE  ClientInv(c)'
<1>1. CASE IncomingConnection(c)
  <2>1. /\ worker[c] = "none" /\ worker'[c] = "starting"
        /\ c \in threads'
        /\ UNCHANGED <<tableVars, threadVars, peerVars, events, calls>>
    BY <1>1 DEF IncomingConnection, TypeOK
  <2>2. WorkerClean(c)'
    BY <2>1 DEF ClientInv, WorkerClean, PeerAlive, threadVars, peerVars
  <2>3. QueueBounded(c)'
    BY <2>1 DEF ClientInv, QueueBounded, Pending, threadVars, peerVars
  <2>4. ConnTracksSock(c)'
    BY <2>1 DEF ClientInv, ConnTracksSock, Pending, threadVars, peerVars
  <2>5. AuthTracked(c)'
    BY <2>1 DEF ClientInv, AuthTracked, Pending, Registered, IsRemote,
                threadVars, peerVars
  <2>6. HandShakeTracked(c)'
    BY <2>1 DEF ClientInv, HandShakeTracked, Registered, threadVars, peerVars
  <2> QED
    BY <2>2, <2>3, <2>4, <2>5, <2>6 DEF ClientInv
<1>2. CASE \E m \in Macs \cup {NoMac} : PeerAuthenticates(c, m)
  <2>1. PICK m \in Macs \cup {NoMac} : PeerAuthenticates(c, m)
    BY <1>2
  <2>2. /\ sock[c] = "connected" /\ ~peerAuth[c] /\ worker[c] = "running"
        /\ peerAuth'[c] = TRUE
        /\ Post(c, <<"authenticated">>)
        /\ UNCHANGED <<threads, conn, authenticated, refused, worker, calls,
                       sock, sentHandShake>>
    BY <2>1 DEF PeerAuthenticates, TypeOK, serverVars, threadVars, runVars
  <2> DEFINE es == <<"authenticated">>
  <2>3. es \in Seq(Events) /\ Ordered(es) /\ \A e : In(es, e) <=> e = "authenticated"
    BY EventSeqs, PostedSeqs DEF Events
  <2>4. Post(c, es)
    BY <2>2
  <2> HIDE DEF es
  <2>5. \A e, f \in Events \ {"error"} :
           Pending(c, e) /\ In(es, f) => Rank(e) < Rank(f)
    BY <2>2, <2>3 DEF Events, Rank, ClientInv, QueueBounded
  <2>6. /\ Ordered(events'[c])
        /\ \A e : In(events'[c], e) <=> In(events[c], e) \/ e = "authenticated"
    BY <2>2, <2>3, <2>4, <2>5, Posted DEF ClientInv
  <2>7. ~authenticated[c]
    BY <2>2 DEF ClientInv, AuthTracked
  <2>8. WorkerClean(c)'
    BY <2>2 DEF ClientInv, WorkerClean, PeerAlive
  <2>9. QueueBounded(c)'
    BY <2>2, <2>6, <2>7, <1>2 DEF ClientInv, QueueBounded, ConnTracksSock, AuthTracked, Pending, TypeOK, ConnStates
  <2>10. ConnTracksSock(c)'
    BY <2>2, <2>6 DEF ClientInv, ConnTracksSock, Pending
  <2>11. AuthTracked(c)'
    BY <2>2, <2>6, <2>7 DEF ClientInv, AuthTracked, Pending, Registered
  <2>12. HandShakeTracked(c)'
    BY <2>2, <2>7 DEF ClientInv, HandShakeTracked, Registered
  <2> QED
    BY <2>8, <2>9, <2>10, <2>11, <2>12 DEF ClientInv
<1>3. CASE PeerDrops(c)
  <2>1. /\ sock[c] = "connected" /\ PeerAlive(c) /\ PeerAlive(c)'
        /\ UNCHANGED <<threads, conn, authenticated, refused, calls>>
    BY <1>3 DEF PeerDrops, PeerAlive, serverVars, threadVars, runVars
  <2>2. CASE SocketLost(c, <<"error", "socketClosing", "socketUnconnected">>)
    <3> DEFINE es == <<"error", "socketClosing", "socketUnconnected">>
    <3>1. /\ es \in Seq(Events) /\ Ordered(es)
          /\ \A e : In(es, e) <=>
                       e \in {"error", "socketClosing", "socketUnconnected"}
      BY EventSeqs, PostedSeqs DEF Events
    <3>2. SocketLost(c, es)
      BY <2>2
    <3> HIDE DEF es
    <3> QED
      BY <2>1, <3>1, <3>2, LostInv
  <2>3. CASE SocketLost(c, <<"socketClosing", "socketUnconnected">>)
    <3> DEFINE es == <<"socketClosing", "socketUnconnected">>
    <3>1. /\ es \in Seq(Events) /\ Ordered(es)
          /\ \A e : In(es, e) <=> e \in {"socketClosing", "socketUnconnected"}
      BY EventSeqs, PostedSeqs DEF Events, Rank
    <3>2. SocketLost(c, es)
      BY <2>3
    <3> HIDE DEF es
    <3> QED
      BY <2>1, <3>1, <3>2, LostInv
  <2> QED
    BY <1>3, <2>2, <2>3 DEF PeerDrops
<1>4. CASE AttachSocket(c)
  <2>1. /\ worker[c] = "starting" /\ worker'[c] = "attached"
        /\ sock'[c] = "connected"
        /\ Post(c, <<"socketConnected">>)
        /\ UNCHANGED <<threads, conn, authenticated, refused, calls,
                       peerAuth, hwAddr, sentHandShake>>
    BY <1>4 DEF AttachSocket, TypeOK, serverVars, threadVars
  <2>2. /\ events[c] = <<>> /\ conn[c] = "Unconnected" /\ ~authenticated[c]
        /\ \A e : ~In(events[c], e)
    BY <2>1, PostedSeqs DEF ClientInv, WorkerClean
  <2> DEFINE es == <<"socketConnected">>
  <2>3. es \in Seq(Events) /\ Ordered(es) /\ \A e : In(es, e) <=> e = "socketConnected"
    BY EventSeqs, PostedSeqs DEF Events
  <2>4. Post(c, es)
    BY <2>1
  <2> HIDE DEF es
  <2>5. /\ Ordered(events'[c])
        /\ \A e : In(events'[c], e) <=> e = "socketConnected"
    BY <2>1, <2>2, <2>3, <2>4, Posted DEF ClientInv, Pending
  <2>6. WorkerClean(c)'
    BY <2>1 DEF ClientInv, WorkerClean, PeerAlive
  <2>7. QueueBounded(c)'
    BY <2>1, <2>2, <2>5 DEF QueueBounded, Pending
  <2>8. ConnTracksSock(c)'
    BY <2>1, <2>2, <2>5 DEF ConnTracksSock, Pending
  <2>9. AuthTracked(c)'
    BY <2>1, <2>2 DEF ClientInv, AuthTracked, Registered
  <2>10. HandShakeTracked(c)'
    BY <2>1 DEF ClientInv, HandShakeTracked, Registered
  <2> QED
    BY <2>6, <2>7, <2>8, <2>9, <2>10 DEF ClientInv
<1>5. ASSUME NEW es \in Seq(Events), Ordered(es), \A e : In(es, e) => e = "error",
             Post(c, es),
             PeerAlive(c)', worker[c] \notin {"none", "finished"},
             worker'[c] \in {"exiting", "returning"} => sock[c] # "connected",
             UNCHANGED <<threads, conn, authenticated, refused, peerVars, calls>>
      PROVE  ClientInv(c)'
  <2>1. /\ Ordered(events'[c])
        /\ \A e : e # "error" => (In(events'[c], e) <=> In(events[c], e))
    BY <1>5, Posted DEF ClientInv
  <2>2. worker'[c] \notin {"none", "starting", "finished"}
    BY <1>5 DEF PeerAlive
  <2>3. WorkerClean(c)'
    BY <1>5, <2>2 DEF ClientInv, WorkerClean, peerVars
  <2>4. QueueBounded(c)'
    BY <1>5, <2>1, <2>2 DEF ClientInv, QueueBounded, Pending, peerVars
  <2>5. ConnTracksSock(c)'
    BY <1>5, <2>1 DEF ClientInv, ConnTracksSock, Pending, peerVars
  <2>6. AuthTracked(c)'
    BY <1>5, <2>1 DEF ClientInv, AuthTracked, Pending, Registered, IsRemote, peerVars
  <2>7. HandShakeTracked(c)'
    BY <1>5 DEF ClientInv, HandShakeTracked, Registered, peerVars
  <2> QED
    BY <2>3, <2>4, <2>5, <2>6, <2>7 DEF ClientInv
<1>6. /\ <<>> \in Seq(Events) /\ Ordered(<<>>) /\ \A e : ~In(<<>>, e)
      /\ <<"error">> \in Seq(Events) /\ Ordered(<<"error">>)
      /\ \A e : In(<<"error">>, e) => e = "error"
  BY EventSeqs, PostedSeqs DEF Events
<1>7. CASE AttachFails(c)
  <2>1. worker[c] = "starting" /\ sock[c] = "unconnected" /\ PeerAlive(c)'
    BY <1>7 DEF AttachFails, TypeOK, PeerAlive, ClientInv, WorkerClean
  <2> QED
    BY <1>5, <1>6, <1>7, <2>1 DEF AttachFails, serverVars, threadVars
<1>8. CASE DisconnectReturns(c)
  <2>1. worker[c] = "exiting" /\ sock[c] # "connected" /\ PeerAlive(c)'
    BY <1>8 DEF DisconnectReturns, TypeOK, PeerAlive, ClientInv, WorkerClean
  <2> QED
    BY <1>5, <1>6, <1>8, <2>1 DEF DisconnectReturns, serverVars, threadVars
<1>9. CASE EnterEventLoop(c)
  <2>1. PeerAlive(c) /\ PeerAlive(c)' /\ worker'[c] = "running"
    BY <1>9 DEF EnterEventLoop, TypeOK, PeerAlive
  <2> QED
    BY <1>9, <2>1, StaysInv DEF EnterEventLoop, serverVars, threadVars, peerVars
<1>10. CASE SocketFlushes(c)
  <2>1. /\ sock[c] = "closing" /\ PeerAlive(c) /\ PeerAlive(c)'
        /\ UNCHANGED <<threads, conn, authenticated, refused, calls>>
    BY <1>10 DEF SocketFlushes, PeerAlive, serverVars, threadVars, runVars
  <2>2. CASE SocketLost(c, <<"error", "socketUnconnected">>)
    <3> DEFINE es == <<"error", "socketUnconnected">>
    <3>1. /\ es \in Seq(Events) /\ Ordered(es)
          /\ \A e : In(es, e) <=> e \in {"error", "socketUnconnected"}
      BY EventSeqs, PostedSeqs DEF Events, Rank
    <3>2. SocketLost(c, es)
      BY <2>2
    <3> HIDE DEF es
    <3> QED
      BY <2>1, <3>1, <3>2, LostInv
  <2>3. CASE SocketLost(c, <<"socketUnconnected">>)
    <3> DEFINE es == <<"socketUnconnected">>
    <3>1. es \in Seq(Events) /\ Ordered(es) /\ \A e : In(es, e) <=> e = "socketUnconnected"
      BY EventSeqs, PostedSeqs DEF Events
    <3>2. SocketLost(c, es)
      BY <2>3
    <3> HIDE DEF es
    <3> QED
      BY <2>1, <3>1, <3>2, LostInv
  <2> QED
    BY <1>10, <2>2, <2>3 DEF SocketFlushes
<1>11. ASSUME NEW call, TakeCall(c, call)
       PROVE  /\ In(calls[c], call)
              /\ \A x : In(calls'[c], x) => In(calls[c], x)
              /\ PeerAlive(c) /\ PeerAlive(c)'
              /\ UNCHANGED <<threads, conn, authenticated, refused, worker>>
  <2>1. /\ calls[c] \in Seq(Calls)
        /\ Len(calls[c]) > 0 /\ calls[c][1] = call
        /\ Len(calls'[c]) = Len(calls[c]) - 1
        /\ \A i \in 1..Len(calls'[c]) : calls'[c][i] = calls[c][i + 1]
    BY <1>11 DEF TakeCall, TypeOK
  <2>2. Len(calls[c]) \in Nat
    BY <2>1
  <2>3. In(calls[c], call)
    BY <2>1, <2>2 DEF In
  <2>4. ASSUME NEW x, In(calls'[c], x)
        PROVE  In(calls[c], x)
    <3>1. PICK i \in 1..Len(calls'[c]) : calls'[c][i] = x
      BY <2>4 DEF In
    <3>2. i + 1 \in 1..Len(calls[c]) /\ calls[c][i + 1] = x
      BY <2>1, <2>2, <3>1
    <3> QED
      BY <3>2 DEF In
  <2> QED
    BY <1>11, <2>3, <2>4 DEF TakeCall, PeerAlive, serverVars, threadVars, runVars
<1>12. CASE PeerSendsHandShake(c)
  <2>1. /\ Registered(c)
        /\ \A x : In(calls'[c], x) => In(calls[c], x)
        /\ PeerAlive(c) /\ PeerAlive(c)'
        /\ UNCHANGED <<threads, conn, authenticated, refused, worker>>
        /\ UNCHANGED <<events, sock, peerAuth, hwAddr>>
    BY <1>11, <1>12 DEF PeerSendsHandShake, ClientInv, HandShakeTracked
  <2>2. WorkerClean(c)'
    BY <2>1 DEF ClientInv, WorkerClean, PeerAlive
  <2>3. QueueBounded(c)'
    BY <2>1 DEF ClientInv, QueueBounded, Pending
  <2>4. ConnTracksSock(c)'
    BY <2>1 DEF ClientInv, ConnTracksSock, Pending
  <2>5. AuthTracked(c)'
    BY <2>1 DEF ClientInv, AuthTracked, Pending, Registered, IsRemote
  <2>6. HandShakeTracked(c)'
    BY <2>1 DEF ClientInv, HandShakeTracked, Registered
  <2> QED
    BY <2>2, <2>3, <2>4, <2>5, <2>6 DEF ClientInv
<1>13. CASE PeerRefusesConnection(c)
  BY <1>11, <1>13, DisconnectInv DEF PeerRefusesConnection
<1>14. CASE LeaveEventLoop(c)
  <2>1. PeerAlive(c) /\ PeerAlive(c)'
    BY <1>14 DEF LeaveEventLoop, TypeOK, PeerAlive
  <2> QED
    BY <1>14, <2>1, DisconnectInv DEF LeaveEventLoop, serverVars, threadVars
<1>15. CASE RunReturns(c)
  <2>1. /\ PeerAlive(c) /\ worker'[c] = "finished" /\ calls'[c] = <<>>
        /\ UNCHANGED <<threads, conn, authenticated, refused>>
    BY <1>15 DEF RunReturns, PeerAlive, TypeOK, serverVars, threadVars
  <2>2. CASE sock[c] = "unconnected"
    <3> DEFINE es == <<"finished">>
    <3>1. es \in Seq(Events) /\ Ordered(es) /\ \A e : In(es, e) <=> e = "finished"
      BY EventSeqs, PostedSeqs DEF Events
    <3>2. SocketLost(c, es)
      BY <1>15, <2>2 DEF RunReturns
    <3> HIDE DEF es
    <3> QED
      BY <2>1, <2>2, <3>1, <3>2, LostInv
  <2>3. CASE sock[c] = "closing"
    <3> DEFINE es == <<"socketUnconnected", "finished">>
    <3>1. /\ es \in Seq(Events) /\ Ordered(es)
          /\ \A e : In(es, e) <=> e \in {"socketUnconnected", "finished"}
      BY EventSeqs, PostedSeqs DEF Events, Rank
    <3>2. SocketLost(c, es)
      BY <1>15, <2>3 DEF RunReturns
    <3> HIDE DEF es
    <3> QED
      BY <2>1, <2>3, <3>1, <3>2, LostInv
  <2>4. sock[c] # "connected"
    BY <1>15 DEF RunReturns, ClientInv, WorkerClean
  <2> QED
    BY <2>2, <2>3, <2>4 DEF TypeOK, SockStates
<1> QED
  BY <1>1, <1>2, <1>3, <1>4, <1>7, <1>8, <1>9, <1>10, <1>12, <1>13, <1>14, <1>15
     DEF Worker, Network

\* A client whose disconnection is next has been connected, and one whose
\* authentication is next is authenticating: what EventOrder says.
LEMMA HeadFacts ==
  ASSUME TypeOK, NEW c \in Clients, QueueBounded(c), ConnTracksSock(c),
         AuthTracked(c), WorkerClean(c),
         NEW e \in Events \ {"error"}, Deliver(c, e)
  PROVE  /\ e = "authenticated" => conn[c] = "Authenticating" /\ ~authenticated[c]
         /\ e = "socketConnected" => ~authenticated[c]
         /\ e \in {"socketClosing", "socketUnconnected"} => conn[c] # "Unconnected"
         /\ e = "finished" =>
               /\ Len(events[c]) = 1 /\ events'[c] = <<>>
               /\ conn[c] = "Unconnected"
               /\ sock[c] = "unconnected"
<1>1. /\ In(events[c], e)
      /\ \A f \in Events : f # e => (In(events'[c], f) <=> In(events[c], f))
      /\ \A f \in Events :
            f # "error" /\ In(events'[c], f) => Rank(e) < Rank(f)
      /\ e = "finished" => events'[c] = <<>> /\ Len(events[c]) = 1
  BY DeliverOrder DEF TypeOK, QueueBounded
<1>2. CASE e = "authenticated"
  <2>1. ~Pending(c, "socketConnected")
    BY <1>1, <1>2 DEF Events, Rank, Pending
  <2> QED
    BY <1>1, <1>2, <2>1 DEF QueueBounded, AuthTracked, Pending
<1>3. CASE e = "socketConnected"
  BY <1>1, <1>3 DEF AuthTracked, Pending
<1>4. CASE e \in {"socketClosing", "socketUnconnected"}
  <2>1. ~Pending(c, "socketConnected")
    BY <1>1, <1>4 DEF Events, Rank, Pending
  <2> QED
    BY <1>1, <1>4, <2>1 DEF QueueBounded, Pending
<1>5. CASE e = "finished"
  <2>1. worker[c] = "finished"
    BY <1>1, <1>5 DEF QueueBounded, Pending
  <2>2. sock[c] = "unconnected"
    BY <2>1 DEF WorkerClean, PeerAlive
  <2>3. ~Pending(c, "socketUnconnected")
    BY <1>1, <1>5, PostedSeqs DEF Events, Pending
  <2> QED
    BY <1>1, <1>5, <2>2, <2>3 DEF ConnTracksSock
<1> QED
  BY <1>2, <1>3, <1>4, <1>5 DEF Events

\* The slots of the main thread.
LEMMA MainInv ==
  ASSUME TypeOK, NEW c \in Clients, ClientInv(c), Main(c)
  PROVE  ClientInv(c)'
<1> USE DEF ClientInv
<1>1. ASSUME NEW e \in Events, Deliver(c, e)
      PROVE  /\ Ordered(events'[c])
             /\ In(events[c], e)
             /\ \A f \in Events : f # e => (In(events'[c], f) <=> In(events[c], f))
             /\ e # "error" => \A f \in Events :
                   f # "error" /\ In(events'[c], f) => Rank(e) < Rank(f)
             /\ worker[c] \notin {"none", "starting"}
  <2>1. /\ Ordered(events'[c])
        /\ In(events[c], e)
        /\ \A f \in Events : f # e => (In(events'[c], f) <=> In(events[c], f))
        /\ e # "error" => \A f \in Events :
              f # "error" /\ In(events'[c], f) => Rank(e) < Rank(f)
    BY <1>1, DeliverOrder DEF TypeOK, QueueBounded
  <2>2. worker[c] \notin {"none", "starting"}
    BY <2>1, PostedSeqs DEF WorkerClean
  <2> QED
    BY <2>1, <2>2
<1>2. CASE OnSocketConnected(c)
  <2> DEFINE e == "socketConnected"
  <2>1. /\ Deliver(c, e) /\ conn'[c] = "Authenticating"
        /\ UNCHANGED <<threads, authenticated, refused, worker, calls, sock,
                       peerAuth, hwAddr, sentHandShake>>
    BY <1>2 DEF OnSocketConnected, TypeOK, serverVars, peerVars, runVars
  <2>2. ~In(events'[c], "socketConnected")
    BY <1>1, <2>1 DEF Events, Rank
  <2>3. \A f \in Events : f # e => (In(events'[c], f) <=> In(events[c], f))
    BY <1>1, <2>1 DEF Events
  <2>4. /\ Ordered(events'[c]) /\ In(events[c], e)
        /\ worker[c] \notin {"none", "starting"}
    BY <1>1, <2>1 DEF Events
  <2>5. WorkerClean(c)'
    BY <2>1, <2>4 DEF WorkerClean, PeerAlive
  <2>6. QueueBounded(c)'
    BY <2>1, <2>2, <2>3, <2>4 DEF QueueBounded, Pending, Events
  <2>7. ConnTracksSock(c)'
    BY <2>1, <2>2, <2>3, <2>4 DEF ConnTracksSock, Pending, Events
  <2>8. AuthTracked(c)'
    BY <2>1, <2>2, <2>3, <2>4 DEF AuthTracked, Pending, Events, Registered, IsRemote
  <2>9. HandShakeTracked(c)'
    BY <2>1 DEF HandShakeTracked, Registered
  <2> QED
    BY <2>5, <2>6, <2>7, <2>8, <2>9
<1>3. CASE OnSocketClosing(c)
  <2> DEFINE e == "socketClosing"
  <2>1. /\ Deliver(c, e) /\ conn'[c] = "Closing"
        /\ UNCHANGED <<threads, authenticated, refused, worker, calls, sock,
                       peerAuth, hwAddr, sentHandShake>>
    BY <1>3 DEF OnSocketClosing, TypeOK, serverVars, peerVars, runVars
  <2>2. /\ ~In(events'[c], "socketConnected")
        /\ ~In(events'[c], "authenticated")
        /\ ~In(events'[c], "socketClosing")
    BY <1>1, <2>1 DEF Events, Rank
  <2>3. \A f \in Events : f # e => (In(events'[c], f) <=> In(events[c], f))
    BY <1>1, <2>1 DEF Events
  <2>4. /\ Ordered(events'[c]) /\ In(events[c], e)
        /\ worker[c] \notin {"none", "starting"}
    BY <1>1, <2>1 DEF Events
  <2>5. WorkerClean(c)'
    BY <2>1, <2>4 DEF WorkerClean, PeerAlive
  <2>6. QueueBounded(c)'
    BY <2>1, <2>2, <2>3, <2>4 DEF QueueBounded, Pending, Events
  <2>7. ConnTracksSock(c)'
    BY <2>1, <2>2, <2>3, <2>4 DEF QueueBounded, ConnTracksSock, Pending, Events
  <2>8. AuthTracked(c)'
    BY <2>1, <2>2, <2>3, <2>4 DEF AuthTracked, Pending, Events, Registered, IsRemote
  <2>9. HandShakeTracked(c)'
    BY <2>1 DEF HandShakeTracked, Registered
  <2> QED
    BY <2>5, <2>6, <2>7, <2>8, <2>9
<1>4. ASSUME Authenticated(c),
             refused'[c] = (MustRefuse(c) \/ refused[c]),
             CallPeer(c, IF MustRefuse(c) THEN "refuseConnection" ELSE "sendHandShake")
      PROVE  ClientInv(c)'
  <2> DEFINE e == "authenticated"
             call == IF MustRefuse(c) THEN "refuseConnection" ELSE "sendHandShake"
  <2>1. /\ Deliver(c, e) /\ conn'[c] = "Connected" /\ authenticated'[c] = TRUE
        /\ UNCHANGED <<threads, worker, sock, peerAuth, hwAddr, sentHandShake>>
    BY <1>4 DEF Authenticated, TypeOK, serverVars, peerVars, runVars
  <2>2. /\ ~In(events'[c], "socketConnected")
        /\ ~In(events'[c], "authenticated")
    BY <1>1, <2>1 DEF Events, Rank
  <2>3. \A f \in Events : f # e => (In(events'[c], f) <=> In(events[c], f))
    BY <1>1, <2>1 DEF Events
  <2>4. /\ Ordered(events'[c]) /\ In(events[c], e)
        /\ worker[c] \notin {"none", "starting"}
    BY <1>1, <2>1 DEF Events
  <2>5. conn[c] = "Authenticating" /\ ~authenticated[c]
    BY <2>1, HeadFacts DEF Events
  <2>6. /\ ~PeerAlive(c) => calls'[c] = calls[c]
        /\ \A x : In(calls'[c], x) => In(calls[c], x) \/ x = call
    <3>1. CASE PeerAlive(c)
      <4>1. calls'[c] = Append(calls[c], call) /\ calls[c] \in Seq(Calls)
        BY <1>4, <3>1 DEF CallPeer, TypeOK
      <4> HIDE DEF call
      <4>2. /\ Len(calls'[c]) = Len(calls[c]) + 1
            /\ Len(calls[c]) \in Nat
            /\ \A i \in 1..Len(calls[c]) : calls'[c][i] = calls[c][i]
            /\ calls'[c][Len(calls[c]) + 1] = call
        BY <4>1
      <4>3. ASSUME NEW x, In(calls'[c], x)
            PROVE  In(calls[c], x) \/ x = call
        <5>1. PICK i \in 1..Len(calls'[c]) : calls'[c][i] = x
          BY <4>3 DEF In
        <5>2. i \in 1..Len(calls[c]) \/ i = Len(calls[c]) + 1
          BY <4>2, <5>1
        <5> QED
          BY <4>2, <5>1, <5>2 DEF In
      <4> QED
        BY <3>1, <4>3
    <3>2. CASE ~PeerAlive(c)
      BY <1>4, <3>2 DEF CallPeer
    <3> QED
      BY <3>1, <3>2
  <2>7. WorkerClean(c)'
    BY <2>1, <2>4, <2>6 DEF WorkerClean, PeerAlive
  <2>8. QueueBounded(c)'
    BY <2>1, <2>2, <2>3, <2>4 DEF QueueBounded, Pending, Events
  <2>9. ConnTracksSock(c)'
    BY <2>1, <2>2, <2>3, <2>4, <2>5 DEF ConnTracksSock, Pending, Events
  <2>10. AuthTracked(c)'
    <3>1. sock'[c] = "connected" => peerAuth'[c]
      BY <2>1, <2>4 DEF QueueBounded, Pending
    <3>2. IsRemote(c) /\ ~refused'[c] => hwAddr'[c] \in Macs
      BY <1>4, <2>1 DEF MustRefuse, TypeOK
    <3> QED
      BY <2>1, <2>2, <3>1, <3>2 DEF AuthTracked, Pending, Registered, IsRemote
  <2>11. HandShakeTracked(c)'
    <3>1. ~sentHandShake[c] /\ ~In(calls[c], "sendHandShake")
      BY <2>5 DEF HandShakeTracked, Registered
    <3>2. In(calls'[c], "sendHandShake") => ~MustRefuse(c)
      BY <2>6, <3>1
    <3>3. ~refused[c]
      BY <2>5 DEF AuthTracked
    <3> QED
      BY <1>4, <2>1, <3>1, <3>2, <3>3 DEF HandShakeTracked, Registered
  <2> QED
    BY <2>7, <2>8, <2>9, <2>10, <2>11
<1>5. CASE OnAuthenticatedRefuse(c)
  BY <1>4, <1>5 DEF OnAuthenticatedRefuse, TypeOK
<1>6. CASE OnAuthenticatedAccept(c)
  BY <1>4, <1>6 DEF OnAuthenticatedAccept, TypeOK
<1>7. CASE OnSocketUnconnected(c)
  <2> DEFINE e == "socketUnconnected"
  <2>1. /\ Deliver(c, e) /\ conn'[c] = "Unconnected"
        /\ UNCHANGED <<threads, authenticated, refused, worker, calls, sock,
                       peerAuth, hwAddr, sentHandShake>>
    BY <1>7 DEF OnSocketUnconnected, TypeOK, serverVars, peerVars
  <2>2. /\ ~In(events'[c], "socketConnected")
        /\ ~In(events'[c], "authenticated")
        /\ ~In(events'[c], "socketClosing")
        /\ ~In(events'[c], "socketUnconnected")
    BY <1>1, <2>1 DEF Events, Rank
  <2>3. \A f \in Events : f # e => (In(events'[c], f) <=> In(events[c], f))
    BY <1>1, <2>1 DEF Events
  <2>4. /\ Ordered(events'[c]) /\ In(events[c], e)
        /\ worker[c] \notin {"none", "starting"}
    BY <1>1, <2>1 DEF Events
  <2>5. WorkerClean(c)'
    BY <2>1, <2>4 DEF WorkerClean, PeerAlive
  <2>6. QueueBounded(c)'
    BY <2>1, <2>2, <2>3, <2>4 DEF QueueBounded, Pending, Events
  <2>7. ConnTracksSock(c)'
    BY <2>1, <2>2, <2>4 DEF QueueBounded, ConnTracksSock, Pending
  <2>8. AuthTracked(c)'
    BY <2>1, <2>2 DEF AuthTracked, Pending, Registered, IsRemote
  <2>9. HandShakeTracked(c)'
    BY <2>1 DEF HandShakeTracked, Registered
  <2> QED
    BY <2>5, <2>6, <2>7, <2>8, <2>9
<1>8. CASE OnError(c)
  <2>1. /\ Deliver(c, "error")
        /\ UNCHANGED <<threads, conn, authenticated, refused, worker, calls, sock,
                       peerAuth, hwAddr, sentHandShake>>
    BY <1>8 DEF OnError, serverVars, threadVars, peerVars, runVars
  <2>2. /\ \A f \in Events : f # "error" => (In(events'[c], f) <=> In(events[c], f))
        /\ Ordered(events'[c])
        /\ worker[c] \notin {"none", "starting"}
    BY <1>1, <2>1 DEF Events
  <2>3. WorkerClean(c)'
    BY <2>1, <2>2 DEF WorkerClean, PeerAlive
  <2>4. QueueBounded(c)'
    BY <2>1, <2>2 DEF QueueBounded, Pending, Events
  <2>5. ConnTracksSock(c)'
    BY <2>1, <2>2 DEF ConnTracksSock, Pending, Events
  <2>6. AuthTracked(c)'
    BY <2>1, <2>2 DEF AuthTracked, Pending, Events, Registered, IsRemote
  <2>7. HandShakeTracked(c)'
    BY <2>1 DEF HandShakeTracked, Registered
  <2> QED
    BY <2>3, <2>4, <2>5, <2>6, <2>7
<1>9. CASE OnFinished(c)
  <2>1. /\ Deliver(c, "finished")
        /\ c \notin threads' /\ worker'[c] = "none" /\ conn'[c] = "Unconnected"
        /\ authenticated'[c] = FALSE /\ refused'[c] = FALSE
        /\ UNCHANGED <<sock, peerAuth, sentHandShake, calls>>
    BY <1>9 DEF OnFinished, TypeOK
  <2>2. events'[c] = <<>> /\ sock[c] = "unconnected"
    BY <2>1, HeadFacts DEF Events
  <2>3. worker[c] = "finished"
    BY <1>1, <2>1 DEF Events, QueueBounded, Pending
  <2>4. ~sentHandShake[c] /\ calls[c] = <<>>
    BY <2>3 DEF WorkerClean, PeerAlive
  <2>5. Ordered(events'[c]) /\ \A f : ~In(events'[c], f)
    BY <2>2, PostedSeqs
  <2>6. ~In(calls'[c], "sendHandShake")
    BY <2>1, <2>4, PostedSeqs
  <2>7. WorkerClean(c)'
    BY <2>1, <2>2, <2>4 DEF WorkerClean
  <2>8. QueueBounded(c)'
    BY <2>1, <2>5 DEF QueueBounded, Pending
  <2>9. ConnTracksSock(c)'
    BY <2>1, <2>2, <2>5 DEF ConnTracksSock, Pending
  <2>10. AuthTracked(c)'
    BY <2>1 DEF AuthTracked, Registered
  <2>11. HandShakeTracked(c)'
    BY <2>1, <2>4, <2>6 DEF HandShakeTracked, Registered
  <2> QED
    BY <2>7, <2>8, <2>9, <2>10, <2>11
<1> QED
  BY <1>2, <1>3, <1>5, <1>6, <1>7, <1>8, <1>9 DEF Main

-----------------------------------------------------------------------------
(* The invariant of the server. *)

\* Every step keeps the invariant of every client.
LEMMA AllClientsNext ==
  ASSUME TypeOK, AllClientsInv, [Next]_vars
  PROVE  AllClientsInv'
<1> SUFFICES ASSUME NEW d \in Clients PROVE ClientInv(d)'
  BY DEF AllClientsInv
<1>1. ClientInv(d)
  BY DEF AllClientsInv
<1>2. CASE Listen
  BY <1>1, <1>2, UntouchedInv
     DEF Listen, Untouched, tableVars, threadVars, peerVars, runVars
<1>3. CASE Close
  BY <1>1, <1>3, UntouchedInv
     DEF Close, Untouched, tableVars, threadVars, peerVars
<1>4. CASE UNCHANGED vars
  BY <1>1, <1>4, UntouchedInv
     DEF vars, Untouched, serverVars, tableVars, threadVars, peerVars, runVars
<1>5. ASSUME NEW c \in Clients, Network(c) \/ Worker(c) \/ Main(c)
      PROVE  ClientInv(d)'
  <2>1. CASE d = c
    BY <1>1, <1>5, <2>1, WorkerInv, MainInv
  <2>2. CASE d # c
    BY <1>1, <1>5, <2>2, OthersUntouched, UntouchedInv
  <2> QED
    BY <2>1, <2>2
<1> QED
  BY <1>2, <1>3, <1>4, <1>5 DEF Next

\* Every step keeps the types.
LEMMA TypeNext ==
  ASSUME TypeOK, AllClientsInv, [Next]_vars
  PROVE  TypeOK'
<1>1. ASSUME NEW c \in Clients, Main(c)
      PROVE  TypeOK'
  BY <1>1, TypeMain DEF AllClientsInv, ClientInv
<1> QED
  BY <1>1, TypeWorker, TypeUser DEF Next

\* The state of the server and its listening socket move together.
LEMMA ServerNext ==
  ASSUME TypeOK, ServerInv, [Next]_vars
  PROVE  ServerInv'
<1> USE DEF ServerInv
<1>1. CASE Listen
  BY <1>1 DEF Listen
<1>2. CASE Close
  BY <1>2 DEF Close
<1>3. CASE UNCHANGED vars
  BY <1>3 DEF vars, serverVars
<1>4. ASSUME NEW c \in Clients, IncomingConnection(c)
      PROVE  ServerInv'
  BY <1>4 DEF IncomingConnection
<1>5. ASSUME NEW c \in Clients, OnFinished(c)
      PROVE  ServerInv'
  BY <1>5 DEF OnFinished
<1>6. ASSUME NEW c \in Clients, Network(c) \/ Worker(c) \/ Main(c),
             ~IncomingConnection(c), ~OnFinished(c)
      PROVE  UNCHANGED serverVars
  BY <1>6
     DEF Network, Worker, Main, PeerAuthenticates, PeerDrops, AttachSocket,
         AttachFails, EnterEventLoop, SocketFlushes, PeerSendsHandShake,
         PeerRefusesConnection, TakeCall, LeaveEventLoop, DisconnectReturns,
         RunReturns, OnSocketConnected, OnSocketClosing, OnAuthenticatedRefuse,
         OnAuthenticatedAccept, Authenticated, OnSocketUnconnected, OnError
<1> QED
  BY <1>1, <1>2, <1>3, <1>4, <1>5, <1>6 DEF Next, serverVars

\* What a step does to the tables of remote clients: nothing, and then the
\* standing of every client stays; or it registers or forgets one client.
Standing(d) == Accepted(d) /\ IsRemote(d)

Keeps ==
    /\ UNCHANGED <<remoteTable, remoteIp, history>>
    /\ \A d \in Clients :
          /\ Standing(d)' <=> Standing(d)
          /\ Standing(d) => hwAddr'[d] = hwAddr[d]

OtherStanding(c) ==
    \A d \in Clients \ {c} :
        /\ Standing(d)' <=> Standing(d)
        /\ hwAddr'[d] = hwAddr[d]

Registers(c) ==
    /\ hwAddr[c] \in Macs /\ hwAddr'[c] = hwAddr[c]
    /\ remoteTable[hwAddr[c]] = NoClient
    /\ remoteTable' = [remoteTable EXCEPT ![hwAddr[c]] = c]
    /\ remoteIp' = remoteIp \cup {<<PeerIp[c], hwAddr[c]>>}
    /\ history' = history \ {hwAddr[c]}
    /\ Standing(c)'
    /\ OtherStanding(c)

Forgets(c) ==
    /\ hwAddr[c] \in Macs /\ hwAddr'[c] = hwAddr[c]
    /\ remoteTable' = [remoteTable EXCEPT ![hwAddr[c]] = NoClient]
    /\ remoteIp' = remoteIp \ {<<PeerIp[c], hwAddr[c]>>}
    /\ history' = history \cup {hwAddr[c]}
    /\ Standing(c) /\ ~Standing(c)'
    /\ OtherStanding(c)

LEMMA TableCases ==
  ASSUME TypeOK, AllClientsInv, [Next]_vars
  PROVE  Keeps \/ \E c \in Clients : Registers(c) \/ Forgets(c)
<1> USE DEF Standing, Accepted, Registered, IsRemote
<1>1. CASE Listen
  BY <1>1 DEF Listen, Keeps, tableVars, threadVars, peerVars
<1>2. CASE Close
  BY <1>2 DEF Close, Keeps, tableVars, threadVars, peerVars
<1>3. CASE UNCHANGED vars
  BY <1>3 DEF vars, Keeps, tableVars, threadVars, peerVars
<1>4. ASSUME NEW c \in Clients, Worker(c) \/ IncomingConnection(c) \/ PeerDrops(c)
      PROVE  Keeps
  <2>1. UNCHANGED <<remoteTable, remoteIp, history, conn, authenticated,
                    refused, hwAddr>>
    BY <1>4
       DEF Worker, PeerDrops, IncomingConnection, AttachSocket,
           AttachFails, EnterEventLoop, SocketFlushes, PeerSendsHandShake,
           PeerRefusesConnection, TakeCall, LeaveEventLoop, DisconnectReturns,
           RunReturns, SocketLost, DisconnectFromHost,
           tableVars, threadVars, peerVars
  <2> QED
    BY <2>1 DEF Keeps
<1>5. ASSUME NEW c \in Clients, NEW m \in Macs \cup {NoMac}, PeerAuthenticates(c, m)
      PROVE  Keeps
  <2>1. ~authenticated[c]
    BY <1>5 DEF PeerAuthenticates, AllClientsInv, ClientInv, AuthTracked
  <2> QED
    BY <1>5, <2>1 DEF PeerAuthenticates, Keeps, TypeOK, tableVars, threadVars
<1>6. ASSUME NEW c \in Clients, Main(c)
      PROVE  Keeps \/ Registers(c) \/ Forgets(c)
  <2>1. /\ WorkerClean(c) /\ QueueBounded(c) /\ ConnTracksSock(c) /\ AuthTracked(c)
    BY DEF AllClientsInv, ClientInv
  <2>2. ASSUME NEW e \in Events \ {"error"}, Deliver(c, e)
        PROVE  /\ e = "authenticated" => ~authenticated[c]
               /\ e = "socketConnected" => ~authenticated[c]
               /\ e \in {"socketClosing", "socketUnconnected"} =>
                     conn[c] # "Unconnected"
               /\ e = "finished" => conn[c] = "Unconnected"
    BY <2>1, <2>2, HeadFacts
  <2>3. CASE OnSocketConnected(c)
    <3>1. ~authenticated[c]
      BY <2>2, <2>3 DEF OnSocketConnected, Events
    <3> QED
      BY <2>3, <3>1 DEF OnSocketConnected, Keeps, TypeOK, tableVars, peerVars
  <2>4. CASE OnSocketClosing(c)
    <3>1. conn[c] # "Unconnected"
      BY <2>2, <2>4 DEF OnSocketClosing, Events
    <3> QED
      BY <2>4, <3>1 DEF OnSocketClosing, Keeps, TypeOK, tableVars, peerVars
  <2>5. CASE OnError(c)
    BY <2>5 DEF OnError, Keeps, tableVars, threadVars, peerVars
  <2>6. CASE OnFinished(c)
    <3>1. conn[c] = "Unconnected"
      BY <2>2, <2>6 DEF OnFinished, Events
    <3> QED
      BY <2>6, <3>1 DEF OnFinished, Keeps, TypeOK, tableVars
  <2>7. CASE OnAuthenticatedRefuse(c)
    <3>1. ~authenticated[c]
      BY <2>2, <2>7 DEF OnAuthenticatedRefuse, Authenticated, Events
    <3> QED
      BY <2>7, <3>1
         DEF OnAuthenticatedRefuse, Authenticated, Keeps, TypeOK, tableVars, peerVars
  <2>8. CASE OnAuthenticatedAccept(c)
    <3>1. ~authenticated[c] /\ ~refused[c]
      BY <2>1, <2>2, <2>8 DEF OnAuthenticatedAccept, Authenticated, Events, AuthTracked
    <3>2. /\ \A d \in Clients \ {c} : conn'[d] = conn[d] /\ authenticated'[d] = authenticated[d]
          /\ conn'[c] = "Connected" /\ authenticated'[c] = TRUE
          /\ UNCHANGED <<refused, hwAddr>>
      BY <2>8 DEF OnAuthenticatedAccept, Authenticated, TypeOK, peerVars
    <3>3. CASE IsLocal(c)
      BY <2>8, <3>1, <3>2, <3>3
         DEF OnAuthenticatedAccept, Keeps, TableAdd, IsLocal
    <3>4. CASE ~IsLocal(c)
      <4>1. hwAddr[c] \in Macs /\ remoteTable[hwAddr[c]] = NoClient
        BY <2>8, <3>4 DEF OnAuthenticatedAccept, MustRefuse, TypeOK, IsLocal,
                          IsHardwareAddressRegistered
      <4> QED
        BY <2>8, <3>1, <3>2, <3>4, <4>1
           DEF OnAuthenticatedAccept, Registers, OtherStanding, TableAdd, IsLocal
    <3> QED
      BY <3>3, <3>4
  <2>9. CASE OnSocketUnconnected(c)
    <3>1. conn[c] # "Unconnected"
      BY <2>2, <2>9 DEF OnSocketUnconnected, Events
    <3>2. /\ \A d \in Clients \ {c} : conn'[d] = conn[d]
          /\ conn'[c] = "Unconnected"
          /\ UNCHANGED <<authenticated, refused, hwAddr>>
      BY <2>9 DEF OnSocketUnconnected, TypeOK, peerVars
    <3>3. CASE ~Registered(c)
      BY <2>9, <3>2, <3>3 DEF OnSocketUnconnected, Keeps, tableVars
    <3>4. CASE Registered(c) /\ IsLocal(c)
      BY <2>9, <3>2, <3>4 DEF OnSocketUnconnected, Keeps, TableRemove, IsLocal
    <3>5. CASE Registered(c) /\ ~IsLocal(c)
      <4>1. hwAddr[c] \in Macs
        BY <2>1, <3>5 DEF AuthTracked, IsLocal
      <4> QED
        BY <2>9, <3>1, <3>2, <3>5, <4>1
           DEF OnSocketUnconnected, Forgets, OtherStanding, TableRemove, IsLocal
    <3> QED
      BY <3>3, <3>4, <3>5
  <2> QED
    BY <1>6, <2>3, <2>4, <2>5, <2>6, <2>7, <2>8, <2>9 DEF Main
<1> QED
  BY <1>1, <1>2, <1>3, <1>4, <1>5, <1>6 DEF Next, Network

\* The first part of TableMatchesClients, in terms of Standing.
LEMMA TableByStanding ==
  TableMatchesClients <=>
    /\ \A m \in Macs, c \in Clients :
          remoteTable[m] = c <=> Standing(c) /\ hwAddr[c] = m
    /\ \A b \in Clients, m \in Macs :
          <<PeerIp[b], m>> \in remoteIp
             <=> \E c \in Clients : remoteTable[m] = c /\ PeerIp[c] = PeerIp[b]
  BY DEF TableMatchesClients, Standing

\* Every step keeps the table right, and forgets no address.
LEMMA TableNext ==
  ASSUME TypeOK, AllClientsInv, TableInv, [Next]_vars
  PROVE  TableInv' /\ KnownMacs \subseteq KnownMacs'
<1> NoClient \notin Clients
  BY ServerAssumption DEF ServerAssumption
<1>1. /\ \A m \in Macs, d \in Clients :
            remoteTable[m] = d <=> Standing(d) /\ hwAddr[d] = m
      /\ \A b \in Clients, m \in Macs :
            <<PeerIp[b], m>> \in remoteIp
               <=> \E d \in Clients : remoteTable[m] = d /\ PeerIp[d] = PeerIp[b]
      /\ \A m \in history : remoteTable[m] = NoClient
      /\ remoteTable \in [Macs -> Clients \cup {NoClient}]
      /\ history \subseteq Macs
  BY TableByStanding DEF TableInv, ConnectedOrInHistory, TypeOK
<1>2. ASSUME Keeps
      PROVE  TableInv' /\ KnownMacs \subseteq KnownMacs'
  <2>1. \A m \in Macs, d \in Clients :
           remoteTable'[m] = d <=> Standing(d)' /\ hwAddr'[d] = m
    BY <1>1, <1>2 DEF Keeps
  <2>2. \A b \in Clients, m \in Macs :
           <<PeerIp[b], m>> \in remoteIp'
              <=> \E d \in Clients : remoteTable'[m] = d /\ PeerIp[d] = PeerIp[b]
    BY <1>1, <1>2 DEF Keeps
  <2>3. TableMatchesClients'
    BY <2>1, <2>2 DEF TableMatchesClients, Standing
  <2> QED
    BY <1>1, <1>2, <2>3 DEF Keeps, TableInv, ConnectedOrInHistory, KnownMacs
<1>3. ASSUME NEW c \in Clients, Registers(c)
      PROVE  TableInv' /\ KnownMacs \subseteq KnownMacs'
  <2>1. /\ remoteTable'[hwAddr[c]] = c
        /\ \A m \in Macs : m # hwAddr[c] => remoteTable'[m] = remoteTable[m]
    BY <1>1, <1>3 DEF Registers
  <2>2. \A m \in Macs, d \in Clients :
           remoteTable'[m] = d <=> Standing(d)' /\ hwAddr'[d] = m
    <3> SUFFICES ASSUME NEW m \in Macs, NEW d \in Clients
                 PROVE  remoteTable'[m] = d <=> Standing(d)' /\ hwAddr'[d] = m
      OBVIOUS
    <3>1. CASE d = c
      <4>1. m # hwAddr[c] => remoteTable[m] # c
        BY <1>1
      <4> QED
        BY <1>3, <2>1, <3>1, <4>1 DEF Registers
    <3>2. CASE d # c
      <4>1. hwAddr'[d] = hwAddr[d] /\ (Standing(d)' <=> Standing(d))
        BY <1>3, <3>2 DEF Registers, OtherStanding
      <4>2. ~(Standing(d) /\ hwAddr[d] = hwAddr[c])
        BY <1>1, <1>3 DEF Registers
      <4> QED
        BY <1>1, <2>1, <3>2, <4>1, <4>2
    <3> QED
      BY <3>1, <3>2
  <2>3. \A b \in Clients, m \in Macs :
           <<PeerIp[b], m>> \in remoteIp'
              <=> \E d \in Clients : remoteTable'[m] = d /\ PeerIp[d] = PeerIp[b]
    <3> SUFFICES ASSUME NEW b \in Clients, NEW m \in Macs
                 PROVE  <<PeerIp[b], m>> \in remoteIp'
                          <=> \E d \in Clients :
                                 remoteTable'[m] = d /\ PeerIp[d] = PeerIp[b]
      OBVIOUS
    <3>1. CASE m = hwAddr[c]
      <4>1. <<PeerIp[b], m>> \notin remoteIp
        BY <1>1, <1>3, <3>1 DEF Registers
      <4> QED
        BY <1>3, <2>1, <3>1, <4>1 DEF Registers
    <3>2. CASE m # hwAddr[c]
      BY <1>1, <1>3, <2>1, <3>2 DEF Registers
    <3> QED
      BY <3>1, <3>2
  <2>4. TableMatchesClients'
    BY <2>2, <2>3 DEF TableMatchesClients, Standing
  <2>5. ConnectedOrInHistory'
    BY <1>1, <1>3, <2>1 DEF Registers, ConnectedOrInHistory
  <2>6. KnownMacs \subseteq KnownMacs'
    BY <1>1, <1>3, <2>1 DEF Registers, KnownMacs
  <2> QED
    BY <2>4, <2>5, <2>6 DEF TableInv
<1>4. ASSUME NEW c \in Clients, Forgets(c)
      PROVE  TableInv' /\ KnownMacs \subseteq KnownMacs'
  <2>1. /\ remoteTable[hwAddr[c]] = c
        /\ remoteTable'[hwAddr[c]] = NoClient
        /\ \A m \in Macs : m # hwAddr[c] => remoteTable'[m] = remoteTable[m]
    BY <1>1, <1>4 DEF Forgets
  <2>2. \A m \in Macs, d \in Clients :
           remoteTable'[m] = d <=> Standing(d)' /\ hwAddr'[d] = m
    <3> SUFFICES ASSUME NEW m \in Macs, NEW d \in Clients
                 PROVE  remoteTable'[m] = d <=> Standing(d)' /\ hwAddr'[d] = m
      OBVIOUS
    <3>1. CASE d = c
      <4>1. m # hwAddr[c] => remoteTable[m] # c
        BY <1>1
      <4> QED
        BY <1>4, <2>1, <3>1, <4>1 DEF Forgets
    <3>2. CASE d # c
      <4>1. hwAddr'[d] = hwAddr[d] /\ (Standing(d)' <=> Standing(d))
        BY <1>4, <3>2 DEF Forgets, OtherStanding
      <4>2. ~(Standing(d) /\ hwAddr[d] = hwAddr[c])
        BY <1>1, <1>4, <2>1, <3>2 DEF Forgets
      <4> QED
        BY <1>1, <2>1, <3>2, <4>1, <4>2
    <3> QED
      BY <3>1, <3>2
  <2>3. \A b \in Clients, m \in Macs :
           <<PeerIp[b], m>> \in remoteIp'
              <=> \E d \in Clients : remoteTable'[m] = d /\ PeerIp[d] = PeerIp[b]
    <3> SUFFICES ASSUME NEW b \in Clients, NEW m \in Macs
                 PROVE  <<PeerIp[b], m>> \in remoteIp'
                          <=> \E d \in Clients :
                                 remoteTable'[m] = d /\ PeerIp[d] = PeerIp[b]
      OBVIOUS
    <3>1. CASE m = hwAddr[c]
      <4>1. <<PeerIp[b], m>> \in remoteIp => PeerIp[b] = PeerIp[c]
        BY <1>1, <2>1, <3>1
      <4> QED
        BY <1>4, <2>1, <3>1, <4>1 DEF Forgets
    <3>2. CASE m # hwAddr[c]
      BY <1>1, <1>4, <2>1, <3>2 DEF Forgets
    <3> QED
      BY <3>1, <3>2
  <2>4. TableMatchesClients'
    BY <2>2, <2>3 DEF TableMatchesClients, Standing
  <2>5. ConnectedOrInHistory'
    BY <1>1, <1>4, <2>1 DEF Forgets, ConnectedOrInHistory
  <2>6. KnownMacs \subseteq KnownMacs'
    BY <1>1, <1>4, <2>1 DEF Forgets, KnownMacs
  <2> QED
    BY <2>4, <2>5, <2>6 DEF TableInv
<1> QED
  BY <1>2, <1>3, <1>4, TableCases

-----------------------------------------------------------------------------
(* The theorems. *)

\* The invariant holds at first.
LEMMA InitInv == Init => IInv
<1> SUFFICES ASSUME Init PROVE IInv
  OBVIOUS
<1>1. TypeOK
  BY TypeInit
<1>2. AllClientsInv
  <2> SUFFICES ASSUME NEW c \in Clients PROVE ClientInv(c)
    BY DEF AllClientsInv
  <2>1. /\ events[c] = <<>> /\ calls[c] = <<>> /\ conn[c] = "Unconnected"
        /\ worker[c] = "none" /\ sock[c] = "unconnected" /\ c \notin threads
        /\ ~authenticated[c] /\ ~refused[c] /\ ~sentHandShake[c]
    BY DEF Init
  <2>2. Ordered(<<>>) /\ \A e : ~In(<<>>, e)
    BY PostedSeqs
  <2>3. WorkerClean(c)
    BY <2>1 DEF WorkerClean
  <2>4. QueueBounded(c)
    BY <2>1, <2>2 DEF QueueBounded, Pending
  <2>5. ConnTracksSock(c)
    BY <2>1, <2>2 DEF ConnTracksSock, Pending
  <2>6. AuthTracked(c)
    BY <2>1 DEF AuthTracked, Registered
  <2>7. HandShakeTracked(c)
    BY <2>1, <2>2 DEF HandShakeTracked, Registered
  <2> QED
    BY <2>3, <2>4, <2>5, <2>6, <2>7 DEF ClientInv
<1>3. ServerInv
  BY DEF Init, ServerInv
<1>4. TableInv
  <2>1. \A c \in Clients : ~Accepted(c)
    BY DEF Init, Accepted
  <2>2. \A m \in Macs, c \in Clients : remoteTable[m] # c
    BY ServerAssumption DEF ServerAssumption, Init
  <2>3. remoteIp = {} /\ history = {}
    BY DEF Init
  <2> QED
    BY <2>1, <2>2, <2>3 DEF TableInv, TableMatchesClients, ConnectedOrInHistory
<1> QED
  BY <1>1, <1>2, <1>3, <1>4 DEF IInv

\* Every step keeps it.
LEMMA NextInv == IInv /\ [Next]_vars => IInv'
  BY TypeNext, AllClientsNext, ServerNext, TableNext DEF IInv

\* The inductive invariant holds in every reachable state.
THEOREM Inductive == Spec => []IInv
  BY InitInv, NextInv, PTL DEF Spec

\* Every variable keeps its type, the queues of signals included.
THEOREM TypeCorrect == Spec => []TypeOK
<1>1. IInv => TypeOK
  BY DEF IInv
<1> QED
  BY <1>1, Inductive, PTL

\* The table of remote clients is exactly the set of accepted ones.
THEOREM TableCorrect == Spec => []TableMatchesClients
<1>1. IInv => TableMatchesClients
  BY DEF IInv, TableInv
<1> QED
  BY <1>1, Inductive, PTL

\* The table never points to a deleted client thread.
THEOREM TableAlive == Spec => []NoDanglingClient
<1>1. IInv => NoDanglingClient
  <2> SUFFICES ASSUME IInv, NEW m \in Macs
               PROVE  remoteTable[m] \in threads \cup {NoClient}
    BY DEF NoDanglingClient
  <2>1. remoteTable[m] \in Clients \cup {NoClient}
    BY DEF IInv, TypeOK
  <2>2. ASSUME NEW c \in Clients, remoteTable[m] = c
        PROVE  c \in threads
    <3>1. authenticated[c]
      BY <2>2 DEF IInv, TableInv, TableMatchesClients, Accepted, Registered
    <3> QED
      BY <3>1 DEF IInv, AllClientsInv, ClientInv, WorkerClean
  <2> QED
    BY <2>1, <2>2
<1> QED
  BY <1>1, Inductive, PTL

\* No address is both connected and in the history.
THEOREM TableOrHistory == Spec => []ConnectedOrInHistory
<1>1. IInv => ConnectedOrInHistory
  BY DEF IInv, TableInv
<1> QED
  BY <1>1, Inductive, PTL

\* The signals of a client come in an order its slots can handle.
THEOREM SignalsInOrder == Spec => []EventOrder
<1>1. IInv => EventOrder
  <2> SUFFICES ASSUME IInv, NEW c \in Clients, events[c] # <<>>
               PROVE  /\ Head(events[c]) = "authenticated" =>
                            conn[c] = "Authenticating" /\ ~authenticated[c]
                      /\ Head(events[c]) = "socketUnconnected" =>
                            conn[c] # "Unconnected"
                      /\ Head(events[c]) = "finished" =>
                            Len(events[c]) = 1 /\ conn[c] = "Unconnected"
    BY DEF EventOrder
  <2>1. /\ TypeOK /\ WorkerClean(c) /\ QueueBounded(c)
        /\ ConnTracksSock(c) /\ AuthTracked(c)
    BY DEF IInv, AllClientsInv, ClientInv
  <2> DEFINE q == events[c]
  <2>2. q \in Seq(Events) /\ Len(q) \in Nat /\ Len(q) > 0 /\ Head(q) = q[1]
    BY <2>1 DEF TypeOK
  <2> HIDE DEF q
  <2>3. In(q, Head(q))
    BY <2>2 DEF In
  <2>4. \A e : In(q, e) /\ e # "error" /\ Head(q) # "error" /\ e # Head(q)
           => Rank(Head(q)) < Rank(e)
    <3> SUFFICES ASSUME NEW e, In(q, e), e # "error", Head(q) # "error",
                        e # Head(q)
                 PROVE  Rank(Head(q)) < Rank(e)
      OBVIOUS
    <3>1. PICK i \in 1..Len(q) : q[i] = e
      BY DEF In
    <3>2. 1 \in 1..Len(q) /\ 1 < i
      BY <2>2, <3>1
    <3> QED
      BY <2>1, <2>2, <3>1, <3>2 DEF QueueBounded, Ordered, q
  <2>5. CASE Head(q) = "authenticated"
    <3>1. ~In(q, "socketConnected")
      BY <2>4, <2>5 DEF Rank
    <3> QED
      BY <2>1, <2>3, <2>5, <3>1 DEF QueueBounded, AuthTracked, Pending, q
  <2>6. CASE Head(q) = "socketUnconnected"
    <3>1. ~In(q, "socketConnected")
      BY <2>4, <2>6 DEF Rank
    <3> QED
      BY <2>1, <2>3, <2>6, <3>1 DEF QueueBounded, Pending, q
  <2>7. CASE Head(q) = "finished"
    <3>1. Len(q) = 1
      <4>1. q[1] = "finished" /\ 1 \in 1..Len(q)
        BY <2>2, <2>7
      <4>2. Ordered(q)
        BY <2>1 DEF QueueBounded, q
      <4> QED
        BY <4>1, <4>2 DEF Ordered
    <3>2. worker[c] = "finished"
      BY <2>1, <2>3, <2>7 DEF QueueBounded, Pending, q
    <3>3. sock[c] = "unconnected"
      BY <2>1, <3>2 DEF WorkerClean, PeerAlive
    <3>4. ~In(q, "socketUnconnected")
      BY <2>4, <2>7 DEF Rank
    <3> QED
      BY <2>1, <2>7, <3>1, <3>3, <3>4 DEF ConnTracksSock, Pending, q
  <2> QED
    BY <2>5, <2>6, <2>7 DEF q
<1> QED
  BY <1>1, Inductive, PTL

\* The Asserts of the table and of the history never fail.
THEOREM AssertsNeverFail == Spec => []AssertsHold
<1>1. IInv /\ EventOrder => AssertsHold
  <2> SUFFICES ASSUME IInv, EventOrder, NEW c \in Clients,
                      IsRemote(c), Registered(c), events[c] # <<>>,
                      Head(events[c]) = "socketUnconnected"
               PROVE  /\ hwAddr[c] # NoMac
                      /\ IsHardwareAddressRegistered(hwAddr[c])
                      /\ hwAddr[c] \notin history
    BY DEF AssertsHold
  <2>1. conn[c] # "Unconnected"
    BY DEF EventOrder
  <2>2. hwAddr[c] \in Macs
    BY DEF IInv, AllClientsInv, ClientInv, AuthTracked
  <2>3. remoteTable[hwAddr[c]] = c
    BY <2>1, <2>2 DEF IInv, TableInv, TableMatchesClients, Accepted
  <2>4. hwAddr[c] # NoMac /\ c # NoClient
    BY <2>2, ServerAssumption DEF ServerAssumption
  <2> QED
    BY <2>2, <2>3, <2>4
       DEF IInv, TableInv, ConnectedOrInHistory, IsHardwareAddressRegistered
<1> QED
  BY <1>1, Inductive, SignalsInOrder, PTL

\* Two remote clients with one address never both believe they are connected.
THEOREM OneSession == Spec => []OneSessionPerAddress
<1>1. IInv => OneSessionPerAddress
  <2>1. ASSUME IInv, NEW c \in Clients, sentHandShake[c], sock[c] = "connected"
        PROVE  Accepted(c)
    BY <2>1 DEF IInv, AllClientsInv, ClientInv, HandShakeTracked, Registered,
                AuthTracked, ConnTracksSock, Accepted
  <2>2. ASSUME IInv, NEW c \in Clients, NEW d \in Clients \ {c},
               Accepted(c), Accepted(d), IsRemote(c), IsRemote(d)
        PROVE  hwAddr[c] # hwAddr[d]
    <3>1. hwAddr[c] \in Macs
      BY <2>2 DEF IInv, AllClientsInv, ClientInv, AuthTracked, Accepted
    <3> QED
      BY <2>2, <3>1 DEF IInv, TableInv, TableMatchesClients
  <2> QED
    BY <2>1, <2>2 DEF OneSessionPerAddress
<1> QED
  BY <1>1, Inductive, PTL

\* A closed server is quiet.
THEOREM QuietWhenClosed == Spec => []ClosedIsQuiet
<1>1. IInv => ClosedIsQuiet
  BY DEF IInv, ServerInv, TypeOK, AllClientsInv, ClientInv, WorkerClean, ClosedIsQuiet
<1> QED
  BY <1>1, Inductive, PTL

\* The server never forgets an address.
THEOREM AddressesKept == Spec => NeverForgets
<1>1. IInv /\ [Next]_vars => [KnownMacs \subseteq KnownMacs']_vars
  BY TableNext DEF IInv
<1> QED
  BY <1>1, Inductive, PTL DEF Spec, NeverForgets

-----------------------------------------------------------------------------
(* The server implements the registry of clients. *)

Served == {c \in Clients : Registered(c) /\ IsRemote(c)}

\* A step for one client changes neither the threads nor who was served,
\* unless it is one of the four that the registry knows.
LEMMA RegistryStutter ==
  ASSUME TypeOK, AllClientsInv,
         NEW c \in Clients, Network(c) \/ Worker(c) \/ Main(c),
         ~IncomingConnection(c), ~OnFinished(c), ~OnAuthenticatedAccept(c)
  PROVE  threads' = threads /\ Served' = Served
<1> USE DEF Served, Registered, IsRemote
<1>1. CASE Worker(c) \/ PeerDrops(c) \/ \E m \in Macs \cup {NoMac} : PeerAuthenticates(c, m)
  <2>1. UNCHANGED <<threads, authenticated, refused>>
    BY <1>1
       DEF Worker, PeerDrops, PeerAuthenticates, AttachSocket,
           AttachFails, EnterEventLoop, SocketFlushes, PeerSendsHandShake,
           PeerRefusesConnection, TakeCall, LeaveEventLoop, DisconnectReturns,
           RunReturns, serverVars, threadVars
  <2> QED
    BY <2>1
<1>2. CASE OnSocketConnected(c) \/ OnSocketClosing(c) \/ OnSocketUnconnected(c)
  BY <1>2 DEF OnSocketConnected, OnSocketClosing, OnSocketUnconnected, serverVars
<1>3. CASE OnError(c)
  BY <1>3 DEF OnError, serverVars, threadVars
<1>4. CASE OnAuthenticatedRefuse(c)
  <2>1. ~authenticated[c]
    <3>1. Deliver(c, "authenticated")
      BY <1>4 DEF OnAuthenticatedRefuse, Authenticated
    <3> QED
      BY <3>1, HeadFacts DEF AllClientsInv, ClientInv, Events
  <2> QED
    BY <1>4, <2>1 DEF OnAuthenticatedRefuse, Authenticated, TypeOK, serverVars
<1> QED
  BY <1>1, <1>2, <1>3, <1>4 DEF Network, Main

LEMMA RegistryStep ==
  ASSUME IInv, [Next]_vars
  PROVE  [Registry!Next]_<<threads, Served, remoteTable, history>>
<1> USE DEF IInv
<1>1. CASE Listen \/ Close \/ UNCHANGED vars
  BY <1>1 DEF Listen, Close, vars, serverVars, tableVars, threadVars,
              Served, Registered, IsRemote
<1>2. ASSUME NEW c \in Clients, IncomingConnection(c)
      PROVE  Registry!Arrive(c)
  <2>1. c \notin threads
    BY <1>2 DEF IncomingConnection, AllClientsInv, ClientInv, WorkerClean
  <2>2. UNCHANGED <<Served, remoteTable, history>>
    BY <1>2 DEF IncomingConnection, tableVars, threadVars, Served, Registered, IsRemote
  <2>3. Cardinality(threads) < MaxConnections /\ threads' = threads \cup {c}
    BY <1>2 DEF IncomingConnection, CanAcceptNewConnection
  <2>4. Registry!Cardinality(threads) = Cardinality(threads)
    BY DEF Cardinality, Registry!Cardinality, IsFiniteSet, Registry!IsFiniteSet
  <2> QED
    BY <2>1, <2>2, <2>3, <2>4 DEF Registry!Arrive, Served
<1>3. ASSUME NEW c \in Clients, OnFinished(c)
      PROVE  Registry!Depart(c)
  <2>1. Deliver(c, "finished")
    BY <1>3 DEF OnFinished
  <2>2. conn[c] = "Unconnected" /\ events[c] # <<>>
    BY <2>1, HeadFacts DEF AllClientsInv, ClientInv, Events, Deliver
  <2>3. c \in threads
    BY <2>2 DEF AllClientsInv, ClientInv, WorkerClean
  <2>4. ~Registry!Owns(c)
    BY <2>2 DEF TableInv, TableMatchesClients, Accepted, Registry!Owns
  <2>5. Served' = Served \ {c}
    BY <1>3 DEF OnFinished, TypeOK, Served, Registered, IsRemote
  <2> QED
    BY <1>3, <2>3, <2>4, <2>5 DEF OnFinished, Registry!Depart, Served, tableVars
<1>4. ASSUME NEW c \in Clients, OnAuthenticatedAccept(c)
      PROVE  \/ \E m \in Macs : Registry!Register(c, m)
             \/ UNCHANGED <<threads, Served, remoteTable, history>>
  <2>1. Deliver(c, "authenticated")
    BY <1>4 DEF OnAuthenticatedAccept, Authenticated
  <2>2. ~authenticated[c] /\ events[c] # <<>>
    BY <2>1, HeadFacts DEF AllClientsInv, ClientInv, Events, Deliver
  <2>3. c \in threads /\ ~refused[c]
    BY <2>2 DEF AllClientsInv, ClientInv, WorkerClean, AuthTracked
  <2>4. /\ authenticated' = [authenticated EXCEPT ![c] = TRUE]
        /\ UNCHANGED <<threads, refused>>
    BY <1>4 DEF OnAuthenticatedAccept, Authenticated, serverVars
  <2>5. CASE IsLocal(c)
    <3>1. UNCHANGED <<remoteTable, history>>
      BY <1>4, <2>5 DEF OnAuthenticatedAccept, TableAdd, IsRemote, IsLocal
    <3>2. Served' = Served
      BY <2>4, <2>5 DEF TypeOK, Served, Registered, IsRemote, IsLocal
    <3> QED
      BY <2>4, <3>1, <3>2
  <2>6. CASE ~IsLocal(c)
    <3>1. hwAddr[c] \in Macs /\ remoteTable[hwAddr[c]] = NoClient
      BY <1>4, <2>6 DEF OnAuthenticatedAccept, MustRefuse, TypeOK, IsLocal,
                        IsRemote, IsHardwareAddressRegistered
    <3>2. c \notin Served /\ Served' = Served \cup {c}
      BY <2>2, <2>3, <2>4, <2>6
         DEF TypeOK, Served, Registered, IsRemote, IsLocal
    <3>3. /\ remoteTable' = [remoteTable EXCEPT ![hwAddr[c]] = c]
          /\ history' = history \ {hwAddr[c]}
      BY <1>4, <2>6 DEF OnAuthenticatedAccept, TableAdd, IsRemote, IsLocal
    <3>4. Registry!Register(c, hwAddr[c])
      BY <2>3, <2>4, <3>1, <3>2, <3>3 DEF Registry!Register, Served
    <3> QED
      BY <3>1, <3>4
  <2> QED
    BY <2>5, <2>6
<1>5. ASSUME NEW c \in Clients, Network(c) \/ Worker(c) \/ Main(c),
             ~IncomingConnection(c), ~OnFinished(c), ~OnAuthenticatedAccept(c)
      PROVE  \/ \E m \in Macs : Registry!Unregister(m)
             \/ UNCHANGED <<threads, Served, remoteTable, history>>
  <2>1. threads' = threads /\ Served' = Served
    BY <1>5, RegistryStutter
  <2>2. CASE OnSocketUnconnected(c) /\ Registered(c) /\ IsRemote(c)
    <3>1. Deliver(c, "socketUnconnected")
      BY <2>2 DEF OnSocketUnconnected
    <3>2. conn[c] # "Unconnected"
      BY <3>1, HeadFacts DEF AllClientsInv, ClientInv, Events
    <3>3. hwAddr[c] \in Macs
      BY <2>2 DEF AllClientsInv, ClientInv, AuthTracked
    <3>4. remoteTable[hwAddr[c]] = c /\ c # NoClient
      BY <2>2, <3>2, <3>3, ServerAssumption
         DEF TableInv, TableMatchesClients, Accepted, ServerAssumption
    <3>5. /\ remoteTable' = [remoteTable EXCEPT ![hwAddr[c]] = NoClient]
          /\ history' = history \cup {hwAddr[c]}
      BY <2>2 DEF OnSocketUnconnected, TableRemove, IsRemote, IsLocal
    <3>6. Registry!Unregister(hwAddr[c])
      BY <2>1, <3>4, <3>5 DEF Registry!Unregister, Served
    <3> QED
      BY <3>3, <3>6
  <2>3. CASE OnSocketUnconnected(c) /\ ~(Registered(c) /\ IsRemote(c))
    BY <2>1, <2>3 DEF OnSocketUnconnected, TableRemove, IsRemote, IsLocal, tableVars
  <2>4. CASE ~OnSocketUnconnected(c)
    <3>1. UNCHANGED <<remoteTable, history>>
      BY <1>5, <2>4
         DEF Network, Worker, Main, PeerAuthenticates, PeerDrops, AttachSocket,
             AttachFails, EnterEventLoop, SocketFlushes, PeerSendsHandShake,
             PeerRefusesConnection, TakeCall, LeaveEventLoop, DisconnectReturns,
             RunReturns, OnSocketConnected, OnSocketClosing,
             OnAuthenticatedRefuse, OnError, tableVars
    <3> QED
      BY <2>1, <3>1
  <2> QED
    BY <2>2, <2>3, <2>4
<1> QED
  BY <1>1, <1>2, <1>3, <1>4, <1>5 DEF Next, Registry!Next

\* The initial state of the server is the empty registry, and every step of
\* the server is a step of the registry or a stutter.
THEOREM ServerIsRegistry == Spec => ImplementsRegistry
<1>1. Init => Registry!Init
  BY DEF Init, Registry!Init, Registered
<1>2. IInv /\ [Next]_vars => [Registry!Next]_(Registry!registry)
  BY RegistryStep DEF Registry!registry, Served
<1> QED
  BY <1>1, <1>2, Inductive, PTL DEF Spec, ImplementsRegistry, Registry!Spec
=============================================================================
