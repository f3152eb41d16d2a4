------------------------------- MODULE Server -------------------------------
(***************************************************************************)
(* The connection side of the MyCrawler server: MCServer, the              *)
(* MCClientThread objects it owns, the table of connected clients          *)
(* (MCServerTableIP) and the history of known clients (MCServerHistory).   *)
(*                                                                         *)
(* Every MCServer and MCClientThread slot runs in the main thread.  The    *)
(* MCClientPeer of a client lives on the stack of MCClientThread::run, in  *)
(* the worker thread of that client.  The two threads talk through queued  *)
(* signals only:                                                           *)
(*   events[c]  signals of the peer (and finished()) waiting for the main  *)
(*              thread, oldest first;                                      *)
(*   calls[c]   callPeer..._ signals waiting for the worker's event loop.  *)
(* Qt keeps one posted-event list per receiving thread; keeping one per    *)
(* client allows every order of the real list and some more.               *)
(***************************************************************************)
EXTENDS Naturals, Sequences, FiniteSets

CONSTANTS
    Clients,         \* the MCClientThread objects that may exist at a time
    LocalClients,    \* those whose socket comes from 127.0.0.1
    Macs,            \* the non-null hardware addresses
    NoMac,           \* hardware address 0x0
    NoClient,        \* absence of an entry in the table of remote clients
    PeerIp,          \* IPv4 address of the peer of each client
    PeerPort,        \* port of the peer of each client
    MaxConnections   \* m_nMaxConnections

ASSUME ServerAssumption ==
    /\ LocalClients \subseteq Clients
    /\ NoMac \notin Macs
    /\ NoClient \notin Clients
    /\ PeerIp \in [Clients -> Nat]
    /\ PeerPort \in [Clients -> Nat]
    /\ MaxConnections \in Nat

VARIABLES
    \* MCServer
    serverState,     \* m_enumState
    listening,       \* QTcpServer::isListening()
    threads,         \* m_lstClientThreads
    remoteTable,     \* m_lstClientsIP.m_mapRemoteClientThreads
    remoteIp,        \* m_lstClientsIP.m_mapRemoteIP, a set of <<ip, mac>>
    localTable,      \* m_lstClientsIP.m_mapLocalClientThreads, <<port, client>>
    history,         \* keys of MCServerHistory::m_lstClients
    \* MCClientThread, main-thread side
    conn,            \* m_enumConnectionState
    authenticated,   \* m_bAuthenticated
    refused,         \* m_bConnectionRefused
    events,
    \* MCClientThread::run and its MCClientPeer, worker-thread side
    worker,          \* where run() is
    quitNow,         \* the flag set by QThread::quit()
    calls,
    sock,            \* QAbstractSocket::state()
    peerAuth,        \* d->authenticated of the peer
    hwAddr,          \* hardware address in the peer's CNetworkInfo
    sentHandShake    \* d->sentHandShake of the peer

serverVars == <<serverState, listening, threads>>
tableVars  == <<remoteTable, remoteIp, localTable, history>>
threadVars == <<conn, authenticated, refused>>
peerVars   == <<sock, peerAuth, hwAddr, sentHandShake>>
runVars    == <<worker, quitNow>>
vars == <<serverVars, tableVars, threadVars, peerVars, runVars, events, calls>>

ServerStates == {"Closed", "Listening", "Closing"}
ConnStates   == {"Unconnected", "Authenticating", "Connected", "Closing"}
SockStates   == {"unconnected", "connected", "closing"}
WorkerPhases == {"none", "starting", "attached", "running",
                 "exiting", "returning", "finished"}
Events       == {"socketConnected", "authenticated", "error",
                 "socketClosing", "socketUnconnected", "finished"}
Calls        == {"sendHandShake", "refuseConnection"}

IsLocal(c)  == c \in LocalClients
IsRemote(c) == c \notin LocalClients

-----------------------------------------------------------------------------
(* The table of connected clients and the history. *)

IsHardwareAddressRegistered(m) == m \in Macs /\ remoteTable[m] # NoClient

TableAdd(c) ==
    IF IsLocal(c)
    THEN /\ localTable' = {e \in localTable : e[1] # PeerPort[c]}
                              \cup {<<PeerPort[c], c>>}
         /\ UNCHANGED <<remoteTable, remoteIp>>
    ELSE /\ remoteTable' = [remoteTable EXCEPT ![hwAddr[c]] = c]
         /\ remoteIp' = remoteIp \cup {<<PeerIp[c], hwAddr[c]>>}
         /\ UNCHANGED localTable

\* The entry of a local client is removed under the IPv4 address of its peer
\* (127.0.0.1), narrowed to the quint16 key of the map of ports.
LoopbackIPv4 == 127 * 16777216 + 1

\* Variant: the address of the client stays in the map of addresses.
TableRemoveKeepsIp(c) ==
    IF IsLocal(c)
    THEN /\ localTable' = {e \in localTable : e[1] # LoopbackIPv4 % 65536}
         /\ UNCHANGED <<remoteTable, remoteIp>>
    ELSE /\ remoteTable' = [remoteTable EXCEPT ![hwAddr[c]] = NoClient]
         /\ UNCHANGED <<remoteIp, localTable>>

TableRemove(c) ==
    IF IsLocal(c)
    THEN /\ localTable' = {e \in localTable : e[1] # LoopbackIPv4 % 65536}
         /\ UNCHANGED <<remoteTable, remoteIp>>
    ELSE /\ remoteTable' = [remoteTable EXCEPT ![hwAddr[c]] = NoClient]
         /\ remoteIp' = remoteIp \ {<<PeerIp[c], hwAddr[c]>>}
         /\ UNCHANGED localTable

\* MCServerHistory::addClient and removeClient
HistoryAdd(c)    == history \cup {hwAddr[c]}
HistoryRemove(m) == history \ {m}

-----------------------------------------------------------------------------
Init ==
    /\ serverState = "Closed"
    /\ listening = FALSE
    /\ threads = {}
    /\ remoteTable = [m \in Macs |-> NoClient]
    /\ remoteIp = {}
    /\ localTable = {}
    /\ history = {}
    /\ conn = [c \in Clients |-> "Unconnected"]
    /\ authenticated = [c \in Clients |-> FALSE]
    /\ refused = [c \in Clients |-> FALSE]
    /\ events = [c \in Clients |-> <<>>]
    /\ worker = [c \in Clients |-> "none"]
    /\ quitNow = [c \in Clients |-> FALSE]
    /\ calls = [c \in Clients |-> <<>>]
    /\ sock = [c \in Clients |-> "unconnected"]
    /\ peerAuth = [c \in Clients |-> FALSE]
    /\ hwAddr = [c \in Clients |-> NoMac]
    /\ sentHandShake = [c \in Clients |-> FALSE]

-----------------------------------------------------------------------------
(* Operations of the user, in the main thread. *)

\* MCServer::listen when QTcpServer::listen succeeds.  It fails, without any
\* change of state, in ClosingState and when the socket already listens.
Listens == listening' = TRUE /\ serverState' = "Listening" /\ UNCHANGED threads

Listen ==
    /\ serverState # "Closing"
    /\ ~listening
    /\ Listens
    /\ UNCHANGED <<tableVars, threadVars, peerVars, runVars,
                   events, calls>>

\* Variant: the server counts as closed before its threads are gone.
CloseAtOnce ==
    /\ serverState # "Closed"
    /\ serverState' = "Closed"
    /\ listening' = FALSE
    /\ quitNow' = [c \in Clients |-> c \in threads \/ quitNow[c]]
    /\ UNCHANGED <<threads, tableVars, threadVars, peerVars, worker,
                   events, calls>>

\* MCServer::close: nothing left to wait for, or quit() on every thread.  The
\* window calls it again in ClosingState when it is closed.
Close ==
    /\ serverState # "Closed"
    /\ IF threads = {}
       THEN /\ serverState' = "Closed"
            /\ listening' = FALSE
            /\ UNCHANGED quitNow
       ELSE /\ serverState' = "Closing"
            /\ quitNow' = [c \in Clients |-> c \in threads \/ quitNow[c]]
            /\ UNCHANGED listening
    /\ UNCHANGED <<threads, tableVars, threadVars, peerVars, worker,
                   events, calls>>

\* MCServer::incomingConnection with room for a client.  It runs as long as
\* the QTcpServer listens, whatever the state of the server.  Without room the
\* descriptor is closed at once and no state changes.
CanAcceptNewConnection == Cardinality(threads) < MaxConnections

AddClient(c) == CanAcceptNewConnection /\ threads' = threads \cup {c}

IncomingConnection(c) ==
    /\ listening
    /\ worker[c] = "none"
    /\ AddClient(c)
    /\ worker' = [worker EXCEPT ![c] = "starting"]
    /\ UNCHANGED <<serverState, listening, tableVars, threadVars, peerVars,
                   quitNow, events, calls>>

-----------------------------------------------------------------------------
(* MCClientThread::run and the peer, in the worker thread of client c. *)

Post(c, es) == events' = [events EXCEPT ![c] = @ \o es]

\* setSocketDescriptor succeeds: the peer starts in ConnectedState.
AttachSocket(c) ==
    /\ worker[c] = "starting"
    /\ worker' = [worker EXCEPT ![c] = "attached"]
    /\ sock' = [sock EXCEPT ![c] = "connected"]
    /\ Post(c, <<"socketConnected">>)
    /\ UNCHANGED <<serverVars, tableVars, threadVars, quitNow, calls,
                   peerAuth, hwAddr, sentHandShake>>

\* setError_, with its signal
SetError(c) == Post(c, <<"error">>)

\* setSocketDescriptor fails: an error is signalled and run() returns.
AttachFails(c) ==
    /\ worker[c] = "starting"
    /\ worker' = [worker EXCEPT ![c] = "returning"]
    /\ SetError(c)
    /\ UNCHANGED <<serverVars, tableVars, threadVars, peerVars, quitNow, calls>>

\* QThread::exec clears the quit flag before it enters the event loop, so a
\* quit() that came earlier is forgotten.
EnterEventLoop(c) ==
    /\ worker[c] = "attached"
    /\ worker' = [worker EXCEPT ![c] = "running"]
    /\ quitNow' = [quitNow EXCEPT ![c] = FALSE]
    /\ UNCHANGED <<serverVars, tableVars, threadVars, peerVars, events, calls>>

\* What an authentication packet says of the client: its address.
ReadNetworkInfo(c, m) == hwAddr' = [hwAddr EXCEPT ![c] = m]

\* The peer reads its first packet, an authentication with address m.
PeerAuthenticates(c, m) ==
    /\ worker[c] = "running"
    /\ sock[c] = "connected"
    /\ ~peerAuth[c]
    /\ peerAuth' = [peerAuth EXCEPT ![c] = TRUE]
    /\ ReadNetworkInfo(c, m)
    /\ Post(c, <<"authenticated">>)
    /\ UNCHANGED <<serverVars, tableVars, threadVars, runVars, calls, sock,
                   sentHandShake>>

\* The socket reaches UnconnectedState (disconnected_): es are the signals
\* emitted on the way.
SocketLost(c, es) ==
    /\ sock' = [sock EXCEPT ![c] = "unconnected"]
    /\ peerAuth' = [peerAuth EXCEPT ![c] = FALSE]
    /\ sentHandShake' = [sentHandShake EXCEPT ![c] = FALSE]
    /\ Post(c, es)
    /\ UNCHANGED hwAddr

\* The remote host closes (error first), or a timeout or a bad packet makes
\* the peer abort (no error).
PeerDrops(c) ==
    /\ worker[c] = "running"
    /\ sock[c] = "connected"
    /\ \/ SocketLost(c, <<"error", "socketClosing", "socketUnconnected">>)
       \/ SocketLost(c, <<"socketClosing", "socketUnconnected">>)
    /\ UNCHANGED <<serverVars, tableVars, threadVars, runVars, calls>>

\* QAbstractSocket::disconnectFromHost: the socket waits in ClosingState for
\* its unwritten data, or closes at once when there is none.
DisconnectFromHost(c) ==
    \/ /\ sock[c] = "connected"
       /\ sock' = [sock EXCEPT ![c] = "closing"]
       /\ Post(c, <<"socketClosing">>)
       /\ UNCHANGED <<peerAuth, hwAddr, sentHandShake>>
    \/ /\ sock[c] = "connected"
       /\ SocketLost(c, <<"socketClosing", "socketUnconnected">>)
    \/ /\ sock[c] # "connected"
       /\ UNCHANGED <<peerVars, events>>

\* The last data of a closing socket is written, or cannot be (error first).
SocketFlushes(c) ==
    /\ worker[c] \in {"running", "exiting"}
    /\ sock[c] = "closing"
    /\ \/ SocketLost(c, <<"error", "socketUnconnected">>)
       \/ SocketLost(c, <<"socketUnconnected">>)
    /\ UNCHANGED <<serverVars, tableVars, threadVars, runVars, calls>>

\* The event loop delivers sendHandShake or refuseConnection to the peer.
TakeCall(c, call) ==
    /\ worker[c] = "running"
    /\ calls[c] # <<>>
    /\ Head(calls[c]) = call
    /\ calls' = [calls EXCEPT ![c] = Tail(@)]
    /\ UNCHANGED <<serverVars, tableVars, threadVars, runVars>>

PeerSendsHandShake(c) ==
    /\ TakeCall(c, "sendHandShake")
    /\ sentHandShake' = [sentHandShake EXCEPT ![c] = TRUE]
    /\ UNCHANGED <<events, sock, peerAuth, hwAddr>>

\* Variant: the refusal does not close the connection.
PeerIgnoresRefusal(c) ==
    /\ TakeCall(c, "refuseConnection")
    /\ UNCHANGED <<peerVars, events>>

PeerRefusesConnection(c) ==
    /\ TakeCall(c, "refuseConnection")
    /\ DisconnectFromHost(c)

\* exec() returns and the worker disconnects its peer.
LeaveEventLoop(c) ==
    /\ worker[c] = "running"
    /\ quitNow[c]
    /\ worker' = [worker EXCEPT ![c] = "exiting"]
    /\ DisconnectFromHost(c)
    /\ UNCHANGED <<serverVars, tableVars, threadVars, quitNow, calls>>

\* waitForDisconnected returns: the socket is closed, or 30 s went by (error).
DisconnectReturns(c) ==
    /\ worker[c] = "exiting"
    /\ worker' = [worker EXCEPT ![c] = "returning"]
    /\ Post(c, IF sock[c] = "unconnected" THEN <<>> ELSE <<"error">>)
    /\ UNCHANGED <<serverVars, tableVars, threadVars, peerVars, quitNow, calls>>

\* Variant: the destructor of the peer is silent.
RunReturnsSilently(c) ==
    /\ worker[c] = "returning"
    /\ worker' = [worker EXCEPT ![c] = "finished"]
    /\ calls' = [calls EXCEPT ![c] = <<>>]
    /\ SocketLost(c, <<"finished">>)
    /\ UNCHANGED <<serverVars, tableVars, threadVars, quitNow>>

\* Variant: the peer is destroyed after finished() is posted.
RunReturnsEarly(c) ==
    /\ worker[c] = "returning"
    /\ worker' = [worker EXCEPT ![c] = "finished"]
    /\ calls' = [calls EXCEPT ![c] = <<>>]
    /\ IF sock[c] = "unconnected"
       THEN SocketLost(c, <<"finished">>)
       ELSE SocketLost(c, <<"finished", "socketUnconnected">>)
    /\ UNCHANGED <<serverVars, tableVars, threadVars, quitNow>>

\* run() returns.  The destructor of the peer aborts a socket that is still
\* open, the calls nobody took are dropped with it, and finished() is posted.
RunReturns(c) ==
    /\ worker[c] = "returning"
    /\ worker' = [worker EXCEPT ![c] = "finished"]
    /\ calls' = [calls EXCEPT ![c] = <<>>]
    /\ IF sock[c] = "unconnected"
       THEN SocketLost(c, <<"finished">>)
       ELSE SocketLost(c, <<"socketUnconnected", "finished">>)
    /\ UNCHANGED <<serverVars, tableVars, threadVars, quitNow>>

-----------------------------------------------------------------------------
(* Slots of MCClientThread and MCServer, in the main thread.               *)
(*                                                                         *)
(* setConnectionState_ returns early when the state does not change.  That *)
(* never happens for the events below (EventOrder), so no action has the   *)
(* early return as a case.                                                 *)

Deliver(c, e) ==
    /\ events[c] # <<>>
    /\ Head(events[c]) = e
    /\ events' = [events EXCEPT ![c] = Tail(@)]

\* peerStateChanged_(ConnectedState) and peerStateChanged_(ClosingState).
OnSocketConnected(c) ==
    /\ Deliver(c, "socketConnected")
    /\ conn' = [conn EXCEPT ![c] = "Authenticating"]
    /\ UNCHANGED <<serverVars, tableVars, authenticated, refused, peerVars,
                   runVars, calls>>

OnSocketClosing(c) ==
    /\ Deliver(c, "socketClosing")
    /\ conn' = [conn EXCEPT ![c] = "Closing"]
    /\ UNCHANGED <<serverVars, tableVars, authenticated, refused, peerVars,
                   runVars, calls>>

\* peerAuthenticated_ and the Connected case of clientConnectionStateChanged_.
\* The peer exists from the start of run() to its return; a callPeer..._ signal
\* emitted later has no receiver.
PeerAlive(c) == worker[c] \in {"attached", "running", "exiting", "returning"}

CallPeer(c, call) ==
    calls' = IF PeerAlive(c) THEN [calls EXCEPT ![c] = Append(@, call)]
                             ELSE calls

\* Variants: the null address, or the duplicate, is not looked for.
MustRefuseDuplicate(c) == IsHardwareAddressRegistered(hwAddr[c])
MustRefuseNull(c) == hwAddr[c] = NoMac /\ IsRemote(c)

MustRefuse(c) ==
    IF hwAddr[c] # NoMac THEN IsHardwareAddressRegistered(hwAddr[c])
                         ELSE IsRemote(c)

Authenticated(c) ==
    /\ Deliver(c, "authenticated")
    /\ authenticated' = [authenticated EXCEPT ![c] = TRUE]
    /\ conn' = [conn EXCEPT ![c] = "Connected"]
    /\ UNCHANGED <<serverVars, peerVars, runVars>>

OnAuthenticatedRefuse(c) ==
    /\ MustRefuse(c)
    /\ Authenticated(c)
    /\ refused' = [refused EXCEPT ![c] = TRUE]
    /\ CallPeer(c, "refuseConnection")
    /\ UNCHANGED tableVars

\* Variant: the client that comes back stays in the history.
OnAuthenticatedAcceptOnly(c) ==
    /\ ~MustRefuse(c)
    /\ Authenticated(c)
    /\ CallPeer(c, "sendHandShake")
    /\ TableAdd(c)
    /\ UNCHANGED <<refused, history>>

OnAuthenticatedAccept(c) ==
    /\ ~MustRefuse(c)
    /\ Authenticated(c)
    /\ CallPeer(c, "sendHandShake")
    /\ TableAdd(c)
    /\ history' = IF IsRemote(c) THEN HistoryRemove(hwAddr[c]) ELSE history
    /\ UNCHANGED refused

\* peerStateChanged_(UnconnectedState), the Unconnected case of
\* clientConnectionStateChanged_, then clientDisconnected_ (quit()).
Registered(c) == authenticated[c] /\ ~refused[c]

\* Variants: the address does not go to the history; the thread is not told
\* to quit.
OnSocketUnconnectedForgets(c) ==
    /\ Deliver(c, "socketUnconnected")
    /\ conn' = [conn EXCEPT ![c] = "Unconnected"]
    /\ quitNow' = [quitNow EXCEPT ![c] = TRUE]
    /\ IF Registered(c) THEN TableRemove(c) /\ UNCHANGED history
                        ELSE UNCHANGED tableVars
    /\ UNCHANGED <<serverVars, authenticated, refused, peerVars, worker, calls>>

OnSocketUnconnectedStays(c) ==
    /\ Deliver(c, "socketUnconnected")
    /\ conn' = [conn EXCEPT ![c] = "Unconnected"]
    /\ IF Registered(c)
       THEN /\ TableRemove(c)
            /\ history' = IF IsRemote(c) THEN HistoryAdd(c) ELSE history
       ELSE UNCHANGED tableVars
    /\ UNCHANGED <<serverVars, authenticated, refused, peerVars, runVars, calls>>

OnSocketUnconnected(c) ==
    /\ Deliver(c, "socketUnconnected")
    /\ conn' = [conn EXCEPT ![c] = "Unconnected"]
    /\ quitNow' = [quitNow EXCEPT ![c] = TRUE]
    /\ IF Registered(c)
       THEN /\ TableRemove(c)
            /\ history' = IF IsRemote(c) THEN HistoryAdd(c) ELSE history
       ELSE UNCHANGED tableVars
    /\ UNCHANGED <<serverVars, authenticated, refused, peerVars, worker, calls>>

\* peerError_, clientError_ and MCServerMainWindow::slotClientError.
OnError(c) ==
    /\ Deliver(c, "error")
    /\ UNCHANGED <<serverVars, tableVars, threadVars, peerVars, runVars, calls>>

\* clientFinished_: the thread object is forgotten and deleted.
OnFinished(c) ==
    /\ Deliver(c, "finished")
    /\ threads' = threads \ {c}
    /\ IF serverState = "Closing" /\ threads' = {}
       THEN listening' = FALSE /\ serverState' = "Closed"
       ELSE UNCHANGED <<listening, serverState>>
    /\ worker' = [worker EXCEPT ![c] = "none"]
    /\ quitNow' = [quitNow EXCEPT ![c] = FALSE]
    /\ conn' = [conn EXCEPT ![c] = "Unconnected"]
    /\ authenticated' = [authenticated EXCEPT ![c] = FALSE]
    /\ refused' = [refused EXCEPT ![c] = FALSE]
    /\ hwAddr' = [hwAddr EXCEPT ![c] = NoMac]
    /\ UNCHANGED <<tableVars, sock, peerAuth, sentHandShake, calls>>

-----------------------------------------------------------------------------
Worker(c) ==
    \/ AttachSocket(c)
    \/ AttachFails(c)
    \/ EnterEventLoop(c)
    \/ SocketFlushes(c)
    \/ PeerSendsHandShake(c)
    \/ PeerRefusesConnection(c)
    \/ LeaveEventLoop(c)
    \/ DisconnectReturns(c)
    \/ RunReturns(c)

Main(c) ==
    \/ OnSocketConnected(c)
    \/ OnSocketClosing(c)
    \/ OnAuthenticatedRefuse(c)
    \/ OnAuthenticatedAccept(c)
    \/ OnSocketUnconnected(c)
    \/ OnError(c)
    \/ OnFinished(c)

Network(c) ==
    \/ IncomingConnection(c)
    \/ \E m \in Macs \cup {NoMac} : PeerAuthenticates(c, m)
    \/ PeerDrops(c)

Next ==
    \/ Listen
    \/ Close
    \/ \E c \in Clients : Network(c) \/ Worker(c) \/ Main(c)

Spec == Init /\ [][Next]_vars

\* Each thread runs, and an event loop with a posted event delivers it; the
\* user and the network owe nothing.
FairSpec == Spec /\ \A c \in Clients : WF_vars(Worker(c)) /\ WF_vars(Main(c))

-----------------------------------------------------------------------------
(* Properties. *)

\* Types of the variables.
TypeOK ==
    /\ serverState \in ServerStates
    /\ listening \in BOOLEAN
    /\ threads \in SUBSET Clients
    /\ remoteTable \in [Macs -> Clients \cup {NoClient}]
    /\ remoteIp \subseteq Nat \X Macs
    /\ localTable \subseteq Nat \X Clients
    /\ history \subseteq Macs
    /\ conn \in [Clients -> ConnStates]
    /\ authenticated \in [Clients -> BOOLEAN]
    /\ refused \in [Clients -> BOOLEAN]
    /\ events \in [Clients -> Seq(Events)]
    /\ worker \in [Clients -> WorkerPhases]
    /\ quitNow \in [Clients -> BOOLEAN]
    /\ calls \in [Clients -> Seq(Calls)]
    /\ sock \in [Clients -> SockStates]
    /\ peerAuth \in [Clients -> BOOLEAN]
    /\ hwAddr \in [Clients -> Macs \cup {NoMac}]
    /\ sentHandShake \in [Clients -> BOOLEAN]

\* A client the server counts as connected: authenticated, not refused, and
\* its disconnection not handled yet.
Accepted(c) == Registered(c) /\ conn[c] # "Unconnected"

\* The table of remote clients is exactly the set of accepted remote clients,
\* under their own address: no client is missing from it, none stays behind
\* its disconnection, and no address has two clients ("two instances
\* forbidden").  Both maps of MCServerTableIP agree.
TableMatchesClients ==
    /\ \A m \in Macs, c \in Clients :
          remoteTable[m] = c <=> IsRemote(c) /\ Accepted(c) /\ hwAddr[c] = m
    /\ \A ip \in {PeerIp[c] : c \in Clients}, m \in Macs :
          <<ip, m>> \in remoteIp
             <=> \E c \in Clients : remoteTable[m] = c /\ PeerIp[c] = ip

\* The table never points to a client thread that clientFinished_ has deleted,
\* although the thread ends on its own and its last signals are still queued
\* when it does.
NoDanglingClient ==
    \A m \in Macs : remoteTable[m] \in threads \cup {NoClient}

\* An address is connected or in the history of past clients, never both.
ConnectedOrInHistory ==
    \A m \in history : remoteTable[m] = NoClient

\* None of the Asserts of MCServerTableIP::removeClient and
\* MCServerHistory::addClient fails when the main thread handles the next
\* disconnection: the address is not null, is in the table, and is not in the
\* history.
AssertsHold ==
    \A c \in Clients :
        /\ IsRemote(c) /\ Registered(c)
        /\ events[c] # <<>> /\ Head(events[c]) = "socketUnconnected"
        => /\ hwAddr[c] # NoMac
           /\ IsHardwareAddressRegistered(hwAddr[c])
           /\ hwAddr[c] \notin history

\* A client believes it is connected from the server's handshake on.  As long
\* as its socket is open, such a client is accepted, and no other remote
\* client with the same hardware address believes the same.
OneSessionPerAddress ==
    \A c \in Clients :
        sentHandShake[c] /\ sock[c] = "connected" =>
            /\ Accepted(c)
            /\ \A d \in Clients \ {c} :
                  /\ IsRemote(c) /\ IsRemote(d)
                  /\ sentHandShake[d] /\ sock[d] = "connected"
                  => hwAddr[c] # hwAddr[d]

\* A ClosedState server does not listen, owns no thread, and no thread runs.
ClosedIsQuiet ==
    /\ serverState = "Closed" <=> ~listening
    /\ serverState = "Closed" => threads = {}
    /\ threads = {c \in Clients : worker[c] # "none"}

\* The signals of a client reach the main thread in an order its slots can
\* handle: one authentication, while authenticating, and one disconnection,
\* before finished(), which is the last signal.
EventOrder ==
    \A c \in Clients : events[c] # <<>> =>
        /\ Head(events[c]) = "authenticated" =>
              conn[c] = "Authenticating" /\ ~authenticated[c]
        /\ Head(events[c]) = "socketUnconnected" => conn[c] # "Unconnected"
        /\ Head(events[c]) = "finished" =>
              Len(events[c]) = 1 /\ conn[c] = "Unconnected"

\* The server never forgets an address it has once registered: it moves
\* between the table and the history.
KnownMacs == {m \in Macs : remoteTable[m] # NoClient} \cup history
NeverForgets == [][KnownMacs \subseteq KnownMacs']_vars

\* Seen through its table, its history and its set of threads, the server is
\* the registry of clients of ClientRegistry: each step of either thread is
\* one arrival, registration, departure or return of an address, or nothing.
Registry == INSTANCE ClientRegistry WITH
    clients <- threads,
    served  <- {c \in Clients : Registered(c) /\ IsRemote(c)},
    owner   <- remoteTable,
    past    <- history
ImplementsRegistry == Registry!Spec

\* A client whose socket is lost, or was never attached, gives its slot back.
DeadSlotFreed ==
    \A c \in Clients :
        (c \in threads /\ worker[c] # "starting" /\ sock[c] = "unconnected")
            ~> c \notin threads

\* A refused client leaves, although the refusal is a queued call that the
\* worker may never take.
RefusedClientLeaves == \A c \in Clients : refused[c] ~> c \notin threads

\* MCServer::close forces all clients to disconnect, after which the server is
\* closed (waitForClosed waits for it).
CloseCompletes == serverState = "Closing" ~> serverState = "Closed"

\* A local client leaves the table when it disconnects ("Remove client IP").
LocalTableMatchesClients ==
    \A e \in localTable : Accepted(e[2])

\* The peer of a client thread lives until deleteLater, so that the slot of
\* an error can ask it for the details.
PeerOutlivesEvents ==
    \A c \in Clients :
        (events[c] # <<>> /\ Head(events[c]) = "error") => PeerAlive(c)
=============================================================================
