------------------------------ MODULE Session -------------------------------
(***************************************************************************)
(* How a client chooses and keeps its server: the list of servers          *)
(* (MCServersList), the connection state of MCClient, and the main window  *)
(* (MCClientMainWindow), which tries the servers one after the other.      *)
(*                                                                         *)
(* MCClient follows its socket at once, but the window learns of each new  *)
(* state through a queued signal (ClientMainWindow.cpp:133): it may decide *)
(* from a notice that is out of date, and the user may act before it does. *)
(* The event loop of Qt delivers in one pass the signals posted before it, *)
(* then handles events of the user and the network.                        *)
(* ClientPeer models what is said over the connection.                     *)
(*                                                                         *)
(* The list is shown in the rows of MCServersTreeWidget, read from a file  *)
(* when the program starts, and written when the window is closed.         *)
(***************************************************************************)
EXTENDS Integers, FiniteSets, Sequences, SequencesExt

CONSTANTS
    Servers,
    Priorities,      \* a subset of MCServerInfo::Priority, High = 2
    Users,           \* numbers of users a server may answer
    NoServer,
    AutoReconnect,   \* AdvancedOptions/ServersAutoReconnect
    ConnectAtStartup,\* AdvancedOptions/ServersConnectAtStartup
    MaxNotices       \* bound: notices still queued when the user acts

Normal == 1

ASSUME SessionAssumption ==
    /\ NoServer \notin Servers /\ IsFiniteSet(Servers)
    /\ Priorities \subseteq 0..2 /\ Normal \in Priorities
    /\ Users \subseteq Nat
    /\ AutoReconnect \in BOOLEAN /\ ConnectAtStartup \in BOOLEAN
    /\ MaxNotices \in Nat

VARIABLES
    list,        \* MCServersList::m_lstServers, by server
    rows,        \* m_lstServersManaged: what the row of each server shows
    file,        \* the file of the list of servers
    running,     \* whether the program runs
    socket,      \* the state of the socket of m_clientPeer
    conn,        \* MCClient::m_enumConnectionState
    server,      \* MCClient::m_serverInfo
    notices,     \* connectionStateChanged signals on their way to the window
    pass,        \* notices the event loop still delivers in its present pass
    toConnect,   \* m_lstServersToConnect
    previously,  \* m_bPreviouslyConnected
    cancel,      \* m_bCancelConnection
    shown,       \* the state the window shows
    enabled      \* whether the Connect/Disconnect button is enabled

clientVars == <<socket, conn, server>>
windowVars == <<toConnect, previously, cancel, shown, enabled>>
listVars   == <<list, rows, file>>
vars == <<listVars, running, clientVars, notices, pass, windowVars>>

SocketStates == {"Unconnected", "Connecting", "Connected", "Closing"}
ConnStates   == {"Unconnected", "Connecting", "Connected", "Closing"}

-----------------------------------------------------------------------------
(* MCServersList and the rows that show it, changed by the signals of the   *)
(* list as it changes.                                                      *)

Unknown == -1

\* What a row shows of a MCServerInfo, and the file keeps.
Info == [priority : Priorities, users : Users \cup {Unknown}]
InfoLists == UNION {[S -> Info] : S \in SUBSET Servers}

\* MCServerInfo(ip, port, name)
NewInfo == [priority |-> Normal, users |-> Unknown]

InList == DOMAIN list

Put(f, s, info) == [t \in DOMAIN f \cup {s} |-> IF t = s THEN info ELSE f[t]]
Without(f, S) == [t \in DOMAIN f \ S |-> f[t]]

\* setServerItemFromServerInfo_: the data of the columns are the fields.
RowOf(info) == [priority |-> info.priority, users |-> info.users]

\* slotServerAdded, slotServerRemoved, slotServerUpdated
ShowAdded(s, info) == rows' = Put(rows, s, RowOf(info))
ShowRemoved(S)     == rows' = Without(rows, S)
ShowUpdated(s, info) ==
    rows' = IF s \in DOMAIN rows THEN [rows EXCEPT ![s] = RowOf(info)] ELSE rows

\* addServer
Insert(s) == list' = Put(list, s, NewInfo) /\ ShowAdded(s, NewInfo)

\* removeServer, for each server of S: one that is not there is not signalled.
RemoveThose(S) == list' = Without(list, S) /\ ShowRemoved(S \cap InList)

\* MCServerInfo::update keeps the priority.
Updated(info, n) == [info EXCEPT !.users = n]

\* updateServer
Update(s, n) ==
    \/ /\ s \in InList
       /\ list' = [list EXCEPT ![s] = Updated(@, n)]
       /\ ShowUpdated(s, Updated(list[s], n))
    \/ s \notin InList /\ UNCHANGED <<list, rows>>

\* MCServerInfo::write and read: the fields, in the order of the file.
Written(info) == <<info.users, info.priority>>
Read(data)    == [users |-> data[1], priority |-> data[2]]

\* save and load: the whole list, or nothing that can be read.
NoFile == [kind |-> "none"]
Torn   == [kind |-> "torn"]
FileOf(infos) == [kind |-> "list", list |-> [s \in DOMAIN infos |-> Written(infos[s])]]
Files  == {NoFile, Torn} \cup {FileOf(infos) : infos \in InfoLists}

Saved  == FileOf(list)
Loaded == IF file.kind = "list" THEN [s \in DOMAIN file.list |-> Read(file.list[s])] ELSE <<>>

\* MCServerInfo::operator<
Precedes(a, b) == a.priority > b.priority

\* serversListSorted: the highest priority first;
\* qSort leaves equal ones in any order.
SortedLists ==
    {q \in SetToSeqs(InList) :
        \A i, j \in DOMAIN q : i < j => ~Precedes(list[q[j]], list[q[i]])}

-----------------------------------------------------------------------------
(* MCClient.  The operators take and return the state of the client and     *)
(* what it has told the window, since some handlers go through several.     *)

Now == [socket |-> socket, conn |-> conn, server |-> server, notices |-> notices]

Become(c) ==
    /\ socket' = c.socket /\ conn' = c.conn
    /\ server' = c.server /\ notices' = c.notices

\* setConnectionState_: nothing is said of a state that did not change.
SetConn(c, s) ==
    IF s = c.conn THEN c
    ELSE [c EXCEPT !.conn = s, !.notices = Append(@, s)]

\* peerStateChanged_: being connected needs the handshake too.
Translate(s) == IF s = "Connected" THEN "Connecting" ELSE s

SetSocket(c, s) == SetConn([c EXCEPT !.socket = s], Translate(s))

\* Variant: the state is reset before the socket tells, and the window is not.
UnconnectSilently(c) == [c EXCEPT !.socket = "Unconnected", !.conn = "Unconnected"]

Unconnect(c) == SetSocket(c, "Unconnected")

\* MCClientPeer::disconnect: an attempt is aborted, a connection closes and is
\* waited for.  Data that are still unsent after 30 s are left out.
Disconnected(c) ==
    CASE c.socket = "Unconnected" -> c
      [] c.socket = "Connecting"  -> Unconnect(c)
      [] OTHER -> Unconnect(SetSocket(c, "Closing"))

\* init_ and MCClientPeer::connectToHost
Attempt(c, s) ==
    SetSocket([c EXCEPT !.conn = "Unconnected", !.server = s], "Connecting")

\* MCClient::connectToHost
ConnectToHost(c, s) == Attempt(Disconnected(c), s)

\* MCClientMainWindow::connectClient_
ConnectClient(c, s) == Become(ConnectToHost(c, s))

-----------------------------------------------------------------------------
FreshClient == [socket |-> "Unconnected", conn |-> "Unconnected", server |-> NoServer,
                notices |-> <<>>]

\* A file of an earlier run, or none; the program is about to start.
Init ==
    /\ running = FALSE /\ list = <<>> /\ rows = <<>>
    /\ file \in Files \ {Torn}
    /\ socket = "Unconnected" /\ conn = "Unconnected" /\ server = NoServer
    /\ notices = <<>> /\ pass = 0
    /\ toConnect = <<>> /\ previously = FALSE /\ cancel = FALSE
    /\ shown = "Unconnected" /\ enabled = TRUE

-----------------------------------------------------------------------------
(* The network. *)

SocketConnects ==
    /\ pass = 0 /\ socket = "Connecting"
    /\ Become(SetSocket(Now, "Connected"))
    /\ UNCHANGED <<listVars, running, pass, windowVars>>

\* Refused, or given up by the timer of the peer.
AttemptFails ==
    /\ pass = 0 /\ socket = "Connecting"
    /\ Become(Unconnect(Now))
    /\ UNCHANGED <<listVars, running, pass, windowVars>>

\* MCClient::peerHandShakeReceived_.  The server answers what the client sent
\* when it was connected: the event loop has made a pass since.
HandShakeReceived ==
    /\ notices = <<>> /\ socket = "Connected" /\ conn = "Connecting"
    /\ Become(SetConn(Now, "Connected"))
    /\ UNCHANGED <<listVars, running, pass, windowVars>>

\* MCClient::peerServerInfoResponse_, to the request made with the handshake.
ServerInfoReceived(n) ==
    /\ pass = 0 /\ socket = "Connected" /\ conn = "Connected"
    /\ Update(server, n)
    /\ UNCHANGED <<file, running, clientVars, notices, pass, windowVars>>

\* The connection closes, or is aborted after a timeout or a protocol error:
\* abort() does not go through the closing state.
ConnectionLost ==
    /\ pass = 0 /\ socket = "Connected"
    /\ \/ Become(Unconnect(SetSocket(Now, "Closing")))
       \/ Become(Unconnect(Now))
    /\ UNCHANGED <<listVars, running, pass, windowVars>>

-----------------------------------------------------------------------------
(* The window handles a notice (slotClientConnectionStateChanged). *)

Take(s) ==
    /\ notices # <<>> /\ Head(notices) = s
    /\ pass' = (IF pass = 0 THEN Len(notices) ELSE pass) - 1

Rest == [Now EXCEPT !.notices = Tail(@)]

HandleConnecting ==
    /\ Take("Connecting")
    /\ shown' = "Connecting"
    /\ Become(Rest)
    /\ UNCHANGED <<listVars, running, toConnect, previously, cancel, enabled>>

\* Variant: a session that is established is not tried again.
HandleConnectedForgets ==
    /\ Take("Connected")
    /\ shown' = "Connected"
    /\ previously' = TRUE
    /\ Become(Rest)
    /\ UNCHANGED <<listVars, running, toConnect, cancel, enabled>>

\* The server of the client, now, will be the first to try again.
HandleConnected ==
    /\ Take("Connected")
    /\ shown' = "Connected"
    /\ previously' = TRUE
    /\ toConnect' = <<server>> \o toConnect
    /\ Become(Rest)
    /\ UNCHANGED <<listVars, running, cancel, enabled>>

HandleClosing ==
    /\ Take("Closing")
    /\ shown' = "Closing"
    /\ enabled' = FALSE
    /\ Become(Rest)
    /\ UNCHANGED <<listVars, running, toConnect, previously, cancel>>

MayTryNext == ~cancel /\ (previously => AutoReconnect) /\ toConnect # <<>>

\* Variant: the flags keep their values.
ForgetsNothing == UNCHANGED <<previously, cancel>>

ClearFlags == previously' = FALSE /\ cancel' = FALSE

\* Variant: the first attempt that fails is the last.
HandleUnconnectedGivesUp ==
    /\ Take("Unconnected")
    /\ shown' = "Unconnected" /\ enabled' = TRUE
    /\ ClearFlags
    /\ \/ /\ MayTryNext /\ previously
          /\ ConnectClient(Rest, Head(toConnect))
          /\ toConnect' = Tail(toConnect)
       \/ /\ ~(MayTryNext /\ previously)
          /\ Become(Rest)
          /\ UNCHANGED toConnect
    /\ UNCHANGED <<listVars, running>>

HandleUnconnected ==
    /\ Take("Unconnected")
    /\ shown' = "Unconnected" /\ enabled' = TRUE
    /\ ClearFlags
    /\ \/ /\ MayTryNext
          /\ ConnectClient(Rest, Head(toConnect))
          /\ toConnect' = Tail(toConnect)
       \/ /\ ~MayTryNext
          /\ Become(Rest)
          /\ UNCHANGED toConnect
    /\ UNCHANGED <<listVars, running>>

Handle == HandleConnecting \/ HandleConnected \/ HandleClosing \/ HandleUnconnected

-----------------------------------------------------------------------------
(* The user, who may act before the window has handled its notices. *)

UserMayAct == running /\ pass = 0 /\ Len(notices) <= MaxNotices

DisconnectClient == Become(Disconnected(Now))

\* on_doMainToolBarConnectDisconnect_triggered on a client that is not
\* unconnected
ClickDisconnect ==
    /\ UserMayAct /\ enabled /\ conn # "Unconnected"
    /\ cancel' = TRUE
    /\ DisconnectClient
    /\ UNCHANGED <<listVars, running, pass, toConnect, previously, shown, enabled>>

FlushServersToConnectList == toConnect' = <<>>

\* ... and on an unconnected one, with the highest priority first, if there is
\* any server.
ConnectFirst(c, sorted) ==
    /\ previously' = FALSE
    /\ ConnectClient(c, Head(sorted))
    /\ toConnect' = Tail(sorted)

ClickConnect ==
    /\ UserMayAct /\ enabled /\ conn = "Unconnected"
    /\ \/ InList # {} /\ \E q \in SortedLists : ConnectFirst(Now, q)
       \/ InList = {} /\ FlushServersToConnectList /\ UNCHANGED <<clientVars, notices, previously>>
    /\ UNCHANGED <<listVars, running, pass, cancel, shown, enabled>>

\* MCServersTreeWidget::on_connectToServer, a row of the list
ConnectToServer(s) ==
    /\ UserMayAct /\ s \in InList
    /\ FlushServersToConnectList
    /\ ConnectClient(Now, s)
    /\ UNCHANGED <<listVars, running, pass, previously, cancel, shown, enabled>>

\* on_buttonAddServer_clicked
AddServer(s) ==
    /\ UserMayAct /\ s \notin InList
    /\ Insert(s)
    /\ UNCHANGED <<file, running, clientVars, notices, pass, windowVars>>

\* on_priorityChanged, for the selected rows: those that show another priority
\* are changed, in the list and in the row.
ChangePriority(S, p) ==
    LET changed == {s \in S : rows[s].priority # p /\ s \in InList} IN
    /\ UserMayAct /\ changed # {}
    /\ list' = [s \in InList |-> IF s \in changed THEN [list[s] EXCEPT !.priority = p] ELSE list[s]]
    /\ rows' = [s \in DOMAIN rows |->
                   IF s \in changed THEN [rows[s] EXCEPT !.priority = p] ELSE rows[s]]
    /\ UNCHANGED <<file, running, clientVars, notices, pass, windowVars>>

\* on_remove, for the selected rows
RemoveServers(S) ==
    /\ UserMayAct /\ S # {}
    /\ RemoveThose(S)
    /\ UNCHANGED <<file, running, clientVars, notices, pass, windowVars>>

RemoveAllServers == list' = <<>>
ShowAllRemoved   == rows' = <<>>

\* on_removeAll
RemoveAll ==
    /\ UserMayAct
    /\ RemoveAllServers /\ ShowAllRemoved
    /\ UNCHANGED <<file, running, clientVars, notices, pass, windowVars>>

Edits ==
    \/ \E s \in Servers : AddServer(s)
    \/ \E S \in SUBSET DOMAIN rows :
          RemoveServers(S) \/ \E p \in Priorities : ChangePriority(S, p)
    \/ RemoveAll

-----------------------------------------------------------------------------
(* The program starts and ends. *)

LoadServersList == list' = Loaded
SaveServersList == file' = Saved

\* MCServersTreeWidget::setup: a row for each server
SetupRows == rows' = [s \in DOMAIN list' |-> RowOf(list'[s])]

\* loadSettings, then the window is set up, and connects if the settings say
\* so.  A file that cannot be read ends the program with an exception instead.
Start ==
    /\ ~running /\ file.kind # "torn"
    /\ running' = TRUE
    /\ LoadServersList
    /\ SetupRows
    /\ IF ConnectAtStartup /\ DOMAIN list' # {}
       THEN \E q \in SortedLists' : ConnectFirst(Now, q)
       ELSE UNCHANGED <<clientVars, notices, toConnect, previously>>
    /\ UNCHANGED <<file, pass, cancel, shown, enabled>>

\* MCClient::~MCClient: nothing listens to its signals any more.
DestroyClient == Become(FreshClient)

\* cleanAll_: all objects of the program are deleted.
Ends ==
    /\ running' = FALSE /\ list' = <<>> /\ rows' = <<>>
    /\ DestroyClient /\ pass' = 0
    /\ toConnect' = <<>> /\ previously' = FALSE /\ cancel' = FALSE
    /\ shown' = "Unconnected" /\ enabled' = TRUE

\* What closeWindow_ saves, layouts left out.
CloseWindow_ == SaveServersList

\* closeEvent: the list is saved, then the program ends.
CloseWindow ==
    /\ UserMayAct
    /\ CloseWindow_
    /\ Ends

\* The program is stopped, perhaps after save() has emptied the file and
\* before it has written the list.
Killed ==
    /\ running
    /\ \/ UNCHANGED file
       \/ UserMayAct /\ file' = Torn
    /\ Ends

\* The user puts the file away.
DeleteFile ==
    /\ ~running /\ file.kind = "torn"
    /\ file' = NoFile
    /\ UNCHANGED <<list, rows, running, clientVars, notices, pass, windowVars>>

Restarts == Start \/ CloseWindow \/ Killed \/ DeleteFile

Connections == ClickConnect \/ ClickDisconnect \/ \E s \in Servers : ConnectToServer(s)

-----------------------------------------------------------------------------
Network ==
    \/ SocketConnects \/ AttemptFails \/ HandShakeReceived
    \/ ConnectionLost
    \/ \E n \in Users : ServerInfoReceived(n)

Next == Network \/ Handle \/ Connections \/ Edits \/ Restarts

Spec == Init /\ [][Next]_vars

\* The event loop handles the notices, an attempt ends (the peer has a timer
\* for it).
FairSpec ==
    /\ Spec
    /\ WF_vars(Handle)
    /\ WF_vars(SocketConnects \/ AttemptFails)
    /\ WF_vars(HandShakeReceived \/ ConnectionLost)

-----------------------------------------------------------------------------
(* Properties. *)

TypeOK ==
    /\ list \in InfoLists /\ rows \in InfoLists
    /\ file \in Files
    /\ running \in BOOLEAN
    /\ socket \in SocketStates /\ conn \in ConnStates
    /\ server \in Servers \cup {NoServer}
    /\ notices \in Seq(ConnStates) /\ pass \in 0..Len(notices)
    /\ toConnect \in Seq(Servers)
    /\ previously \in BOOLEAN /\ cancel \in BOOLEAN /\ enabled \in BOOLEAN
    /\ shown \in ConnStates

\* What the window shows, once it has handled its notices, is the state of
\* the client; its rows are the servers of the list, as the list has them.
WindowCatchesUp ==
    /\ conn = IF notices = <<>> THEN shown ELSE notices[Len(notices)]
    /\ rows = list

\* A cancellation the window has not obeyed yet is about the present
\* connection, or one whose end is still to be delivered: it will not keep the
\* window from going on after a later one.
CancelIsDue ==
    cancel => conn # "Unconnected" \/ "Unconnected" \in ToSet(notices)

\* The window would try the server of the present session first, were it
\* lost: its list and the client agree, whatever attempts came before.
ReadyToReconnect ==
    conn = "Connected" /\ notices = <<>> =>
        previously /\ toConnect # <<>> /\ Head(toConnect) = server

\* The window comes to rest with a client that is not connected.
GivesUp ==
    /\ Handle
    /\ notices' = <<>> /\ conn' = "Unconnected"

\* A user who leaves the client alone, with a network that loses no more
\* connections, finds it at rest; and the window rests with an unconnected
\* client and servers it has not tried only because the user cancelled, or
\* because a session ended and the settings do not have it reconnected.
Settles ==
    /\ \/ []<><<Connections \/ Edits \/ Restarts>>_vars
       \/ []<><<ConnectionLost>>_vars
       \/ <>[](notices = <<>> /\ conn \in {"Connected", "Unconnected"} /\ shown = conn)
    /\ [][GivesUp /\ toConnect' # <<>> => cancel \/ (previously /\ ~AutoReconnect)]_vars
=============================================================================
