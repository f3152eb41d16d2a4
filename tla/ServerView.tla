----------------------------- MODULE ServerView -----------------------------
(***************************************************************************)
(* The window of the server over Server: the tree of clients               *)
(* (MCClientsTreeWidget), the Connect/Disconnect button, and the end and   *)
(* the start of the program, which keeps its history in a file.            *)
(*                                                                         *)
(* The slots of the window are called by the signals of MCServer, inside   *)
(* the slots that Server models, so each of its actions is joined with     *)
(* what the window does.  The tree finds its rows through two maps of      *)
(* pointers, by client and by hardware address; an address stays in the    *)
(* second one while its client is away, and a new client with the same     *)
(* address is given the old row.  A row that is deleted while a map still  *)
(* points to it would be written to later.                                 *)
(***************************************************************************)
EXTENDS Server, Functions

CONSTANTS
    LowIds,       \* clients whose MCClientThread lies below 2^32
    SaveHistory   \* AdvancedOptions/ServerSaveHistory

ASSUME ViewAssumption ==
    /\ LowIds \subseteq Clients
    /\ SaveHistory \in BOOLEAN
    /\ IsFiniteSet(Clients) /\ IsFiniteSet(Macs)

VARIABLES
    items,     \* the rows of the tree, by the pointer to each
    managed,   \* m_lstClientsManaged, from clients to rows
    byHAddr,   \* m_lstItemsRefByHAddr, from hardware addresses to rows
    button,    \* what doMainToolBarConnectDisconnect reads
    window,    \* "open", "closing" (in closeEvent), or "gone"
    file       \* the file of the history

treeVars == <<items, managed, byHAddr>>
viewVars == <<treeVars, button, window, file>>
allVars  == <<vars, viewVars>>

-----------------------------------------------------------------------------
(* The tree of clients. *)

Pointers == 1 .. 2 * (Cardinality(Clients) + Cardinality(Macs)) + 2

Row(c, m, state, status) == [thread |-> c, mac |-> m, state |-> state, status |-> status]

\* unsetClientItemValues_, of a client that was connected before
Unset(row) == [row EXCEPT !.thread = NoClient, !.state = "Unconnected", !.status = "Unconnected"]

Without(f, S) == [x \in DOMAIN f \ S |-> f[x]]
Put(f, x, v)  == [y \in DOMAIN f \cup {x} |-> IF y = x THEN v ELSE f[y]]

\* A new row, at an address no pointer is left to.
NewPointer ==
    LET free == Pointers \ (DOMAIN items \cup Range(managed) \cup Range(byHAddr))
    IN  CHOOSE p \in free : \A q \in free : p <= q

\* slotClientConnectionStateChanged_, AuthenticatingState: the network
\* information of the client is still empty.
ShowAuthenticating(c) ==
    LET row == NewPointer IN
    /\ items' = Put(items, row, Row(c, NoMac, "Unknown", "Authenticating"))
    /\ managed' = Put(managed, c, row)
    /\ byHAddr' = IF IsRemote(c) THEN Put(byHAddr, NoMac, row) ELSE byHAddr

\* ... ClosingState
ShowClosing(c) ==
    /\ items' = [items EXCEPT ![managed[c]].status = "Closing"]
    /\ UNCHANGED <<managed, byHAddr>>

\* MCServerHistory::isHardwareAddressRegistered
InHistory(m) == m \in history

\* slotClientConnected_: a client from the history takes over the row of its
\* address, and its own is deleted.
ShowConnected(c) ==
    LET m == hwAddr[c]
        known == IsRemote(c) /\ InHistory(m)
        row == IF known THEN byHAddr[m] ELSE managed[c]
        kept == IF known THEN Without(items, {managed[c]}) ELSE items
    IN  /\ items' = Put(kept, row, Row(c, m, IF IsLocal(c) THEN "Local" ELSE "Remote", "Connected"))
        /\ managed' = Put(managed, c, row)
        /\ byHAddr' = Put(byHAddr, m, row)

\* slotClientDisconnected_: the row goes, unless the client is in the history
\* from now on.
LeavesTrace(c) == authenticated[c] /\ ~refused[c] /\ IsRemote(c)

ShowDisconnected(c) ==
    LET row == managed[c] IN
    /\ managed' = Without(managed, {c})
    /\ items' = IF LeavesTrace(c)
                THEN [items EXCEPT ![row] = Unset(@)]
                ELSE Without(items, {row})
    /\ UNCHANGED byHAddr

\* clientFromId: a pointer is narrowed to an unsigned int, then looked up.
ClientFromId(c) == IF c \in threads \cap LowIds THEN c ELSE NoClient

-----------------------------------------------------------------------------
(* slotServerStateChanged: the button follows the state of the server. *)

Label(state) == CASE state = "Listening" -> "Disconnect"
                  [] state = "Closing"   -> "Closing"
                  [] state = "Closed"    -> "Connect"

ShowServerState == button' = IF serverState' = serverState THEN button ELSE Label(serverState')

\* A program that has just started.
ViewInit ==
    /\ Init
    /\ items = <<>> /\ managed = <<>> /\ byHAddr = <<>>
    /\ button = "Connect"
    /\ window = "gone"
    /\ file = [kind |-> "none"]

-----------------------------------------------------------------------------
(* The slots of Server, with those of the window. *)

ConnectedV(c)    == OnSocketConnected(c) /\ ShowAuthenticating(c)
                        /\ UNCHANGED <<button, window, file>>
ClosingV(c)      == OnSocketClosing(c) /\ ShowClosing(c)
                        /\ UNCHANGED <<button, window, file>>
RefuseV(c)       == OnAuthenticatedRefuse(c) /\ UNCHANGED viewVars
AcceptV(c)       == OnAuthenticatedAccept(c) /\ ShowConnected(c)
                        /\ UNCHANGED <<button, window, file>>
DisconnectedV(c) == OnSocketUnconnected(c) /\ ShowDisconnected(c)
                        /\ UNCHANGED <<button, window, file>>
ErrorV(c)        == OnError(c) /\ UNCHANGED viewVars
FinishedV(c)     == OnFinished(c) /\ ShowServerState
                        /\ UNCHANGED <<treeVars, window, file>>

MainV(c) ==
    \/ ConnectedV(c) \/ ClosingV(c) \/ RefuseV(c) \/ AcceptV(c)
    \/ DisconnectedV(c) \/ ErrorV(c) \/ FinishedV(c)

WorkerV(c) == Worker(c) /\ UNCHANGED viewVars

\* The interface of a local client, 127.0.0.1, has no hardware address.
NetworkV(c) ==
    /\ \/ IncomingConnection(c)
       \/ \E m \in (IF IsLocal(c) THEN {} ELSE Macs) \cup {NoMac} : PeerAuthenticates(c, m)
       \/ PeerDrops(c)
    /\ UNCHANGED viewVars

-----------------------------------------------------------------------------
(* The user.  The window takes events while it waits for the server to      *)
(* close (waitForClosed processes them).                                    *)

\* on_doMainToolBarConnectDisconnect_triggered
ClickConnect ==
    /\ window # "gone" /\ button # "Closing"
    /\ Listen /\ ShowServerState
    /\ UNCHANGED <<treeVars, window, file>>

ClickDisconnect ==
    /\ window # "gone" /\ button # "Closing" /\ listening
    /\ Close /\ ShowServerState
    /\ UNCHANGED <<treeVars, window, file>>

\* MCServer::removeClient
Quit(c) == quitNow' = [quitNow EXCEPT ![c] = TRUE]

\* on_forceToDisconnectClient_
ForceToDisconnect(row) ==
    LET c == ClientFromId(items[row].thread) IN
    /\ c # NoClient
    /\ Quit(c)
    /\ UNCHANGED <<serverVars, tableVars, threadVars, peerVars, worker, events, calls, viewVars>>

\* on_removeClient_ forgets an address, on a row without a client.
\* Variant: whether there is a client is not looked at.
RemoveAnyRow(row) ==
    LET m == items[row].mac IN
    /\ m # NoMac
    /\ items' = Without(items, {row})
    /\ byHAddr' = Without(byHAddr, {m})
    /\ history' = HistoryRemove(m)
    /\ UNCHANGED <<serverVars, remoteTable, remoteIp, localTable, threadVars, peerVars, runVars,
                   events, calls, managed, button, window, file>>

RemoveClient(row) ==
    LET m == items[row].mac IN
    /\ ClientFromId(items[row].thread) = NoClient
    /\ m # NoMac
    /\ items' = Without(items, {row})
    /\ byHAddr' = Without(byHAddr, {m})
    /\ history' = HistoryRemove(m)
    /\ UNCHANGED <<serverVars, remoteTable, remoteIp, localTable, threadVars, peerVars, runVars,
                   events, calls, managed, button, window, file>>

\* closeEvent, as far as waitForClosed
CloseWindow ==
    /\ window = "open"
    /\ window' = "closing"
    /\ IF serverState = "Closed" THEN UNCHANGED <<vars, button>> ELSE Close /\ ShowServerState
    /\ UNCHANGED <<treeVars, file>>

-----------------------------------------------------------------------------
(* The program ends and starts. *)

\* MCServer::MCServer
FreshServer == serverState' = "Closed" /\ listening' = FALSE /\ threads' = {}

Ended ==
    /\ FreshServer
    /\ remoteTable' = [m \in Macs |-> NoClient] /\ remoteIp' = {} /\ localTable' = {}
    /\ history' = {}
    /\ conn' = [c \in Clients |-> "Unconnected"]
    /\ authenticated' = [c \in Clients |-> FALSE] /\ refused' = [c \in Clients |-> FALSE]
    /\ events' = [c \in Clients |-> <<>>] /\ calls' = [c \in Clients |-> <<>>]
    /\ worker' = [c \in Clients |-> "none"] /\ quitNow' = [c \in Clients |-> FALSE]
    /\ sock' = [c \in Clients |-> "unconnected"] /\ peerAuth' = [c \in Clients |-> FALSE]
    /\ hwAddr' = [c \in Clients |-> NoMac] /\ sentHandShake' = [c \in Clients |-> FALSE]
    /\ items' = <<>> /\ managed' = <<>> /\ byHAddr' = <<>>
    /\ button' = "Connect" /\ window' = "gone"

\* MCServerHistory::save, called by saveSettingsServerHistory
Written  == [kind |-> "list", macs |-> history]
SaveFile == file' = IF SaveHistory THEN Written ELSE file

\* waitForClosed, which processes events until the server is closed
Waited == window = "closing" /\ serverState = "Closed"

\* What closeWindow_ saves, layouts left out.
CloseWindow_ == SaveFile

\* The rest of closeEvent, and the program ends.
Exit == Waited /\ CloseWindow_ /\ Ended

\* The program is stopped, perhaps while save() has opened the file, which
\* empties it, and not written it.
Killed ==
    /\ window # "gone"
    /\ \/ UNCHANGED file
       \/ Waited /\ SaveHistory /\ file' = [kind |-> "torn"]
    /\ Ended

\* MCServerHistory::load, in loadSettingsServerHistory, then the tree has a row for each address
\* (newClientItemFromNetworkInfo_).  A torn file ends the program instead.
Rows(S) == CHOOSE f \in [1 .. Cardinality(S) -> S] : IsInjective(f)

Read   == file.macs
Loaded == IF SaveHistory /\ file.kind # "none" THEN Read ELSE {}

NewRow(m) == Unset(Row(NoClient, m, "Unknown", "Unknown"))

\* MCServerMainWindow::setup, with ServerAutoConnectAtStartup or without.
AutoConnect == (Listens \/ UNCHANGED serverVars) /\ ShowServerState

Start ==
    /\ window = "gone" /\ file.kind # "torn"
    /\ window' = "open"
    /\ history' = Loaded
    /\ LET rows == Rows(history') IN
       /\ items' = [p \in DOMAIN rows |-> NewRow(rows[p])]
       /\ byHAddr' = [m \in history' |-> CHOOSE p \in DOMAIN rows : rows[p] = m]
    /\ AutoConnect
    /\ UNCHANGED <<remoteTable, remoteIp, localTable, threadVars, peerVars, runVars,
                   events, calls, managed, file>>

DeleteFile ==
    /\ window = "gone" /\ file.kind = "torn"
    /\ file' = [kind |-> "none"]
    /\ UNCHANGED <<vars, treeVars, button, window>>

-----------------------------------------------------------------------------
User == ClickConnect \/ ClickDisconnect \/ CloseWindow
           \/ \E row \in DOMAIN items : ForceToDisconnect(row) \/ RemoveClient(row)

Program == Start \/ Exit \/ Killed \/ DeleteFile

ViewNext ==
    \/ User
    \/ Program
    \/ \E c \in Clients : NetworkV(c) \/ WorkerV(c) \/ MainV(c)

ViewSpec == ViewInit /\ [][ViewNext]_allVars

FairViewSpec == ViewSpec /\ \A c \in Clients : WF_allVars(WorkerV(c)) /\ WF_allVars(MainV(c))

-----------------------------------------------------------------------------
(* Properties. *)

\* The tree is an image of the server and its history ("image of the server
\* history", ClientsTreeWidget.cpp:169): a row for each client that is or was
\* being authenticated, one for each address of the history, and no other; and
\* every pointer that will be used leads to the row of its client or address.
TreeMatchesServer ==
    /\ DOMAIN managed = {c \in Clients : conn[c] # "Unconnected"}
    /\ \A m \in history : m \in DOMAIN byHAddr
    /\ DOMAIN items = Range(managed) \cup {byHAddr[m] : m \in history}
    /\ \A c \in DOMAIN managed :
          /\ items[managed[c]].thread = c
          /\ Accepted(c) /\ IsRemote(c) => /\ items[managed[c]].mac = hwAddr[c]
                                           /\ hwAddr[c] \in DOMAIN byHAddr
                                           /\ byHAddr[hwAddr[c]] = managed[c]
    /\ \A m \in history :
          items[byHAddr[m]] = Row(NoClient, m, "Unconnected", "Unconnected")
    /\ button = Label(serverState)

\* A program whose window is closed has saved every address it knew, those of
\* clients that were connected too: it has waited for all of them to be gone.
SavesAllItKnows == [][Exit /\ SaveHistory => file'.macs = KnownMacs]_allVars
=============================================================================
