-------------------------- MODULE ServerViewProofs --------------------------
(***************************************************************************)
(* Safety of the window of the server, for every set of clients and        *)
(* addresses.                                                              *)
(*                                                                         *)
(* The window is more than an observer of Server: it ends and starts the   *)
(* program, loads the history, forgets an address and asks a thread to     *)
(* quit.  CoreInv says that the invariant of the connections survives      *)
(* that, and TreeInv, on top of it, that the tree of clients follows: the  *)
(* rows in use tell their owners apart (a row names its client, or its     *)
(* address when the client is away), so that no change of a row disturbs   *)
(* another owner.                                                          *)
(***************************************************************************)
EXTENDS ServerView, ServerProofs, FiniteSetTheorems

\* What the rows of the tree and the file of the history can hold.
TreeRows == [thread : Clients \cup {NoClient},
             mac    : Macs \cup {NoMac},
             state  : {"Unknown", "Local", "Remote", "Unconnected"},
             status : {"Unknown", "Authenticating", "Closing", "Connected", "Unconnected"}]

Files == [kind : {"none", "torn"}] \cup [kind : {"list"}, macs : SUBSET Macs]

\* Nothing runs while the program does not.
IdleWhenGone ==
    window = "gone" => /\ Init
                       /\ DOMAIN items = {} /\ DOMAIN managed = {} /\ DOMAIN byHAddr = {}
                       /\ button = "Connect"

CoreInv == IInv /\ file \in Files /\ IdleWhenGone

\* The maps of the tree: what they lead from and to.
TreeTypes ==
    /\ items \in [DOMAIN items -> TreeRows]
    /\ managed \in [DOMAIN managed -> Pointers]
    /\ byHAddr \in [DOMAIN byHAddr -> Pointers]
    /\ DOMAIN byHAddr \subseteq Macs \cup {NoMac}

\* A client on 127.0.0.1 has no hardware address.
LocalHasNoMac == \A c \in LocalClients : hwAddr[c] = NoMac

TreeInv == TreeTypes /\ LocalHasNoMac /\ TreeMatchesServer

-----------------------------------------------------------------------------
(* The connections, whatever the window does. *)

\* The slots that the window is called by are those of Server.
LEMMA SlotsOfServer ==
  ASSUME NEW c \in Clients
  PROVE  /\ MainV(c) => Main(c)
         /\ WorkerV(c) => Worker(c)
         /\ NetworkV(c) => Network(c)
<1>1. MainV(c) => Main(c)
  BY DEF MainV, Main, ConnectedV, ClosingV, RefuseV, AcceptV, DisconnectedV, ErrorV, FinishedV
<1>2. WorkerV(c) => Worker(c)
  BY DEF WorkerV
<1>3. NetworkV(c) => Network(c)
  BY DEF NetworkV, Network
<1> QED
  BY <1>1, <1>2, <1>3

\* A program that is not running takes no step of its own.
LEMMA NothingRuns ==
  ASSUME Init, DOMAIN items = {}, window = "gone"
  PROVE  /\ ~User
         /\ \A c \in Clients : ~(NetworkV(c) \/ WorkerV(c) \/ MainV(c))
<1>1. ~User
  BY DEF User, ClickConnect, ClickDisconnect, CloseWindow
<1>2. ASSUME NEW c \in Clients PROVE ~(NetworkV(c) \/ WorkerV(c) \/ MainV(c))
  <2>1. worker[c] = "none" /\ events[c] = <<>> /\ ~listening
    BY DEF Init
  <2>2. ~Worker(c)
    BY <2>1 DEF Worker, AttachSocket, AttachFails, EnterEventLoop, SocketFlushes,
                PeerSendsHandShake, PeerRefusesConnection, TakeCall, LeaveEventLoop,
                DisconnectReturns, RunReturns
  <2>3. ~Network(c)
    BY <2>1 DEF Network, IncomingConnection, PeerAuthenticates, PeerDrops
  <2>4. ~Main(c)
    BY <2>1 DEF Main, OnSocketConnected, OnSocketClosing, OnAuthenticatedRefuse,
                OnAuthenticatedAccept, Authenticated, OnSocketUnconnected, OnError,
                OnFinished, Deliver
  <2> QED
    BY <2>2, <2>3, <2>4, SlotsOfServer
<1> QED
  BY <1>1, <1>2

\* A program that has ended has the state it would start in.
LEMMA EndedIsInit == Ended => Init'
  BY DEF Ended, FreshServer, Init

LEMMA InitInvNext == Init' => IInv'
  BY InitInv, PTL

\* An order to quit, a change of the history and a server that starts to listen
\* leave the clients alone.
LEMMA ClientsAside ==
  ASSUME AllClientsInv, UNCHANGED <<threads, threadVars, peerVars, worker, events, calls>>
  PROVE  AllClientsInv'
<1> SUFFICES ASSUME NEW d \in Clients PROVE ClientInv(d)'
  BY DEF AllClientsInv
<1>1. ClientInv(d) /\ Untouched(d)
  BY DEF AllClientsInv, Untouched, threadVars, peerVars
<1> QED
  BY <1>1, UntouchedInv

\* An order to quit disturbs nothing that IInv speaks of.
LEMMA QuitKeeps ==
  ASSUME IInv, NEW row, ForceToDisconnect(row)
  PROVE  IInv'
<1>1. /\ UNCHANGED <<serverState, listening, threads, remoteTable, remoteIp, localTable, history>>
      /\ UNCHANGED <<conn, authenticated, refused, sock, peerAuth, hwAddr, sentHandShake>>
      /\ UNCHANGED <<worker, events, calls>>
      /\ UNCHANGED <<threadVars, peerVars>>
  BY DEF ForceToDisconnect, serverVars, tableVars, threadVars, peerVars
<1>2. quitNow' \in [Clients -> BOOLEAN]
  BY DEF ForceToDisconnect, Quit, IInv, TypeOK
<1>3. TypeOK'
  BY <1>1, <1>2 DEF IInv, TypeOK
<1>4. AllClientsInv'
  BY <1>1, ClientsAside DEF IInv
<1>5. ServerInv'
  BY <1>1 DEF IInv, ServerInv
<1>6. TableInv'
  BY <1>1 DEF IInv, TableInv, TableMatchesClients, ConnectedOrInHistory, Accepted, Registered
<1> QED
  BY <1>3, <1>4, <1>5, <1>6 DEF IInv

\* Forgetting an address only shrinks the history.
LEMMA ForgetKeeps ==
  ASSUME IInv, NEW row, RemoveClient(row)
  PROVE  IInv'
<1>1. /\ UNCHANGED <<serverState, listening, threads, remoteTable, remoteIp, localTable>>
      /\ UNCHANGED <<conn, authenticated, refused, sock, peerAuth, hwAddr, sentHandShake>>
      /\ UNCHANGED <<worker, quitNow, events, calls>>
      /\ UNCHANGED <<threadVars, peerVars>>
  BY DEF RemoveClient, serverVars, threadVars, peerVars, runVars
<1>2. history' \subseteq history
  BY DEF RemoveClient, HistoryRemove
<1>3. TypeOK'
  BY <1>1, <1>2 DEF IInv, TypeOK
<1>4. AllClientsInv'
  BY <1>1, ClientsAside DEF IInv
<1>5. ServerInv'
  BY <1>1 DEF IInv, ServerInv
<1>6. TableInv'
  BY <1>1, <1>2 DEF IInv, TableInv, TableMatchesClients, ConnectedOrInHistory, Accepted, Registered
<1> QED
  BY <1>3, <1>4, <1>5, <1>6 DEF IInv

\* What a program reads from the file are addresses.
LEMMA LoadedMacs == file \in Files /\ file.kind # "torn" => Loaded \subseteq Macs
  BY DEF Files, Loaded, Read

\* A program starts with no client, so any history fits its empty table.
LEMMA StartKeeps ==
  ASSUME CoreInv, Start
  PROVE  IInv'
<1>1. Init /\ window = "gone"
  BY DEF CoreInv, IdleWhenGone, Start
<1>2. /\ UNCHANGED <<remoteTable, remoteIp, localTable, threads>>
      /\ UNCHANGED <<conn, authenticated, refused, sock, peerAuth, hwAddr, sentHandShake>>
      /\ UNCHANGED <<worker, quitNow, events, calls>>
      /\ UNCHANGED <<threadVars, peerVars>>
  BY DEF Start, AutoConnect, Listens, serverVars, threadVars, peerVars, runVars
<1>3. history' \subseteq Macs
  BY LoadedMacs DEF Start, CoreInv
<1>4. \/ serverState' = "Listening" /\ listening' = TRUE
      \/ serverState' = "Closed" /\ listening' = FALSE /\ threads' = {}
  BY <1>1, <1>2 DEF Start, AutoConnect, Listens, serverVars, Init
<1>5. TypeOK'
  BY <1>2, <1>3, <1>4 DEF CoreInv, IInv, TypeOK, ServerStates
<1>6. AllClientsInv'
  BY <1>2, ClientsAside DEF CoreInv, IInv
<1>7. ServerInv'
  BY <1>4 DEF ServerInv
<1>8. TableMatchesClients'
  BY <1>2 DEF CoreInv, IInv, TableInv, TableMatchesClients, Accepted, Registered
<1>9. ConnectedOrInHistory'
  BY <1>1, <1>2, <1>3 DEF ConnectedOrInHistory, Init
<1> QED
  BY <1>5, <1>6, <1>7, <1>8, <1>9 DEF IInv, TableInv

\* The invariant of the connections, with a program that ends and starts.
LEMMA CoreInit == ViewInit => CoreInv
<1> SUFFICES ASSUME ViewInit PROVE CoreInv
  OBVIOUS
<1>1. DOMAIN <<>> = {}
  OBVIOUS
<1> QED
  BY <1>1, InitInv DEF ViewInit, CoreInv, IdleWhenGone, Files

LEMMA CoreNext ==
  ASSUME CoreInv, [ViewNext]_allVars
  PROVE  CoreInv'
<1>1. CASE UNCHANGED allVars
  <2>1. UNCHANGED vars /\ UNCHANGED <<items, managed, byHAddr, button, window, file>>
    BY <1>1 DEF allVars, viewVars, treeVars
  <2>2. IInv'
    BY <2>1, NextInv DEF CoreInv
  <2>3. IdleWhenGone'
    BY <2>1 DEF CoreInv, IdleWhenGone, Init, vars, serverVars, tableVars, threadVars,
                peerVars, runVars
  <2> QED
    BY <2>1, <2>2, <2>3 DEF CoreInv
<1>2. ASSUME User PROVE CoreInv'
  <2>1. window # "gone" /\ window' # "gone" /\ file' = file
    BY <1>2, NothingRuns DEF CoreInv, IdleWhenGone, User, ClickConnect, ClickDisconnect,
       CloseWindow, ForceToDisconnect, RemoveClient, viewVars
  <2>2. IInv'
    <3>1. ASSUME ClickConnect \/ ClickDisconnect \/ CloseWindow PROVE [Next]_vars
      BY <3>1 DEF ClickConnect, ClickDisconnect, CloseWindow, Next
    <3> QED
      BY <1>2, <3>1, NextInv, QuitKeeps, ForgetKeeps DEF User, CoreInv
  <2> QED
    BY <2>1, <2>2 DEF CoreInv, IdleWhenGone
<1>3. ASSUME Start PROVE CoreInv'
  <2>1. window' = "open" /\ file' = file
    BY <1>3 DEF Start
  <2> QED
    BY <1>3, <2>1, StartKeeps DEF CoreInv, IdleWhenGone
<1>4. ASSUME Exit \/ Killed PROVE CoreInv'
  <2>1. Ended
    BY <1>4 DEF Exit, Killed
  <2>2. Init' /\ IInv'
    BY <2>1, EndedIsInit, InitInvNext
  <2>3. DOMAIN <<>> = {}
    OBVIOUS
  <2>4. IdleWhenGone'
    BY <2>1, <2>2, <2>3 DEF Ended, IdleWhenGone
  <2>5. history \subseteq Macs
    BY DEF CoreInv, IInv, TypeOK
  <2>6. file' \in Files
    BY <1>4, <2>5 DEF CoreInv, Exit, CloseWindow_, SaveFile, Written, Killed, Files
  <2> QED
    BY <2>2, <2>4, <2>6 DEF CoreInv
<1>5. ASSUME DeleteFile PROVE CoreInv'
  <2>1. UNCHANGED vars /\ UNCHANGED <<items, managed, byHAddr, button, window>>
    BY <1>5 DEF DeleteFile, treeVars
  <2>2. IInv'
    BY <2>1, NextInv DEF CoreInv
  <2>3. IdleWhenGone'
    BY <2>1 DEF CoreInv, IdleWhenGone, Init, vars, serverVars, tableVars, threadVars,
                peerVars, runVars
  <2>4. file' \in Files
    BY <1>5 DEF DeleteFile, Files
  <2> QED
    BY <2>2, <2>3, <2>4 DEF CoreInv
<1>6. ASSUME NEW c \in Clients, NetworkV(c) \/ WorkerV(c) \/ MainV(c) PROVE CoreInv'
  <2>1. Next
    BY <1>6, SlotsOfServer DEF Next
  <2>2. window # "gone" /\ window' = window /\ file' = file
    BY <1>6, NothingRuns DEF CoreInv, IdleWhenGone, NetworkV, WorkerV, MainV, ConnectedV,
       ClosingV, RefuseV, AcceptV, DisconnectedV, ErrorV, FinishedV, viewVars
  <2> QED
    BY <2>1, <2>2, NextInv DEF CoreInv, IdleWhenGone
<1> QED
  BY <1>1, <1>2, <1>3, <1>4, <1>5, <1>6 DEF ViewNext, Program

THEOREM CoreInductive == ViewSpec => []CoreInv
  BY CoreInit, CoreNext, PTL DEF ViewSpec

\* The window keeps what the connections promise: each signal finds its slot
\* ready, the table holds the accepted clients, and no address has two owners.
THEOREM ConnectionsKept == ViewSpec => [](TypeOK /\ TableMatchesClients /\ ConnectedOrInHistory)
<1>1. CoreInv => TypeOK /\ TableMatchesClients /\ ConnectedOrInHistory
  BY DEF CoreInv, IInv, TableInv
<1> QED
  BY <1>1, CoreInductive, PTL

-----------------------------------------------------------------------------
(* What a program that ends has saved. *)

\* The table of a closed server is empty: it has waited for its threads, and
\* their clients left the table before them.
LEMMA ClosedTable ==
  ASSUME IInv, serverState = "Closed"
  PROVE  \A m \in Macs : remoteTable[m] = NoClient
<1> SUFFICES ASSUME NEW m \in Macs, remoteTable[m] # NoClient PROVE FALSE
  OBVIOUS
<1> DEFINE c == remoteTable[m]
<1>1. c \in Clients
  BY DEF IInv, TypeOK
<1>2. Accepted(c)
  BY <1>1 DEF IInv, TableInv, TableMatchesClients
<1>3. WorkerClean(c)
  BY <1>1 DEF IInv, AllClientsInv, ClientInv
<1>4. worker[c] # "none"
  BY <1>2, <1>3 DEF WorkerClean, Accepted
<1>5. c \in threads
  BY <1>3, <1>4 DEF WorkerClean
<1> QED
  BY <1>5 DEF IInv, ServerInv

\* Whoever closes the window finds in the file every address the server knew,
\* those of the clients that were connected when it was closed too.
THEOREM NothingLostAtExit == ViewSpec => SavesAllItKnows
<1>1. ASSUME CoreInv, Exit, SaveHistory PROVE file'.macs = KnownMacs
  <2>1. file' = [kind |-> "list", macs |-> history] /\ serverState = "Closed"
    BY <1>1 DEF Exit, Waited, CloseWindow_, SaveFile, Written
  <2>2. KnownMacs = history
    BY <1>1, <2>1, ClosedTable DEF KnownMacs, CoreInv
  <2> QED
    BY <2>1, <2>2
<1>2. CoreInv /\ [ViewNext]_allVars => [Exit /\ SaveHistory => file'.macs = KnownMacs]_allVars
  BY <1>1
<1> QED
  BY <1>2, CoreInductive, PTL DEF ViewSpec, SavesAllItKnows

-----------------------------------------------------------------------------
(* Rows and pointers. *)

\* Least members of sets of numbers.
LEMMA LeastNat ==
  ASSUME NEW S, S \subseteq Nat, S # {}
  PROVE  \E p \in S : \A q \in S : p <= q
<1>1. PICK p \in S : \A q \in S : <<q, p>> \notin OpToRel(<, Nat)
  BY WFMin, NatLessThanWellFounded
<1>2. ASSUME NEW q \in S PROVE p <= q
  <2>1. p \in Nat /\ q \in Nat
    OBVIOUS
  <2>2. ~(q < p)
    BY <1>1, <2>1 DEF OpToRel
  <2> QED
    BY <2>1, <2>2
<1> QED
  BY <1>2

\* A map from a set of n things reaches n things at most.
LEMMA RangeBound ==
  ASSUME NEW f, NEW S, IsFiniteSet(S), DOMAIN f \subseteq S, f \in [DOMAIN f -> Pointers]
  PROVE  IsFiniteSet(Range(f)) /\ Cardinality(Range(f)) <= Cardinality(S)
                               /\ Cardinality(Range(f)) \in Nat
<1>1. IsFiniteSet(DOMAIN f) /\ Cardinality(DOMAIN f) <= Cardinality(S)
  BY FS_Subset
<1>2. f \in [DOMAIN f -> Range(f)] /\ \A y \in Range(f) : \E x \in DOMAIN f : f[x] = y
  BY DEF Range
<1>3. f \in Surjection(DOMAIN f, Range(f))
  BY <1>2 DEF Surjection
<1>4. IsFiniteSet(Range(f)) /\ Cardinality(Range(f)) <= Cardinality(DOMAIN f)
  BY <1>1, <1>3, FS_Surjection
<1>5. /\ Cardinality(Range(f)) \in Nat
      /\ Cardinality(DOMAIN f) \in Nat
      /\ Cardinality(S) \in Nat
  BY <1>1, <1>4, FS_CardinalityType
<1> QED
  BY <1>1, <1>4, <1>5

\* There is always an address that no pointer is left to.
LEMMA NewPointerFree ==
  ASSUME TypeOK, TreeTypes, TreeMatchesServer
  PROVE  /\ NewPointer \in Pointers
         /\ NewPointer \notin DOMAIN items
         /\ \A c \in DOMAIN managed : managed[c] # NewPointer
         /\ \A m \in DOMAIN byHAddr : byHAddr[m] # NewPointer
<1> DEFINE C == Cardinality(Clients)
           M == Cardinality(Macs)
           R == Range(managed)
           B == Range(byHAddr)
           used == DOMAIN items \cup R \cup B
           free == Pointers \ used
<1>1. IsFiniteSet(Clients) /\ IsFiniteSet(Macs) /\ C \in Nat /\ M \in Nat
  BY ViewAssumption, FS_CardinalityType DEF ViewAssumption
<1>2. IsFiniteSet(Macs \cup {NoMac}) /\ Cardinality(Macs \cup {NoMac}) = M + 1
  BY <1>1, ServerAssumption, FS_AddElement DEF ServerAssumption
<1>3. IsFiniteSet(R) /\ Cardinality(R) <= C /\ Cardinality(R) \in Nat
  <2>1. DOMAIN managed \subseteq Clients /\ managed \in [DOMAIN managed -> Pointers]
    BY DEF TreeMatchesServer, TreeTypes
  <2> QED
    BY <1>1, <2>1, RangeBound
<1>4. IsFiniteSet(B) /\ Cardinality(B) <= M + 1 /\ Cardinality(B) \in Nat
  <2>1. DOMAIN byHAddr \subseteq Macs \cup {NoMac} /\ byHAddr \in [DOMAIN byHAddr -> Pointers]
    BY DEF TreeTypes
  <2>2. Cardinality(B) <= Cardinality(Macs \cup {NoMac}) /\ IsFiniteSet(B) /\ Cardinality(B) \in Nat
    BY <1>2, <2>1, RangeBound
  <2> QED
    BY <1>2, <2>2
<1>5. DOMAIN items \subseteq R \cup B
  BY DEF TreeMatchesServer, Range
<1>6. used = R \cup B
  BY <1>5
<1>7. IsFiniteSet(used) /\ Cardinality(used) <= C + M + 1
  <2>1. IsFiniteSet(R \cup B)
        /\ Cardinality(R \cup B) = Cardinality(R) + Cardinality(B) - Cardinality(R \cap B)
    BY <1>3, <1>4, FS_Union
  <2>2. Cardinality(R \cap B) \in Nat
    BY <1>3, FS_Intersection, FS_CardinalityType
  <2>3. IsFiniteSet(used) /\ Cardinality(used) = Cardinality(R \cup B)
    BY <1>6, <2>1
  <2> HIDE DEF C, M, R, B, used
  <2> QED
    BY <1>1, <1>3, <1>4, <2>1, <2>2, <2>3
<1>8. Cardinality(used) \in Nat
  BY <1>7, FS_CardinalityType
<1>9. IsFiniteSet(Pointers) /\ Cardinality(Pointers) = 2 * (C + M) + 2 /\ Pointers \subseteq Nat
  <2> DEFINE n == 2 * (C + M) + 2
  <2>1. n \in Nat /\ n > 0 /\ Pointers = 1 .. n
    BY <1>1 DEF Pointers
  <2>2. IsFiniteSet(1 .. n) /\ Cardinality(1 .. n) = IF 1 > n THEN 0 ELSE n - 1 + 1
    <3> HIDE DEF n
    <3> QED
      BY <2>1, FS_Interval
  <2> HIDE DEF n
  <2>3. Cardinality(Pointers) = n
    BY <2>1, <2>2
  <2> QED
    BY <2>1, <2>2, <2>3 DEF n
<1>10. free # {}
  <2>1. SUFFICES ASSUME Pointers \subseteq used PROVE FALSE
    OBVIOUS
  <2>2. Cardinality(Pointers) <= Cardinality(used)
    BY <1>7, <2>1, FS_Subset
  <2> QED
    BY <1>1, <1>7, <1>8, <1>9, <2>2
<1>11. \E p \in free : \A q \in free : p <= q
  BY <1>9, <1>10, LeastNat
<1>12. NewPointer \in free
  BY <1>11 DEF NewPointer
<1> QED
  BY <1>12 DEF Range

\* The row of a client that has gone keeps its address only.
LEMMA UnsetRow ==
  ASSUME NEW r \in TreeRows
  PROVE  Unset(r) = Row(NoClient, r.mac, "Unconnected", "Unconnected")
<1> DEFINE u == Unset(r)
<1>1. u \in [thread : Clients \cup {NoClient}, mac : Macs \cup {NoMac},
             state : {"Unknown", "Local", "Remote", "Unconnected"},
             status : {"Unknown", "Authenticating", "Closing", "Connected", "Unconnected"}]
  BY DEF Unset, TreeRows
<1>2. u.thread = NoClient /\ u.mac = r.mac /\ u.state = "Unconnected" /\ u.status = "Unconnected"
  BY DEF Unset, TreeRows
<1> HIDE DEF u
<1>3. u = [thread |-> u.thread, mac |-> u.mac, state |-> u.state, status |-> u.status]
  BY <1>1
<1> QED
  BY <1>2, <1>3 DEF Row, u

\* A row belongs to one client, or to one address of the history.
LEMMA OneOwner ==
  ASSUME TreeInv
  PROVE  /\ \A c, d \in DOMAIN managed : managed[c] = managed[d] => c = d
         /\ \A c \in DOMAIN managed, m \in history : managed[c] # byHAddr[m]
         /\ \A m, n \in history : byHAddr[m] = byHAddr[n] => m = n
<1>1. \A c \in DOMAIN managed : items[managed[c]].thread = c /\ c \in Clients
  BY DEF TreeInv, TreeMatchesServer
<1>2. \A m \in history : items[byHAddr[m]].thread = NoClient /\ items[byHAddr[m]].mac = m
  <2> SUFFICES ASSUME NEW m \in history
               PROVE  items[byHAddr[m]].thread = NoClient /\ items[byHAddr[m]].mac = m
    OBVIOUS
  <2>1. items[byHAddr[m]] = Row(NoClient, m, "Unconnected", "Unconnected")
    BY DEF TreeInv, TreeMatchesServer
  <2> QED
    BY <2>1 DEF Row
<1>3. NoClient \notin Clients
  BY ServerAssumption DEF ServerAssumption
<1> QED
  BY <1>1, <1>2, <1>3

\* The rows of managed clients and of the history are rows of the tree.
LEMMA RowsInTree ==
  ASSUME TreeInv
  PROVE  /\ \A c \in DOMAIN managed : managed[c] \in DOMAIN items
         /\ \A m \in history : m \in DOMAIN byHAddr /\ byHAddr[m] \in DOMAIN items
         /\ \A p \in DOMAIN items : \/ \E c \in DOMAIN managed : managed[c] = p
                                    \/ \E m \in history : byHAddr[m] = p
  BY DEF TreeInv, TreeMatchesServer, Range

\* The tree as TreeMatchesServer describes it, by elements.
LEMMA TreeByElementsNext ==
  ASSUME \A c : c \in DOMAIN managed' <=> c \in Clients /\ conn'[c] # "Unconnected",
         \A m \in history' : m \in DOMAIN byHAddr' /\ byHAddr'[m] \in DOMAIN items',
         \A c \in DOMAIN managed' : managed'[c] \in DOMAIN items',
         \A p \in DOMAIN items' : \/ \E c \in DOMAIN managed' : managed'[c] = p
                                  \/ \E m \in history' : byHAddr'[m] = p,
         \A c \in DOMAIN managed' :
            /\ items'[managed'[c]].thread = c
            /\ Accepted(c)' /\ IsRemote(c) => /\ items'[managed'[c]].mac = hwAddr'[c]
                                              /\ hwAddr'[c] \in DOMAIN byHAddr'
                                              /\ byHAddr'[hwAddr'[c]] = managed'[c],
         \A m \in history' :
            items'[byHAddr'[m]] = Row(NoClient, m, "Unconnected", "Unconnected"),
         button' = Label(serverState')
  PROVE  TreeMatchesServer'
<1>1. DOMAIN managed' = {c \in Clients : conn'[c] # "Unconnected"}
  OBVIOUS
<1>2. DOMAIN items' = Range(managed') \cup {byHAddr'[m] : m \in history'}
  <2>1. ASSUME NEW p \in DOMAIN items'
        PROVE  p \in Range(managed') \cup {byHAddr'[m] : m \in history'}
    BY <2>1 DEF Range
  <2>2. ASSUME NEW p \in Range(managed') PROVE p \in DOMAIN items'
    BY <2>2 DEF Range
  <2>3. ASSUME NEW p \in {byHAddr'[m] : m \in history'} PROVE p \in DOMAIN items'
    BY <2>3
  <2> QED
    BY <2>1, <2>2, <2>3
<1> QED
  BY <1>1, <1>2 DEF TreeMatchesServer

\* A step that leaves the tree and the history alone keeps the tree, if it
\* neither connects nor disconnects a client, nor accepts one.
LEMMA TreeStill ==
  ASSUME TreeInv, UNCHANGED <<items, managed, byHAddr, history>>,
         button' = Label(serverState'),
         \A c \in Clients : /\ conn'[c] # "Unconnected" <=> conn[c] # "Unconnected"
                            /\ IsLocal(c) => hwAddr'[c] = NoMac
                            /\ IsRemote(c) /\ Accepted(c)' =>
                                  Accepted(c) /\ hwAddr'[c] = hwAddr[c]
  PROVE  TreeInv'
<1>1. TreeTypes'
  BY DEF TreeInv, TreeTypes
<1>2. LocalHasNoMac'
  BY ServerAssumption DEF LocalHasNoMac, IsLocal, ServerAssumption
<1>3. DOMAIN managed' = {c \in Clients : conn'[c] # "Unconnected"}
  BY DEF TreeInv, TreeMatchesServer
<1>4. TreeMatchesServer'
  BY <1>3 DEF TreeInv, TreeMatchesServer
<1> QED
  BY <1>1, <1>2, <1>4 DEF TreeInv

-----------------------------------------------------------------------------
(* The steps, for the tree. *)

\* A step that changes neither what the main thread knows of the clients nor
\* their addresses.
LEMMA TreeAside ==
  ASSUME TreeInv, UNCHANGED <<items, managed, byHAddr, history, threadVars, hwAddr>>,
         button' = Label(serverState')
  PROVE  TreeInv'
<1>1. /\ conn' = conn /\ authenticated' = authenticated /\ refused' = refused
      /\ hwAddr' = hwAddr
  BY DEF threadVars
<1>2. \A c \in Clients : /\ conn'[c] # "Unconnected" <=> conn[c] # "Unconnected"
                         /\ IsLocal(c) => hwAddr'[c] = NoMac
                         /\ IsRemote(c) /\ Accepted(c)' =>
                               Accepted(c) /\ hwAddr'[c] = hwAddr[c]
  BY <1>1 DEF TreeInv, LocalHasNoMac, IsLocal, Accepted, Registered
<1> QED
  BY <1>2, TreeStill

\* The button shows the state of the server.
LEMMA ButtonFollows ==
  ASSUME TreeInv, ShowServerState
  PROVE  button' = Label(serverState')
  BY DEF TreeInv, TreeMatchesServer, ShowServerState

\* The worker and the network do not touch a client that is accepted, nor give
\* a local one an address.
LEMMA TreeWorker ==
  ASSUME CoreInv, TreeInv, NEW c \in Clients, WorkerV(c) \/ NetworkV(c)
  PROVE  TreeInv'
<1>1. /\ UNCHANGED <<items, managed, byHAddr, button>>
      /\ UNCHANGED history
      /\ UNCHANGED threadVars
      /\ UNCHANGED serverState
  <2>1. UNCHANGED viewVars
    BY DEF WorkerV, NetworkV
  <2>2. Worker(c) => UNCHANGED <<tableVars, threadVars, serverVars>>
    BY DEF Worker, AttachSocket, AttachFails, EnterEventLoop, SocketFlushes,
           PeerSendsHandShake, PeerRefusesConnection, TakeCall, LeaveEventLoop,
           DisconnectReturns, RunReturns
  <2>3. Network(c) => UNCHANGED <<tableVars, threadVars, serverState>>
    BY DEF Network, IncomingConnection, PeerAuthenticates, PeerDrops, serverVars
  <2> QED
    BY <2>1, <2>2, <2>3, SlotsOfServer DEF viewVars, treeVars, tableVars, serverVars
<1>2. button' = Label(serverState')
  BY <1>1 DEF TreeInv, TreeMatchesServer
<1>3. CASE \E m \in (IF IsLocal(c) THEN {} ELSE Macs) \cup {NoMac} : PeerAuthenticates(c, m)
  <2>1. PICK m \in (IF IsLocal(c) THEN {} ELSE Macs) \cup {NoMac} : PeerAuthenticates(c, m)
    BY <1>3
  <2>2. /\ hwAddr' = [hwAddr EXCEPT ![c] = m] /\ sock[c] = "connected" /\ ~peerAuth[c]
        /\ conn' = conn /\ authenticated' = authenticated /\ refused' = refused
    BY <2>1 DEF PeerAuthenticates, ReadNetworkInfo, threadVars
  <2>3. ~authenticated[c]
    BY <2>2 DEF CoreInv, IInv, AllClientsInv, ClientInv, AuthTracked
  <2>4. hwAddr \in [Clients -> Macs \cup {NoMac}]
    BY DEF CoreInv, IInv, TypeOK
  <2>5. \A d \in Clients : /\ conn'[d] # "Unconnected" <=> conn[d] # "Unconnected"
                           /\ IsLocal(d) => hwAddr'[d] = NoMac
                           /\ IsRemote(d) /\ Accepted(d)' =>
                                 Accepted(d) /\ hwAddr'[d] = hwAddr[d]
    BY <2>2, <2>3, <2>4 DEF TreeInv, LocalHasNoMac, IsLocal, Accepted, Registered
  <2> QED
    BY <1>1, <1>2, <2>5, TreeStill
<1>4. CASE ~\E m \in (IF IsLocal(c) THEN {} ELSE Macs) \cup {NoMac} : PeerAuthenticates(c, m)
  <2>1. Worker(c) \/ IncomingConnection(c) \/ PeerDrops(c)
    BY <1>4 DEF WorkerV, NetworkV
  <2>2. DisconnectFromHost(c) => hwAddr' = hwAddr
    BY DEF DisconnectFromHost, SocketLost, peerVars
  <2>3. hwAddr' = hwAddr
    BY <2>1, <2>2 DEF Worker, AttachSocket, AttachFails, EnterEventLoop, SocketFlushes,
           PeerSendsHandShake, PeerRefusesConnection, TakeCall, LeaveEventLoop,
           DisconnectReturns, RunReturns, IncomingConnection, PeerDrops, SocketLost, peerVars
  <2> QED
    BY <1>1, <1>2, <2>3, TreeAside
<1> QED
  BY <1>3, <1>4

\* A refusal, an error and the end of a thread concern no row.
LEMMA TreeAsideMain ==
  ASSUME CoreInv, TreeInv, NEW c \in Clients, RefuseV(c) \/ ErrorV(c) \/ FinishedV(c)
  PROVE  TreeInv'
<1>1. /\ UNCHANGED <<items, managed, byHAddr>>
      /\ UNCHANGED history
  BY DEF RefuseV, ErrorV, FinishedV, OnAuthenticatedRefuse, OnError, OnFinished,
         viewVars, treeVars, tableVars
<1>2. button' = Label(serverState')
  <2>1. CASE RefuseV(c) \/ ErrorV(c)
    <3>1. button' = button /\ serverState' = serverState
      BY <2>1 DEF RefuseV, ErrorV, OnAuthenticatedRefuse, Authenticated, OnError,
             viewVars, serverVars
    <3> QED
      BY <3>1 DEF TreeInv, TreeMatchesServer
  <2>2. CASE FinishedV(c)
    BY <2>2, ButtonFollows DEF FinishedV
  <2> QED
    BY <2>1, <2>2
<1>3. /\ conn \in [Clients -> ConnStates] /\ authenticated \in [Clients -> BOOLEAN]
      /\ refused \in [Clients -> BOOLEAN] /\ hwAddr \in [Clients -> Macs \cup {NoMac}]
  BY DEF CoreInv, IInv, TypeOK
<1>4. QueueBounded(c) /\ ConnTracksSock(c) /\ AuthTracked(c) /\ WorkerClean(c) /\ TypeOK
  BY DEF CoreInv, IInv, AllClientsInv, ClientInv
<1>5. CASE RefuseV(c)
  <2>1. Deliver(c, "authenticated") /\ "authenticated" \in Events \ {"error"}
    BY <1>5 DEF RefuseV, OnAuthenticatedRefuse, Authenticated, Events
  <2>2. conn[c] = "Authenticating"
    BY <1>4, <2>1, HeadFacts
  <2>3. /\ conn' = [conn EXCEPT ![c] = "Connected"]
        /\ authenticated' = [authenticated EXCEPT ![c] = TRUE]
        /\ refused' = [refused EXCEPT ![c] = TRUE]
        /\ hwAddr' = hwAddr
    BY <1>5 DEF RefuseV, OnAuthenticatedRefuse, Authenticated, peerVars
  <2>4. \A d \in Clients : /\ conn'[d] # "Unconnected" <=> conn[d] # "Unconnected"
                           /\ IsLocal(d) => hwAddr'[d] = NoMac
                           /\ IsRemote(d) /\ Accepted(d)' =>
                                 Accepted(d) /\ hwAddr'[d] = hwAddr[d]
    BY <1>3, <2>2, <2>3 DEF TreeInv, LocalHasNoMac, IsLocal, Accepted, Registered
  <2> QED
    BY <1>1, <1>2, <2>4, TreeStill
<1>6. CASE ErrorV(c)
  <2>1. UNCHANGED <<threadVars, hwAddr>>
    BY <1>6 DEF ErrorV, OnError, peerVars
  <2> QED
    BY <1>1, <1>2, <2>1, TreeAside
<1>7. CASE FinishedV(c)
  <2>1. Deliver(c, "finished") /\ "finished" \in Events \ {"error"}
    BY <1>7 DEF FinishedV, OnFinished, Events
  <2>2. conn[c] = "Unconnected"
    BY <1>4, <2>1, HeadFacts
  <2>3. /\ conn' = [conn EXCEPT ![c] = "Unconnected"]
        /\ authenticated' = [authenticated EXCEPT ![c] = FALSE]
        /\ refused' = [refused EXCEPT ![c] = FALSE]
        /\ hwAddr' = [hwAddr EXCEPT ![c] = NoMac]
    BY <1>7 DEF FinishedV, OnFinished
  <2>4. \A d \in Clients : /\ conn'[d] # "Unconnected" <=> conn[d] # "Unconnected"
                           /\ IsLocal(d) => hwAddr'[d] = NoMac
                           /\ IsRemote(d) /\ Accepted(d)' =>
                                 Accepted(d) /\ hwAddr'[d] = hwAddr[d]
    BY <1>3, <2>2, <2>3 DEF TreeInv, LocalHasNoMac, IsLocal, Accepted, Registered
  <2> QED
    BY <1>1, <1>2, <2>4, TreeStill
<1> QED
  BY <1>5, <1>6, <1>7

\* A client that begins to authenticate gets a row that nobody has.
LEMMA TreeConnected ==
  ASSUME CoreInv, TreeInv, NEW c \in Clients, ConnectedV(c)
  PROVE  TreeInv'
<1> DEFINE p == NewPointer
           r == Row(c, NoMac, "Unknown", "Authenticating")
<1>1. /\ items' = Put(items, p, r) /\ managed' = Put(managed, c, p)
      /\ byHAddr' = IF IsRemote(c) THEN Put(byHAddr, NoMac, p) ELSE byHAddr
      /\ conn' = [conn EXCEPT ![c] = "Authenticating"]
      /\ authenticated' = authenticated /\ refused' = refused /\ hwAddr' = hwAddr
      /\ history' = history /\ button' = button /\ serverState' = serverState
  BY DEF ConnectedV, OnSocketConnected, ShowAuthenticating, peerVars, tableVars, serverVars
<1>2. /\ conn \in [Clients -> ConnStates] /\ hwAddr \in [Clients -> Macs \cup {NoMac}]
      /\ history \subseteq Macs /\ NoMac \notin Macs
  BY ServerAssumption DEF CoreInv, IInv, TypeOK, ServerAssumption
<1>3. /\ p \in Pointers /\ p \notin DOMAIN items
      /\ \A d \in DOMAIN managed : managed[d] # p
      /\ \A m \in DOMAIN byHAddr : byHAddr[m] # p
  BY NewPointerFree DEF CoreInv, IInv, TreeInv
<1>4. conn[c] = "Unconnected" /\ ~authenticated[c]
  <2>1. Deliver(c, "socketConnected") /\ "socketConnected" \in Events \ {"error"}
    BY DEF ConnectedV, OnSocketConnected, Events
  <2>2. /\ QueueBounded(c) /\ ConnTracksSock(c) /\ AuthTracked(c) /\ WorkerClean(c) /\ TypeOK
    BY DEF CoreInv, IInv, AllClientsInv, ClientInv
  <2>3. ~authenticated[c]
    BY <2>1, <2>2, HeadFacts
  <2>4. Pending(c, "socketConnected")
    BY <2>1, <2>2, DeliverOrder DEF TypeOK, QueueBounded, Pending
  <2> QED
    BY <2>2, <2>3, <2>4 DEF QueueBounded
<1>5. r \in TreeRows /\ r.thread = c /\ c \notin DOMAIN managed
  BY <1>4 DEF Row, TreeRows, TreeInv, TreeMatchesServer
<1> HIDE DEF p, r
<1>6. /\ DOMAIN items' = DOMAIN items \cup {p} /\ items'[p] = r
      /\ \A q \in DOMAIN items : items'[q] = items[q]
  BY <1>1, <1>3 DEF Put
<1>7. /\ DOMAIN managed' = DOMAIN managed \cup {c} /\ managed'[c] = p
      /\ \A d \in DOMAIN managed : managed'[d] = managed[d] /\ d # c
  BY <1>1, <1>5 DEF Put
<1>8. /\ DOMAIN byHAddr \subseteq DOMAIN byHAddr'
      /\ \A m \in DOMAIN byHAddr : m # NoMac => byHAddr'[m] = byHAddr[m]
  BY <1>1 DEF Put
<1>9. TreeTypes'
  <2>1. items' \in [DOMAIN items' -> TreeRows]
    BY <1>1, <1>5, <1>6 DEF Put, TreeInv, TreeTypes
  <2>2. managed' \in [DOMAIN managed' -> Pointers]
    BY <1>1, <1>3, <1>7 DEF Put, TreeInv, TreeTypes
  <2>3. byHAddr' \in [DOMAIN byHAddr' -> Pointers] /\ DOMAIN byHAddr' \subseteq Macs \cup {NoMac}
    BY <1>1, <1>3 DEF Put, TreeInv, TreeTypes
  <2> QED
    BY <2>1, <2>2, <2>3 DEF TreeTypes
<1>10. LocalHasNoMac'
  BY <1>1 DEF TreeInv, LocalHasNoMac
<1>11. TreeMatchesServer'
  <2>1. \A d : d \in DOMAIN managed' <=> d \in Clients /\ conn'[d] # "Unconnected"
    BY <1>1, <1>2, <1>7 DEF TreeInv, TreeMatchesServer
  <2>2. \A m \in history' : m \in DOMAIN byHAddr' /\ byHAddr'[m] \in DOMAIN items'
                                /\ byHAddr'[m] = byHAddr[m]
    BY <1>1, <1>2, <1>6, <1>8, RowsInTree
  <2>3. \A d \in DOMAIN managed' : managed'[d] \in DOMAIN items'
    BY <1>6, <1>7, RowsInTree
  <2>4. \A q \in DOMAIN items' : \/ \E d \in DOMAIN managed' : managed'[d] = q
                                 \/ \E m \in history' : byHAddr'[m] = q
    BY <1>1, <1>6, <1>7, <2>2, RowsInTree
  <2>5. ASSUME NEW d \in DOMAIN managed'
        PROVE  /\ items'[managed'[d]].thread = d
               /\ Accepted(d)' /\ IsRemote(d) => /\ items'[managed'[d]].mac = hwAddr'[d]
                                                 /\ hwAddr'[d] \in DOMAIN byHAddr'
                                                 /\ byHAddr'[hwAddr'[d]] = managed'[d]
    <3>1. CASE d = c
      BY <1>1, <1>4, <1>5, <1>6, <1>7, <3>1 DEF Accepted, Registered
    <3>2. CASE d # c
      <4>1. d \in DOMAIN managed /\ d \in Clients /\ managed'[d] = managed[d]
            /\ managed[d] \in DOMAIN items
        BY <1>7, <3>2, RowsInTree DEF TreeInv, TreeMatchesServer
      <4>2. items'[managed'[d]] = items[managed[d]]
        BY <1>6, <4>1
      <4>3. items[managed[d]].thread = d
        BY <4>1 DEF TreeInv, TreeMatchesServer
      <4>4. ASSUME Accepted(d)', IsRemote(d)
            PROVE  items[managed[d]].mac = hwAddr[d] /\ byHAddr[hwAddr[d]] = managed[d]
                   /\ hwAddr[d] \in Macs /\ hwAddr[d] \in DOMAIN byHAddr
        <5>1. Accepted(d)
          BY <1>1, <1>2, <3>2, <4>1, <4>4 DEF Accepted, Registered
        <5>2. hwAddr[d] \in Macs
          BY <4>1, <4>4, <5>1 DEF CoreInv, IInv, AllClientsInv, ClientInv, AuthTracked, Accepted
        <5> QED
          BY <4>1, <4>4, <5>1, <5>2 DEF TreeInv, TreeMatchesServer
      <4> QED
        BY <1>1, <1>2, <1>8, <4>1, <4>2, <4>3, <4>4
    <3> QED
      BY <3>1, <3>2
  <2>6. \A m \in history' :
           items'[byHAddr'[m]] = Row(NoClient, m, "Unconnected", "Unconnected")
    BY <1>1, <1>6, <2>2, RowsInTree DEF TreeInv, TreeMatchesServer
  <2>7. button' = Label(serverState')
    BY <1>1 DEF TreeInv, TreeMatchesServer
  <2> QED
    BY <2>1, <2>2, <2>3, <2>4, <2>5, <2>6, <2>7, TreeByElementsNext
<1> QED
  BY <1>9, <1>10, <1>11 DEF TreeInv

\* A client that closes keeps its row, which only changes its text.
LEMMA TreeClosing ==
  ASSUME CoreInv, TreeInv, NEW c \in Clients, ClosingV(c)
  PROVE  TreeInv'
<1> DEFINE p == managed[c]
<1>1. /\ items' = [items EXCEPT ![p].status = "Closing"]
      /\ UNCHANGED <<managed, byHAddr>>
      /\ conn' = [conn EXCEPT ![c] = "Closing"]
      /\ authenticated' = authenticated /\ refused' = refused /\ hwAddr' = hwAddr
      /\ history' = history /\ button' = button /\ serverState' = serverState
  BY DEF ClosingV, OnSocketClosing, ShowClosing, peerVars, tableVars, serverVars
<1>2. /\ conn \in [Clients -> ConnStates] /\ items \in [DOMAIN items -> TreeRows]
  BY DEF CoreInv, IInv, TypeOK, TreeInv, TreeTypes
<1>3. conn[c] # "Unconnected"
  <2>1. Deliver(c, "socketClosing") /\ "socketClosing" \in Events \ {"error"}
    BY DEF ClosingV, OnSocketClosing, Events
  <2>2. /\ QueueBounded(c) /\ ConnTracksSock(c) /\ AuthTracked(c) /\ WorkerClean(c) /\ TypeOK
    BY DEF CoreInv, IInv, AllClientsInv, ClientInv
  <2> QED
    BY <2>1, <2>2, HeadFacts
<1>4. c \in DOMAIN managed /\ p \in DOMAIN items
  <2>1. c \in DOMAIN managed
    BY <1>3 DEF TreeInv, TreeMatchesServer
  <2> QED
    BY <2>1, RowsInTree
<1> HIDE DEF p
<1>5. items[p] \in TreeRows
  BY <1>2, <1>4
<1>6. /\ DOMAIN items' = DOMAIN items
      /\ \A q \in DOMAIN items : q # p => items'[q] = items[q]
      /\ items'[p] \in TreeRows /\ items'[p].thread = items[p].thread /\ items'[p].mac = items[p].mac
  <2>1. PICK row \in TreeRows : row = [items[p] EXCEPT !.status = "Closing"]
    BY <1>5 DEF TreeRows
  <2>2. row.thread = items[p].thread /\ row.mac = items[p].mac
    BY <1>5, <2>1 DEF TreeRows
  <2>3. items' = [items EXCEPT ![p] = row]
    BY <1>1, <2>1
  <2> QED
    BY <1>2, <1>4, <2>2, <2>3
<1>7. TreeTypes'
  <2>1. items' \in [DOMAIN items' -> TreeRows]
    <3>1. \A q \in DOMAIN items : items'[q] \in TreeRows
      BY <1>2, <1>6
    <3>2. items' = [q \in DOMAIN items' |-> items'[q]]
      BY <1>1
    <3> QED
      BY <1>6, <3>1, <3>2
  <2> QED
    BY <1>1, <2>1 DEF TreeTypes, TreeInv
<1>8. LocalHasNoMac'
  BY <1>1 DEF TreeInv, LocalHasNoMac
<1>9. TreeMatchesServer'
  <2>1. \A d : d \in DOMAIN managed' <=> d \in Clients /\ conn'[d] # "Unconnected"
    BY <1>1, <1>2, <1>3 DEF TreeInv, TreeMatchesServer
  <2>2. \A m \in history' : m \in DOMAIN byHAddr' /\ byHAddr'[m] \in DOMAIN items'
    BY <1>1, <1>6, RowsInTree
  <2>3. \A d \in DOMAIN managed' : managed'[d] \in DOMAIN items'
    BY <1>1, <1>6, RowsInTree
  <2>4. \A q \in DOMAIN items' : \/ \E d \in DOMAIN managed' : managed'[d] = q
                                 \/ \E m \in history' : byHAddr'[m] = q
    BY <1>1, <1>6, RowsInTree
  <2>5. ASSUME NEW d \in DOMAIN managed'
        PROVE  /\ items'[managed'[d]].thread = d
               /\ Accepted(d)' /\ IsRemote(d) => /\ items'[managed'[d]].mac = hwAddr'[d]
                                                 /\ hwAddr'[d] \in DOMAIN byHAddr'
                                                 /\ byHAddr'[hwAddr'[d]] = managed'[d]
    <3>1. d \in DOMAIN managed /\ d \in Clients /\ managed[d] \in DOMAIN items
      BY <1>1, RowsInTree DEF TreeInv, TreeMatchesServer
    <3>2. /\ items'[managed[d]].thread = items[managed[d]].thread
          /\ items'[managed[d]].mac = items[managed[d]].mac
      BY <1>6, <3>1
    <3>3. Accepted(d)' => Accepted(d)
      BY <1>1, <1>2, <1>3, <3>1 DEF Accepted, Registered
    <3> QED
      BY <1>1, <3>1, <3>2, <3>3 DEF TreeInv, TreeMatchesServer
  <2>6. \A m \in history' :
           items'[byHAddr'[m]] = Row(NoClient, m, "Unconnected", "Unconnected")
    <3>1. \A m \in history : byHAddr[m] # p /\ byHAddr[m] \in DOMAIN items
      BY <1>4, OneOwner, RowsInTree DEF p
    <3> QED
      BY <1>1, <1>6, <3>1 DEF TreeInv, TreeMatchesServer
  <2>7. button' = Label(serverState')
    BY <1>1 DEF TreeInv, TreeMatchesServer
  <2> QED
    BY <2>1, <2>2, <2>3, <2>4, <2>5, <2>6, <2>7, TreeByElementsNext
<1> QED
  BY <1>7, <1>8, <1>9 DEF TreeInv

\* The row of a client that goes stays for its address, or is taken away.
LEMMA TreeDisconnected ==
  ASSUME CoreInv, TreeInv, NEW c \in Clients, DisconnectedV(c)
  PROVE  TreeInv'
<1> DEFINE p == managed[c]
           m == hwAddr[c]
<1>1. /\ items' = IF LeavesTrace(c) THEN [items EXCEPT ![p] = Unset(@)] ELSE Without(items, {p})
      /\ managed' = Without(managed, {c}) /\ byHAddr' = byHAddr
      /\ conn' = [conn EXCEPT ![c] = "Unconnected"]
      /\ authenticated' = authenticated /\ refused' = refused /\ hwAddr' = hwAddr
      /\ history' = IF LeavesTrace(c) THEN history \cup {m} ELSE history
      /\ button' = button /\ serverState' = serverState
  BY DEF DisconnectedV, OnSocketUnconnected, ShowDisconnected, LeavesTrace, Registered,
         HistoryAdd, peerVars, tableVars, serverVars
<1>2. /\ conn \in [Clients -> ConnStates] /\ items \in [DOMAIN items -> TreeRows]
      /\ managed \in [DOMAIN managed -> Pointers]
  BY DEF CoreInv, IInv, TypeOK, TreeInv, TreeTypes
<1>3. conn[c] # "Unconnected"
  <2>1. Deliver(c, "socketUnconnected") /\ "socketUnconnected" \in Events \ {"error"}
    BY DEF DisconnectedV, OnSocketUnconnected, Events
  <2>2. /\ QueueBounded(c) /\ ConnTracksSock(c) /\ AuthTracked(c) /\ WorkerClean(c) /\ TypeOK
    BY DEF CoreInv, IInv, AllClientsInv, ClientInv
  <2> QED
    BY <2>1, <2>2, HeadFacts
<1>4. c \in DOMAIN managed /\ p \in DOMAIN items
  <2>1. c \in DOMAIN managed
    BY <1>3 DEF TreeInv, TreeMatchesServer
  <2> QED
    BY <2>1, RowsInTree
<1>5. LeavesTrace(c) => /\ items[p].mac = m /\ byHAddr[m] = p
                        /\ m \in Macs /\ m \in DOMAIN byHAddr
  <2> SUFFICES ASSUME LeavesTrace(c)
               PROVE  items[p].mac = m /\ byHAddr[m] = p /\ m \in Macs /\ m \in DOMAIN byHAddr
    OBVIOUS
  <2>1. Accepted(c) /\ Registered(c) /\ IsRemote(c)
    BY <1>3 DEF LeavesTrace, Accepted, Registered
  <2>2. m \in Macs
    BY <2>1 DEF CoreInv, IInv, AllClientsInv, ClientInv, AuthTracked
  <2> QED
    BY <1>4, <2>1, <2>2 DEF TreeInv, TreeMatchesServer
<1> HIDE DEF p, m
<1>6. /\ DOMAIN managed' = DOMAIN managed \ {c}
      /\ \A d \in DOMAIN managed' : managed'[d] = managed[d] /\ managed[d] # p
  <2>1. DOMAIN managed' = DOMAIN managed \ {c} /\ \A d \in DOMAIN managed' : managed'[d] = managed[d]
    BY <1>1 DEF Without
  <2> QED
    BY <1>4, <2>1, OneOwner DEF p
<1>7. \A q \in DOMAIN items : q # p => q \in DOMAIN items' /\ items'[q] = items[q]
  BY <1>1, <1>2 DEF Without
<1>8. \A k \in history : byHAddr[k] # p
  BY <1>4, OneOwner DEF p
<1>9. LeavesTrace(c) => /\ DOMAIN items' = DOMAIN items
                        /\ items'[p] = Row(NoClient, m, "Unconnected", "Unconnected")
  <2> SUFFICES ASSUME LeavesTrace(c)
               PROVE  /\ DOMAIN items' = DOMAIN items
                      /\ items'[p] = Row(NoClient, m, "Unconnected", "Unconnected")
    OBVIOUS
  <2>1. items' = [items EXCEPT ![p] = Unset(items[p])]
    BY <1>1
  <2>2. items[p] \in TreeRows /\ items[p].mac = m
    BY <1>2, <1>4, <1>5
  <2>3. Unset(items[p]) = Row(NoClient, m, "Unconnected", "Unconnected")
    BY <2>2, UnsetRow
  <2> QED
    BY <1>2, <1>4, <2>1, <2>3
<1>10. ~LeavesTrace(c) => DOMAIN items' = DOMAIN items \ {p}
  BY <1>1 DEF Without
<1>11. TreeTypes'
  <2>1. items' \in [DOMAIN items' -> TreeRows]
    <3>1. items' = [q \in DOMAIN items' |-> items'[q]]
      BY <1>1, <1>2 DEF Without
    <3>2. ASSUME NEW q \in DOMAIN items' PROVE items'[q] \in TreeRows
      <4>1. CASE q # p
        BY <1>2, <1>7, <1>9, <1>10, <4>1
      <4>2. CASE q = p
        <5>1. LeavesTrace(c) /\ m \in Macs
          BY <1>5, <1>10, <4>2
        <5> QED
          BY <1>9, <4>2, <5>1 DEF Row, TreeRows
      <4> QED
        BY <4>1, <4>2
    <3> QED
      BY <3>1, <3>2
  <2>2. managed' \in [DOMAIN managed' -> Pointers]
    BY <1>1, <1>2 DEF Without
  <2> QED
    BY <1>1, <2>1, <2>2 DEF TreeTypes, TreeInv
<1>12. LocalHasNoMac'
  BY <1>1 DEF TreeInv, LocalHasNoMac
<1>13. TreeMatchesServer'
  <2>1. \A d : d \in DOMAIN managed' <=> d \in Clients /\ conn'[d] # "Unconnected"
    BY <1>1, <1>2, <1>6 DEF TreeInv, TreeMatchesServer
  <2>2. \A k \in history' : k \in DOMAIN byHAddr' /\ byHAddr'[k] \in DOMAIN items'
    BY <1>1, <1>4, <1>5, <1>7, <1>8, <1>9, RowsInTree
  <2>3. \A d \in DOMAIN managed' : managed'[d] \in DOMAIN items'
    BY <1>6, <1>7, RowsInTree
  <2>4. \A q \in DOMAIN items' : \/ \E d \in DOMAIN managed' : managed'[d] = q
                                 \/ \E k \in history' : byHAddr'[k] = q
    <3> SUFFICES ASSUME NEW q \in DOMAIN items'
                 PROVE  \/ \E d \in DOMAIN managed' : managed'[d] = q
                        \/ \E k \in history' : byHAddr'[k] = q
      OBVIOUS
    <3>1. CASE q = p
      BY <1>1, <1>5, <1>10, <3>1
    <3>2. CASE q # p
      <4>1. q \in DOMAIN items
        BY <1>9, <1>10
      <4>2. CASE \E d \in DOMAIN managed : managed[d] = q
        BY <1>6, <3>2, <4>2 DEF p
      <4>3. CASE \E k \in history : byHAddr[k] = q
        BY <1>1, <4>3
      <4> QED
        BY <4>1, <4>2, <4>3, RowsInTree
    <3> QED
      BY <3>1, <3>2
  <2>5. ASSUME NEW d \in DOMAIN managed'
        PROVE  /\ items'[managed'[d]].thread = d
               /\ Accepted(d)' /\ IsRemote(d) => /\ items'[managed'[d]].mac = hwAddr'[d]
                                                 /\ hwAddr'[d] \in DOMAIN byHAddr'
                                                 /\ byHAddr'[hwAddr'[d]] = managed'[d]
    <3>1. d \in DOMAIN managed /\ d \in Clients /\ managed[d] \in DOMAIN items /\ d # c
      BY <1>6, RowsInTree DEF TreeInv, TreeMatchesServer
    <3>2. items'[managed'[d]] = items[managed[d]]
      BY <1>6, <1>7, <3>1
    <3>3. Accepted(d)' => Accepted(d)
      BY <1>1, <1>2, <3>1 DEF Accepted, Registered
    <3> QED
      BY <1>1, <1>6, <3>1, <3>2, <3>3 DEF TreeInv, TreeMatchesServer
  <2>6. \A k \in history' :
           items'[byHAddr'[k]] = Row(NoClient, k, "Unconnected", "Unconnected")
    <3>1. \A k \in history :
             items'[byHAddr[k]] = Row(NoClient, k, "Unconnected", "Unconnected")
      BY <1>7, <1>8, RowsInTree DEF TreeInv, TreeMatchesServer
    <3> QED
      BY <1>1, <1>5, <1>9, <3>1
  <2>7. button' = Label(serverState')
    BY <1>1 DEF TreeInv, TreeMatchesServer
  <2> QED
    BY <2>1, <2>2, <2>3, <2>4, <2>5, <2>6, <2>7, TreeByElementsNext
<1> QED
  BY <1>11, <1>12, <1>13 DEF TreeInv

\* A client that is accepted takes over the row of its address when there is
\* one, and keeps its own otherwise.
LEMMA TreeAccepted ==
  ASSUME CoreInv, TreeInv, NEW c \in Clients, AcceptV(c)
  PROVE  TreeInv'
<1> DEFINE m == hwAddr[c]
           p0 == managed[c]
           known == IsRemote(c) /\ InHistory(m)
           p == IF known THEN byHAddr[m] ELSE p0
           kept == IF known THEN Without(items, {p0}) ELSE items
           r == Row(c, m, IF IsLocal(c) THEN "Local" ELSE "Remote", "Connected")
<1>1. /\ items' = Put(kept, p, r) /\ managed' = Put(managed, c, p)
      /\ byHAddr' = Put(byHAddr, m, p)
  BY DEF AcceptV, ShowConnected
<1>2. /\ conn' = [conn EXCEPT ![c] = "Connected"]
      /\ authenticated' = [authenticated EXCEPT ![c] = TRUE]
      /\ refused' = refused /\ hwAddr' = hwAddr
      /\ history' = IF IsRemote(c) THEN history \ {m} ELSE history
      /\ button' = button /\ serverState' = serverState
  BY DEF AcceptV, OnAuthenticatedAccept, Authenticated, HistoryRemove, peerVars, serverVars
<1>3. /\ conn \in [Clients -> ConnStates] /\ authenticated \in [Clients -> BOOLEAN]
      /\ hwAddr \in [Clients -> Macs \cup {NoMac}]
      /\ items \in [DOMAIN items -> TreeRows] /\ managed \in [DOMAIN managed -> Pointers]
      /\ byHAddr \in [DOMAIN byHAddr -> Pointers] /\ DOMAIN byHAddr \subseteq Macs \cup {NoMac}
      /\ history \subseteq Macs /\ NoMac \notin Macs
  BY ServerAssumption DEF CoreInv, IInv, TypeOK, TreeInv, TreeTypes, ServerAssumption
<1>4. conn[c] # "Unconnected"
  <2>1. Deliver(c, "authenticated") /\ "authenticated" \in Events \ {"error"}
    BY DEF AcceptV, OnAuthenticatedAccept, Authenticated, Events
  <2>2. /\ QueueBounded(c) /\ ConnTracksSock(c) /\ AuthTracked(c) /\ WorkerClean(c) /\ TypeOK
    BY DEF CoreInv, IInv, AllClientsInv, ClientInv
  <2>3. conn[c] = "Authenticating"
    BY <2>1, <2>2, HeadFacts
  <2> QED
    BY <2>3
<1>5. c \in DOMAIN managed /\ p0 \in DOMAIN items /\ p0 \in Pointers
  <2>1. c \in DOMAIN managed
    BY <1>4 DEF TreeInv, TreeMatchesServer
  <2> QED
    BY <1>3, <2>1, RowsInTree
<1>6. m \in Macs \cup {NoMac} /\ (IsLocal(c) => m = NoMac)
  BY <1>3 DEF TreeInv, LocalHasNoMac, IsLocal
<1>7. IsRemote(c) => m \in Macs /\ remoteTable[m] = NoClient
  <2>1. ~MustRefuse(c)
    BY DEF AcceptV, OnAuthenticatedAccept
  <2> QED
    BY <1>6, <2>1 DEF MustRefuse, IsHardwareAddressRegistered
<1>8. IsLocal(c) <=> ~IsRemote(c)
  BY DEF IsLocal, IsRemote
<1>9. known => m \in history /\ byHAddr[m] \in DOMAIN items /\ m \in DOMAIN byHAddr /\ byHAddr[m] # p0
  BY <1>5, RowsInTree, OneOwner DEF InHistory
<1>10. p \in DOMAIN items /\ p \in Pointers
  BY <1>3, <1>5, <1>9
<1>11. r \in TreeRows /\ r.thread = c /\ r.mac = m
  BY <1>6 DEF Row, TreeRows
<1>12. m \in history => known
  BY <1>3, <1>6, <1>8 DEF InHistory
<1> HIDE DEF p0, p, r, m
<1>13. \A d \in DOMAIN managed : d # c => managed[d] # p0 /\ managed[d] # p
  BY <1>5, <1>9, OneOwner DEF p0, p
<1>14. \A k \in history : k # m => byHAddr[k] # p0 /\ byHAddr[k] # p
  BY <1>5, <1>9, OneOwner DEF p0, p
<1>15. \A k \in history' : k \in history /\ k # m
  BY <1>2, <1>3, <1>6, <1>8
<1>16. \A k \in history : k # m => k \in history'
  BY <1>2
<1>17. known => byHAddr[m] = p
  BY DEF p
<1>18. ~known => p = p0
  BY DEF p
<1>19. /\ \A q \in DOMAIN items' : q = p \/ (q \in DOMAIN items /\ q # p0)
       /\ items'[p] = r /\ p \in DOMAIN items'
       /\ \A q \in DOMAIN items : q # p0 /\ q # p => q \in DOMAIN items' /\ items'[q] = items[q]
  <2>1. items' = [q \in DOMAIN kept \cup {p} |-> IF q = p THEN r ELSE kept[q]]
    BY <1>1 DEF Put
  <2>2. CASE known
    <3>1. kept = [q \in DOMAIN items \ {p0} |-> items[q]]
      BY <2>2 DEF Without
    <3> HIDE DEF kept, known
    <3> QED
      BY <2>1, <3>1
  <2>3. CASE ~known
    <3>1. kept = items /\ p = p0
      BY <1>18, <2>3
    <3> HIDE DEF kept, known
    <3> QED
      BY <2>1, <3>1
  <2> QED
    BY <2>2, <2>3
<1> HIDE DEF kept, known
<1>20. /\ DOMAIN managed' = DOMAIN managed /\ managed'[c] = p
       /\ \A d \in DOMAIN managed : d # c => managed'[d] = managed[d]
  BY <1>1, <1>5 DEF Put
<1>21. /\ DOMAIN byHAddr' = DOMAIN byHAddr \cup {m} /\ byHAddr'[m] = p
       /\ \A k \in DOMAIN byHAddr : k # m => byHAddr'[k] = byHAddr[k]
  BY <1>1 DEF Put
<1>22. TreeTypes'
  <2>1. items' \in [DOMAIN items' -> TreeRows]
    <3>1. items' = [q \in DOMAIN items' |-> items'[q]]
      BY <1>1 DEF Put
    <3>2. \A q \in DOMAIN items' : items'[q] \in TreeRows
      BY <1>3, <1>11, <1>19
    <3> QED
      BY <3>1, <3>2
  <2>2. managed' \in [DOMAIN managed' -> Pointers]
    BY <1>1, <1>3, <1>10 DEF Put
  <2>3. byHAddr' \in [DOMAIN byHAddr' -> Pointers]
    BY <1>1, <1>3, <1>10 DEF Put
  <2> QED
    BY <1>3, <1>6, <1>21, <2>1, <2>2, <2>3 DEF TreeTypes
<1>23. LocalHasNoMac'
  BY <1>2 DEF TreeInv, LocalHasNoMac
<1>24. TreeMatchesServer'
  <2>1. \A d : d \in DOMAIN managed' <=> d \in Clients /\ conn'[d] # "Unconnected"
    BY <1>2, <1>3, <1>4, <1>20 DEF TreeInv, TreeMatchesServer
  <2>2. \A k \in history' : k \in DOMAIN byHAddr' /\ byHAddr'[k] \in DOMAIN items'
                                /\ byHAddr'[k] = byHAddr[k] /\ items'[byHAddr[k]] = items[byHAddr[k]]
    BY <1>14, <1>15, <1>19, <1>21, RowsInTree
  <2>3. \A d \in DOMAIN managed' : managed'[d] \in DOMAIN items'
    BY <1>13, <1>19, <1>20, RowsInTree
  <2>4. \A q \in DOMAIN items' : \/ \E d \in DOMAIN managed' : managed'[d] = q
                                 \/ \E k \in history' : byHAddr'[k] = q
    <3> SUFFICES ASSUME NEW q \in DOMAIN items'
                 PROVE  \/ \E d \in DOMAIN managed' : managed'[d] = q
                        \/ \E k \in history' : byHAddr'[k] = q
      OBVIOUS
    <3>1. CASE q = p
      BY <1>5, <1>20, <3>1
    <3>2. CASE q # p
      <4>1. q \in DOMAIN items /\ q # p0
        BY <1>19, <3>2
      <4>2. CASE \E d \in DOMAIN managed : managed[d] = q
        BY <1>20, <4>1, <4>2 DEF p0
      <4>3. CASE \E k \in history : byHAddr[k] = q
        <5>1. PICK k \in history : byHAddr[k] = q
          BY <4>3
        <5>2. k # m
          BY <1>12, <1>17, <3>2, <5>1
        <5> QED
          BY <1>16, <2>2, <5>1, <5>2
      <4> QED
        BY <4>1, <4>2, <4>3, RowsInTree
    <3> QED
      BY <3>1, <3>2
  <2>5. ASSUME NEW d \in DOMAIN managed'
        PROVE  /\ items'[managed'[d]].thread = d
               /\ Accepted(d)' /\ IsRemote(d) => /\ items'[managed'[d]].mac = hwAddr'[d]
                                                 /\ hwAddr'[d] \in DOMAIN byHAddr'
                                                 /\ byHAddr'[hwAddr'[d]] = managed'[d]
    <3>1. CASE d = c
      BY <1>2, <1>11, <1>19, <1>20, <1>21, <3>1 DEF m
    <3>2. CASE d # c
      <4>1. d \in DOMAIN managed /\ d \in Clients /\ managed[d] \in DOMAIN items
        BY <1>20, RowsInTree DEF TreeInv, TreeMatchesServer
      <4>2. items'[managed'[d]] = items[managed[d]] /\ managed'[d] = managed[d]
        BY <1>13, <1>19, <1>20, <3>2, <4>1
      <4>3. items[managed[d]].thread = d
        BY <4>1 DEF TreeInv, TreeMatchesServer
      <4>4. ASSUME Accepted(d)', IsRemote(d)
            PROVE  /\ items[managed[d]].mac = hwAddr[d] /\ byHAddr[hwAddr[d]] = managed[d]
                   /\ hwAddr[d] # m /\ hwAddr[d] \in DOMAIN byHAddr
        <5>1. Accepted(d)
          BY <1>2, <1>3, <3>2, <4>1, <4>4 DEF Accepted, Registered
        <5>2. hwAddr[d] \in Macs
          BY <4>1, <4>4, <5>1 DEF CoreInv, IInv, AllClientsInv, ClientInv, AuthTracked, Accepted
        <5>3. remoteTable[hwAddr[d]] = d
          BY <4>1, <4>4, <5>1, <5>2 DEF CoreInv, IInv, TableInv, TableMatchesClients
        <5>4. hwAddr[d] # m
          BY <1>3, <1>6, <1>7, <1>8, <4>1, <5>2, <5>3, ServerAssumption DEF ServerAssumption
        <5> QED
          BY <4>1, <4>4, <5>1, <5>4 DEF TreeInv, TreeMatchesServer
      <4> QED
        BY <1>2, <1>21, <4>2, <4>3, <4>4
    <3> QED
      BY <3>1, <3>2
  <2>6. \A k \in history' :
           items'[byHAddr'[k]] = Row(NoClient, k, "Unconnected", "Unconnected")
    BY <1>15, <2>2 DEF TreeInv, TreeMatchesServer
  <2>7. button' = Label(serverState')
    BY <1>2 DEF TreeInv, TreeMatchesServer
  <2> QED
    BY <2>1, <2>2, <2>3, <2>4, <2>5, <2>6, <2>7, TreeByElementsNext
<1> QED
  BY <1>22, <1>23, <1>24 DEF TreeInv

\* Only the row of an address of the history can be removed, where a client is
\* found by its pointer.
LEMMA TreeForgets ==
  ASSUME CoreInv, TreeInv, LowIds = Clients, NEW p \in DOMAIN items, RemoveClient(p)
  PROVE  TreeInv'
<1> DEFINE m == items[p].mac
<1>1. /\ items' = Without(items, {p}) /\ byHAddr' = Without(byHAddr, {m})
      /\ managed' = managed /\ history' = history \ {m}
      /\ conn' = conn /\ authenticated' = authenticated /\ refused' = refused /\ hwAddr' = hwAddr
      /\ button' = button /\ serverState' = serverState
  BY DEF RemoveClient, HistoryRemove, serverVars, threadVars, peerVars
<1>2. \A c \in DOMAIN managed : managed[c] # p
  <2> SUFFICES ASSUME NEW c \in DOMAIN managed, managed[c] = p PROVE FALSE
    OBVIOUS
  <2>1. items[p].thread = c /\ c \in Clients /\ conn[c] # "Unconnected"
    BY DEF TreeInv, TreeMatchesServer
  <2>2. c \in threads
    BY <2>1 DEF CoreInv, IInv, AllClientsInv, ClientInv, WorkerClean
  <2>3. ClientFromId(items[p].thread) = c
    BY <2>1, <2>2 DEF ClientFromId
  <2>4. c = NoClient
    BY <2>3 DEF RemoveClient
  <2> QED
    BY <2>1, <2>4, ServerAssumption DEF ServerAssumption
<1>3. m \in history /\ byHAddr[m] = p
  <2>1. PICK k \in history : byHAddr[k] = p
    BY <1>2, RowsInTree
  <2>2. items[p] = Row(NoClient, k, "Unconnected", "Unconnected")
    BY <2>1 DEF TreeInv, TreeMatchesServer
  <2>3. items[p].mac = k
    BY <2>2 DEF Row
  <2> QED
    BY <2>1, <2>3
<1> HIDE DEF m
<1>4. \A k \in history : k # m => byHAddr[k] # p
  BY <1>3, OneOwner
<1>5. /\ DOMAIN items' = DOMAIN items \ {p}
      /\ \A q \in DOMAIN items' : items'[q] = items[q]
  BY <1>1 DEF Without
<1>6. /\ DOMAIN byHAddr' = DOMAIN byHAddr \ {m}
      /\ \A k \in DOMAIN byHAddr' : byHAddr'[k] = byHAddr[k]
  BY <1>1 DEF Without
<1>7. TreeTypes'
  <2>1. items' \in [DOMAIN items' -> TreeRows]
    BY <1>1 DEF Without, TreeInv, TreeTypes
  <2>2. byHAddr' \in [DOMAIN byHAddr' -> Pointers]
    BY <1>1 DEF Without, TreeInv, TreeTypes
  <2> QED
    BY <1>1, <1>6, <2>1, <2>2 DEF TreeInv, TreeTypes
<1>8. LocalHasNoMac'
  BY <1>1 DEF TreeInv, LocalHasNoMac
<1>9. TreeMatchesServer'
  <2>1. \A d : d \in DOMAIN managed' <=> d \in Clients /\ conn'[d] # "Unconnected"
    BY <1>1 DEF TreeInv, TreeMatchesServer
  <2>2. \A k \in history' : /\ k \in DOMAIN byHAddr' /\ byHAddr'[k] \in DOMAIN items'
                            /\ byHAddr'[k] = byHAddr[k] /\ k \in history
    BY <1>1, <1>4, <1>5, <1>6, RowsInTree
  <2>3. \A d \in DOMAIN managed' : managed'[d] \in DOMAIN items'
    BY <1>1, <1>2, <1>5, RowsInTree
  <2>4. \A q \in DOMAIN items' : \/ \E d \in DOMAIN managed' : managed'[d] = q
                                 \/ \E k \in history' : byHAddr'[k] = q
    <3> SUFFICES ASSUME NEW q \in DOMAIN items'
                 PROVE  \/ \E d \in DOMAIN managed' : managed'[d] = q
                        \/ \E k \in history' : byHAddr'[k] = q
      OBVIOUS
    <3>1. q \in DOMAIN items /\ q # p
      BY <1>5
    <3>2. ASSUME NEW k \in history, byHAddr[k] = q PROVE byHAddr'[k] = q /\ k \in history'
      <4>1. k # m
        BY <1>3, <3>1, <3>2
      <4>2. k \in history'
        BY <1>1, <4>1
      <4> QED
        BY <2>2, <3>2, <4>2
    <3> QED
      BY <1>1, <3>1, <3>2, RowsInTree
  <2>5. ASSUME NEW d \in DOMAIN managed'
        PROVE  /\ items'[managed'[d]].thread = d
               /\ Accepted(d)' /\ IsRemote(d) => /\ items'[managed'[d]].mac = hwAddr'[d]
                                                 /\ hwAddr'[d] \in DOMAIN byHAddr'
                                                 /\ byHAddr'[hwAddr'[d]] = managed'[d]
    <3>1. d \in DOMAIN managed /\ items'[managed'[d]] = items[managed[d]] /\ managed[d] # p
      BY <1>1, <1>2, <1>5, <2>3
    <3>2. Accepted(d)' => Accepted(d)
      BY <1>1 DEF Accepted, Registered
    <3>3. Accepted(d) /\ IsRemote(d) => /\ hwAddr[d] \in DOMAIN byHAddr
                                        /\ byHAddr[hwAddr[d]] = managed[d]
      BY <3>1 DEF TreeInv, TreeMatchesServer
    <3>4. Accepted(d) /\ IsRemote(d) => hwAddr[d] # m
      BY <1>3, <3>1, <3>3
    <3> QED
      BY <1>1, <1>6, <3>1, <3>2, <3>3, <3>4 DEF TreeInv, TreeMatchesServer
  <2>6. \A k \in history' :
           items'[byHAddr'[k]] = Row(NoClient, k, "Unconnected", "Unconnected")
    BY <1>5, <2>2 DEF TreeInv, TreeMatchesServer
  <2>7. button' = Label(serverState')
    BY <1>1 DEF TreeInv, TreeMatchesServer
  <2> QED
    BY <2>1, <2>2, <2>3, <2>4, <2>5, <2>6, <2>7, TreeByElementsNext
<1> QED
  BY <1>7, <1>8, <1>9 DEF TreeInv

\* A finite set is numbered from 1, each member once.
LEMMA RowsNumber ==
  ASSUME NEW S, S \subseteq Macs
  PROVE  /\ DOMAIN Rows(S) \subseteq Pointers
         /\ \A p \in DOMAIN Rows(S) : Rows(S)[p] \in S
         /\ \A m \in S : \E p \in DOMAIN Rows(S) : Rows(S)[p] = m
         /\ \A p, q \in DOMAIN Rows(S) : Rows(S)[p] = Rows(S)[q] => p = q
<1> DEFINE I == 1 .. Cardinality(S)
           f == Rows(S)
<1>1. IsFiniteSet(S) /\ Cardinality(S) <= Cardinality(Macs)
  BY ViewAssumption, FS_Subset DEF ViewAssumption
<1>2. Cardinality(S) \in Nat /\ ExistsBijection(I, S)
  BY <1>1, FS_CardinalityType
<1>3. \E g \in [I -> S] : IsInjective(g)
  BY <1>2 DEF ExistsBijection, Bijection, Injection
<1>4. f \in [I -> S] /\ IsInjective(f)
  BY <1>3 DEF Rows
<1>5. IsFiniteSet(I) /\ Cardinality(I) = Cardinality(S)
  <2> DEFINE n == Cardinality(S)
  <2> HIDE DEF n
  <2>1. n \in Nat => IsFiniteSet(1 .. n) /\ Cardinality(1 .. n) = IF 1 > n THEN 0 ELSE n - 1 + 1
    BY FS_Interval
  <2>2. n \in Nat => Cardinality(1 .. n) = n
    BY <2>1
  <2> QED
    BY <1>2, <2>1, <2>2 DEF n
<1>6. f \in Injection(I, S)
  BY <1>4 DEF Injection
<1> HIDE DEF f
<1>7. f \in Surjection(I, S)
  <2> HIDE DEF I
  <2> QED
    BY <1>1, <1>5, <1>6, FS_Injection
<1>8. \A m \in S : \E p \in I : f[p] = m
  BY <1>7 DEF Surjection
<1>9. I \subseteq Pointers
  <2>1. Cardinality(Macs) \in Nat /\ Cardinality(Clients) \in Nat
    BY ViewAssumption, FS_CardinalityType DEF ViewAssumption
  <2> QED
    BY <1>1, <1>2, <2>1 DEF Pointers
<1>10. DOMAIN f = I
  BY <1>4
<1>11. \A p, q \in I : f[p] = f[q] => p = q
  BY <1>4, <1>10 DEF IsInjective
<1> QED
  BY <1>4, <1>8, <1>9, <1>10, <1>11 DEF f

\* A program that starts has a row for each address of its history.
LEMMA TreeStarts ==
  ASSUME CoreInv, TreeInv, Start
  PROVE  TreeInv'
<1>1. Init /\ DOMAIN managed = {} /\ button = "Connect"
  BY DEF CoreInv, IdleWhenGone, Start
<1>2. history' \subseteq Macs
  BY LoadedMacs DEF Start, CoreInv
<1>3. PICK rows : rows = Rows(history')
  OBVIOUS
<1>4. /\ items' = [p \in DOMAIN rows |-> NewRow(rows[p])]
      /\ byHAddr' = [m \in history' |-> CHOOSE p \in DOMAIN rows : rows[p] = m]
      /\ managed' = managed
      /\ conn' = conn /\ authenticated' = authenticated /\ refused' = refused /\ hwAddr' = hwAddr
  BY <1>3 DEF Start, threadVars, peerVars
<1>5. /\ DOMAIN rows \subseteq Pointers
      /\ \A p \in DOMAIN rows : rows[p] \in history'
      /\ \A m \in history' : \E p \in DOMAIN rows : rows[p] = m
      /\ \A p, q \in DOMAIN rows : rows[p] = rows[q] => p = q
  BY <1>2, <1>3, RowsNumber
<1>6. ASSUME NEW p \in DOMAIN rows
      PROVE  /\ items'[p] = Row(NoClient, rows[p], "Unconnected", "Unconnected")
             /\ items'[p] \in TreeRows
             /\ byHAddr'[rows[p]] = p
  <2>1. Row(NoClient, rows[p], "Unknown", "Unknown") \in TreeRows
    BY <1>2, <1>5 DEF Row, TreeRows
  <2>2. Row(NoClient, rows[p], "Unknown", "Unknown").mac = rows[p]
    BY DEF Row
  <2>3. items'[p] = Row(NoClient, rows[p], "Unconnected", "Unconnected")
    BY <1>4, <2>1, <2>2, UnsetRow DEF NewRow
  <2>4. items'[p] \in TreeRows
    BY <1>2, <1>5, <2>3 DEF Row, TreeRows
  <2> QED
    BY <1>4, <1>5, <2>3, <2>4
<1>7. \A m \in history' : byHAddr'[m] \in DOMAIN rows /\ rows[byHAddr'[m]] = m
  BY <1>4, <1>5
<1>8. button' = Label(serverState')
  <2>1. serverState = "Closed"
    BY <1>1 DEF Init
  <2> QED
    BY <1>1, <2>1 DEF Start, AutoConnect, ShowServerState, Label
<1>9. TreeTypes'
  <2>1. items' \in [DOMAIN items' -> TreeRows]
    BY <1>4, <1>6
  <2>2. byHAddr' \in [DOMAIN byHAddr' -> Pointers] /\ DOMAIN byHAddr' \subseteq Macs \cup {NoMac}
    BY <1>2, <1>4, <1>5, <1>7
  <2> QED
    BY <1>4, <2>1, <2>2 DEF TreeTypes, TreeInv
<1>10. LocalHasNoMac'
  BY <1>4 DEF TreeInv, LocalHasNoMac
<1>11. TreeMatchesServer'
  <2>1. \A d : d \in DOMAIN managed' <=> d \in Clients /\ conn'[d] # "Unconnected"
    BY <1>4 DEF TreeInv, TreeMatchesServer
  <2>2. DOMAIN items' = DOMAIN rows /\ DOMAIN byHAddr' = history' /\ DOMAIN managed' = {}
    BY <1>1, <1>4
  <2>3. \A k \in history' : k \in DOMAIN byHAddr' /\ byHAddr'[k] \in DOMAIN items'
    BY <1>7, <2>2
  <2>4. \A q \in DOMAIN items' : \/ \E d \in DOMAIN managed' : managed'[d] = q
                                 \/ \E k \in history' : byHAddr'[k] = q
    <3> SUFFICES ASSUME NEW q \in DOMAIN rows PROVE \E k \in history' : byHAddr'[k] = q
      BY <2>2
    <3>1. rows[q] \in history' /\ byHAddr'[rows[q]] = q
      BY <1>5, <1>6
    <3> QED
      BY <3>1
  <2>5. \A k \in history' :
           items'[byHAddr'[k]] = Row(NoClient, k, "Unconnected", "Unconnected")
    BY <1>6, <1>7
  <2> QED
    BY <1>8, <2>1, <2>2, <2>3, <2>4, <2>5, TreeByElementsNext
<1> QED
  BY <1>9, <1>10, <1>11 DEF TreeInv

\* The tree of a program that is not running is empty.
NewProgram ==
    Init /\ items = <<>> /\ managed = <<>> /\ byHAddr = <<>> /\ button = "Connect"

LEMMA TreeInit == NewProgram => TreeInv
<1> SUFFICES ASSUME NewProgram PROVE TreeInv
  OBVIOUS
<1> USE DEF NewProgram
<1>1. /\ history = {} /\ serverState = "Closed"
      /\ conn = [c \in Clients |-> "Unconnected"] /\ hwAddr = [c \in Clients |-> NoMac]
  BY DEF Init
<1>2. TreeTypes
  <2>1. \A S : <<>> \in [{} -> S]
    OBVIOUS
  <2> QED
    BY <2>1 DEF TreeTypes
<1>3. LocalHasNoMac
  BY <1>1, ServerAssumption DEF LocalHasNoMac, ServerAssumption
<1>4. Range(managed) = {}
  BY DEF Range
<1>5. TreeMatchesServer
  BY <1>1, <1>4 DEF TreeMatchesServer, Label
<1> QED
  BY <1>2, <1>3, <1>5 DEF TreeInv

LEMMA TreeInitNext == NewProgram' => TreeInv'
  BY TreeInit, PTL

LEMMA TreeNext ==
  ASSUME CoreInv, TreeInv, LowIds = Clients, [ViewNext]_allVars
  PROVE  TreeInv'
<1>1. CASE UNCHANGED allVars
  <2>1. /\ UNCHANGED <<items, managed, byHAddr, history, threadVars, hwAddr>>
        /\ UNCHANGED <<button, serverState>>
    BY <1>1 DEF allVars, vars, serverVars, tableVars, peerVars, viewVars, treeVars
  <2>2. button' = Label(serverState')
    BY <2>1 DEF TreeInv, TreeMatchesServer
  <2> QED
    BY <2>1, <2>2, TreeAside
<1>2. ASSUME ClickConnect \/ ClickDisconnect PROVE TreeInv'
  <2>1. UNCHANGED <<items, managed, byHAddr, history, threadVars, hwAddr>>
    BY <1>2 DEF ClickConnect, ClickDisconnect, Listen, Close, treeVars, tableVars, peerVars
  <2>2. button' = Label(serverState')
    BY <1>2, ButtonFollows DEF ClickConnect, ClickDisconnect
  <2> QED
    BY <2>1, <2>2, TreeAside
<1>3. ASSUME CloseWindow PROVE TreeInv'
  <2>1. UNCHANGED <<items, managed, byHAddr, history, threadVars, hwAddr>>
    BY <1>3 DEF CloseWindow, Close, vars, treeVars, tableVars, peerVars
  <2>2. button' = Label(serverState')
    <3>1. CASE serverState = "Closed"
      <4>1. button' = button /\ serverState' = serverState
        BY <1>3, <3>1 DEF CloseWindow, vars, serverVars
      <4> QED
        BY <4>1 DEF TreeInv, TreeMatchesServer
    <3>2. CASE serverState # "Closed"
      BY <1>3, <3>2, ButtonFollows DEF CloseWindow
    <3> QED
      BY <3>1, <3>2
  <2> QED
    BY <2>1, <2>2, TreeAside
<1>4. ASSUME NEW p \in DOMAIN items, ForceToDisconnect(p) PROVE TreeInv'
  <2>1. /\ UNCHANGED <<items, managed, byHAddr, history, threadVars, hwAddr>>
        /\ UNCHANGED <<button, serverState>>
    BY <1>4 DEF ForceToDisconnect, viewVars, treeVars, tableVars, peerVars, serverVars
  <2>2. button' = Label(serverState')
    BY <2>1 DEF TreeInv, TreeMatchesServer
  <2> QED
    BY <2>1, <2>2, TreeAside
<1>5. ASSUME NEW p \in DOMAIN items, RemoveClient(p) PROVE TreeInv'
  BY <1>5, TreeForgets
<1>6. ASSUME Start PROVE TreeInv'
  BY <1>6, TreeStarts
<1>7. ASSUME Exit \/ Killed PROVE TreeInv'
  <2>1. Ended
    BY <1>7 DEF Exit, Killed
  <2>2. NewProgram'
    BY <2>1, EndedIsInit DEF NewProgram, Ended
  <2> QED
    BY <2>2, TreeInitNext
<1>8. ASSUME DeleteFile PROVE TreeInv'
  <2>1. /\ UNCHANGED <<items, managed, byHAddr, history, threadVars, hwAddr>>
        /\ UNCHANGED <<button, serverState>>
    BY <1>8 DEF DeleteFile, vars, treeVars, tableVars, peerVars, serverVars
  <2>2. button' = Label(serverState')
    BY <2>1 DEF TreeInv, TreeMatchesServer
  <2> QED
    BY <2>1, <2>2, TreeAside
<1>9. ASSUME NEW c \in Clients, NetworkV(c) \/ WorkerV(c) PROVE TreeInv'
  BY <1>9, TreeWorker
<1>10. ASSUME NEW c \in Clients, MainV(c) PROVE TreeInv'
  BY <1>10, TreeConnected, TreeClosing, TreeAccepted, TreeDisconnected, TreeAsideMain DEF MainV
<1> QED
  BY <1>1, <1>2, <1>3, <1>4, <1>5, <1>6, <1>7, <1>8, <1>9, <1>10 DEF ViewNext, User, Program

\* The tree is an image of the server and its history, in every state: each
\* client and each address has its row, no other row is left, and no pointer
\* that will be followed leads to a row that was deleted.  Clients are found by
\* pointers that fit an unsigned int; with LowIds smaller than Clients the row
\* of a connected client can be removed.
THEOREM TreeIsImage == ASSUME LowIds = Clients PROVE ViewSpec => []TreeMatchesServer
<1>1. ViewInit => TreeInv
  BY TreeInit DEF ViewInit, NewProgram
<1>2. CoreInv /\ TreeInv /\ [ViewNext]_allVars => TreeInv'
  BY TreeNext
<1>3. TreeInv => TreeMatchesServer
  BY DEF TreeInv
<1> QED
  BY <1>1, <1>2, <1>3, CoreInductive, PTL DEF ViewSpec
=============================================================================
