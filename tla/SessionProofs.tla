---------------------------- MODULE SessionProofs ----------------------------
(***************************************************************************)
(* Proofs about Session, for every list of servers, priority and setting.  *)
(***************************************************************************)
EXTENDS Session, FiniteSetTheorems, SequenceTheorems, TLAPS

USE SessionAssumption

LEMMA NoServerFact == \A s \in Servers : s # NoServer
BY DEF SessionAssumption

-----------------------------------------------------------------------------
(* The state of the client, as the operators take and return it.            *)

ClientStates == [socket : SocketStates, conn : ConnStates,
                 server : Servers \cup {NoServer}, notices : Seq(ConnStates)]

\* A closing socket is closed at once: the state
\* MCClient keeps then follows from the socket and the handshake.
Agrees(c) ==
    /\ c.socket \in {"Unconnected", "Connecting", "Connected"}
    /\ c.socket = "Unconnected" => c.conn = "Unconnected"
    /\ c.socket = "Connecting" => c.conn = "Connecting"
    /\ c.socket = "Connected" => c.conn \in {"Connecting", "Connected"}

\* The last notice, or what the window shows, is the state.
Follows(c, sh) == c.conn = IF c.notices = <<>> THEN sh ELSE c.notices[Len(c.notices)]

Good(c, sh) == c \in ClientStates /\ Agrees(c) /\ Follows(c, sh)

\* d comes after c: its notices are those of c and more.
Grows(c, d) ==
    /\ \A s \in ConnStates : s \in ToSet(c.notices) => s \in ToSet(d.notices)
    /\ Len(c.notices) <= Len(d.notices)

LEMMA AppendSet ==
    ASSUME NEW s \in Seq(ConnStates), NEW x \in ConnStates
    PROVE  /\ Append(s, x) \in Seq(ConnStates) /\ Len(Append(s, x)) = Len(s) + 1
           /\ Append(s, x) # <<>> /\ Append(s, x)[Len(s) + 1] = x
           /\ ToSet(Append(s, x)) = ToSet(s) \cup {x}
<1>1. /\ Append(s, x) \in Seq(ConnStates) /\ Len(Append(s, x)) = Len(s) + 1
      /\ Append(s, x) # <<>> /\ Append(s, x)[Len(s) + 1] = x
      /\ \A i \in 1 .. Len(s) : Append(s, x)[i] = s[i]
    BY AppendProperties
<1>2. Len(s) \in Nat /\ DOMAIN s = 1 .. Len(s) /\ DOMAIN Append(s, x) = 1 .. Len(s) + 1
    BY <1>1, LenProperties
<1>3. ToSet(Append(s, x)) = ToSet(s) \cup {x}
    BY <1>1, <1>2 DEF ToSet
<1> QED
    BY <1>1, <1>3

LEMMA SetConnFacts ==
    ASSUME NEW c \in ClientStates, NEW sh, Follows(c, sh), NEW s \in ConnStates
    PROVE  LET d == SetConn(c, s) IN
           /\ d \in ClientStates /\ Follows(d, sh) /\ Grows(c, d)
           /\ d.conn = s /\ d.socket = c.socket /\ d.server = c.server
           /\ c.conn # s => s \in ToSet(d.notices) /\ d.notices # <<>>
           /\ Len(d.notices) \in Nat
<1> DEFINE d == SetConn(c, s)
<1>1. c.notices \in Seq(ConnStates)
    BY DEF ClientStates
<1>2. CASE s = c.conn
    BY <1>1, <1>2, LenProperties DEF SetConn, Grows
<1>3. CASE s # c.conn
  <2>1. /\ d \in ClientStates /\ d.conn = s /\ d.socket = c.socket /\ d.server = c.server
        /\ d.notices = Append(c.notices, s)
      BY <1>1, <1>3, AppendSet DEF SetConn, ClientStates
  <2>2. Len(c.notices) \in Nat
      BY <1>1, LenProperties
  <2> HIDE DEF d
  <2>3. Follows(d, sh)
      BY <1>1, <2>1, <2>2, AppendSet DEF Follows
  <2>4. Grows(c, d)
      BY <1>1, <2>1, <2>2, AppendSet DEF Grows
  <2>5. s \in ToSet(d.notices) /\ d.notices # <<>> /\ Len(d.notices) \in Nat
      BY <1>1, <2>1, <2>2, AppendSet
  <2> QED
      BY <2>1, <2>3, <2>4, <2>5 DEF d
<1> QED
    BY <1>2, <1>3

LEMMA GrowsTransitive ==
    ASSUME NEW b \in ClientStates, NEW c \in ClientStates, NEW d \in ClientStates,
           Grows(b, c), Grows(c, d)
    PROVE  Grows(b, d)
<1>1. Len(b.notices) \in Nat /\ Len(c.notices) \in Nat /\ Len(d.notices) \in Nat
    BY LenProperties DEF ClientStates
<1> QED
    BY <1>1 DEF Grows

LEMMA SetSocketFacts ==
    ASSUME NEW c \in ClientStates, NEW sh, Follows(c, sh), NEW s \in SocketStates
    PROVE  LET d == SetSocket(c, s) IN
           /\ d \in ClientStates /\ Follows(d, sh) /\ Grows(c, d)
           /\ d.conn = Translate(s) /\ d.socket = s /\ d.server = c.server
           /\ c.conn # d.conn => d.conn \in ToSet(d.notices) /\ d.notices # <<>>
           /\ Len(d.notices) \in Nat
<1> DEFINE b == [c EXCEPT !.socket = s]
<1>1. b \in ClientStates /\ b.conn = c.conn /\ b.server = c.server /\ b.notices = c.notices
      /\ b.socket = s
    BY DEF ClientStates
<1>2. Follows(b, sh) /\ Translate(s) \in ConnStates
    BY <1>1 DEF Follows, Translate, SocketStates, ConnStates
<1>3. SetSocket(c, s) = SetConn(b, Translate(s))
    BY DEF SetSocket
<1> HIDE DEF b
<1>4. LET d == SetConn(b, Translate(s)) IN
      /\ d \in ClientStates /\ Follows(d, sh) /\ Grows(b, d)
      /\ d.conn = Translate(s) /\ d.socket = s /\ d.server = c.server
      /\ c.conn # Translate(s) => Translate(s) \in ToSet(d.notices) /\ d.notices # <<>>
      /\ Len(d.notices) \in Nat
    BY <1>1, <1>2, SetConnFacts
<1>5. \A d : Grows(b, d) => Grows(c, d)
    BY <1>1 DEF Grows
<1> QED
    BY <1>3, <1>4, <1>5

LEMMA GoodSocket ==
    ASSUME NEW c, NEW sh, Good(c, sh), NEW s \in {"Unconnected", "Connecting", "Connected"}
    PROVE  Good(SetSocket(c, s), sh) /\ Grows(c, SetSocket(c, s))
<1>1. c \in ClientStates /\ Follows(c, sh) /\ s \in SocketStates
    BY DEF Good, SocketStates
<1> QED
    BY <1>1, SetSocketFacts DEF Good, Agrees, Translate

\* An established connection goes through Closing.
LEMMA GoodLoss ==
    ASSUME NEW c, NEW sh, Good(c, sh)
    PROVE  LET d == Unconnect(SetSocket(c, "Closing")) IN
           /\ Good(d, sh) /\ Grows(c, d) /\ d.socket = "Unconnected" /\ d.server = c.server
           /\ "Unconnected" \in ToSet(d.notices) /\ d.notices # <<>>
<1> DEFINE b == SetSocket(c, "Closing")
           d == SetSocket(b, "Unconnected")
<1>1. c \in ClientStates /\ Follows(c, sh)
    BY DEF Good
<1>2. /\ b \in ClientStates /\ Follows(b, sh) /\ Grows(c, b)
      /\ b.conn = "Closing" /\ b.server = c.server
    BY <1>1, SetSocketFacts DEF SocketStates, Translate
<1> HIDE DEF b
<1>3. /\ d \in ClientStates /\ Follows(d, sh) /\ Grows(b, d)
      /\ d.conn = "Unconnected" /\ d.socket = "Unconnected" /\ d.server = b.server
      /\ b.conn # d.conn => d.conn \in ToSet(d.notices) /\ d.notices # <<>>
    BY <1>2, SetSocketFacts DEF SocketStates, Translate
<1> HIDE DEF d
<1>4. Grows(c, d)
    BY <1>1, <1>2, <1>3, GrowsTransitive
<1>5. Unconnect(b) = d
    BY DEF Unconnect, d
<1> QED
    BY <1>2, <1>3, <1>4, <1>5 DEF Good, Agrees, b

LEMMA DisconnectedFacts ==
    ASSUME NEW c, NEW sh, Good(c, sh), NEW d, d = Disconnected(c)
    PROVE  /\ Good(d, sh) /\ Grows(c, d)
           /\ d.socket = "Unconnected" /\ d.conn = "Unconnected" /\ d.server = c.server
           /\ c.conn # "Unconnected" => "Unconnected" \in ToSet(d.notices) /\ d.notices # <<>>
<1>1. c \in ClientStates /\ Agrees(c) /\ Follows(c, sh) /\ Len(c.notices) \in Nat
    BY LenProperties DEF Good, ClientStates
<1>2. CASE c.socket = "Unconnected"
  <2>1. d = c
      BY <1>2 DEF Disconnected
  <2> QED
      BY <1>1, <1>2, <2>1 DEF Agrees, Grows
<1>3. CASE c.socket = "Connecting"
  <2>1. d = SetSocket(c, "Unconnected")
      BY <1>3 DEF Disconnected, Unconnect
  <2>2. Good(d, sh) /\ Grows(c, d)
      BY <2>1, GoodSocket
  <2>3. /\ d.conn = "Unconnected" /\ d.socket = "Unconnected" /\ d.server = c.server
        /\ c.conn # d.conn => d.conn \in ToSet(d.notices) /\ d.notices # <<>>
      BY <1>1, <2>1, SetSocketFacts DEF SocketStates, Translate
  <2> QED
      BY <2>2, <2>3
<1>4. CASE c.socket = "Connected"
  <2>1. d = Unconnect(SetSocket(c, "Closing"))
      BY <1>4 DEF Disconnected
  <2> QED
      BY <2>1, GoodLoss DEF Good, Agrees
<1> QED
    BY <1>1, <1>2, <1>3, <1>4 DEF Agrees

LEMMA ConnectFacts ==
    ASSUME NEW c, NEW sh, Good(c, sh), NEW s \in Servers, NEW d, d = ConnectToHost(c, s)
    PROVE  /\ Good(d, sh) /\ Grows(c, d) /\ d.conn = "Connecting" /\ d.notices # <<>>
           /\ d.server = s
<1>1. PICK b : b = Disconnected(c) /\ d = Attempt(b, s)
    BY DEF ConnectToHost
<1>2. Good(b, sh) /\ Grows(c, b) /\ b.socket = "Unconnected" /\ b.conn = "Unconnected"
    BY <1>1, DisconnectedFacts
<1> DEFINE a == [b EXCEPT !.conn = "Unconnected", !.server = s]
<1>3. /\ a \in ClientStates /\ a.socket = "Unconnected" /\ a.conn = "Unconnected"
      /\ a.notices = b.notices /\ a.server = s
    BY <1>2 DEF Good, ClientStates, ConnStates
<1>4. d = SetSocket(a, "Connecting")
    BY <1>1, <1>2 DEF Attempt
<1>5. Follows(a, sh)
    BY <1>2, <1>3 DEF Good, Follows
<1>6. Grows(b, a) /\ Grows(c, a)
  <2>1. b \in ClientStates /\ c \in ClientStates /\ Len(b.notices) \in Nat
      BY <1>2, LenProperties DEF Good, ClientStates
  <2>2. Grows(b, a)
      BY <1>3, <2>1 DEF Grows
  <2> HIDE DEF a
  <2> QED
      BY <1>2, <1>3, <2>1, <2>2, GrowsTransitive
<1> HIDE DEF a
<1>7. /\ d \in ClientStates /\ Follows(d, sh) /\ Grows(a, d)
      /\ d.conn = "Connecting" /\ d.socket = "Connecting" /\ d.notices # <<>>
      /\ d.server = s
    BY <1>3, <1>4, <1>5, SetSocketFacts DEF SocketStates, Translate
<1>8. Grows(c, d)
    BY <1>3, <1>6, <1>7, GrowsTransitive DEF Good
<1> QED
    BY <1>7, <1>8 DEF Good, Agrees

-----------------------------------------------------------------------------
(* The list of servers and its rows. *)

LEMMA InfoFacts ==
    /\ NewInfo \in Info
    /\ \A info \in Info : RowOf(info) = info /\ Read(Written(info)) = info
    /\ \A info \in Info, n \in Users : Updated(info, n) \in Info
    /\ \A info \in Info, p \in Priorities : [info EXCEPT !.priority = p] \in Info
BY DEF NewInfo, Info, RowOf, Read, Written, Updated

LEMMA InfoListFacts ==
    /\ \A f : f \in InfoLists <=> f \in [DOMAIN f -> Info] /\ DOMAIN f \subseteq Servers
    /\ \A f \in InfoLists : /\ DOMAIN f \subseteq Servers
                            /\ \A s \in DOMAIN f : f[s] \in Info
                            /\ f = [s \in DOMAIN f |-> f[s]]
BY DEF InfoLists

LEMMA PutType ==
    ASSUME NEW f \in InfoLists, NEW s \in Servers, NEW info \in Info
    PROVE  Put(f, s, info) \in InfoLists
BY InfoListFacts DEF Put

LEMMA WithoutType ==
    ASSUME NEW f \in InfoLists, NEW S
    PROVE  Without(f, S) \in InfoLists
BY InfoListFacts DEF Without

LEMMA FileFacts ==
    ASSUME NEW infos \in InfoLists
    PROVE  FileOf(infos) \in Files
BY DEF Files

LEMMA LoadedFacts ==
    ASSUME file \in Files
    PROVE  Loaded \in InfoLists
<1>1. CASE file.kind # "list"
  <2>1. <<>> \in [{} -> Info]
      OBVIOUS
  <2> QED
      BY <1>1, <2>1 DEF Loaded, InfoLists
<1>2. CASE file.kind = "list"
  <2>1. PICK infos \in InfoLists : file = FileOf(infos)
      BY <1>2 DEF Files, NoFile, Torn
  <2>2. file.list = [s \in DOMAIN infos |-> Written(infos[s])]
      BY <2>1 DEF FileOf
  <2>3. Loaded = [s \in DOMAIN infos |-> infos[s]]
      BY <1>2, <2>2, InfoFacts, InfoListFacts DEF Loaded
  <2> QED
      BY <2>3, InfoListFacts
<1> QED
    BY <1>1, <1>2

LEMMA SortedFacts ==
    ASSUME list \in InfoLists, NEW q \in SortedLists
    PROVE  /\ q \in Seq(Servers)
           /\ InList # {} => q # <<>>
<1>1. InList \subseteq Servers /\ IsFiniteSet(InList)
    BY InfoListFacts, FS_Subset DEF InList
<1>2. Cardinality(InList) \in Nat /\ (Cardinality(InList) = 0 <=> InList = {})
    BY <1>1, FS_CardinalityType, FS_EmptySet
<1>3. q \in [1 .. Cardinality(InList) -> InList]
    BY DEF SortedLists, SetToSeqs
<1>4. q \in Seq(InList)
    BY <1>2, <1>3
<1>5. q \in Seq(Servers)
    BY <1>1, <1>4, SeqMonotonic
<1>6. Len(q) = Cardinality(InList)
    BY <1>2, <1>3
<1> QED
    BY <1>2, <1>4, <1>5, <1>6, EmptySeq

LEMMA HeadTailServers ==
    ASSUME NEW q \in Seq(Servers), q # <<>>
    PROVE  Head(q) \in Servers /\ Tail(q) \in Seq(Servers)
BY HeadTailProperties

-----------------------------------------------------------------------------
(* The invariant, and what a step has to show to keep it. *)

Due(b, c)      == b => c.conn # "Unconnected" \/ "Unconnected" \in ToSet(c.notices)
Ready(c, p, q) == c.conn = "Connected" /\ c.notices = <<>> => p /\ q # <<>> /\ Head(q) = c.server

\* Nothing happens to a client without a server.
Known(c) == c.server = NoServer => c.notices = <<>> /\ c.conn = "Unconnected"

SessionInv ==
    /\ TypeOK
    /\ Good(Now, shown) /\ Known(Now)
    /\ rows = list
    /\ Due(cancel, Now)
    /\ Ready(Now, previously, toConnect)

\* All variables but those of the client.
Others(lst, rws, fil, run, pss, toc, prev, canc, shn, enab) ==
    /\ lst \in InfoLists /\ rws = lst /\ fil \in Files /\ run \in BOOLEAN
    /\ toc \in Seq(Servers)
    /\ prev \in BOOLEAN /\ canc \in BOOLEAN /\ enab \in BOOLEAN /\ shn \in ConnStates

LEMMA NowFacts ==
    /\ Now.socket = socket /\ Now.conn = conn /\ Now.server = server /\ Now.notices = notices
    /\ TypeOK => Now \in ClientStates
BY DEF Now, TypeOK, ClientStates

LEMMA KeepsInv ==
    ASSUME NEW d, Become(d), Good(d, shown'), Known(d),
           Others(list', rows', file', running', pass', toConnect', previously', cancel', shown', enabled'),
           pass' \in 0 .. Len(d.notices),
           Due(cancel', d), Ready(d, previously', toConnect')
    PROVE  SessionInv'
<1>1. d \in ClientStates
    BY DEF Good
<1>2. /\ socket' = d.socket /\ conn' = d.conn /\ server' = d.server /\ notices' = d.notices
    BY DEF Become
<1>3. Now' = d
  <2>1. d = [socket |-> d.socket, conn |-> d.conn, server |-> d.server, notices |-> d.notices]
      BY <1>1 DEF ClientStates
  <2> QED
      BY <1>2, <2>1 DEF Now
<1>4. TypeOK'
  <2>1. /\ socket' \in SocketStates /\ conn' \in ConnStates
        /\ server' \in Servers \cup {NoServer} /\ notices' \in Seq(ConnStates)
      BY <1>1, <1>2 DEF ClientStates
  <2> QED
      BY <1>2, <2>1 DEF TypeOK, Others
<1>5. Good(Now, shown)' /\ Known(Now)'
    BY <1>3 DEF Good, Agrees, Follows, Known
<1>6. Due(cancel, Now)' /\ Ready(Now, previously, toConnect)'
    BY <1>3 DEF Due, Ready, ToSet
<1> QED
    BY <1>4, <1>5, <1>6 DEF SessionInv, Others

LEMMA OthersNow ==
    SessionInv => Others(list, rows, file, running, pass, toConnect, previously, cancel, shown, enabled)
BY DEF SessionInv, TypeOK, Others

\* A step that tells the window something, or nothing, and changes no more.
LEMMA ToldKeeps ==
    ASSUME SessionInv, NEW d, Become(d), Good(d, shown), Known(d), Grows(Now, d),
           Others(list', rows', file', running', pass', toConnect', previously', cancel', shown', enabled'),
           UNCHANGED <<pass, shown>>, Due(cancel', d), Ready(d, previously', toConnect')
    PROVE  SessionInv'
<1>1. pass \in 0 .. Len(Now.notices) /\ Len(Now.notices) <= Len(d.notices)
    BY NowFacts DEF SessionInv, TypeOK, Grows
<1>2. Len(d.notices) \in Nat /\ Len(Now.notices) \in Nat
    BY LenProperties, NowFacts DEF Good, ClientStates, SessionInv
<1>3. pass' \in 0 .. Len(d.notices)
    BY <1>1, <1>2
<1>4. Good(d, shown')
    BY DEF Good, Follows
<1> QED
    BY <1>3, <1>4, KeepsInv

LEMMA DueGrows ==
    ASSUME NEW c, NEW d, NEW b, Due(b, c), Grows(c, d), d.conn # "Unconnected" \/ d.conn = c.conn
    PROVE  Due(b, d)
BY DEF Due, Grows, ConnStates

-----------------------------------------------------------------------------
(* Steps of the network. *)

LEMMA NetworkKeeps == SessionInv /\ Network => SessionInv'
<1> SUFFICES ASSUME SessionInv, Network PROVE SessionInv'
    OBVIOUS
<1> USE NowFacts
<1>1. Good(Now, shown) /\ Now \in ClientStates
    BY DEF SessionInv
<1>2. /\ Follows(Now, shown) /\ Due(cancel, Now) /\ Agrees(Now) /\ Known(Now)
      /\ conn # "Unconnected" => server # NoServer
    BY <1>1 DEF Good, SessionInv, Known
<1>3. ASSUME SocketConnects PROVE SessionInv'
  <2> DEFINE d == SetSocket(Now, "Connected")
  <2>1. Good(d, shown) /\ Grows(Now, d) /\ d.conn = "Connecting" /\ d.server = server
      BY <1>1, <1>2, GoodSocket, SetSocketFacts DEF SocketStates, Translate
  <2>4. Known(d)
      BY <1>2, <1>3, <2>1 DEF SocketConnects, Agrees, Known
  <2>2. Become(d) /\ UNCHANGED <<listVars, running, pass, windowVars>>
      BY <1>3 DEF SocketConnects
  <2> HIDE DEF d
  <2>3. Due(cancel, d) /\ Ready(d, previously, toConnect)
      BY <1>2, <2>1, DueGrows DEF Ready
  <2> QED
      BY <2>1, <2>2, <2>3, <2>4, ToldKeeps, OthersNow DEF listVars, windowVars
<1>4. ASSUME AttemptFails PROVE SessionInv'
  <2> DEFINE d == SetSocket(Now, "Unconnected")
  <2>1. /\ Good(d, shown) /\ Grows(Now, d) /\ d.conn = "Unconnected"
        /\ "Unconnected" \in ToSet(d.notices) /\ Known(d)
    <3>1. conn = "Connecting"
        BY <1>2, <1>4 DEF AttemptFails, Agrees
    <3> QED
        BY <1>1, <1>2, <3>1, GoodSocket, SetSocketFacts DEF SocketStates, Translate, Known
  <2>2. Become(d) /\ UNCHANGED <<listVars, running, pass, windowVars>>
      BY <1>4 DEF AttemptFails, Unconnect
  <2> HIDE DEF d
  <2>4. Known(d)
      BY <2>1
  <2>3. Due(cancel, d) /\ Ready(d, previously, toConnect)
      BY <2>1 DEF Ready, Due
  <2> QED
      BY <2>1, <2>2, <2>3, <2>4, ToldKeeps, OthersNow DEF listVars, windowVars
<1>5. ASSUME HandShakeReceived PROVE SessionInv'
  <2> DEFINE d == SetConn(Now, "Connected")
  <2>1. /\ d \in ClientStates /\ Follows(d, shown) /\ Grows(Now, d) /\ d.conn = "Connected"
        /\ d.socket = "Connected" /\ d.notices # <<>> /\ d.server = server
      BY <1>1, <1>2, <1>5, SetConnFacts DEF HandShakeReceived, ConnStates
  <2>2. Become(d) /\ UNCHANGED <<listVars, running, pass, windowVars>>
      BY <1>5 DEF HandShakeReceived
  <2> HIDE DEF d
  <2>3. Due(cancel, d) /\ Ready(d, previously, toConnect) /\ Good(d, shown)
      BY <2>1 DEF Ready, Due, Good, Agrees
  <2>4. Known(d)
      BY <1>2, <1>5, <2>1 DEF HandShakeReceived, Known
  <2> QED
      BY <2>1, <2>2, <2>3, <2>4, ToldKeeps, OthersNow DEF listVars, windowVars
<1>6. ASSUME ConnectionLost PROVE SessionInv'
  <2>2. PICK d \in {Unconnect(SetSocket(Now, "Closing")), Unconnect(Now)} : Become(d)
      BY <1>6 DEF ConnectionLost
  <2>5. UNCHANGED <<listVars, running, pass, windowVars>>
      BY <1>6 DEF ConnectionLost
  <2>1. /\ Good(d, shown) /\ Grows(Now, d) /\ d.server = server
        /\ "Unconnected" \in ToSet(d.notices) /\ d.notices # <<>>
    <3>1. CASE d = Unconnect(SetSocket(Now, "Closing"))
        BY <1>1, <3>1, GoodLoss
    <3>2. CASE d = SetSocket(Now, "Unconnected")
      <4>1. conn \in {"Connecting", "Connected"}
          BY <1>2, <1>6 DEF ConnectionLost, Agrees
      <4> QED
          BY <1>1, <1>2, <3>2, <4>1, GoodSocket, SetSocketFacts DEF SocketStates, Translate
    <3> QED
        BY <2>2, <3>1, <3>2 DEF Unconnect
  <2>4. Known(d)
      BY <1>2, <1>6, <2>1 DEF ConnectionLost, Agrees, Known
  <2>3. Due(cancel, d) /\ Ready(d, previously, toConnect)
      BY <2>1 DEF Ready, Due
  <2> QED
      BY <2>1, <2>2, <2>3, <2>4, <2>5, ToldKeeps, OthersNow DEF listVars, windowVars
<1>7. ASSUME NEW n \in Users, ServerInfoReceived(n) PROVE SessionInv'
  <2>1. /\ Update(server, n) /\ socket' = socket /\ conn' = conn /\ server' = server
        /\ notices' = notices
        /\ UNCHANGED <<file, running, pass, windowVars>>
      BY <1>7 DEF ServerInfoReceived, clientVars
  <2>2. list' \in InfoLists /\ rows' = list'
    <3>1. list \in InfoLists /\ rows = list
        BY DEF SessionInv, TypeOK
    <3>2. CASE server \in InList
      <4>1. Updated(list[server], n) \in Info
          BY <3>1, <3>2, InfoFacts, InfoListFacts DEF InList
      <4>2. list' = [list EXCEPT ![server] = Updated(list[server], n)]
          BY <2>1, <3>2 DEF Update
      <4>3. rows' = [list EXCEPT ![server] = Updated(list[server], n)]
          BY <2>1, <3>1, <3>2, <4>1, InfoFacts DEF Update, ShowUpdated, InList
      <4>4. list' \in InfoLists
          BY <3>1, <4>1, <4>2, InfoListFacts
      <4> QED
          BY <4>2, <4>3, <4>4
    <3>3. CASE server \notin InList
        BY <2>1, <3>1, <3>3 DEF Update
    <3> QED
        BY <3>2, <3>3
  <2>3. Become(Now)
      BY <2>1 DEF Become
  <2>4. Grows(Now, Now)
      BY <1>1, LenProperties DEF Grows, ClientStates
  <2>5. Others(list', rows', file', running', pass', toConnect', previously', cancel', shown', enabled')
      BY <2>1, <2>2, OthersNow DEF Others, windowVars
  <2>6. Due(cancel', Now) /\ Ready(Now, previously', toConnect')
      BY <2>1 DEF SessionInv, windowVars
  <2> QED
      BY <1>1, <1>2, <2>1, <2>3, <2>4, <2>5, <2>6, ToldKeeps DEF windowVars
<1> QED
    BY <1>3, <1>4, <1>5, <1>6, <1>7 DEF Network

-----------------------------------------------------------------------------
(* The window handles a notice. *)

LEMMA RestFacts ==
    ASSUME SessionInv, NEW s, Take(s)
    PROVE  /\ Rest.socket = socket /\ Rest.conn = conn /\ Rest.server = server
           /\ Rest.notices = Tail(notices)
           /\ Good(Rest, s) /\ s \in ConnStates
           /\ server \in Servers /\ Known(Rest)
           /\ pass' \in 0 .. Len(Rest.notices)
           /\ Rest.notices = <<>> => conn = s
           /\ \A x \in ConnStates : x # s /\ x \in ToSet(notices) => x \in ToSet(Rest.notices)
<1> USE NowFacts
<1>1. /\ notices \in Seq(ConnStates) /\ notices # <<>> /\ Head(notices) = s
      /\ pass' = (IF pass = 0 THEN Len(notices) ELSE pass) - 1
      /\ pass \in 0 .. Len(notices)
    BY DEF Take, SessionInv, TypeOK
<1>2. /\ Tail(notices) \in Seq(ConnStates) /\ Len(Tail(notices)) = Len(notices) - 1
      /\ \A i \in 1 .. Len(Tail(notices)) : Tail(notices)[i] = notices[i + 1]
      /\ Len(notices) \in Nat \ {0} /\ DOMAIN notices = 1 .. Len(notices)
      /\ s \in ConnStates /\ notices[1] = s
    BY <1>1, HeadTailProperties, LenProperties, EmptySeq
<1>3. /\ Rest.socket = socket /\ Rest.conn = conn /\ Rest.server = server
      /\ Rest.notices = Tail(notices) /\ Rest \in ClientStates
    BY <1>2 DEF Rest, Now, SessionInv, TypeOK, ClientStates
<1>4. DOMAIN Tail(notices) = 1 .. Len(notices) - 1
    BY <1>2, LenProperties
<1>5. conn = notices[Len(notices)]
    BY <1>1 DEF SessionInv, Good, Follows
<1>6. Follows(Rest, s)
  <2>1. CASE Tail(notices) = <<>>
    <3>1. Len(notices) = 1
      <4>1. Len(Tail(notices)) = 0
        <5>1. Len(<<>>) = 0
            BY EmptySeq
        <5> QED
            BY <2>1, <5>1
      <4>2. Len(notices) \in Nat /\ Len(Tail(notices)) = Len(notices) - 1
          BY <1>2
      <4> QED
          BY <4>1, <4>2
    <3> QED
        BY <1>2, <1>3, <1>5, <2>1, <3>1 DEF Follows
  <2>2. CASE Tail(notices) # <<>>
    <3>1. Len(Tail(notices)) \in Nat \ {0}
        BY <1>2, <2>2, EmptySeq
    <3>2. Tail(notices)[Len(Tail(notices))] = notices[Len(notices)]
        BY <1>2, <3>1
    <3> QED
        BY <1>3, <1>5, <2>2, <3>2 DEF Follows
  <2> QED
      BY <2>1, <2>2
<1>7. Good(Rest, s)
    BY <1>3, <1>6 DEF Good, Agrees, SessionInv
<1>11. server \in Servers /\ Known(Rest)
    BY <1>1, <1>3 DEF SessionInv, Known, TypeOK
<1>8. Rest.notices = <<>> => conn = s
    BY <1>3, <1>6 DEF Follows
<1>9. pass' \in 0 .. Len(Rest.notices)
    BY <1>1, <1>2, <1>3
<1>10. ASSUME NEW x \in ConnStates, x # s, x \in ToSet(notices)
       PROVE  x \in ToSet(Rest.notices)
  <2>1. PICK i \in 1 .. Len(notices) : notices[i] = x
      BY <1>2, <1>10 DEF ToSet
  <2>2. i # 1
      BY <1>2, <1>10, <2>1
  <2>3. i - 1 \in 1 .. Len(notices) - 1 /\ Tail(notices)[i - 1] = x
      BY <1>2, <2>1, <2>2
  <2> QED
      BY <1>3, <1>4, <2>3 DEF ToSet
<1> QED
    BY <1>2, <1>3, <1>7, <1>8, <1>9, <1>10, <1>11

LEMMA HandleKeeps == SessionInv /\ Handle => SessionInv'
<1> SUFFICES ASSUME SessionInv, Handle PROVE SessionInv'
    OBVIOUS
<1> USE NowFacts
<1>1. Others(list, rows, file, running, pass, toConnect, previously, cancel, shown, enabled)
    BY OthersNow
<1>2. Due(cancel, Now) /\ TypeOK
    BY DEF SessionInv
<1>3. ASSUME NEW s, Take(s), s # "Unconnected" PROVE Due(cancel, Rest)
    BY <1>2, <1>3, RestFacts DEF Due, ConnStates
<1>4. ASSUME HandleConnecting PROVE SessionInv'
  <2>1. /\ Take("Connecting") /\ Become(Rest) /\ shown' = "Connecting"
        /\ UNCHANGED <<listVars, running, toConnect, previously, cancel, enabled>>
      BY <1>4 DEF HandleConnecting
  <2>2. Good(Rest, shown') /\ pass' \in 0 .. Len(Rest.notices) /\ Due(cancel, Rest) /\ Known(Rest)
        /\ (Rest.notices = <<>> => Rest.conn = "Connecting")
      BY <1>3, <2>1, RestFacts
  <2>3. Others(list', rows', file', running', pass', toConnect', previously', cancel', shown', enabled')
      BY <1>1, <2>1 DEF Others, listVars, ConnStates
  <2>4. Ready(Rest, previously', toConnect')
      BY <2>2 DEF Ready
  <2> QED
      BY <2>1, <2>2, <2>3, <2>4, KeepsInv
<1>5. ASSUME HandleClosing PROVE SessionInv'
  <2>1. /\ Take("Closing") /\ Become(Rest) /\ shown' = "Closing" /\ enabled' = FALSE
        /\ UNCHANGED <<listVars, running, toConnect, previously, cancel>>
      BY <1>5 DEF HandleClosing
  <2>2. Good(Rest, shown') /\ pass' \in 0 .. Len(Rest.notices) /\ Due(cancel, Rest) /\ Known(Rest)
        /\ (Rest.notices = <<>> => Rest.conn = "Closing")
      BY <1>3, <2>1, RestFacts
  <2>3. Others(list', rows', file', running', pass', toConnect', previously', cancel', shown', enabled')
      BY <1>1, <2>1 DEF Others, listVars, ConnStates
  <2>4. Ready(Rest, previously', toConnect')
      BY <2>2 DEF Ready
  <2> QED
      BY <2>1, <2>2, <2>3, <2>4, KeepsInv
<1>6. ASSUME HandleConnected PROVE SessionInv'
  <2>1. /\ Take("Connected") /\ Become(Rest) /\ shown' = "Connected" /\ previously' = TRUE
        /\ toConnect' = <<server>> \o toConnect
        /\ UNCHANGED <<listVars, running, cancel, enabled>>
      BY <1>6 DEF HandleConnected
  <2>2. Good(Rest, shown') /\ pass' \in 0 .. Len(Rest.notices) /\ Due(cancel, Rest)
        /\ Rest.server = server /\ server \in Servers /\ Known(Rest)
      BY <1>3, <2>1, RestFacts
  <2>3. toConnect' \in Seq(Servers) /\ toConnect' # <<>> /\ Head(toConnect') = server
    <3>1. <<server>> \in Seq(Servers) /\ toConnect \in Seq(Servers) /\ Len(<<server>>) = 1
        BY <1>2, <2>2 DEF TypeOK
    <3>2. /\ toConnect' \in Seq(Servers) /\ Len(toConnect') = 1 + Len(toConnect)
          /\ toConnect'[1] = server /\ Len(toConnect) \in Nat
      <4>1. Len(toConnect) \in Nat
          BY <3>1, LenProperties
      <4>2. /\ toConnect' \in Seq(Servers) /\ Len(toConnect') = 1 + Len(toConnect)
            /\ \A i \in 1 .. 1 + Len(toConnect) :
                  toConnect'[i] = IF i <= 1 THEN <<server>>[i] ELSE toConnect[i - 1]
          BY <2>1, <3>1, ConcatProperties
      <4> QED
          BY <4>1, <4>2
    <3>3. toConnect' # <<>>
        BY <3>2, EmptySeq
    <3> QED
        BY <3>2, <3>3
  <2>4. Others(list', rows', file', running', pass', toConnect', previously', cancel', shown', enabled')
      BY <1>1, <2>1, <2>3 DEF Others, listVars, ConnStates
  <2>5. Ready(Rest, previously', toConnect') /\ Due(cancel', Rest)
      BY <2>1, <2>2, <2>3 DEF Ready
  <2> QED
      BY <2>1, <2>2, <2>4, <2>5, KeepsInv
<1>7. ASSUME HandleUnconnected PROVE SessionInv'
  <2>1. /\ Take("Unconnected") /\ shown' = "Unconnected" /\ enabled' = TRUE
        /\ previously' = FALSE /\ cancel' = FALSE
        /\ UNCHANGED <<listVars, running>>
      BY <1>7 DEF HandleUnconnected, ClearFlags
  <2>2. /\ Good(Rest, shown') /\ pass' \in 0 .. Len(Rest.notices) /\ Known(Rest)
        /\ (Rest.notices = <<>> => Rest.conn = "Unconnected")
      BY <2>1, RestFacts
  <2>3. CASE Become(Rest) /\ UNCHANGED toConnect
    <3>1. Others(list', rows', file', running', pass', toConnect', previously', cancel', shown', enabled')
        BY <1>1, <2>1, <2>3 DEF Others, listVars, ConnStates
    <3>2. Ready(Rest, previously', toConnect') /\ Due(cancel', Rest)
        BY <2>1, <2>2 DEF Ready, Due
    <3> QED
        BY <2>2, <2>3, <3>1, <3>2, KeepsInv
  <2>4. CASE /\ toConnect # <<>> /\ ConnectClient(Rest, Head(toConnect))
             /\ toConnect' = Tail(toConnect)
    <3>1. Head(toConnect) \in Servers /\ toConnect' \in Seq(Servers)
        BY <1>2, <2>4, HeadTailServers DEF TypeOK
    <3>2. PICK d : d = ConnectToHost(Rest, Head(toConnect)) /\ Become(d)
        BY <2>4 DEF ConnectClient
    <3>3. /\ Good(d, shown') /\ Grows(Rest, d) /\ d.conn = "Connecting"
        BY <2>2, <3>1, <3>2, ConnectFacts
    <3>7. Known(d)
      <4>1. d.server = Head(toConnect)
          BY <2>2, <3>1, <3>2, ConnectFacts
      <4> QED
          BY <3>1, <4>1, NoServerFact DEF Known
    <3>4. pass' \in 0 .. Len(d.notices)
      <4>1. Len(Rest.notices) \in Nat /\ Len(d.notices) \in Nat
          BY <2>2, <3>3, LenProperties DEF Good, ClientStates
      <4> QED
          BY <2>2, <3>3, <4>1 DEF Grows
    <3>5. Others(list', rows', file', running', pass', toConnect', previously', cancel', shown', enabled')
        BY <1>1, <2>1, <3>1 DEF Others, listVars, ConnStates
    <3>6. Ready(d, previously', toConnect') /\ Due(cancel', d)
        BY <2>1, <3>3 DEF Ready, Due
    <3> QED
        BY <3>2, <3>3, <3>4, <3>5, <3>6, <3>7, KeepsInv
  <2> QED
      BY <1>7, <2>3, <2>4 DEF HandleUnconnected, MayTryNext
<1> QED
    BY <1>4, <1>5, <1>6, <1>7 DEF Handle

-----------------------------------------------------------------------------
(* The user. *)

\* A connection the user asks for.
LEMMA AskedKeeps ==
    ASSUME SessionInv, NEW s \in Servers, ConnectClient(Now, s),
           toConnect' \in Seq(Servers), previously' \in BOOLEAN, cancel' = cancel,
           list' \in InfoLists, rows' = list', file' \in Files, running' \in BOOLEAN,
           UNCHANGED <<pass, shown, enabled>>
    PROVE  SessionInv'
<1>1. Good(Now, shown) /\ TypeOK
    BY DEF SessionInv
<1>2. PICK d : d = ConnectToHost(Now, s) /\ Become(d)
    BY DEF ConnectClient
<1>3. Good(d, shown) /\ Grows(Now, d) /\ d.conn = "Connecting" /\ d.server = s
    BY <1>1, <1>2, ConnectFacts
<1>4. Known(d) /\ Due(cancel', d) /\ Ready(d, previously', toConnect')
  <2>1. Known(d)
      BY <1>3, NoServerFact DEF Known
  <2> QED
      BY <1>3, <2>1 DEF Due, Ready
<1>5. Others(list', rows', file', running', pass', toConnect', previously', cancel', shown', enabled')
    BY <1>1 DEF TypeOK, Others
<1> QED
    BY <1>2, <1>3, <1>4, <1>5, ToldKeeps

LEMMA ConnectionsKeep == SessionInv /\ Connections => SessionInv'
<1> SUFFICES ASSUME SessionInv, Connections PROVE SessionInv'
    OBVIOUS
<1> USE NowFacts
<1>1. TypeOK /\ rows = list /\ Good(Now, shown) /\ Known(Now)
    BY DEF SessionInv
<1>2. ASSUME ClickConnect PROVE SessionInv'
  <2>5. UNCHANGED <<listVars, running, pass, cancel, shown, enabled>>
      BY <1>2 DEF ClickConnect
  <2>6. CASE InList # {}
    <3>1. PICK q \in SortedLists : ConnectFirst(Now, q)
        BY <1>2, <2>6 DEF ClickConnect
    <3>2. q \in Seq(Servers) /\ q # <<>>
        BY <1>1, <2>6, SortedFacts DEF TypeOK
    <3>3. Head(q) \in Servers /\ Tail(q) \in Seq(Servers)
        BY <3>2, HeadTailServers
    <3>4. ConnectClient(Now, Head(q)) /\ toConnect' = Tail(q) /\ previously' = FALSE
        BY <3>1 DEF ConnectFirst
    <3> QED
        BY <1>1, <2>5, <3>3, <3>4, AskedKeeps DEF TypeOK, listVars
  <2>7. CASE InList = {}
    <3>1. toConnect' = <<>> /\ Become(Now) /\ UNCHANGED previously
        BY <1>2, <2>7 DEF ClickConnect, FlushServersToConnectList, clientVars, Become
    <3>2. Grows(Now, Now)
        BY <1>1, LenProperties DEF Grows, Good, ClientStates
    <3>3. Others(list', rows', file', running', pass', toConnect', previously', cancel', shown', enabled')
        BY <1>1, <2>5, <3>1 DEF TypeOK, Others, listVars
    <3>4. conn = "Unconnected" /\ Due(cancel, Now)
        BY <1>2 DEF ClickConnect, SessionInv
    <3>5. Due(cancel', Now) /\ Ready(Now, previously', toConnect')
        BY <2>5, <3>4 DEF Ready
    <3> QED
        BY <1>1, <2>5, <3>1, <3>2, <3>3, <3>5, ToldKeeps
  <2> QED
      BY <2>6, <2>7
<1>3. ASSUME NEW s \in Servers, ConnectToServer(s) PROVE SessionInv'
  <2>1. /\ toConnect' = <<>> /\ ConnectClient(Now, s)
        /\ UNCHANGED <<listVars, running, pass, previously, cancel, shown, enabled>>
      BY <1>3 DEF ConnectToServer, FlushServersToConnectList
  <2>2. toConnect' \in Seq(Servers)
      BY <2>1
  <2> QED
      BY <1>1, <2>1, <2>2, AskedKeeps DEF TypeOK, listVars
<1>4. ASSUME ClickDisconnect PROVE SessionInv'
  <2>1. PICK d : d = Disconnected(Now) /\ Become(d)
      BY <1>4 DEF ClickDisconnect, DisconnectClient
  <2>2. /\ cancel' = TRUE /\ conn # "Unconnected"
        /\ UNCHANGED <<listVars, running, pass, toConnect, previously, shown, enabled>>
      BY <1>4 DEF ClickDisconnect
  <2>3. /\ Good(d, shown) /\ Grows(Now, d) /\ d.conn = "Unconnected" /\ d.server = server
        /\ "Unconnected" \in ToSet(d.notices) /\ d.notices # <<>>
      BY <1>1, <2>1, <2>2, DisconnectedFacts
  <2>4. server # NoServer
    <3>1. Now.server = server /\ Now.conn = conn
        OBVIOUS
    <3> QED
        BY <1>1, <2>2, <3>1 DEF Known
  <2>5. Known(d) /\ Due(cancel', d) /\ Ready(d, previously', toConnect')
      BY <2>3, <2>4 DEF Known, Due, Ready
  <2>6. Others(list', rows', file', running', pass', toConnect', previously', cancel', shown', enabled')
      BY <1>1, <2>2 DEF TypeOK, Others, listVars
  <2> QED
      BY <2>1, <2>2, <2>3, <2>5, <2>6, ToldKeeps
<1> QED
    BY <1>2, <1>3, <1>4 DEF Connections

LEMMA EditsKeep == SessionInv /\ Edits => SessionInv'
<1> SUFFICES ASSUME SessionInv, Edits PROVE SessionInv'
    OBVIOUS
<1> USE NowFacts
<1>1. /\ TypeOK /\ rows = list /\ Good(Now, shown) /\ Known(Now)
      /\ Due(cancel, Now) /\ Ready(Now, previously, toConnect)
    BY DEF SessionInv
<1>2. list \in InfoLists /\ list = [s \in InList |-> list[s]] /\ \A s \in InList : list[s] \in Info
    BY <1>1, InfoListFacts DEF TypeOK, InList
<1>3. ASSUME list' \in InfoLists, rows' = list',
             UNCHANGED <<file, running, clientVars, notices, pass, windowVars>>
      PROVE  SessionInv'
  <2>1. Become(Now) /\ UNCHANGED <<pass, shown>>
      BY <1>3 DEF Become, clientVars, windowVars
  <2>2. Grows(Now, Now)
      BY <1>1, LenProperties DEF Grows, Good, ClientStates
  <2>3. Others(list', rows', file', running', pass', toConnect', previously', cancel', shown', enabled')
      BY <1>1, <1>3 DEF TypeOK, Others, windowVars
  <2>4. Due(cancel', Now) /\ Ready(Now, previously', toConnect')
      BY <1>1, <1>3 DEF windowVars
  <2> QED
      BY <1>1, <2>1, <2>2, <2>3, <2>4, ToldKeeps
<1>4. ASSUME NEW s \in Servers, AddServer(s) PROVE SessionInv'
  <2>1. list' = Put(list, s, NewInfo) /\ rows' = Put(rows, s, NewInfo)
      BY <1>4, InfoFacts DEF AddServer, Insert, ShowAdded
  <2>2. list' \in InfoLists
      BY <1>2, <2>1, PutType, InfoFacts
  <2> QED
      BY <1>1, <1>3, <1>4, <2>1, <2>2 DEF AddServer
<1>5. ASSUME NEW S, RemoveServers(S) PROVE SessionInv'
  <2>1. list' = Without(list, S) /\ rows' = Without(list, S \cap InList)
      BY <1>1, <1>5 DEF RemoveServers, RemoveThose, ShowRemoved
  <2>2. Without(list, S \cap InList) = Without(list, S)
      BY DEF Without, InList
  <2> QED
      BY <1>2, <1>3, <1>5, <2>1, <2>2, WithoutType DEF RemoveServers
<1>6. ASSUME NEW S, NEW p \in Priorities, ChangePriority(S, p) PROVE SessionInv'
  <2> DEFINE changed == {s \in S : rows[s].priority # p /\ s \in InList}
             new == [s \in InList |->
                       IF s \in changed THEN [list[s] EXCEPT !.priority = p] ELSE list[s]]
  <2>1. list' = new /\ rows' = new
      BY <1>1, <1>6 DEF ChangePriority, InList
  <2>2. new \in InfoLists
    <3>1. \A s \in InList : [list[s] EXCEPT !.priority = p] \in Info
        BY <1>2, InfoFacts
    <3>2. InList \subseteq Servers
        BY <1>2, InfoListFacts DEF InList
    <3> HIDE DEF changed
    <3>3. new \in [InList -> Info]
        BY <1>2, <3>1
    <3> QED
        BY <3>2, <3>3 DEF InfoLists
  <2> HIDE DEF new, changed
  <2> QED
      BY <1>3, <1>6, <2>1, <2>2 DEF ChangePriority
<1>7. ASSUME RemoveAll PROVE SessionInv'
  <2>1. list' = <<>> /\ rows' = <<>>
      BY <1>7 DEF RemoveAll, RemoveAllServers, ShowAllRemoved
  <2>2. <<>> \in InfoLists
    <3>1. <<>> \in [{} -> Info]
        OBVIOUS
    <3> QED
        BY <3>1 DEF InfoLists
  <2> QED
      BY <1>3, <1>7, <2>1, <2>2 DEF RemoveAll
<1> QED
    BY <1>4, <1>5, <1>6, <1>7 DEF Edits

-----------------------------------------------------------------------------
(* Runs of the program. *)

LEMMA FreshFacts ==
    /\ FreshClient.socket = "Unconnected" /\ FreshClient.conn = "Unconnected"
    /\ FreshClient.notices = <<>> /\ Len(FreshClient.notices) = 0
    /\ Good(FreshClient, "Unconnected") /\ Known(FreshClient)
BY DEF FreshClient, Good, Agrees, Follows, Known, ClientStates, SocketStates, ConnStates

LEMMA EmptyList == <<>> \in InfoLists
<1>1. <<>> \in [{} -> Info]
    OBVIOUS
<1> QED
    BY <1>1 DEF InfoLists

LEMMA EndsKeeps ==
    ASSUME Ends, file' \in Files
    PROVE  SessionInv'
<1>1. /\ running' = FALSE /\ list' = <<>> /\ rows' = <<>> /\ pass' = 0
      /\ toConnect' = <<>> /\ previously' = FALSE /\ cancel' = FALSE
      /\ shown' = "Unconnected" /\ enabled' = TRUE
      /\ Become(FreshClient)
    BY DEF Ends, DestroyClient
<1>2. Others(list', rows', file', running', pass', toConnect', previously', cancel', shown', enabled')
  <2>1. list' \in InfoLists /\ rows' = list'
      BY <1>1, EmptyList
  <2>2. toConnect' \in Seq(Servers)
      BY <1>1
  <2> QED
      BY <1>1, <2>1, <2>2 DEF Others, ConnStates
<1>3. Due(cancel', FreshClient) /\ Ready(FreshClient, previously', toConnect')
    BY <1>1, FreshFacts DEF Due, Ready
<1>4. pass' \in 0 .. Len(FreshClient.notices)
    BY <1>1, FreshFacts
<1>5. Good(FreshClient, shown')
    BY <1>1, FreshFacts
<1> QED
    BY <1>1, <1>2, <1>3, <1>4, <1>5, FreshFacts, KeepsInv

LEMMA SessionInit == Init => SessionInv
<1> SUFFICES ASSUME Init PROVE SessionInv
    OBVIOUS
<1>1. Now = FreshClient
    BY DEF Init, Now, FreshClient
<1>2. Good(Now, shown) /\ Known(Now) /\ rows = list
    BY <1>1, FreshFacts DEF Init
<1>3. Due(cancel, Now) /\ Ready(Now, previously, toConnect)
    BY <1>1, FreshFacts DEF Init, Due, Ready
<1>4. TypeOK
  <2>1. Len(notices) = 0 /\ pass = 0
      BY DEF Init
  <2>2. list \in InfoLists /\ rows \in InfoLists
      BY EmptyList DEF Init
  <2>3. notices \in Seq(ConnStates) /\ toConnect \in Seq(Servers)
      BY DEF Init
  <2>4. pass \in 0 .. Len(notices)
      BY <2>1
  <2>5. /\ socket = "Unconnected" /\ conn = "Unconnected" /\ server = NoServer
        /\ shown = "Unconnected" /\ enabled = TRUE /\ previously = FALSE /\ cancel = FALSE
        /\ file \in Files /\ running = FALSE
      BY DEF Init
  <2> QED
      BY <2>2, <2>3, <2>4, <2>5 DEF TypeOK, SocketStates, ConnStates
<1> QED
    BY <1>2, <1>3, <1>4 DEF SessionInv

\* A program that starts has no list before it reads one.
LEMMA StartKeeps == SessionInv /\ Start => SessionInv'
<1> SUFFICES ASSUME SessionInv, Start PROVE SessionInv'
    OBVIOUS
<1> USE NowFacts
<1>1. /\ TypeOK /\ Good(Now, shown) /\ Known(Now)
      /\ Due(cancel, Now) /\ Ready(Now, previously, toConnect)
    BY DEF SessionInv
<1>2. /\ list' = Loaded /\ running' = TRUE
      /\ rows' = [s \in DOMAIN list' |-> RowOf(list'[s])]
      /\ UNCHANGED <<file, pass, cancel, shown, enabled>>
    BY DEF Start, LoadServersList, SetupRows
<1>3. list' \in InfoLists
    BY <1>1, <1>2, LoadedFacts DEF TypeOK
<1>4. rows' = list'
  <2>1. \A s \in DOMAIN list' : RowOf(list'[s]) = list'[s]
      BY <1>3, InfoFacts, InfoListFacts
  <2>2. list' = [s \in DOMAIN list' |-> list'[s]]
      BY <1>3, InfoListFacts
  <2> QED
      BY <1>2, <2>1, <2>2
<1>5. CASE \E q \in SortedLists' : ConnectFirst(Now, q) /\ DOMAIN list' # {}
  <2>1. PICK q \in SortedLists' : ConnectFirst(Now, q) /\ DOMAIN list' # {}
      BY <1>5
  <2>2. q \in Seq(Servers) /\ q # <<>>
    <3>1. InList' \subseteq Servers /\ IsFiniteSet(InList') /\ InList' # {}
        BY <1>3, <2>1, InfoListFacts, FS_Subset DEF InList
    <3>2. Cardinality(InList') \in Nat \ {0}
        BY <3>1, FS_CardinalityType, FS_EmptySet
    <3>3. q \in [1 .. Cardinality(InList') -> InList']
        BY <2>1 DEF SortedLists, SetToSeqs
    <3>4. q \in Seq(InList') /\ Len(q) = Cardinality(InList')
        BY <3>2, <3>3
    <3>5. q \in Seq(Servers)
        BY <3>1, <3>4, SeqMonotonic
    <3>6. q # <<>>
      <4>1. Len(<<>>) = 0
          BY EmptySeq
      <4> QED
          BY <3>2, <3>4, <4>1
    <3> QED
        BY <3>5, <3>6
  <2>3. Head(q) \in Servers /\ Tail(q) \in Seq(Servers)
      BY <2>2, HeadTailServers
  <2>4. ConnectClient(Now, Head(q)) /\ toConnect' = Tail(q) /\ previously' = FALSE
      BY <2>1 DEF ConnectFirst
  <2> QED
      BY <1>1, <1>2, <1>3, <1>4, <2>3, <2>4, AskedKeeps DEF TypeOK
<1>6. CASE UNCHANGED <<clientVars, notices, toConnect, previously>>
  <2>1. Become(Now)
      BY <1>6 DEF Become, clientVars
  <2>2. Grows(Now, Now)
      BY <1>1, LenProperties DEF Grows, Good, ClientStates
  <2>3. Others(list', rows', file', running', pass', toConnect', previously', cancel', shown', enabled')
      BY <1>1, <1>2, <1>3, <1>4, <1>6 DEF TypeOK, Others
  <2>4. Due(cancel', Now) /\ Ready(Now, previously', toConnect')
      BY <1>1, <1>2, <1>6
  <2> QED
      BY <1>1, <1>2, <2>1, <2>2, <2>3, <2>4, ToldKeeps
<1>7. \/ \E q \in SortedLists' : ConnectFirst(Now, q) /\ DOMAIN list' # {}
      \/ UNCHANGED <<clientVars, notices, toConnect, previously>>
    BY Zenon DEF Start
<1> QED
    BY <1>5, <1>6, <1>7

LEMMA RestartsKeep == SessionInv /\ Restarts => SessionInv'
<1> SUFFICES ASSUME SessionInv, Restarts PROVE SessionInv'
    OBVIOUS
<1>1. TypeOK
    BY DEF SessionInv
<1>2. CASE CloseWindow
  <2>1. file' \in Files /\ Ends
      BY <1>1, <1>2, FileFacts DEF CloseWindow, CloseWindow_, SaveServersList, Saved, TypeOK
  <2> QED
      BY <2>1, EndsKeeps
<1>3. CASE Killed
  <2>1. file' \in Files /\ Ends
      BY <1>1, <1>3 DEF Killed, TypeOK, Files
  <2> QED
      BY <2>1, EndsKeeps
<1>4. CASE DeleteFile
  <2>1. /\ file' \in Files
        /\ UNCHANGED <<list, rows, running, clientVars, notices, pass, windowVars>>
      BY <1>4 DEF DeleteFile, Files
  <2>2. Now' = Now
      BY <2>1 DEF Now, clientVars
  <2>3. TypeOK'
      BY <1>1, <2>1 DEF TypeOK, clientVars, windowVars
  <2>4. UNCHANGED <<rows, list, cancel, shown, previously, toConnect>>
      BY <2>1 DEF windowVars
  <2> QED
      BY <2>2, <2>3, <2>4 DEF SessionInv, Good, Follows, Agrees, Known, Due, Ready, ToSet
<1> QED
    BY <1>2, <1>3, <1>4, StartKeeps DEF Restarts

LEMMA SessionNext == SessionInv /\ [Next]_vars => SessionInv'
<1> SUFFICES ASSUME SessionInv, [Next]_vars PROVE SessionInv'
    OBVIOUS
<1>1. CASE UNCHANGED vars
  <2>1. Now' = Now
      BY <1>1 DEF vars, clientVars, Now
  <2>2. TypeOK'
      BY <1>1 DEF SessionInv, TypeOK, vars, listVars, clientVars, windowVars
  <2>3. UNCHANGED <<rows, list, cancel, shown, previously, toConnect>>
      BY <1>1 DEF vars, listVars, windowVars
  <2> QED
      BY <2>1, <2>2, <2>3 DEF SessionInv, Good, Follows, Agrees, Known, Due, Ready, ToSet
<1>2. CASE Next
    BY <1>2, NetworkKeeps, HandleKeeps, ConnectionsKeep, EditsKeep, RestartsKeep DEF Next
<1> QED
    BY <1>1, <1>2

LEMMA SessionFacts ==
    SessionInv => TypeOK /\ WindowCatchesUp /\ CancelIsDue /\ ReadyToReconnect
<1> USE NowFacts
<1>1. SessionInv => WindowCatchesUp
    BY DEF SessionInv, Good, Follows, WindowCatchesUp
<1>2. SessionInv => CancelIsDue
    BY DEF SessionInv, Due, CancelIsDue
<1>3. SessionInv => ReadyToReconnect
    BY DEF SessionInv, Ready, ReadyToReconnect
<1> QED
    BY <1>1, <1>2, <1>3 DEF SessionInv

THEOREM SessionInvariant ==
    Spec => []SessionInv
BY SessionInit, SessionNext, PTL DEF Spec

\* The variables of the session keep their types.
THEOREM SessionTypes ==
    Spec => []TypeOK
BY SessionInvariant, SessionFacts, PTL

\* The last notice, or what the window shows, is the state of the client, and
\* its rows are the list.
THEOREM WindowFollows ==
    Spec => []WindowCatchesUp
BY SessionInvariant, SessionFacts, PTL

\* A cancellation that is kept is about a connection whose end is to come.
THEOREM CancelsEnd ==
    Spec => []CancelIsDue
BY SessionInvariant, SessionFacts, PTL

\* The server of the session is the first to try again.
THEOREM SessionIsFirst ==
    Spec => []ReadyToReconnect
BY SessionInvariant, SessionFacts, PTL
=============================================================================
