---------------------------- MODULE UrlDispatch ----------------------------
(***************************************************************************)
(* How the MyCrawler server hands out Urls and collects what the clients   *)
(* find: the two MCUrlsCollection of the server (in queue, crawled), the   *)
(* Urls in progress of every MCClientThread, and the graph of links.       *)
(*                                                                         *)
(* The requests and messages of a client are queued signals of its peer,   *)
(* handled in the main thread one at a time and in the order they were     *)
(* sent; the signals of different clients interleave.  The life of a       *)
(* connection, which Server models in full, is reduced to four phases.     *)
(*                                                                         *)
(* The clients are MyCrawler clients.  Such a client crawls the Urls it    *)
(* was given and some of the pages they lead to, asks for Urls, and each   *)
(* time its pool is flushed sends its nodes, then its links.  Crawler says *)
(* when it does so; here it may at any time.  A page links to Web[url].    *)
(***************************************************************************)
EXTENDS Naturals, Sequences, FiniteSets

CONSTANTS
    Clients,
    Urls,      \* valid Urls, each standing for its hash
    Seeds,     \* those the user may enter
    NoUrl,     \* the invalid MCUrlInfo
    Web,       \* the Urls each page links to
    Memories,  \* bound: what a program that connects may remember of earlier ones
    MaxUnderWay \* bound: signals and answers under way when a client sends more

ASSUME DispatchAssumption ==
    /\ IsFiniteSet(Urls)
    /\ Seeds \subseteq Urls
    /\ NoUrl \notin Urls
    /\ Web \in [Urls -> SUBSET Urls]
    /\ Memories \subseteq {"kept", "none"}
    /\ MaxUnderWay \in Nat

VARIABLES
    inQueue,      \* MCApp->urlsInQueue()
    crawled,      \* MCApp->urlsCrawled()
    links,        \* pairs <<parent, successor>> of the crawled MCUrlInfo
    inProgress,   \* m_urlsInProgress of each client thread
    events,       \* signals of the peer waiting for the main thread
    session,      \* phase of the connection
    answers,      \* answers on their way to the client, NoUrl for a denial
    asked,        \* number of answers the client waits for
    given,        \* Urls the client has received and may be downloading
    read,         \* urlsCrawled() of the client
    neighbors     \* urlsNeighbor() of the client

collections == <<inQueue, crawled, links>>
memory      == <<given, read, neighbors>>
clientVars  == <<answers, asked, memory>>
vars == <<collections, inProgress, events, session, clientVars>>

\* "lost": the peer has signalled its disconnection; "over": the main thread
\* has handled it.
Phases == {"none", "open", "lost", "over"}

Request      == [type |-> "seedUrlRequest"]
Unconnected  == [type |-> "unconnected"]
Nodes(flags) == [type |-> "dataNodes", nodes |-> flags]
Links(p, kids) == [type |-> "linkNodes", parent |-> p, children |-> kids]

\* A packet of nodes is a map from the hashes it lists to isCrawled.
NodeFlags == UNION {[S -> BOOLEAN] : S \in SUBSET Urls}
Signals   == {Request, Unconnected}
                 \cup {Nodes(flags) : flags \in NodeFlags}
                 \cup {Links(p, kids) : p \in Urls, kids \in SUBSET Urls}

Init ==
    /\ inQueue = {}
    /\ crawled = {}
    /\ links = {}
    /\ inProgress = [c \in Clients |-> {}]
    /\ events = [c \in Clients |-> <<>>]
    /\ session = [c \in Clients |-> "none"]
    /\ answers = [c \in Clients |-> <<>>]
    /\ asked = [c \in Clients |-> 0]
    /\ given = [c \in Clients |-> {}]
    /\ read = [c \in Clients |-> {}]
    /\ neighbors = [c \in Clients |-> {}]

-----------------------------------------------------------------------------
(* The user and the clients. *)

\* on_buttonTasksAddSeedUrl_clicked: only the queue is looked at, so a Url in
\* progress or crawled can be added again.
AddSeedUrl(u) ==
    /\ u \notin inQueue
    /\ inQueue' = inQueue \cup {u}
    /\ UNCHANGED <<crawled, links, inProgress, events, session, clientVars>>

\* A client connects: the program that was connected before, or one that was
\* started again and has nothing in memory.
Connect(c) ==
    /\ session[c] = "none"
    /\ session' = [session EXCEPT ![c] = "open"]
    /\ \/ "kept" \in Memories /\ UNCHANGED memory
       \/ /\ "none" \in Memories
          /\ given' = [given EXCEPT ![c] = {}]
          /\ read' = [read EXCEPT ![c] = {}]
          /\ neighbors' = [neighbors EXCEPT ![c] = {}]
    /\ UNCHANGED <<collections, inProgress, events, answers, asked>>

Send(c, es) == events' = [events EXCEPT ![c] = @ \o es]

MaySend ==
    Cardinality(UNION {{c} \X DOMAIN (events[c] \o answers[c]) : c \in Clients}) < MaxUnderWay

\* A request is sent when the client becomes idle, also while a page is being
\* analysed, when it reconnects, also while it downloads, and some time after
\* a denial; so others may be under way.
AskForUrl(c) ==
    /\ session[c] = "open" /\ MaySend
    /\ asked' = [asked EXCEPT ![c] = @ + 1]
    /\ Send(c, <<Request>>)
    /\ UNCHANGED <<collections, inProgress, session, answers, memory>>

\* A Url goes to the downloads whatever the client knows of it; the end of its
\* download, which may fail at once, takes it from the neighbors.
ReceiveAnswer(c) ==
    LET u == Head(answers[c]) IN
    /\ answers[c] # <<>>
    /\ answers' = [answers EXCEPT ![c] = Tail(@)]
    /\ asked' = [asked EXCEPT ![c] = @ - 1]
    /\ given' = [given EXCEPT ![c] = @ \cup ({u} \ ({NoUrl} \cup read[c]))]
    /\ neighbors' = [neighbors EXCEPT ![c] = @ \ {u}]
    /\ UNCHANGED <<collections, inProgress, events, session, read>>

\* What the analyses of the pages S have found when the pool is flushed: an
\* analysis handles events, so it may be half done.
Analyses(S) == {seen \in [S -> SUBSET Urls] : \A p \in S : seen[p] \subseteq Web[p]}

\* The links of the pages read; what a half-done analysis finds later belongs
\* to a page that was read before.
Leads(c, seen) == UNION ({Web[p] : p \in read[c]} \cup {seen[p] : p \in DOMAIN seen})

\* The pages a client reads: those it was given, and links it did not know.
Readable(c, seen) == given[c] \cup (Leads(c, seen) \ neighbors[c])

\* The links it did not know and does not read may be neighbors, or in no list.
Neighbors(c, seen) == Leads(c, seen) \ (read[c] \cup DOMAIN seen \cup neighbors[c])

\* The pool sends the new Urls first, then the links of each page that was new.
\* Splitting the nodes into packets changes nothing: the main thread handles
\* them one after the other.  A neighbor that was read before the flush is sent
\* twice, and ends as read.
Orders(S) == {s \in [1 .. Cardinality(S) -> S] : \A u \in S : \E i \in DOMAIN s : s[i] = u}

Flush(c, seen, found) ==
    \E s \in Orders({p \in DOMAIN seen : seen[p] # {}}) :
        Send(c, <<Nodes([u \in DOMAIN seen \cup found |-> u \in DOMAIN seen])>>
                    \o [i \in DOMAIN s |-> Links(s[i], seen[s[i]])])

\* The slot of the pool of allDone, with what the downloads since the last one
\* have added.  A Url found anew is not in the queue of the client: a download of
\* it has failed (one received after it was found counts as received after the
\* flush).  Without a connection the pool is emptied all the same, and the links
\* a page gets after its flush are not sent.
Report(c) ==
    /\ session[c] = "open" => MaySend
    /\ \E new \in SUBSET (Urls \ read[c]) :
       \E seen \in Analyses(new) :
       \E found \in SUBSET Neighbors(c, seen) :
        /\ new \subseteq Readable(c, seen)
        /\ new \cup found # {}
        /\ IF session[c] = "open" THEN Flush(c, seen, found) ELSE UNCHANGED events
        /\ given' = [given EXCEPT ![c] = @ \ (new \cup found)]
        /\ read' = [read EXCEPT ![c] = @ \cup new]
        /\ neighbors' = [neighbors EXCEPT ![c] = (@ \ new) \cup found]
        /\ UNCHANGED <<collections, inProgress, session, answers, asked>>

\* The connection is lost, and with it the answers under way.
LoseConnection(c) ==
    /\ session[c] = "open"
    /\ session' = [session EXCEPT ![c] = "lost"]
    /\ Send(c, <<Unconnected>>)
    /\ answers' = [answers EXCEPT ![c] = <<>>]
    /\ asked' = [asked EXCEPT ![c] = 0]
    /\ UNCHANGED <<collections, inProgress, memory>>

-----------------------------------------------------------------------------
(* Slots of MCClientThread and MCServer, in the main thread. *)

Deliver(c) ==
    /\ events[c] # <<>>
    /\ events' = [events EXCEPT ![c] = Tail(@)]

\* An answer for a connection that is lost goes nowhere.
Answer(c, u) ==
    answers' = IF session[c] = "open"
               THEN [answers EXCEPT ![c] = Append(@, u)] ELSE answers

\* MCUrlsCollection::takeOne takes the first entry of a hash table: any.
TakeOne(u) == u \in inQueue /\ inQueue' = inQueue \ {u}

\* Variants: a Url given out is not recorded; no denial is sent.
OnSeedUrlRequestUnrecorded(c) ==
    /\ Deliver(c)
    /\ Head(events[c]) = Request
    /\ \E u \in IF inQueue = {} THEN {NoUrl} ELSE inQueue :
          /\ inQueue' = inQueue \ {u}
          /\ Answer(c, u)
    /\ UNCHANGED <<crawled, links, inProgress, session, asked, memory>>

OnSeedUrlRequestSilent(c) ==
    /\ Deliver(c)
    /\ Head(events[c]) = Request
    /\ IF inQueue = {}
       THEN UNCHANGED <<inQueue, inProgress, answers>>
       ELSE \E u \in inQueue :
               /\ TakeOne(u)
               /\ inProgress' = [inProgress EXCEPT ![c] = @ \cup {u}]
               /\ Answer(c, u)
    /\ UNCHANGED <<crawled, links, session, asked, memory>>

\* peerSeedUrlRequest_
OnSeedUrlRequest(c) ==
    /\ Deliver(c)
    /\ Head(events[c]) = Request
    /\ IF inQueue = {}
       THEN Answer(c, NoUrl) /\ UNCHANGED <<inQueue, inProgress>>
       ELSE \E u \in inQueue :
               /\ TakeOne(u)
               /\ inProgress' = [inProgress EXCEPT ![c] = @ \cup {u}]
               /\ Answer(c, u)
    /\ UNCHANGED <<crawled, links, session, asked, memory>>

\* clientDataNodesMessage_.  The nodes of a packet are different Urls, and the
\* code for one reads and writes its own entries only.
OnDataNodes(c) ==
    /\ Deliver(c)
    /\ Head(events[c]).type = "dataNodes"
    /\ LET flags == Head(events[c]).nodes
           done  == {u \in DOMAIN flags : flags[u]}
       IN  /\ inQueue' = (inQueue \cup DOMAIN flags) \ done
           /\ crawled' = crawled \cup done
    /\ UNCHANGED <<links, inProgress, session, clientVars>>

\* Variant: a child is not looked up in the lists of the server.
OnLinkNodesUnchecked(c) ==
    /\ Deliver(c)
    /\ Head(events[c]).type = "linkNodes"
    /\ LET p    == Head(events[c]).parent
           kids == Head(events[c]).children
       IN  links' = IF p \in crawled THEN links \cup ({p} \X kids) ELSE links
    /\ UNCHANGED <<inQueue, crawled, inProgress, session, clientVars>>

\* clientLinkNodesMessage_: a parent that is not crawled, and a child that is
\* neither in the queue nor crawled, are thrown.
OnLinkNodes(c) ==
    /\ Deliver(c)
    /\ Head(events[c]).type = "linkNodes"
    /\ LET p    == Head(events[c]).parent
           kids == Head(events[c]).children \cap (inQueue \cup crawled)
       IN  links' = IF p \in crawled THEN links \cup ({p} \X kids) ELSE links
    /\ UNCHANGED <<inQueue, crawled, inProgress, session, clientVars>>

\* Variant: the Urls in progress end with the connection.
OnUnconnectedDrops(c) ==
    /\ Deliver(c)
    /\ Head(events[c]) = Unconnected
    /\ session' = [session EXCEPT ![c] = "over"]
    /\ UNCHANGED <<collections, inProgress, clientVars>>

\* disconnected_: the Urls in progress go back to the queue, those that were
\* crawled in the meantime too.  The thread keeps them to its end.
OnUnconnected(c) ==
    /\ Deliver(c)
    /\ Head(events[c]) = Unconnected
    /\ inQueue' = inQueue \cup inProgress[c]
    /\ session' = [session EXCEPT ![c] = "over"]
    /\ UNCHANGED <<crawled, links, inProgress, clientVars>>

\* clientFinished_: the thread object and its Urls in progress are deleted.
OnFinished(c) ==
    /\ session[c] = "over"
    /\ session' = [session EXCEPT ![c] = "none"]
    /\ inProgress' = [inProgress EXCEPT ![c] = {}]
    /\ UNCHANGED <<collections, events, clientVars>>

-----------------------------------------------------------------------------
Main(c) ==
    \/ OnSeedUrlRequest(c)
    \/ OnDataNodes(c)
    \/ OnLinkNodes(c)
    \/ OnUnconnected(c)
    \/ OnFinished(c)

Client(c) ==
    \/ Connect(c)
    \/ AskForUrl(c)
    \/ ReceiveAnswer(c)
    \/ Report(c)
    \/ LoseConnection(c)

Next ==
    \/ \E u \in Seeds : AddSeedUrl(u)
    \/ \E c \in Clients : Main(c) \/ Client(c)

Spec == Init /\ [][Next]_vars

\* The main thread delivers its posted events, and an answer travels.
FairSpec ==
    Spec /\ \A c \in Clients : WF_vars(Main(c)) /\ WF_vars(ReceiveAnswer(c))

-----------------------------------------------------------------------------
(* Properties. *)

\* Types of the variables.
TypeOK ==
    /\ inQueue \subseteq Urls
    /\ crawled \subseteq Urls
    /\ links \subseteq Urls \X Urls
    /\ inProgress \in [Clients -> SUBSET Urls]
    /\ events \in [Clients -> Seq(Signals)]
    /\ session \in [Clients -> Phases]
    /\ answers \in [Clients -> Seq(Urls \cup {NoUrl})]
    /\ asked \in [Clients -> Nat]
    /\ given \in [Clients -> SUBSET Urls]
    /\ read \in [Clients -> SUBSET Urls]
    /\ neighbors \in [Clients -> SUBSET Urls]

\* The Urls the server holds.  Those in progress count until the main thread
\* has handled the disconnection of their client.
Held == inQueue \cup crawled
        \cup UNION {inProgress[c] : c \in {d \in Clients : session[d] \in {"open", "lost"}}}

\* A Url once held by the server is held for ever, although clients leave at
\* any moment with Urls to crawl, requests of a lost client are still served,
\* and the thread that remembers them is deleted.
NothingForgotten == [][Held \subseteq Held']_vars

\* Every Url on its way to a client or crawled by one is held: if the client
\* never reports, the server can give it to another.
GivenUrlsHeld ==
    \A c \in Clients :
        /\ given[c] \subseteq Held
        /\ \A i \in DOMAIN answers[c] :
              answers[c][i] # NoUrl => answers[c][i] \in inProgress[c]

\* While the connection lasts, however many requests a client has under way,
\* each is a request not yet handled or an answer not yet received, and there
\* is nothing else: none is lost or answered twice, denials included.
OneAnswerPerRequest ==
    \A c \in Clients : session[c] = "open" =>
        Cardinality({i \in DOMAIN events[c] : events[c][i] = Request})
            + Len(answers[c]) = asked[c]

\* A link joins a crawled page and a Url the server still holds, whatever
\* was taken from the queue between the nodes and the links of a client.
LinksSound ==
    \A e \in links : e[1] \in crawled /\ e[2] \in Held

\* A client does not wait for ever: it gets answer after answer to the requests
\* it makes, or loses its connection.
RequestAnswered ==
    \A c \in Clients :
        []<>(asked[c] = 0) \/ []<><<asked'[c] < asked[c]>>_vars

\* The Urls in progress of a lost client are all there to be given out again
\* before its thread is deleted, whatever it was given after the loss.
LostUrlReturns ==
    \A c \in Clients :
        session[c] = "lost" /\ inProgress[c] # {}
            ~> inProgress[c] # {} /\ inProgress[c] \subseteq inQueue \cup crawled
=============================================================================
