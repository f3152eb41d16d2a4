------------------------------ MODULE Crawler -------------------------------
(***************************************************************************)
(* The crawl of a client: the download manager (CNetworkManager and its    *)
(* NetworkManagerThread slots), the analysis of pages (MCCrawl), the pool  *)
(* of Urls to report (MCUrlsPoolManager) and the state of MCClient that    *)
(* starts and stops them.                                                  *)
(*                                                                         *)
(* Everything runs in the main thread, but the analysis of a page lets Qt  *)
(* process events before each link: other downloads may end, and their     *)
(* pages be analyzed, inside it.  analyses is that stack; only its top     *)
(* frame runs, and any event may come before each of its links.  All share *)
(* one RegExpHTTPLink: an analysis that another one overtook finds, instead *)
(* of its link, the failed match the other one ended with.                 *)
(*                                                                         *)
(* The depth of Urls is abstracted: whether a new link is too far is a     *)
(* choice.  ClientPeer models the requests and the connection.             *)
(***************************************************************************)
EXTENDS Naturals, Sequences, FiniteSets

CONSTANTS
    Threads,   \* the download slots, numbered from 1
    Urls,
    Web,       \* the other Urls each page links to that may be crawled
    LinkFirst, \* the Urls whose page has a link for its first characters
    Seeds,     \* the Urls the server may send
    NoUrl,
    MaxAsked,  \* bound: requests for a Url the model counts
    MaxNotices \* bound: deliveries of allDone() still queued when a Url comes

ASSUME CrawlerAssumption ==
    /\ Threads \subseteq Nat /\ IsFiniteSet(Threads)
    /\ Web \in [Urls -> SUBSET Urls] /\ \A u \in Urls : u \notin Web[u]
    /\ NoUrl \notin Urls /\ Seeds \subseteq Urls /\ LinkFirst \subseteq Urls
    /\ MaxAsked \in Nat \ {0} /\ MaxNotices \in Nat

VARIABLES
    client,      \* MCClient::m_enumState
    asked,       \* requests for a Url that are not answered yet
    net,         \* CNetworkManager
    inQueue,     \* MCApp->urlsInQueue()
    neighbor,    \* MCApp->urlsNeighbor()
    crawled,     \* MCApp->urlsCrawled()
    links,       \* the successors of each crawled Url
    analyses,    \* calls of analyzeContent_, the running one last
    allDone,     \* queued deliveries of allDone(), oldest first
    toTransfer   \* m_lstUrlsToTransfer

collections == <<inQueue, neighbor, crawled, links>>
vars == <<client, asked, net, collections, analyses, allDone, toTransfer>>

ClientStates == {"Unavailable", "Idle", "Crawl"}

\* A slot is loading while its reply is in m_lstReplies, and redirecting from
\* the redirection until its aborted reply finishes.
Slot == [phase : {"free", "loading", "redirecting", "analyzing"},
         url : Urls \cup {NoUrl},
         redirected : BOOLEAN]   \* the "Downloading" property was copied

Network == [pending : Seq(Urls),            \* m_lstPendingRequests
            processing : BOOLEAN,           \* m_bProcessingPendingRequests
            slots : [Threads -> Slot]]      \* m_lstThreads

Frame == [thread : Threads, url : Urls, rest : SUBSET Urls,
          new : BOOLEAN,         \* the page was not in the crawled Urls
          overtaken : BOOLEAN]   \* another analysis used RegExpHTTPLink since
                                 \* the last match

Entry == [url : Urls, crawled : BOOLEAN]

FreeSlot == [phase |-> "free", url |-> NoUrl, redirected |-> FALSE]

FreshNetwork == [pending |-> <<>>, processing |-> FALSE,
                 slots |-> [t \in Threads |-> FreeSlot]]

EmptyPool == {}

-----------------------------------------------------------------------------
(* CNetworkManager. *)

Free(n)    == {t \in Threads : n.slots[t].phase = "free"}
Loading(n) == {t \in Threads : n.slots[t].phase = "loading"}

Start(u) == [phase |-> "loading", url |-> u, redirected |-> FALSE]

\* nextPendingRequest_
NextPending(n, t) ==
    [n EXCEPT !.slots[t] = Start(Head(n.pending)), !.pending = Tail(@)]

\* addPendingRequest: the first free slot takes the oldest request.
AddPending(n, u) ==
    LET m == [n EXCEPT !.pending = Append(@, u)] IN
    IF m.processing /\ Free(m) # {}
    THEN NextPending(m, CHOOSE t \in Free(m) : \A s \in Free(m) : t <= s)
    ELSE m

\* setProcessingPendingRequests(true): each free slot takes a request, in
\* order, as long as there are any.
Rank(n, t) == Cardinality({s \in Free(n) : s <= t})

Resume(n) ==
    LET taken == {t \in Free(n) : Rank(n, t) <= Len(n.pending)} IN
    [pending |-> SubSeq(n.pending, Cardinality(taken) + 1, Len(n.pending)),
     processing |-> TRUE,
     slots |-> [t \in Threads |->
                  IF t \in taken THEN Start(n.pending[Rank(n, t)]) ELSE n.slots[t]]]

Pause(n) == [n EXCEPT !.processing = FALSE]

\* Variant: the slot waits for the next call of setProcessingPendingRequests.
EndThreadOnly(n, t) == [n EXCEPT !.slots[t] = FreeSlot]

\* The end of slotNetworkReplyFinished: the slot takes the next request.
EndThread(n, t) ==
    IF n.processing /\ n.pending # <<>> THEN NextPending(n, t)
    ELSE [n EXCEPT !.slots[t] = FreeSlot]

\* allDone() is emitted when no slot took a request and no reply is left; both
\* of its receivers are connected with a queue.
AllDoneAfter(n) ==
    IF ~(n.processing /\ n.pending # <<>>) /\ Loading(n) = {}
    THEN allDone \o <<"crawl", "pool">> ELSE allDone

-----------------------------------------------------------------------------
(* States of MCClient and what MCCrawl does of them (clientStateChanged_). *)

\* setState: a client that is not connected keeps its state.
Changes(state) == client \notin {"Unavailable", state}

\* setState_: the signal leaves the download manager in n.
SetState(state, n) == client' = state /\ net' = n

\* setState_(CrawlState)
BecomeCrawl(n) == SetState("Crawl", Resume(n))

\* Variant: an idle client waits for Urls without asking for one.
BecomeIdleSilent(n) ==
    IF n.pending = <<>> THEN SetState("Idle", n) /\ UNCHANGED asked
    ELSE BecomeCrawl(n) /\ UNCHANGED asked

\* setState_(IdleState), which goes on to CrawlState when there are requests.
BecomeIdle(n) ==
    IF n.pending = <<>>
    THEN /\ SetState("Idle", n)
         /\ asked' = IF asked < MaxAsked THEN asked + 1 ELSE asked
    ELSE BecomeCrawl(n) /\ UNCHANGED asked

\* Variant: a Url that is added does not wake an idle client.
EnqueueAsleep(u) ==
    /\ inQueue' = inQueue \cup {u}
    /\ net' = IF u \in inQueue THEN net ELSE [net EXCEPT !.pending = Append(@, u)]
    /\ UNCHANGED client

\* MCUrlsCollection::addUrl on the queue and MCCrawl::queueUrlAdded_.
Enqueue(u) ==
    /\ inQueue' = inQueue \cup {u}
    /\ IF u \in inQueue THEN UNCHANGED <<net, client>>
       ELSE IF client = "Idle" THEN BecomeCrawl(AddPending(net, u))
       ELSE SetState(client, AddPending(net, u))

-----------------------------------------------------------------------------
Top == analyses[Len(analyses)]

\* The event loop runs: outside an analysis, or before one of its links.
Responsive == analyses # <<>> => Top.rest # {}

\* MCCrawl::MCCrawl
FreshCrawl == analyses = <<>> /\ allDone = <<>>

\* The objects that MCClientApplication::init_ creates.
Init ==
    /\ client = "Unavailable"
    /\ asked = 0
    /\ inQueue = {} /\ neighbor = {} /\ crawled = {}
    /\ links = [u \in Urls |-> {}]
    /\ net = FreshNetwork
    /\ FreshCrawl
    /\ toTransfer = EmptyPool

\* MCClient::connected_
ClientConnected ==
    /\ Responsive /\ client = "Unavailable"
    /\ BecomeIdle(net)
    /\ UNCHANGED <<collections, analyses, allDone, toTransfer>>

\* MCClient::closing_ and disconnected_; the answers on their way are lost.
ClientDisconnected ==
    /\ Responsive /\ client # "Unavailable"
    /\ SetState("Unavailable", Pause(net))
    /\ asked' = 0
    /\ UNCHANGED <<collections, analyses, allDone, toTransfer>>

\* MCClient::peerSeedUrlResponse_; the server only sends valid Urls, but a client
\* that was disconnected may be sent one that it still has to crawl.
SeedUrlReceived(u) ==
    /\ Responsive /\ asked > 0 /\ Len(allDone) <= MaxNotices
    /\ asked' = asked - 1
    /\ Enqueue(u)
    /\ UNCHANGED <<neighbor, crawled, links, analyses, allDone, toTransfer>>

-----------------------------------------------------------------------------
(* Downloads. *)

\* slotNetworkReplyDownloadProgress: the reply is taken out of the replies
\* and aborted.  A download that was redirected once skips this test.
Redirect(t) ==
    /\ Responsive /\ net.slots[t].phase = "loading" /\ ~net.slots[t].redirected
    /\ net' = [net EXCEPT !.slots[t].phase = "redirecting"]
    /\ UNCHANGED <<client, asked, collections, analyses, allDone, toTransfer>>

\* slotNetworkReplyFinished for that reply: the slot goes on with a new one.
FollowRedirect(t) ==
    /\ Responsive /\ net.slots[t].phase = "redirecting"
    /\ net' = [net EXCEPT !.slots[t].phase = "loading", !.slots[t].redirected = TRUE]
    /\ UNCHANGED <<client, asked, collections, analyses, allDone, toTransfer>>

\* addUrlToTransfer, by the signal of the collection a Url is added to.
ToTransfer(u, isCrawled) == toTransfer \cup {[url |-> u, crawled |-> isCrawled]}

\* Variant: a Url that cannot be downloaded stays in the queue.
DownloadFailsKept(t) ==
    /\ Responsive /\ net.slots[t].phase = "loading"
    /\ net' = EndThread(net, t)
    /\ allDone' = AllDoneAfter([net EXCEPT !.slots[t].phase = "free"])
    /\ UNCHANGED <<client, asked, collections, analyses, toTransfer>>

\* slotNetworkReplyFinished and networkManagerFinished_ after an error, which
\* may be a status of 400 or more, or a content that is not text.
DownloadFails(t) ==
    LET u == net.slots[t].url IN
    /\ Responsive /\ net.slots[t].phase = "loading"
    /\ inQueue' = inQueue \ {u}
    /\ neighbor' = neighbor \ {u}
    /\ net' = EndThread(net, t)
    /\ allDone' = AllDoneAfter([net EXCEPT !.slots[t].phase = "free"])
    /\ UNCHANGED <<client, asked, crawled, links, analyses, toTransfer>>

\* The analyses in progress, once another one starts inside the last of them.
Overtaken == IF analyses = <<>> THEN <<>>
             ELSE [analyses EXCEPT ![Len(analyses)].overtaken = TRUE]

\* The same without error: the page is crawled, and reported unless it was
\* crawled before; its analysis starts.
DownloadSucceeds(t) ==
    LET u == net.slots[t].url IN
    /\ Responsive /\ net.slots[t].phase = "loading"
    /\ net' = [net EXCEPT !.slots[t].phase = "analyzing"]
    /\ inQueue' = inQueue \ {u}
    /\ neighbor' = neighbor \ {u}
    /\ crawled' = crawled \cup {u}
    /\ toTransfer' = IF u \in crawled THEN toTransfer ELSE ToTransfer(u, TRUE)
    /\ analyses' = Append(Overtaken, [thread |-> t, url |-> u, rest |-> Web[u],
                                      new |-> u \notin crawled, overtaken |-> FALSE])
    /\ UNCHANGED <<client, asked, links, allDone>>

-----------------------------------------------------------------------------
(* analyzeContent_ *)

\* Variant: a link to a page of one of the lists is not an edge.
AddSuccessorNew(v) ==
    links' = IF Top.new /\ v \notin crawled \cup neighbor \cup inQueue
             THEN [links EXCEPT ![Top.url] = @ \cup {v}] ELSE links

\* Only the object of the first analysis is reported.
AddSuccessor(v) ==
    links' = IF Top.new THEN [links EXCEPT ![Top.url] = @ \cup {v}] ELSE links

\* One link of the page: an edge, and a new Url to crawl or a neighbor.
AnalyzeLink ==
    /\ analyses # <<>> /\ ~Top.overtaken
    /\ \E v \in Top.rest :
          /\ analyses' = [analyses EXCEPT ![Len(analyses)].rest = @ \ {v}]
          /\ AddSuccessor(v)
          /\ \/ /\ v \in crawled \cup neighbor \cup inQueue
                /\ UNCHANGED <<client, net, inQueue, neighbor, toTransfer>>
             \/ /\ v \notin crawled \cup neighbor \cup inQueue
                /\ \/ /\ neighbor' = neighbor \cup {v}
                      /\ toTransfer' = ToTransfer(v, FALSE)
                      /\ UNCHANGED <<client, net, inQueue>>
                   \/ Enqueue(v) /\ UNCHANGED <<neighbor, toTransfer>>
    /\ UNCHANGED <<asked, crawled, allDone>>

\* The captured text is empty and the position goes back by one character: the
\* link is matched again, unless it was at the first character, where Qt takes
\* the position for the last character of the page.
MatchAgain ==
    /\ analyses # <<>> /\ Top.overtaken
    /\ LET atStart == Top.url \in LinkFirst /\ Top.rest = Web[Top.url] IN
          analyses' = [analyses EXCEPT ![Len(analyses)].overtaken = FALSE,
                                       ![Len(analyses)].rest = IF atStart THEN {} ELSE @]
    /\ UNCHANGED <<client, asked, net, collections, allDone, toTransfer>>

\* The analysis returns to slotNetworkReplyFinished.
AnalysisEnds ==
    /\ analyses # <<>> /\ Top.rest = {}
    /\ analyses' = SubSeq(analyses, 1, Len(analyses) - 1)
    /\ net' = EndThread(net, Top.thread)
    /\ allDone' = AllDoneAfter([net EXCEPT !.slots[Top.thread].phase = "free"])
    /\ UNCHANGED <<client, asked, collections, toTransfer>>

-----------------------------------------------------------------------------
(* Deliveries of allDone(). *)

\* Variant: the crawl ends only for a client that is not crawling.
CrawlAllDoneLate ==
    /\ Responsive /\ allDone # <<>> /\ Head(allDone) = "crawl"
    /\ allDone' = Tail(allDone)
    /\ UNCHANGED <<client, asked, net, collections, analyses, toTransfer>>

\* MCCrawl::networkManagerAllDone_
CrawlAllDone ==
    /\ Responsive /\ allDone # <<>> /\ Head(allDone) = "crawl"
    /\ allDone' = Tail(allDone)
    /\ IF net.pending = <<>> /\ Changes("Idle") THEN BecomeIdle(net)
       ELSE IF net.pending # <<>> /\ ~net.processing /\ Changes("Crawl")
       THEN BecomeCrawl(net) /\ UNCHANGED asked
       ELSE UNCHANGED <<client, asked, net>>
    /\ UNCHANGED <<collections, analyses, toTransfer>>

\* MCUrlsPoolManager::networkManagerAllDone_ and flush_, connected or not.
PoolAllDone ==
    /\ Responsive /\ allDone # <<>> /\ Head(allDone) = "pool"
    /\ allDone' = Tail(allDone)
    /\ toTransfer' = IF net.pending = <<>> THEN EmptyPool ELSE toTransfer
    /\ UNCHANGED <<client, asked, net, collections, analyses>>

-----------------------------------------------------------------------------
Finishes(t) == FollowRedirect(t) \/ DownloadFails(t) \/ DownloadSucceeds(t)

Analyzes == AnalyzeLink \/ MatchAgain \/ AnalysisEnds

Next ==
    \/ ClientConnected \/ ClientDisconnected
    \/ \E u \in Seeds : SeedUrlReceived(u)
    \/ \E t \in Threads :
          Redirect(t) \/ FollowRedirect(t) \/ DownloadFails(t) \/ DownloadSucceeds(t)
    \/ AnalyzeLink \/ MatchAgain \/ AnalysisEnds
    \/ CrawlAllDone \/ PoolAllDone

Spec == Init /\ [][Next]_vars

\* Downloads end, analyses go on and queued notifications are delivered;
\* nobody is obliged to connect, to leave or to send a Url.
FairSpec ==
    /\ Spec
    /\ \A t \in Threads : WF_vars(Finishes(t))
    /\ WF_vars(Analyzes) /\ WF_vars(CrawlAllDone) /\ WF_vars(PoolAllDone)

-----------------------------------------------------------------------------
(* Properties. *)

TypeOK ==
    /\ client \in ClientStates
    /\ asked \in Nat
    /\ net \in Network
    /\ inQueue \subseteq Urls /\ neighbor \subseteq Urls /\ crawled \subseteq Urls
    /\ links \in [Urls -> SUBSET Urls]
    /\ analyses \in Seq(Frame)
    /\ allDone \in Seq({"crawl", "pool"})
    /\ toTransfer \subseteq Entry

InWork(u) ==
    Cardinality({i \in DOMAIN net.pending : net.pending[i] = u})
      + Cardinality({t \in Threads : /\ net.slots[t].url = u
                                     /\ net.slots[t].phase \in {"loading", "redirecting"}})

\* The queue of Urls shown to the user and the download manager agree: each
\* queued Url waits or is downloaded exactly once, and nothing else is.
QueueMatchesWork ==
    \A u \in Urls : InWork(u) = IF u \in inQueue THEN 1 ELSE 0

\* No request waits beside a free slot, none waits for the client once it is
\* connected, and a disconnected client takes none.
NoSlotWasted ==
    /\ net.pending # <<>> /\ net.processing => Free(net) = {}
    /\ net.pending # <<>> /\ client # "Unavailable" => net.processing
    /\ net.processing => client # "Unavailable"

\* An idle client has asked for a Url, and somebody will wake it up.  It stops
\* waiting in one case only: the answer is a Url that it was given before a
\* disconnection and is still downloading, and nothing asks again after that.
IdleIsWaiting ==
    [][client' = "Idle" /\ asked' = 0 =>
          /\ client = "Idle"
          /\ asked = 0 \/ \E u \in inQueue : SeedUrlReceived(u)]_vars

\* A crawling client has something to do, or its end is on the way.
CrawlHasWork ==
    client = "Crawl" =>
        \/ net.pending # <<>> \/ \E t \in Threads : net.slots[t].phase # "free"
        \/ \E i \in DOMAIN allDone : allDone[i] = "crawl"

\* A page is reported with all its links, unless its analysis is under way,
\* however many other analyses ran inside it.  The exception is a page that
\* begins with a link: overtaken there, its analysis finds none.
ReportsAreComplete ==
    \A u \in Urls :
        [url |-> u, crawled |-> TRUE] \in toTransfer =>
            \/ links[u] = Web[u]
            \/ u \in LinkFirst /\ links[u] = {}
            \/ \E i \in DOMAIN analyses : analyses[i].url = u /\ analyses[i].new

\* Unless the server sends Urls for ever, a client that stays connected ends
\* its crawl: nothing is left to download or to report, and it waits.
CrawlEnds ==
    \/ []<><<\E u \in Seeds : SeedUrlReceived(u)>>_vars
    \/ []<>(client = "Unavailable")
    \/ <>[](client = "Idle" /\ inQueue = {} /\ toTransfer = {})
=============================================================================
