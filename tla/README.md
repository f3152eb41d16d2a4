# MyCrawler: models, checks and proofs

TLA+ modules for the distributed crawler of this repository: a server hands out Urls to clients,
each client downloads the pages it is given, and sends back the Urls and links it found. Paths below
are relative to `src/src/MyCrawler`.

## The system

| Component | State it keeps | Operations |
| --- | --- | --- |
| `MCServer` (MyCrawlerServer/Server.cpp) | `m_enumState`, listening socket, set of client threads | `listen`, `close`, `incomingConnection`, slots for every signal of a client |
| `MCClientThread` (ClientThread.cpp) | connection state, authenticated, refused, Urls in progress | `run` (worker thread), slots for the signals of its peer (main thread) |
| `MCServerTableIP`, `MCServerHistory` | maps of connected clients; map of past clients, saved in a file | add, remove, lookup; save, load |
| `MCServerMainWindow`, `MCClientsTreeWidget`, Url trees, `CGraphWidget` | rows and maps of pointers to them, nodes and edges, the Connect button | click, close, start, force to disconnect; slots for the signals of the server and of the collections |
| `MCClientPeer` (Shared/ClientPeer.cpp) | socket, handshakes, authentication, pending requests, four timers | framing, one `process...Packet_` and one `send...` per packet type, `timerEvent` |
| `MCUrlsCollection`, `MCUrlInfo` | hash map of Urls; shared objects with successors and ancestors | add, remove, take one, merge |
| `MCClient` (MyCrawlerClient/Client.cpp) | connection state, crawl state, seed request timer | `connectToHost`, slots of the peer, `setState` |
| `CNetworkManager` | download slots, queue of pending requests | start, redirect, finish; `allDone` |
| `MCCrawl`, `MCUrlsPoolManager` | queue, neighbors, crawled Urls; list to transfer | analysis of a page; flush of the list |
| `MCClientMainWindow`, `MCServersList` | servers and their rows, servers left to try, cancel and reconnect flags | connect, cancel, reconnect, edit, load and save |
| `ILogger`, `CLoggerManipulator` | static list of loggers and its mutex, one mutex per logger | attach; one statement locks every logger of its level |

How they interact. On the server, `MCServer` and all `MCClientThread` objects live in the main
thread; each `run()` creates an `MCClientPeer` on the stack of its own worker thread. Signals of the
peer reach the main thread as posted events, calls to the peer (`callPeer...`) reach the worker the
same way, and every slot works on state that may have moved on. The window hears of clients inside
those slots, and of Urls by signals that are queued again. The client has one thread, but
`MCCrawl::analyzeContent_` processes events inside its loop, so its slots nest, and its window hears of
each connection state through a queued signal.

What is hard: the order of the last signals of a worker; `quit()` before the event loop; the table,
the history, the tree and the sets of threads, kept in step by separate slots; Urls that are with a
client when its connection ends; views that lag behind objects that are moved, merged and replaced;
requests of a connection that is already lost; timers that outlive what they guard; nested slots on the
client; decisions of the window from notices that are out of date; files emptied before they are written;
statements of several threads in the same logs. `PROJECT.json` lists these hazards at their lines.

What makes each part correct:

- connections: the table is the set of accepted remote clients, one session per hardware address, no
  entry outlives its client, each connection slot is given back, no address is lost at the end;
- dispatch: no Url is forgotten, each of a client's requests is answered once, links join held Urls, a lost
  client's Urls are given out again, and the views follow;
- peer: timeouts fire for the peer that is late and for no other, requests match their answers;
- client: queue and download manager agree, no slot is wasted, a page is reported with its links, a crawl
  ends; the window and the client agree in the end and reconnection tries what it should;
- logger: lines are whole, two logs agree on their order, no thread waits for ever.

## Modules

| Module | What it is |
| --- | --- |
| `Server`, `MCServer` | connections: main thread, workers, sockets, table and history |
| `ClientRegistry` | abstract specification of `Server`: clients, addresses, owners |
| `ServerView`, `MCServerView` | composition of `Server` with the window: tree of clients, closing, stopping, starting, the file of the history |
| `UrlDispatch`, `MCUrlDispatch` | Urls handed out and reported, over connections that come and go |
| `UrlViews`, `MCUrlViews` | composition of `UrlDispatch` with the trees of Urls and the graph |
| `ClientPeer`, `MCClientPeer` | both ends of one connection, the packets between them, timers, faults of the network |
| `Crawler`, `MCCrawler` | download manager, analysis of pages, pool, crawl states of a client |
| `Session`, `MCSession` | connection states of a client, its window, its list of servers |
| `Logger`, `MCLogger` | statements of several threads over the loggers |
| `ServerProofs`, `ServerViewProofs`, `UrlDispatchProofs`, `UrlViewsProofs`, `ClientPeerProofs`, `CrawlerProofs`, `SessionProofs`, `LoggerProofs` | theorems |

### Server and ServerView

A member of `Clients` is one `MCClientThread` object, used again after `clientFinished_` deletes it.
`worker[c]` is the place of `run()`: `starting`, `attached`, `running` (in `exec`), `exiting` (after
`exec`, in `waitForDisconnected`), `returning`, `finished`. `sock[c]` is the state of its socket.
`events[c]` is the queue of signals to the main thread, `calls[c]` the queue of calls to the worker.

- Worker actions follow `ClientThread.cpp:76-147` line by line; `PeerDrops`, `SocketFlushes` and
  `DisconnectFromHost` are what the peer's socket may do there.
- Main actions are the slots: each takes the oldest signal of a client and does everything the slot
  and the slots it calls do (`OnSocketUnconnected` is `peerStateChanged_`, the disconnection in
  `clientConnectionStateChanged_` and the `quit()` of `clientDisconnected_`).
- Known behaviour of Qt that the model uses: `exec()` clears the quit flag; `disconnectFromHost` on a
  connected socket emits ClosingState, stops reading, and emits UnconnectedState at once or after the
  data is written; `waitForDisconnected` may time out and leave the socket open; the destructor of an
  open socket aborts it, with its state change; `finished()` is posted after that; posted events of a
  thread to an object keep their order; `QTcpServer::listen` fails when already listening.
- A signal that would not change `m_enumConnectionState` is an early return in the code. `EventOrder`
  shows that it does not happen, so no action has it.

`ServerView` joins each action with what the window does in the same slot: a row is a record reached
through a pointer, `managed` and `byHAddr` are the two maps of pointers, and a new row takes the lowest
pointer nothing holds, so a stale pointer would show as a wrong row. It adds the user's clicks, the wait of
`closeEvent` for the clients, the history's file (`Killed` may leave it torn, and a torn file ends the next
start), and a new start.

Abstractions: connections that find the server full are not modelled (they change nothing);
`m_nMaxConnections` and the option to save the history are constants; one queue per client instead of one
per thread (more orders, never fewer); packets before authentication other than the authentication end in
`PeerDrops`. The progress dialog of the window runs nested events only while it closes.

### UrlDispatch and UrlViews

The same main-thread slots, seen from the Urls. The client is seen from the server: it asks, receives Urls and
denials, and each time its pool is flushed sends nodes, then links. It may do so in any order, with several
requests under way: the program asks when it becomes idle, also when `allDone` is delivered inside an analysis
(`Crawl.cpp:172`) that goes on afterwards, some time after a denial (`Client.cpp:250`), and when it reconnects,
also while it downloads (`Client.cpp:275`). `Crawler` and `ClientPeer` say when; `asked[c]` counts the
answers the client waits for. `given[c]` are the Urls it has received and not yet reported; `read` and
`neighbors` are its own lists, so a client reports a Url as the program does: pages when first read,
neighbors when first seen. `Report` is a flush with all that was downloaded since the last one; a page whose
analysis is half done is sent with the links found so far (`seen`), and its other links never are. The life of a
connection is reduced to `open`, `lost` (the disconnection is queued), `over` (handled) and `none`; that nothing
follows the disconnection in the queue is `EventOrder` in `Server`.

`UrlViews` adds the signals the collections post to the widgets, the rows they make and remove, the
objects (by the place that holds them) that successors lead to, and the graph: the tree of nodes
`addNewNode` makes of the segments of a Url, the edges, and one round of the recursion in
`attractForceRec2` that lets each link rise to the list where it pulls. `slotAddUrl_` of the tree of the queue
always makes a row: `queueRows` are those an object of the queue points to, `staleRows` those of objects that
`merge` has overwritten, which no slot reads or removes any more.

Abstractions: a Url is its hash; a packet of nodes is a map, since its entries are distinct and each
is handled on its own; successor lists are a set of links; depth is abstracted by letting any of the
new links be read, reported or dropped (a failed download). A Url has from 1 to 8 segments: the code
gives the others no node and then uses it. Positions and the size of the forces are left out.

### ClientPeer

`peer[e]` is the private data of the `MCClientPeer` at each end, `wire[e]` the packets written to it.
`Receive` takes one packet and does all that `processPacket_` does, error paths and disconnections included;
`ForeignSends` lets another program be at one end. The network is `prompt`, `slow` or `cut`. Time is counted
in the 30 s of the keep-alive timer; a timer counts down, fires before time goes on, and repeats until it is
killed, as in the code; a timeout aborts a socket in whatever state it is. Packet contents and lengths are reduced to the type of the packet and to whether it
is well formed. The server's main thread answers a request within a tick.

### Crawler

`net` is the download manager (requests, flag, slots), `analyses` the stack of calls of `analyzeContent_`,
of which only the last runs; any event may come before each of its links. `allDone` is the queue of
notifications for `MCCrawl` and for the pool. The shared `RegExpHTTPLink` is a flag of each analysis
(`overtaken`): it makes the analysis match its link again, and `LinkFirst` names the pages that begin with
a link, for which Qt takes the resulting position for the end of the page. Depth is abstracted: a new link
is followed or becomes a neighbor. The data of a slot are its phase, its Url and the property a redirected
request inherits; transfer rates and the abort of a single download by the user are left out.

### Session

`socket` is what `QTcpSocket` is in, `conn` is `MCClient::m_enumConnectionState`, `notices` the signals on
their way to the window. The event loop delivers in one pass what was posted before it (`pass`), then
handles the user and the network: a step of the user waits for the end of a pass, and the notices that
arrive meanwhile are for the next. A server of the list is its priority and its number of users. `file`
is what the start of the program reads; `Killed` may leave it torn, and the program then does not start.
A connection ends through ClosingState or, when a timeout or an error aborts it, at once. A socket that is
disconnected closes within the call that waits for it: data that are still unsent after
the 30 seconds of that wait are left out.

### Logger

A statement is the steps of `ILogger::Log_`, `CLoggerManipulator` and its destructor, one step per logger
visited, with the static mutex and the mutex of each logger; each `<<` waits for the logger's mutex. `out`
is what reached each log. This is the release build, in which the debug logger is absent.

## What TLC checks

| Run | Instance | Result |
| --- | --- | --- |
| `tables` | 2 remote clients behind one IP, 2 hardware addresses and the null one, limit 2 | table, history and clients agree, signals keep their order, the registry is implemented |
| `window` | 1 remote and 1 local client, 1 address, limit 1, `FairViewSpec` | the tree is an image of the server; lost and refused clients give their slot back; what is saved is complete |
| `urls` | 2 clients, 2 pages (one leads to the other), 1 seed, 2 signals or answers under way, symmetric clients (2 469 065 states) | no Url is forgotten, requests and answers add up, links join held Urls |
| `urls_views` | 1 client, 2 pages of one site, 2 signals or answers and 2 notices, `FairViewSpec` (336 897 states) | rows and edges follow, and only `merge` leaves a row behind; each link pulls once; requests are answered, lost Urls return |
| `peer` | default timeouts (60 s, 60 s, 120 s, 60 s, 30 s) in ticks, 2 pending requests, `FairSpec` (141 332 states) | no protocol error between two MyCrawler programs, no false timeout, losses noticed, answers come |
| `crawl` | 2 slots, 3 pages with a cycle, 1 seed, `FairSpec` (815 601 states) | queue and slots agree, reports are complete, an idle client waits for an answer, a crawl ends |
| `session` | 2 servers, 2 priorities, 2 notices, `FairSpec` (307 469 states) | window and client agree, cancellations are due, reconnection starts with the present server, the window rests connected, or with every server tried |
| `logger` | 3 threads, 1 statement each, 3 loggers attached meanwhile | lines are whole, logs agree, statements end |
| `close_completes` | 1 client | violated: `quit()` before `exec()` is forgotten |
| `local_table` | 1 remote and 1 local client | violated: a local client stays in the table |
| `peer_of_error` | 1 client | violated: an error outlives its peer |
| `two_rows` | 1 client, 2 pages | violated: a Url has two rows in the tree of the queue |

Bounds, and why they are enough.

- Two clients and two addresses give every conflict over one address and every order of two
  life cycles. Client objects, addresses, Urls and connections are used again without limit, so histories
  are unbounded. The queues of `Server` need no bound: a worker emits at most five signals in its life.
- `MaxUnderWay` bounds the signals and answers, of all clients together, that are under way when a client sends
  more: with two, a client sends while one is, so that it waits for two answers, and a report of several signals
  crosses a request or the report of the other client. `Memories` bounds what a program that connects may remember: `urls` has both a client that comes
  back with what it knows and one that was started again; `urls_views`, which is about the server, the second only.
- `window` has one slot for two clients, so that a client must wait for the slot of another: a
  second slot would only remove that conflict, and takes longer than 5 minutes.
- Two clients and two pages give a page known to one client and new to the other, in queue, in
  progress and crawled in all combinations; the `Seeds` a user may enter are bounded to the first page.
  `urls_views` has one client, since a Url in progress that is reported and merged needs only its
  own connection to be lost and made again; `MaxNotices` bounds how far the views lag behind: a signal is
  sent while at most one is waiting, and two let a removal and an addition, or a page and its link, cross.
- `MaxPending` and `MaxWire` bound how many requests of a type wait and how many packets are in a stream
  when time passes; two of each type let a response stop the timer of another request. Timers have the
  code's values in units of the smallest.
- `crawl`: two slots and a web with a cycle let an analysis be overtaken, find a Url it already knows, and
  end in either order. `MaxAsked` and `MaxNotices` count what a client may be sent beyond what it asked for
  and the notices of one end of a crawl.
- `session`: two servers are the least for a second choice; `MaxNotices` bounds how far the user runs
  ahead of the window.
- `logger` stops when each thread has made its statement, so deadlock is not checked there;
  `StatementsEnd` says that no thread stays in a statement. In all other runs deadlock is checked: a user
  can always listen, connect or start the program.

Fairness. The specifications called `Fair...` assume of the scheduler, of Qt and of the peers what the code
relies on. Server: each worker runs and the main thread delivers the signals of each client; a blocked
`waitForDisconnected` returns after 30 seconds. Peer: time passes, timers fire, the sockets and the main
thread make progress, and a closing socket is done on a prompt network. Crawl: downloads end (each reply
finishes or fails), an analysis goes on, notices are delivered. Session: notices are delivered, attempts end
(the peer has a timer for each). Logger: a thread that does not wait for a mutex
runs. Views: the main thread handles requests, posted signals and disconnections, and an answer that was
sent arrives or the connection is lost. Nothing is assumed of users, of the network otherwise, or of clients.

Every property of a passing run is also checked against a variant of the code that breaks it (a guard
dropped, an entry not removed, a signal emitted too late...); the variants stand next to the definitions
they vary, marked `Variant`, and are part of no specification.

## What is proved

The theorems hold for any values of the constants under the `ASSUME` of each module (types of the
constants, finite sets where a count is taken, bounds that are natural numbers, clients that are none of the names of
places). `PROJECT.json` lists the theorems by name. Every invariant and every action property
of the passing runs is one of them, but the action in `Settles`.

**ServerProofs.** `IInv == TypeOK /\ AllClientsInv /\ ServerInv /\ TableInv`. The listed invariants are
not inductive: whether the table is right when a disconnection is handled depends on the signals that
are still queued. `AllClientsInv` says, for each client, that its queue is ordered (connected,
authenticated, closing, unconnected, finished, with errors anywhere), lies after `conn` and before `sock`
in the life of the connection, and that the authentication and the handshake follow it. `TableInv` relates
the table to the accepted clients. Each action either posts signals of a client (`PostOrder`, `PostPending`),
takes one (`DeliverOrder`) or does neither; `UntouchedInv` covers the other clients. From `IInv` follow all
invariants of run `tables`, `NeverForgets`, and the refinement (`RegistryStep`, one case per action).

**UrlDispatchProofs.** `IInv == TypeOK /\ ChannelInv /\ GivenUrlsHeld /\ LinksSound`. `ChannelInv` says that
in the queue of a lost connection the disconnection is last, that the queue is empty once it is handled, and
that the requests in the queue and the answers under way are as many as the client waits for. So a request is never handled after the Urls in progress were merged into the
queue, and `Held` never shrinks (`HeldNext`), which keeps the other two invariants true. Requests are counted as a set of
places of the queue: a flush adds none (`RequestsAfterBatch`), a request one (`RequestsAfterOne`), and a signal
that is taken takes its own (`RequestsOfTail`, a bijection of the places), so any number may be under way.

**ClientPeerProofs.** `LossInv`: the timeout timer of a live peer runs, and with the silence since the cut
it adds up to at most twice the period, once only if data came before. It needs that streams are
empty after a cut and that only data clear the flag. `CoverInv`: counted over the stream to the server, the
signals for its main thread and the stream back, requests and answers of a type are at most the pending
entries; each step moves one along or takes one out (`Shrinks`), or sends one with its entry.

`OrderInv` and `WatchInv` speak of two MyCrawler programs (`foreign = "none"`). `OrderInv` says which packets may be
in a stream, and in which order, for each state of its reader: the client's handshake and authentication come
first, and a client that has read a handshake is one the server has authenticated; that a response finds its
request is `CoverInv`. A keep-alive packet may pass the server's handshake on a slow network only, which is why
`NoProtocolError` excepts it.
`WatchInv` is about a prompt network, where time passes only when nothing is under way: each end has had data since its
timer was set, or sends a keep-alive packet before the timer is due, or has something coming (`Watch`), and a pending
request has an answer coming or is made again before its timer is due (`Patient`). Its theorem, `NeverTimedOut`, has
two hypotheses, `KeepAliveInterval < PeerTimeout` and
`SeedUrlInterval < PendingTimeout`: the code has 30 s against 120 s and 30 s against 60 s. They are sharp
(with either equality TLC finds a false timeout), and `MCClient::setSeedUrlRequestInterval` (Client.h:73)
lets the second be broken.

**CrawlerProofs.** `IInv == TypeOK /\ NetInv /\ FrameInv /\ LinksInv`. `WorkInv(n, Q)` restates, without
counting, that the requests and the busy slots of the manager `n` are the Urls of `Q`, each once; lemmas show
what `NextPending`, `AddPending`, `Resume` and `EndThread` do to it, `Resume` with the ranks of the free slots
(a bijection). `FrameInv` gives each analysis on the stack a slot of its own that is neither free nor
loading, so that nothing else ends it. `CrawlTakes` is what `NoSlotWasted` needs when a link is added while the
client crawls. `LinksInv` follows the first analysis of a page, at most one on the stack: it has found
the links that are not in its `rest`, or none at a page that begins with a link.

**SessionProofs.** `SessionInv` speaks of the client as one record `Now`: the socket and the state of
the client go together (`Agrees`), each notice may follow the one before, from what the window shows to the
present state (`Follows`), and a kept cancellation and the list of servers to try belong to that chain (`Due`,
`Ready`).

**LoggerProofs.** A thread is busy with a logger from the head of a line to its end. Until it has locked the
logger it holds the static mutex and the logger is free; from then on it holds the logger (`MutexInv`). So no
two threads are busy with one logger, and what was written to the logger ends with the part of its line that
the phase of the busy thread says, or with a whole line (`OutInv`). `ListInv` says that no
list of loggers names one twice, so that each phase visits each logger once.

`TextInv` says that a log holds no text of a statement that has not reached it. A thread in the phase that writes
texts holds all its loggers, so two statements that share two loggers write to both in one order (`SameOrder`).

**ServerViewProofs.** The window is not only an observer: it ends and starts the program, loads the history,
forgets an address and makes threads quit. `CoreInv` is the invariant of `ServerProofs` with the file and
with a program that is idle while it does not run; each action is one of `Server` or a step of the window that keeps
it (`ConnectionsKept`, `NothingLostAtExit`). `TreeInv` adds that a local client has no hardware address and that the
tree is the image of the server: a row in use names its client, or its address when the client is away, so the change
of one row disturbs no other owner. `TreeIsImage` assumes `LowIds = Clients`, the pointers that fit an
`unsigned int`: for another client the `Assert` of `removeClient` stops the program, as a hazard says.

**UrlViewsProofs.** `ViewsOnlyWatch` is a refinement: with the window, the server still implements `UrlDispatch`, so its
theorems hold too. `ViewInv` is then enough for both views: `TreesToCome`, the first half of `RowsFollow`, and
`GraphShowsLinks` are inductive together, given the types. The second half, that only `merge` leaves a row behind, is
about the notices that will find a row (`Doubled`): one is sent only for a Url of the queue (`DoubledSent`), and
handling a notice adds none (`DoubledHandled`). Their proofs follow the signals of one step through the notices that wait (`ShownBatch`,
`ShownTail`, `FollowsSignals`) and the objects through the places they move to (`Moves`). `ForcesBalance` is about the
recursion over the tree of nodes. `TreeInv` says that above each leaf all inner nodes are there. Then `LeavesFor`, the
links from a leaf below a list to one that is not, solves the equation of `Rising`; a solution exists, so
`Rising` satisfies its own equation, and from the deepest lists up it can be no other one (`RisingIs`, by the
least number of a set, `LeastNat`, as the induction theorems of the library take operators). From there
a link pulls in a list exactly when the list is above both its ends and none of its nodes is (`PullsAt`).

Only model-checked: liveness (fairness and ENABLED are beyond the prover), with all of `Settles` (the client comes to
rest, and the window gives up no server it has not tried), and the four violated properties.

## Findings

Four runs end in a violation of something the sources say; `PROJECT.json` quotes the lines. Briefly: closing
the server may wait for ever for a client that had just arrived; a local client is never removed from the
table; the details of an error are read from a peer that is gone; a Url that is queued again while a client crawls it
has two rows once that client leaves, one of them for ever. No run is about a fifth: the comment "Url unknown"
(`Server.cpp:354`) stands where a Url that is crawled already, or in progress, is queued and crawled again; the
models do the same.

## Not modelled

- Settings, network information and utilities: conversions and queries of the platform, without any
  interleaving; what the rest reads of them is a constant of a module.
- Transfer rates, painting and mouse of the graph, forces between nodes, layouts, dialogs, translations, and
  the prototypes under `src/ServerClients` and `src/backup`: display only, or not part of the programs.
- Bytes: the compression, checksums and splitting of packets are reduced to well formed or not; the text of a
  page to its links; the columns of a row to the fields that decide something.
- Changes of the connection limit or of an option while the program runs, and the abort of one download
  by the user.
- Clients outside `LowIds` (a pointer above 2^32 narrowed to 32 bits), Urls without a node in the graph, and
  connections with data unsent for 30 s after the client disconnects: the code stops or goes wrong at once there, as
  the hazards say, and
  the models leave them out, by a named constant or assumption where they have one.
