------------------------------ MODULE UrlViews ------------------------------
(***************************************************************************)
(* What the server's window shows of the Urls: the trees of the queue, of  *)
(* the Urls in progress and of the crawled Urls, and the graph.  The tree  *)
(* in progress is told directly; the others are told by posted events, so  *)
(* they lag behind the collections, and the collections and links may have *)
(* changed again when an event is handled.                                 *)
(*                                                                         *)
(* A row and a link belong to an MCUrlInfo object, not to a Url: an object *)
(* keeps the pointer to its row and its node, and its lists of successors  *)
(* and ancestors.  UrlDispatch names Urls only, so this module follows the *)
(* objects the links lead to.                                              *)
(***************************************************************************)
EXTENDS UrlDispatch

CONSTANTS
    Path,        \* segments of a Url after its scheme, letter case ignored
    MaxNotices   \* bound: signals of the collections waiting at a time

Segments == UNION {{Path[u][i] : i \in DOMAIN Path[u]} : u \in Urls}

\* A path of no segment or of more than 8 gets no node, and the code does not
\* expect that; such Urls are left out.
ASSUME ViewsAssumption ==
    /\ Path \in [Urls -> Seq(Segments)]
    /\ \A u \in Urls : Len(Path[u]) \in 1 .. 8
    /\ MaxNotices \in Nat \ {0}
    /\ {"queue", "crawled", "gone"} \cap Clients = {}

VARIABLES
    notices,      \* signals of the collections posted to the widgets
    queueRows,    \* Urls with a row that an object in the queue points to
    staleRows,    \* Urls with rows in that tree that no object points to
    progressRows, \* Urls with a row in the tree of Urls in progress
    drawn,        \* Urls with a row in the tree of crawled Urls and a node
    tree,         \* nodes of the graph
    edges,        \* <<a, b>>: the leaf a has a link to the leaf b
    successors,   \* links, with the place of the object they lead to
    late          \* links made when both pages were drawn (history)

rows  == <<queueRows, staleRows, progressRows>>
graph == <<drawn, tree, edges>>
viewVars == <<notices, rows, graph, successors, late>>
allVars == <<vars, viewVars>>

Queued(u)   == [type |-> "queued", url |-> u]
Unqueued(u) == [type |-> "unqueued", url |-> u]
Crawled(u)  == [type |-> "crawled", url |-> u]

\* An object is in a collection or, as a Url in progress, with a client.
Places == {"queue", "crawled"} \cup Clients

ViewInit ==
    /\ Init
    /\ notices = <<>>
    /\ queueRows = {} /\ staleRows = {} /\ progressRows = {}
    /\ drawn = {} /\ tree = {} /\ edges = {}
    /\ successors = {}
    /\ late = {}

-----------------------------------------------------------------------------
(* The steps of UrlDispatch, with the signals and the objects. *)

Announce(signals) ==
    /\ Len(notices) < MaxNotices
    /\ \E s \in Orders(signals) : notices' = notices \o s

\* An object that no collection holds any more is not shown.
Relocated(Place(_)) ==
    {t \in {[s EXCEPT !.at = Place(s)] : s \in successors} : t.at \in Places}

ViewAddSeedUrl(u) ==
    /\ AddSeedUrl(u)
    /\ Announce({Queued(u)})
    /\ UNCHANGED <<rows, graph, successors, late>>

\* The object taken joins the Urls in progress of the client, unless an object
\* of the same Url is there.
ViewSeedUrlRequest(c) ==
    /\ OnSeedUrlRequest(c)
    /\ LET taken == inQueue \ inQueue'
           Place(s) == IF s.at # "queue" \/ s.child \notin taken THEN s.at
                       ELSE IF s.child \in inProgress[c] THEN "gone" ELSE c
       IN  /\ Announce({Unqueued(u) : u \in taken})
           /\ progressRows' = progressRows \cup taken
           /\ successors' = Relocated(Place)
    /\ UNCHANGED <<queueRows, staleRows, graph, late>>

\* A crawled node that was queued is crawled as the object of the queue,
\* another one as a new object.
ViewDataNodes(c) ==
    /\ OnDataNodes(c)
    /\ LET flags == Head(events[c]).nodes
           done  == {u \in DOMAIN flags : flags[u]}
           Place(s) == IF s.at # "queue" \/ s.child \notin done THEN s.at
                       ELSE IF s.child \in crawled THEN "gone" ELSE "crawled"
       IN  /\ Announce({Queued(u) : u \in (DOMAIN flags \ done) \ inQueue}
                           \cup {Unqueued(u) : u \in done \cap inQueue}
                           \cup {Crawled(u) : u \in done \ crawled})
           /\ successors' = Relocated(Place)
    /\ UNCHANGED <<rows, graph, late>>

\* A child is looked for in the queue first.
ViewLinkNodes(c) ==
    /\ OnLinkNodes(c)
    /\ LET p     == Head(events[c]).parent
           kids  == IF p \in crawled THEN Head(events[c]).children ELSE {}
           Made(S, place) == {[parent |-> p, child |-> u, at |-> place] : u \in S}
       IN  /\ successors' = successors \cup Made(kids \cap inQueue, "queue")
                                \cup Made((kids \cap crawled) \ inQueue, "crawled")
           /\ late' = late \cup {<<p, u>> : u \in IF p \in drawn THEN kids \cap drawn ELSE {}}
    /\ UNCHANGED <<notices, rows, graph>>

\* Variant: merge announces nothing.
MergeSignalsNone(c) == {}

\* merge() announces every Url, also one it overwrites.
MergeSignals(c) == {Queued(u) : u \in inProgress[c]}

ViewUnconnected(c) ==
    /\ OnUnconnected(c)
    /\ LET Place(s) == IF s.child \notin inProgress[c] THEN s.at
                       ELSE IF s.at = "queue" THEN "gone"
                       ELSE IF s.at = c THEN "queue" ELSE s.at
       IN  /\ Announce(MergeSignals(c))
           /\ successors' = Relocated(Place)
    /\ UNCHANGED <<rows, graph, late>>

-----------------------------------------------------------------------------
(* Slots of the trees and of the window. *)

\* slotAddUrl_ of the tree of the queue: always a new row.  When there is one,
\* it is that of an object which merge() has overwritten, and no slot reads or
\* removes it any more.
AddQueueRow(u) ==
    /\ queueRows' = queueRows \cup {u}
    /\ staleRows' = staleRows \cup ({u} \cap queueRows)
    /\ UNCHANGED graph

\* slotRemoveUrl_: the row the object points to
RemoveQueueRow(u) ==
    /\ queueRows' = queueRows \ {u}
    /\ UNCHANGED <<staleRows, graph>>

\* A segment of a path is looked for among the siblings that have children, the
\* last one among those that have none: both kinds of node may have one path.
Inner(path) == [path |-> path, leaf |-> FALSE]
Leaf(path)  == [path |-> path, leaf |-> TRUE]

\* CNode::addNewNode adds the nodes it does not find.
NodesOf(path) ==
    {Leaf(path)} \cup {Inner(SubSeq(path, 1, n)) : n \in 1 .. Len(path) - 1}

\* CFNode::addLink, which does not link twice.  Urls of one path share a node.
Link(a, b) == <<Path[a], Path[b]>>

\* The links of an object whose other end is crawled and has its node.
Successors(u) == {s.child : s \in {t \in successors : t.parent = u /\ t.at = "crawled"}}
Ancestors(u)  == {s.parent : s \in {t \in successors : t.child = u /\ t.at = "crawled"}}

\* Variant: only the successors are linked.
DrawSuccessorsOnly(u) ==
    /\ drawn' = drawn \cup {u}
    /\ tree' = tree \cup NodesOf(Path[u])
    /\ edges' = edges \cup {Link(u, v) : v \in Successors(u) \cap drawn'}
    /\ UNCHANGED <<queueRows, staleRows>>

\* slotUrlCrawledAdded, after the row of the crawled tree.
Draw(u) ==
    /\ drawn' = drawn \cup {u}
    /\ tree' = tree \cup NodesOf(Path[u])
    /\ edges' = edges \cup {Link(u, v) : v \in Successors(u) \cap drawn'}
                      \cup {Link(v, u) : v \in Ancestors(u) \cap drawn'}
    /\ UNCHANGED <<queueRows, staleRows>>

HandleNotice ==
    /\ notices # <<>>
    /\ notices' = Tail(notices)
    /\ LET n == Head(notices)
       IN  \/ n.type = "queued" /\ AddQueueRow(n.url)
           \/ n.type = "unqueued" /\ RemoveQueueRow(n.url)
           \/ n.type = "crawled" /\ Draw(n.url)
    /\ UNCHANGED <<vars, progressRows, successors, late>>

-----------------------------------------------------------------------------
ViewMain(c) ==
    \/ ViewSeedUrlRequest(c)
    \/ ViewDataNodes(c)
    \/ ViewLinkNodes(c)
    \/ ViewUnconnected(c)
    \/ OnFinished(c) /\ UNCHANGED viewVars

ViewNext ==
    \/ \E u \in Seeds : ViewAddSeedUrl(u)
    \/ \E c \in Clients : ViewMain(c)
    \/ \E c \in Clients : Client(c) /\ UNCHANGED viewVars
    \/ HandleNotice

ViewSpec == ViewInit /\ [][ViewNext]_allVars

\* The main thread delivers posted events, notices among them.
FairViewSpec ==
    /\ ViewSpec
    /\ WF_allVars(HandleNotice)
    /\ \A c \in Clients :
        /\ WF_allVars(ViewMain(c))
        /\ WF_allVars(ReceiveAnswer(c) /\ UNCHANGED viewVars)

-----------------------------------------------------------------------------
(* One round of the forces of the links, a pure algorithm on the graph.     *)

\* The lists of siblings, each named by the path of its parent.
Lists == {<<>>} \cup {n.path : n \in {m \in tree : ~m.leaf}}
Children(p) == {n \in tree : SubSeq(n.path, 1, Len(n.path) - 1) = p}

\* Variant: the descendants of the siblings are not searched.
IsAmong(p, target) == \E n \in Children(p) : n.leaf /\ n.path = target

\* CNode::checkIsIn: a leaf is in a list of siblings or below it.
IsIn(p, target) == Len(target) > Len(p) /\ SubSeq(target, 1, Len(p)) = p

\* CFNode::applyGravity: a leaf brings its own links.
Brings(n, E) == {e \in E : n = Leaf(e[1])}

\* attractForceRec2, for the links E: what rises from the lists below p and
\* from the leaves of p, and leads out of p, rises to the list above.
Rising(E) ==
    LET up[p \in Lists] ==
            {e \in E : /\ ~IsIn(p, e[2])
                       /\ \E n \in Children(p) :
                            e \in IF n.leaf THEN Brings(n, E) ELSE up[n.path]}
    IN  up

\* CNode::applyGravity: a link that leads to a leaf of the list p, or below it,
\* pulls a node of p with all that is below it.  up is Rising(E).
Pulling(E, up, p) ==
    {e \in E : /\ IsIn(p, e[2])
               /\ \E n \in Children(p) :
                    e \in IF n.leaf THEN Brings(n, E) ELSE up[n.path]}

\* attractForce2: what rises past the first list is deleted.
Rest(up) == up[<<>>]

-----------------------------------------------------------------------------
(* Properties. *)

\* The Urls with a row when the first n notices of ns are handled.
RowsAfter(shown, ns, n) ==
    {u \in Urls :
        \/ u \in shown /\ \A k \in 1 .. n : ns[k] # Unqueued(u)
        \/ \E k \in 1 .. n : /\ ns[k] = Queued(u)
                             /\ \A m \in k + 1 .. n : ns[m] # Unqueued(u)}

CrawledIn(ns) == {ns[n].url : n \in {m \in DOMAIN ns : ns[m].type = "crawled"}}

\* The Urls of notices that will find a row when the slots handle them.
Doubled == {notices[n].url : n \in {m \in DOMAIN notices :
               /\ notices[m].type = "queued"
               /\ notices[m].url \in RowsAfter(queueRows, notices, m - 1)}}

\* What the trees show once the notices that wait are handled, and no notice of
\* a removal is without its row: then each object of the queue has its row, and
\* the slot that removes a row finds that of its object.  Rows are left behind
\* by merge() only, for the Urls of a client that leaves which are in the queue
\* again.
RowsFollow ==
    /\ [](/\ RowsAfter(queueRows, notices, Len(notices)) = inQueue
          /\ \A n \in DOMAIN notices :
                notices[n].type = "unqueued" =>
                    notices[n].url \in RowsAfter(queueRows, notices, n - 1)
          /\ drawn \cup CrawledIn(notices) = crawled)
    /\ [][\A u \in (staleRows \cup Doubled)' \ (staleRows \cup Doubled) :
             \E c \in Clients : OnUnconnected(c) /\ u \in inProgress[c] \cap inQueue]_allVars

\* The tree of the queue has one row for a Url at most ("Multiple entries for a
\* same Url must be impossible").
OneRowEach == staleRows = {}

\* The graph draws links the server knows between crawled pages and all of
\* them whose object was crawled, in whichever order the two pages and the
\* link arrived, but the links that came when both pages were drawn.
GraphShowsLinks ==
    LET known == {s \in successors : s.at = "crawled" /\ {s.parent, s.child} \subseteq drawn}
        Edge(s) == <<Path[s.parent], Path[s.child]>>
    IN  /\ edges \subseteq {Edge(s) : s \in known}
        /\ {Edge(s) : s \in {t \in known : <<t.parent, t.child>> \notin late}} \subseteq edges

\* After every change of the tree, whatever links are drawn between the leaves,
\* each pulls in one list only in a round of forces, that of the last node above
\* both its ends, and none rises past the root.
PullsOnce ==
    LET leaves == {n.path : n \in {m \in tree : m.leaf}}
    IN  \A E \in SUBSET (leaves \X leaves) :
          LET up == Rising(E)
          IN  Rest(up) = {} /\ \A e \in E :
                LET Above(p, leaf) == Len(p) < Len(leaf) /\ SubSeq(leaf, 1, Len(p)) = p
                    common == {p \in Lists : Above(p, e[1]) /\ Above(p, e[2])}
                IN  {p \in Lists : e \in Pulling(E, up, p)}
                        = {p \in common : \A q \in common : Len(q) <= Len(p)}
LinksPullOnce == [][tree' # tree => PullsOnce']_tree
=============================================================================
