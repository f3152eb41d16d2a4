--------------------------- MODULE UrlViewsProofs ---------------------------
(***************************************************************************)
(* The window of the server follows the Urls, for every number of clients  *)
(* and of Urls, every web and every number of notices that wait.           *)
(*                                                                         *)
(* Every step of UrlViews is a step of UrlDispatch or leaves its variables *)
(* as they are, so that what is proved of the Urls holds with the window.  *)
(* The rows follow since each signal that waits says what the handler of   *)
(* its event will do to the tree, and the signals of one step do so in     *)
(* whichever order they are sent; a row is left behind only by a signal    *)
(* for a Url of the queue, which only merge() sends.  The graph follows    *)
(* since a page is drawn only when it is crawled, and a link to a crawled page      *)
(* never moves: a link that becomes visible between two events does so     *)
(* before one of its ends is drawn.                                        *)
(*                                                                         *)
(* The forces: the recursion of Rising has a solution that needs no        *)
(* recursion (LeavesFor), and it is the only one, from the deepest lists   *)
(* of the tree to the root.                                                *)
(***************************************************************************)
EXTENDS UrlViews, UrlDispatchProofs, WellFoundedInduction

Notice == {Queued(u) : u \in Urls} \cup {Unqueued(u) : u \in Urls}
                                   \cup {Crawled(u) : u \in Urls}

ViewTypes ==
    /\ notices \in Seq(Notice)
    /\ queueRows \subseteq Urls
    /\ drawn \subseteq Urls
    /\ successors \subseteq [parent : Urls, child : Urls, at : Places]

\* The first half of RowsFollow.
TreesToCome ==
    /\ RowsAfter(queueRows, notices, Len(notices)) = inQueue
    /\ \A n \in DOMAIN notices :
          notices[n].type = "unqueued" =>
              notices[n].url \in RowsAfter(queueRows, notices, n - 1)
    /\ drawn \cup CrawledIn(notices) = crawled

ViewInv == ViewTypes /\ TreesToCome /\ GraphShowsLinks

-----------------------------------------------------------------------------
(* Notices. *)

LEMMA NoticeKinds ==
    ASSUME NEW u, NEW v
    PROVE  /\ Queued(u).type = "queued" /\ Queued(u).url = u
           /\ Unqueued(u).type = "unqueued" /\ Unqueued(u).url = u
           /\ Crawled(u).type = "crawled" /\ Crawled(u).url = u
           /\ Queued(u) = Queued(v) <=> u = v
           /\ Unqueued(u) = Unqueued(v) <=> u = v
           /\ Crawled(u) = Crawled(v) <=> u = v
           /\ Queued(u) # Unqueued(v) /\ Queued(u) # Crawled(v) /\ Unqueued(u) # Crawled(v)
BY DEF Queued, Unqueued, Crawled

LEMMA NoticeContent ==
    ASSUME NEW n \in Notice
    PROVE  /\ n.url \in Urls
           /\ \/ n.type = "queued" /\ n = Queued(n.url)
              \/ n.type = "unqueued" /\ n = Unqueued(n.url)
              \/ n.type = "crawled" /\ n = Crawled(n.url)
<1>1. PICK u \in Urls : n = Queued(u) \/ n = Unqueued(u) \/ n = Crawled(u)
  BY DEF Notice
<1> QED
  BY <1>1, NoticeKinds

LEMMA NoticesFinite == IsFiniteSet(Notice)
<1>1. IsFiniteSet(Urls)
  BY DispatchAssumption
<1> DEFINE Q == {Queued(u) : u \in Urls}
           R == {Unqueued(u) : u \in Urls}
           S == {Crawled(u) : u \in Urls}
           q == [u \in Urls |-> Queued(u)]
           r == [u \in Urls |-> Unqueued(u)]
           s == [u \in Urls |-> Crawled(u)]
<1>2. q \in Surjection(Urls, Q) /\ r \in Surjection(Urls, R) /\ s \in Surjection(Urls, S)
  <2>1. /\ q \in [Urls -> Q] /\ \A x \in Q : \E u \in Urls : q[u] = x
        /\ r \in [Urls -> R] /\ \A x \in R : \E u \in Urls : r[u] = x
        /\ s \in [Urls -> S] /\ \A x \in S : \E u \in Urls : s[u] = x
    OBVIOUS
  <2> QED
    BY <2>1 DEF Surjection
<1> HIDE DEF q, r, s, Q, R, S
<1>3. IsFiniteSet(Q) /\ IsFiniteSet(R) /\ IsFiniteSet(S)
  BY <1>1, <1>2, FS_Surjection
<1>4. IsFiniteSet((Q \cup R) \cup S)
  BY <1>3, FS_Union
<1>5. Notice = (Q \cup R) \cup S
  BY DEF Notice, Q, R, S
<1> QED
  BY <1>4, <1>5

\* The signals of a step are sent once each.
LEMMA OrderOnce ==
    ASSUME NEW S \in SUBSET Notice, NEW s \in Orders(S)
    PROVE  /\ s \in Seq(Notice) /\ Len(s) \in Nat
           /\ \A i \in 1 .. Len(s) : s[i] \in S
           /\ \A x \in S : \E i \in 1 .. Len(s) : s[i] = x
           /\ \A i, j \in 1 .. Len(s) : s[i] = s[j] => i = j
<1> DEFINE n == Cardinality(S)
<1>1. IsFiniteSet(S) /\ n \in Nat
  BY NoticesFinite, FS_Subset, FS_CardinalityType
<1>2. s \in [1 .. n -> S] /\ \A x \in S : \E i \in DOMAIN s : s[i] = x
  BY DEF Orders
<1>3. IsFiniteSet(1 .. n) /\ Cardinality(1 .. n) = n
  <2>1. \A a, b \in Int : IsFiniteSet(a .. b) /\ Cardinality(a .. b) = IF a > b THEN 0 ELSE b - a + 1
    BY FS_Interval
  <2> HIDE DEF n
  <2>2. IsFiniteSet(1 .. n) /\ Cardinality(1 .. n) = IF 1 > n THEN 0 ELSE n - 1 + 1
    BY <1>1, <2>1
  <2> QED
    BY <1>1, <2>2
<1> HIDE DEF n
<1>4. s \in Surjection(1 .. n, S)
  BY <1>2 DEF Surjection
<1>5. s \in Injection(1 .. n, S)
  BY <1>1, <1>3, <1>4, FS_Surjection DEF n
<1>6. \A i, j \in 1 .. n : s[i] = s[j] => i = j
  BY <1>5 DEF Injection, IsInjective
<1>7. s \in Seq(Notice) /\ Len(s) = n
  BY <1>1, <1>2
<1> QED
  BY <1>1, <1>2, <1>6, <1>7

-----------------------------------------------------------------------------
(* The rows after notices that wait.                                        *)

\* Notices that are added later change nothing before them.
LEMMA ShownBefore ==
    ASSUME NEW r, NEW ns \in Seq(Notice), NEW s \in Seq(Notice), NEW n \in 0 .. Len(ns)
    PROVE  RowsAfter(r, ns \o s, n) = RowsAfter(r, ns, n)
<1>1. Len(ns) \in Nat /\ \A i \in 1 .. Len(ns) : (ns \o s)[i] = ns[i]
  BY ConcatFacts
<1>2. \A i \in 1 .. n : (ns \o s)[i] = ns[i]
  BY <1>1
<1>3. \A k \in 1 .. n : \A m \in k + 1 .. n : (ns \o s)[m] = ns[m]
  BY <1>1
<1> QED
  BY <1>2, <1>3 DEF RowsAfter

\* What the first k notices of a batch do to the row of a Url.
LEMMA ShownBatch ==
    ASSUME NEW r, NEW ns \in Seq(Notice), NEW s \in Seq(Notice), NEW k \in 0 .. Len(s),
           NEW u \in Urls
    PROVE  /\ (\A i \in 1 .. k : s[i] # Queued(u) /\ s[i] # Unqueued(u)) =>
                 (u \in RowsAfter(r, ns \o s, Len(ns) + k) <=> u \in RowsAfter(r, ns, Len(ns)))
           /\ (\E i \in 1 .. k : s[i] = Queued(u)) /\ (\A i \in 1 .. k : s[i] # Unqueued(u)) =>
                 u \in RowsAfter(r, ns \o s, Len(ns) + k)
           /\ (\A i \in 1 .. k : s[i] # Queued(u)) /\ (\E i \in 1 .. k : s[i] = Unqueued(u)) =>
                 u \notin RowsAfter(r, ns \o s, Len(ns) + k)
<1> DEFINE l == Len(ns)
           t == ns \o s
           n == l + k
<1>1. /\ l \in Nat /\ Len(s) \in Nat /\ k \in Nat /\ k <= Len(s)
      /\ \A i \in 1 .. l : t[i] = ns[i]
      /\ \A i \in 1 .. Len(s) : t[l + i] = s[i]
  BY ConcatFacts
<1> HIDE DEF l, t
<1>2. \A i \in 1 .. n : i \in 1 .. l \/ (i - l \in 1 .. k /\ t[i] = s[i - l])
  <2>1. SUFFICES ASSUME NEW i \in 1 .. n, ~ (i <= l)
                 PROVE  i - l \in 1 .. k /\ t[i] = s[i - l]
    BY <1>1
  <2>2. i - l \in 1 .. k /\ i - l \in 1 .. Len(s) /\ l + (i - l) = i
    BY <1>1, <2>1
  <2> QED
    BY <1>1, <2>2
<1>3. ASSUME \A i \in 1 .. k : s[i] # Queued(u) /\ s[i] # Unqueued(u)
      PROVE  u \in RowsAfter(r, t, n) <=> u \in RowsAfter(r, ns, l)
  <2>1. \A i \in 1 .. n : i > l => t[i] # Queued(u) /\ t[i] # Unqueued(u)
    BY <1>1, <1>2, <1>3
  <2>2. (\A i \in 1 .. n : t[i] # Unqueued(u)) <=> (\A i \in 1 .. l : ns[i] # Unqueued(u))
    <3>1. \A i \in 1 .. l : i \in 1 .. n /\ t[i] = ns[i]
      BY <1>1
    <3>2. ASSUME NEW i \in 1 .. n, \A j \in 1 .. l : ns[j] # Unqueued(u)
          PROVE  t[i] # Unqueued(u)
      <4>1. i > l \/ i \in 1 .. l
        BY <1>1
      <4> QED
        BY <1>1, <2>1, <3>2, <4>1
    <3> QED
      BY <3>1, <3>2
  <2>3. (\E i \in 1 .. n : t[i] = Queued(u) /\ \A m \in i + 1 .. n : t[m] # Unqueued(u))
          <=> (\E i \in 1 .. l : ns[i] = Queued(u) /\ \A m \in i + 1 .. l : ns[m] # Unqueued(u))
    <3>1. ASSUME NEW i \in 1 .. n, t[i] = Queued(u), \A m \in i + 1 .. n : t[m] # Unqueued(u)
          PROVE  i \in 1 .. l /\ ns[i] = Queued(u) /\ \A m \in i + 1 .. l : ns[m] # Unqueued(u)
      <4>1. i \in 1 .. l
        BY <1>1, <1>2, <2>1, <3>1
      <4>2. \A m \in i + 1 .. l : m \in i + 1 .. n /\ m \in 1 .. l
        BY <1>1, <4>1
      <4> QED
        BY <1>1, <3>1, <4>1, <4>2
    <3>2. ASSUME NEW i \in 1 .. l, ns[i] = Queued(u), \A m \in i + 1 .. l : ns[m] # Unqueued(u)
          PROVE  i \in 1 .. n /\ t[i] = Queued(u) /\ \A m \in i + 1 .. n : t[m] # Unqueued(u)
      <4>1. i \in 1 .. n /\ t[i] = Queued(u)
        BY <1>1, <3>2
      <4>2. ASSUME NEW m \in i + 1 .. n
            PROVE  t[m] # Unqueued(u)
        <5>1. m \in 1 .. n /\ (m > l \/ (m \in i + 1 .. l /\ m \in 1 .. l))
          BY <1>1, <4>1
        <5> QED
          BY <1>1, <2>1, <3>2, <5>1
      <4> QED
        BY <4>1, <4>2
    <3> QED
      BY <3>1, <3>2
  <2> QED
    BY <2>2, <2>3 DEF RowsAfter
<1>4. ASSUME NEW i \in 1 .. k, s[i] = Queued(u), \A j \in 1 .. k : s[j] # Unqueued(u)
      PROVE  u \in RowsAfter(r, t, n)
  <2>1. l + i \in 1 .. n /\ i \in 1 .. Len(s) /\ t[l + i] = Queued(u)
    <3>1. i \in 1 .. Len(s) /\ l + i \in 1 .. n
      BY <1>1
    <3> QED
      BY <1>1, <1>4, <3>1
  <2>2. ASSUME NEW m \in l + i + 1 .. n
        PROVE  t[m] # Unqueued(u)
    <3>1. m \in 1 .. n /\ m \notin 1 .. l
      BY <1>1, <1>4
    <3> QED
      BY <1>2, <1>4, <3>1
  <2> QED
    BY <2>1, <2>2 DEF RowsAfter
<1>5. ASSUME NEW i \in 1 .. k, s[i] = Unqueued(u), \A j \in 1 .. k : s[j] # Queued(u)
      PROVE  u \notin RowsAfter(r, t, n)
  <2>1. l + i \in 1 .. n /\ t[l + i] = Unqueued(u)
    <3>1. i \in 1 .. Len(s) /\ l + i \in 1 .. n
      BY <1>1
    <3> QED
      BY <1>1, <1>5, <3>1
  <2>2. SUFFICES ASSUME NEW j \in 1 .. n, t[j] = Queued(u), \A m \in j + 1 .. n : t[m] # Unqueued(u)
                 PROVE  FALSE
    BY <2>1 DEF RowsAfter
  <2>3. j \in 1 .. l
    BY <1>2, <1>5, <2>2
  <2>4. l + i \in j + 1 .. n
    BY <1>1, <1>5, <2>3
  <2> QED
    BY <2>1, <2>2, <2>4
<1> QED
  BY <1>3, <1>4, <1>5 DEF l, t

\* The rows after the notices that follow the first one.
LEMMA ShownTail ==
    ASSUME NEW r \in SUBSET Urls, NEW ns \in Seq(Notice), ns # <<>>, NEW n \in 0 .. Len(ns) - 1
    PROVE  RowsAfter(IF Head(ns).type = "queued" THEN r \cup {Head(ns).url}
                 ELSE IF Head(ns).type = "unqueued" THEN r \ {Head(ns).url} ELSE r,
                 Tail(ns), n)
             = RowsAfter(r, ns, n + 1)
<1> DEFINE h == Head(ns)
           q == IF h.type = "queued" THEN r \cup {h.url}
                ELSE IF h.type = "unqueued" THEN r \ {h.url} ELSE r
           t == Tail(ns)
<1>1. /\ h = ns[1] /\ h \in Notice /\ Len(ns) \in Nat /\ Len(ns) > 0
      /\ \A i \in 1 .. Len(ns) - 1 : t[i] = ns[i + 1]
  BY TailFacts
<1>2. /\ h.url \in Urls
      /\ \/ h.type = "queued" /\ h = Queued(h.url)
         \/ h.type = "unqueued" /\ h = Unqueued(h.url)
         \/ h.type = "crawled" /\ h = Crawled(h.url)
  BY <1>1, NoticeContent
<1> HIDE DEF h, t
<1>3. n \in Nat /\ \A i \in 1 .. n : t[i] = ns[i + 1]
  BY <1>1
<1>4. ASSUME NEW u \in Urls
      PROVE  /\ u \in q <=> (u \in r /\ h # Unqueued(u)) \/ h = Queued(u)
             /\ h = Queued(u) => h # Unqueued(u)
  BY <1>2, NoticeKinds
<1> HIDE DEF q
<1>5. ASSUME NEW u \in Urls, u \in RowsAfter(q, t, n)
      PROVE  u \in RowsAfter(r, ns, n + 1)
  <2>1. CASE u \in q /\ \A k \in 1 .. n : t[k] # Unqueued(u)
    <3>1. \A k \in 2 .. n + 1 : ns[k] # Unqueued(u)
      <4>1. SUFFICES ASSUME NEW k \in 2 .. n + 1 PROVE ns[k] # Unqueued(u)
        OBVIOUS
      <4>2. k - 1 \in 1 .. n /\ (k - 1) + 1 = k
        BY <1>3
      <4> QED
        BY <1>3, <2>1, <4>2
    <3>2. CASE h = Queued(u)
      <4>1. 1 \in 1 .. n + 1 /\ 1 + 1 = 2
        BY <1>3
      <4> QED
        BY <1>1, <3>1, <3>2, <4>1 DEF RowsAfter
    <3>3. CASE u \in r /\ h # Unqueued(u)
      <4>1. \A k \in 1 .. n + 1 : k = 1 \/ k \in 2 .. n + 1
        BY <1>3
      <4> QED
        BY <1>1, <3>1, <3>3, <4>1 DEF RowsAfter
    <3> QED
      BY <1>4, <2>1, <3>2, <3>3
  <2>2. ASSUME NEW k \in 1 .. n, t[k] = Queued(u), \A m \in k + 1 .. n : t[m] # Unqueued(u)
        PROVE  u \in RowsAfter(r, ns, n + 1)
    <3>1. k + 1 \in 1 .. n + 1 /\ ns[k + 1] = Queued(u)
      BY <1>3, <2>2
    <3>2. ASSUME NEW m \in (k + 1) + 1 .. n + 1
          PROVE  ns[m] # Unqueued(u)
      <4>1. m - 1 \in k + 1 .. n /\ m - 1 \in 1 .. n /\ (m - 1) + 1 = m
        BY <1>3
      <4> QED
        BY <1>3, <2>2, <4>1
    <3> QED
      BY <3>1, <3>2 DEF RowsAfter
  <2> QED
    BY <1>5, <2>1, <2>2 DEF RowsAfter
<1>6. ASSUME NEW u \in Urls, u \in RowsAfter(r, ns, n + 1)
      PROVE  u \in RowsAfter(q, t, n)
  <2>1. CASE u \in r /\ \A k \in 1 .. n + 1 : ns[k] # Unqueued(u)
    <3>1. 1 \in 1 .. n + 1 /\ \A k \in 1 .. n : k + 1 \in 1 .. n + 1
      BY <1>3
    <3>2. h # Unqueued(u) /\ \A k \in 1 .. n : t[k] # Unqueued(u)
      BY <1>1, <1>3, <2>1, <3>1
    <3> QED
      BY <1>4, <2>1, <3>2 DEF RowsAfter
  <2>2. ASSUME NEW k \in 1 .. n + 1, ns[k] = Queued(u),
               \A m \in k + 1 .. n + 1 : ns[m] # Unqueued(u)
        PROVE  u \in RowsAfter(q, t, n)
    <3>1. CASE k = 1
      <4>1. \A m \in 1 .. n : m + 1 \in k + 1 .. n + 1
        BY <1>3, <3>1
      <4>2. \A m \in 1 .. n : t[m] # Unqueued(u)
        BY <1>3, <2>2, <4>1
      <4> QED
        BY <1>1, <1>4, <2>2, <3>1, <4>2 DEF RowsAfter
    <3>2. CASE k # 1
      <4>1. k - 1 \in 1 .. n /\ (k - 1) + 1 = k
        BY <1>3, <3>2
      <4>2. t[k - 1] = Queued(u)
        BY <1>3, <2>2, <4>1
      <4>3. ASSUME NEW m \in (k - 1) + 1 .. n
            PROVE  t[m] # Unqueued(u)
        <5>1. m \in 1 .. n /\ m + 1 \in k + 1 .. n + 1
          BY <1>3, <4>1
        <5> QED
          BY <1>3, <2>2, <5>1
      <4> QED
        BY <4>1, <4>2, <4>3 DEF RowsAfter
    <3> QED
      BY <3>1, <3>2
  <2> QED
    BY <1>6, <2>1, <2>2 DEF RowsAfter
<1>7. RowsAfter(q, t, n) = RowsAfter(r, ns, n + 1)
  BY <1>5, <1>6 DEF RowsAfter
<1> QED
  BY <1>7 DEF q, h, t

\* The rows follow a step that sends what it does to the queue and to the
\* crawled Urls.
LEMMA FollowsSignals ==
    ASSUME ViewTypes, TreesToCome, NEW S \in SUBSET Notice, Announce(S),
           queueRows' = queueRows, drawn' = drawn,
           inQueue' \subseteq Urls,
           \A u \in Urls : Queued(u) \in S => Unqueued(u) \notin S /\ u \in inQueue',
           \A u \in Urls : Unqueued(u) \in S => u \in inQueue /\ u \notin inQueue',
           \A u \in Urls : Queued(u) \notin S /\ Unqueued(u) \notin S =>
                              (u \in inQueue' <=> u \in inQueue),
           crawled' = crawled \cup {u \in Urls : Crawled(u) \in S}
    PROVE  TreesToCome' /\ notices' \in Seq(Notice)
<1>1. PICK s \in Orders(S) : notices' = notices \o s
  BY DEF Announce
<1>2. /\ s \in Seq(Notice) /\ Len(s) \in Nat
      /\ \A i \in 1 .. Len(s) : s[i] \in S
      /\ \A x \in S : \E i \in 1 .. Len(s) : s[i] = x
      /\ \A i, j \in 1 .. Len(s) : s[i] = s[j] => i = j
  BY OrderOnce
<1> DEFINE l == Len(notices)
           t == notices \o s
<1>3. /\ notices \in Seq(Notice) /\ l \in Nat /\ t \in Seq(Notice) /\ Len(t) = l + Len(s)
      /\ \A i \in 1 .. l : t[i] = notices[i]
      /\ \A i \in 1 .. Len(s) : t[l + i] = s[i]
      /\ \A i \in 1 .. Len(t) : i <= l \/ (i - l \in 1 .. Len(s) /\ t[i] = s[i - l])
  BY <1>2, ConcatFacts DEF ViewTypes
<1>4. DOMAIN notices = 1 .. l /\ DOMAIN t = 1 .. Len(t)
  BY <1>3
<1>5. /\ RowsAfter(queueRows, notices, l) = inQueue
      /\ \A n \in 1 .. l : notices[n].type = "unqueued" =>
            notices[n].url \in RowsAfter(queueRows, notices, n - 1)
      /\ drawn \cup CrawledIn(notices) = crawled
  BY <1>4 DEF TreesToCome
<1> HIDE DEF t
<1>6. RowsAfter(queueRows, t, Len(t)) = inQueue'
  <2>1. SUFFICES ASSUME NEW u \in Urls
                 PROVE  u \in RowsAfter(queueRows, t, Len(t)) <=> u \in inQueue'
    BY DEF RowsAfter
  <2>2. Len(s) \in 0 .. Len(s)
    BY <1>2
  <2>3. PICK k \in 0 .. Len(s) : k = Len(s)
    BY <2>2
  <2>5. /\ (\A i \in 1 .. k : s[i] # Queued(u) /\ s[i] # Unqueued(u)) =>
              (u \in RowsAfter(queueRows, t, l + k) <=> u \in inQueue)
        /\ (\E i \in 1 .. k : s[i] = Queued(u)) /\ (\A i \in 1 .. k : s[i] # Unqueued(u)) =>
              u \in RowsAfter(queueRows, t, l + k)
        /\ (\A i \in 1 .. k : s[i] # Queued(u)) /\ (\E i \in 1 .. k : s[i] = Unqueued(u)) =>
              u \notin RowsAfter(queueRows, t, l + k)
    <3>1. notices \in Seq(Notice) /\ s \in Seq(Notice)
      BY <1>2, <1>3
    <3>2. /\ (\A i \in 1 .. k : s[i] # Queued(u) /\ s[i] # Unqueued(u)) =>
               (u \in RowsAfter(queueRows, notices \o s, Len(notices) + k)
                  <=> u \in RowsAfter(queueRows, notices, Len(notices)))
          /\ (\E i \in 1 .. k : s[i] = Queued(u)) /\ (\A i \in 1 .. k : s[i] # Unqueued(u)) =>
               u \in RowsAfter(queueRows, notices \o s, Len(notices) + k)
          /\ (\A i \in 1 .. k : s[i] # Queued(u)) /\ (\E i \in 1 .. k : s[i] = Unqueued(u)) =>
               u \notin RowsAfter(queueRows, notices \o s, Len(notices) + k)
      BY <3>1, ShownBatch
    <3> QED
      BY <1>5, <3>2 DEF t
  <2>6. l + k = Len(t)
    BY <1>3, <2>3
  <2>4. /\ (\E i \in 1 .. Len(s) : s[i] = Queued(u)) <=> Queued(u) \in S
        /\ (\E i \in 1 .. Len(s) : s[i] = Unqueued(u)) <=> Unqueued(u) \in S
    BY <1>2
  <2> QED
    BY <2>3, <2>4, <2>5, <2>6
<1>7. ASSUME NEW n \in 1 .. Len(t), t[n].type = "unqueued"
      PROVE  t[n].url \in RowsAfter(queueRows, t, n - 1)
  <2>1. CASE n \in 1 .. l
    <3>1. n - 1 \in 0 .. l
      BY <1>3, <2>1
    <3>2. RowsAfter(queueRows, t, n - 1) = RowsAfter(queueRows, notices, n - 1)
      BY <1>2, <1>3, <3>1, ShownBefore DEF t
    <3> QED
      BY <1>3, <1>5, <1>7, <2>1, <3>2
  <2>2. CASE n \notin 1 .. l
    <3>1. PICK i \in 1 .. Len(s) : i = n - l /\ t[n] = s[i]
      BY <1>3, <2>2
    <3>2. t[n] \in Notice
      BY <1>2, <3>1
    <3>3. PICK u \in Urls : u = t[n].url
      BY <3>2, NoticeContent
    <3>4. s[i] = Unqueued(u)
      BY <1>7, <3>1, <3>2, <3>3, NoticeContent
    <3>5. i - 1 \in 0 .. Len(s) /\ \A j \in 1 .. i - 1 : j \in 1 .. Len(s) /\ j # i
      BY <1>2, <3>1
    <3>6. \A j \in 1 .. i - 1 : s[j] # Unqueued(u) /\ s[j] # Queued(u)
      <4>1. SUFFICES ASSUME NEW j \in 1 .. i - 1
                     PROVE  s[j] # Unqueued(u) /\ s[j] # Queued(u)
        OBVIOUS
      <4>2. j \in 1 .. Len(s) /\ j # i
        BY <3>5
      <4>3. s[j] # s[i] /\ s[j] \in S /\ s[i] \in S
        BY <1>2, <4>2
      <4> QED
        BY <3>4, <4>3
    <3>7. u \in RowsAfter(queueRows, t, l + (i - 1)) <=> u \in inQueue
      BY <1>2, <1>3, <1>5, <3>5, <3>6, ShownBatch DEF t
    <3>8. l + (i - 1) = n - 1
      BY <1>3, <3>1
    <3>9. u \in inQueue
      BY <1>2, <3>4
    <3> QED
      BY <3>3, <3>7, <3>8, <3>9
  <2> QED
    BY <2>1, <2>2
<1>8. drawn \cup CrawledIn(t) = crawled'
  <2>1. CrawledIn(t) = CrawledIn(notices) \cup {u \in Urls : Crawled(u) \in S}
    <3>1. ASSUME NEW n \in 1 .. Len(t), t[n].type = "crawled"
          PROVE  t[n].url \in CrawledIn(notices) \cup {u \in Urls : Crawled(u) \in S}
      <4>1. CASE n \in 1 .. l
        BY <1>3, <1>4, <3>1, <4>1 DEF CrawledIn
      <4>2. CASE n \notin 1 .. l
        <5>1. PICK i \in 1 .. Len(s) : t[n] = s[i]
          BY <1>3, <4>2
        <5>2. t[n] \in Notice /\ t[n] \in S
          BY <1>2, <5>1
        <5> QED
          BY <3>1, <5>2, NoticeContent
      <4> QED
        BY <4>1, <4>2
    <3>2. ASSUME NEW n \in 1 .. l, notices[n].type = "crawled"
          PROVE  notices[n].url \in CrawledIn(t)
      <4>1. n \in 1 .. Len(t) /\ t[n] = notices[n]
        BY <1>2, <1>3
      <4> QED
        BY <1>4, <3>2, <4>1 DEF CrawledIn
    <3>3. ASSUME NEW u \in Urls, Crawled(u) \in S
          PROVE  u \in CrawledIn(t)
      <4>1. PICK i \in 1 .. Len(s) : s[i] = Crawled(u)
        BY <1>2, <3>3
      <4>2. l + i \in 1 .. Len(t) /\ t[l + i] = Crawled(u)
        BY <1>2, <1>3, <4>1
      <4> QED
        BY <1>4, <4>2, NoticeKinds DEF CrawledIn
    <3> QED
      BY <1>4, <3>1, <3>2, <3>3 DEF CrawledIn
  <2> QED
    BY <1>5, <2>1
<1>9. notices' = t /\ queueRows' = queueRows /\ drawn' = drawn
  BY <1>1 DEF t
<1> QED
  BY <1>3, <1>4, <1>6, <1>7, <1>8, <1>9 DEF TreesToCome

\* The rows follow when the first notice is handled.
LEMMA FollowsHandling ==
    ASSUME ViewTypes, TreesToCome, HandleNotice
    PROVE  TreesToCome' /\ notices' \in Seq(Notice) /\ queueRows' \subseteq Urls
           /\ drawn' \subseteq Urls
<1> DEFINE h == Head(notices)
           t == Tail(notices)
           q == IF h.type = "queued" THEN queueRows \cup {h.url}
                ELSE IF h.type = "unqueued" THEN queueRows \ {h.url} ELSE queueRows
<1>1. /\ notices \in Seq(Notice) /\ notices # <<>>
      /\ notices' = t /\ inQueue' = inQueue /\ crawled' = crawled
      /\ \/ h.type = "queued" /\ AddQueueRow(h.url)
         \/ h.type = "unqueued" /\ RemoveQueueRow(h.url)
         \/ h.type = "crawled" /\ Draw(h.url)
  BY DEF HandleNotice, ViewTypes, vars, collections
<1>2. /\ h = notices[1] /\ h \in Notice /\ Len(notices) \in Nat /\ Len(notices) > 0
      /\ t \in Seq(Notice) /\ Len(t) = Len(notices) - 1
      /\ \A i \in 1 .. Len(notices) - 1 : t[i] = notices[i + 1]
  BY <1>1, TailFacts
<1>3. h.url \in Urls
  BY <1>2, NoticeContent
<1>4. /\ queueRows' = q
      /\ drawn' = IF h.type = "crawled" THEN drawn \cup {h.url} ELSE drawn
  BY <1>1 DEF AddQueueRow, RemoveQueueRow, Draw, graph
<1>5. DOMAIN notices = 1 .. Len(notices) /\ DOMAIN t = 1 .. Len(t)
  BY <1>1, <1>2
<1>6. /\ RowsAfter(queueRows, notices, Len(notices)) = inQueue
      /\ \A n \in 1 .. Len(notices) : notices[n].type = "unqueued" =>
            notices[n].url \in RowsAfter(queueRows, notices, n - 1)
      /\ drawn \cup CrawledIn(notices) = crawled
  BY <1>5 DEF TreesToCome
<1>7. queueRows \in SUBSET Urls /\ drawn \subseteq Urls
  BY DEF ViewTypes
<1>8. \A n \in 0 .. Len(notices) - 1 : RowsAfter(q, t, n) = RowsAfter(queueRows, notices, n + 1)
  BY <1>1, <1>7, ShownTail
<1> HIDE DEF h, t, q
<1>9. RowsAfter(q, t, Len(t)) = inQueue
  <2>1. Len(t) \in 0 .. Len(notices) - 1 /\ Len(t) + 1 = Len(notices)
    BY <1>2
  <2> QED
    BY <1>6, <1>8, <2>1
<1>10. ASSUME NEW n \in 1 .. Len(t), t[n].type = "unqueued"
       PROVE  t[n].url \in RowsAfter(q, t, n - 1)
  <2>1. /\ n - 1 \in 0 .. Len(notices) - 1 /\ (n - 1) + 1 = n /\ (n + 1) - 1 = n
        /\ n + 1 \in 1 .. Len(notices) /\ t[n] = notices[n + 1]
    BY <1>2
  <2> QED
    BY <1>6, <1>8, <1>10, <2>1
<1>11. drawn' \cup CrawledIn(t) = crawled
  <2>1. CrawledIn(notices) = CrawledIn(t) \cup IF h.type = "crawled" THEN {h.url} ELSE {}
    <3>1. ASSUME NEW n \in 1 .. Len(notices), notices[n].type = "crawled"
          PROVE  notices[n].url \in CrawledIn(t) \cup IF h.type = "crawled" THEN {h.url} ELSE {}
      <4>1. CASE n = 1
        BY <1>2, <3>1, <4>1
      <4>2. CASE n # 1
        <5>1. n - 1 \in 1 .. Len(t) /\ t[n - 1] = notices[n]
          BY <1>2, <4>2
        <5> QED
          BY <1>5, <3>1, <5>1 DEF CrawledIn
      <4> QED
        BY <4>1, <4>2
    <3>2. ASSUME NEW n \in 1 .. Len(t), t[n].type = "crawled"
          PROVE  t[n].url \in CrawledIn(notices)
      <4>1. n + 1 \in 1 .. Len(notices) /\ notices[n + 1] = t[n]
        BY <1>2
      <4> QED
        BY <1>5, <3>2, <4>1 DEF CrawledIn
    <3>3. ASSUME h.type = "crawled"
          PROVE  h.url \in CrawledIn(notices)
      <4>1. 1 \in DOMAIN notices
        BY <1>2, <1>5
      <4> QED
        BY <1>2, <3>3, <4>1 DEF CrawledIn
    <3> QED
      BY <1>5, <3>1, <3>2, <3>3 DEF CrawledIn
  <2> QED
    BY <1>4, <1>6, <2>1
<1>12. queueRows' \subseteq Urls /\ drawn' \subseteq Urls
  BY <1>3, <1>4, <1>7 DEF q
<1> QED
  BY <1>1, <1>2, <1>4, <1>5, <1>9, <1>10, <1>11, <1>12 DEF TreesToCome

-----------------------------------------------------------------------------
(* The links.                                                               *)

LEMMA PlacesDiffer ==
    /\ "queue" \notin Clients /\ "crawled" \notin Clients /\ "gone" \notin Places
    /\ "queue" \in Places /\ "crawled" \in Places
BY ViewsAssumption DEF Places

\* The graph shows the links of a step that draws nothing, when no link to a
\* crawled page is lost and a new one between two drawn pages is a late one.
LEMMA GraphSame ==
    ASSUME GraphShowsLinks, drawn' = drawn, edges' = edges, late \subseteq late',
           \A s \in successors : s.at = "crawled" => s \in successors',
           \A s \in successors' : s.at = "crawled" /\ {s.parent, s.child} \subseteq drawn =>
               s \in successors \/ <<s.parent, s.child>> \in late'
    PROVE  GraphShowsLinks'
<1> DEFINE known == {s \in successors : s.at = "crawled" /\ {s.parent, s.child} \subseteq drawn}
           Edge(s) == <<Path[s.parent], Path[s.child]>>
<1>1. /\ edges \subseteq {Edge(s) : s \in known}
      /\ {Edge(s) : s \in {t \in known : <<t.parent, t.child>> \notin late}} \subseteq edges
  BY DEF GraphShowsLinks
<1>2. edges' \subseteq {Edge(s) : s \in known'}
  BY <1>1
<1>3. ASSUME NEW t \in known', <<t.parent, t.child>> \notin late'
      PROVE  Edge(t) \in edges'
  <2>1. t \in known /\ <<t.parent, t.child>> \notin late
    BY <1>3
  <2> QED
    BY <1>1, <2>1
<1> QED
  BY <1>2, <1>3 DEF GraphShowsLinks

\* The places of the objects change, those of crawled pages excepted.
LEMMA Moves ==
    ASSUME ViewTypes, GraphShowsLinks, drawn' = drawn, edges' = edges, late' = late,
           \A t \in successors' : \E s \in successors :
               /\ t = [s EXCEPT !.at = t.at] /\ t.at \in Places
               /\ t.at = "crawled" => s.at = "crawled" \/ s.child \notin drawn,
           \A s \in successors : s.at = "crawled" => s \in successors'
    PROVE  GraphShowsLinks' /\ successors' \subseteq [parent : Urls, child : Urls, at : Places]
<1>1. ASSUME NEW t \in successors'
      PROVE  \E s \in successors : /\ t \in [parent : Urls, child : Urls, at : Places]
                                   /\ t.parent = s.parent /\ t.child = s.child
                                   /\ s.at = t.at => s = t
                                   /\ t.at = "crawled" => s.at = "crawled" \/ s.child \notin drawn
  <2>1. PICK s \in successors : /\ t = [s EXCEPT !.at = t.at] /\ t.at \in Places
                                /\ t.at = "crawled" => s.at = "crawled" \/ s.child \notin drawn
    OBVIOUS
  <2>2. s \in [parent : Urls, child : Urls, at : Places]
    BY DEF ViewTypes
  <2>3. PICK p \in Places : p = t.at
    BY <2>1
  <2>4. t = [s EXCEPT !.at = p]
    BY <2>1, <2>3
  <2>5. t \in [parent : Urls, child : Urls, at : Places]
    BY <2>2, <2>4
  <2>6. t.parent = s.parent /\ t.child = s.child
    BY <2>2, <2>4
  <2>7. s.at = t.at => s = t
    BY <2>2, <2>5, <2>6
  <2> QED
    BY <2>1, <2>5, <2>6, <2>7
<1>2. \A t \in successors' : t.at = "crawled" /\ {t.parent, t.child} \subseteq drawn =>
          t \in successors \/ <<t.parent, t.child>> \in late'
  <2>1. SUFFICES ASSUME NEW t \in successors', t.at = "crawled", t.child \in drawn
                 PROVE  t \in successors
    OBVIOUS
  <2>2. PICK s \in successors : /\ t.child = s.child
                                /\ s.at = t.at => s = t
                                /\ t.at = "crawled" => s.at = "crawled" \/ s.child \notin drawn
    BY <1>1
  <2> QED
    BY <2>1, <2>2
<1>3. GraphShowsLinks'
  BY <1>2, GraphSame
<1> QED
  BY <1>1, <1>3

LEMMA FollowsSame ==
    ASSUME TreesToCome, UNCHANGED <<notices, queueRows, drawn, inQueue, crawled>>
    PROVE  TreesToCome'
BY DEF TreesToCome

LEMMA StillShown ==
    ASSUME ViewInv,
           UNCHANGED <<notices, queueRows, drawn, inQueue, crawled, edges, successors, late>>
    PROVE  ViewInv'
BY FollowsSame DEF ViewInv, ViewTypes, GraphShowsLinks

\* The page that is drawn gets the links to and from the pages that are.
LEMMA Draws ==
    ASSUME ViewTypes, GraphShowsLinks, NEW u \in Urls, Draw(u), UNCHANGED <<successors, late>>
    PROVE  GraphShowsLinks'
<1> DEFINE known == {s \in successors : s.at = "crawled" /\ {s.parent, s.child} \subseteq drawn}
           Edge(s) == <<Path[s.parent], Path[s.child]>>
<1>1. /\ edges \subseteq {Edge(s) : s \in known}
      /\ {Edge(s) : s \in {t \in known : <<t.parent, t.child>> \notin late}} \subseteq edges
  BY DEF GraphShowsLinks
<1>2. /\ drawn' = drawn \cup {u}
      /\ edges' = edges \cup {Link(u, v) : v \in Successors(u) \cap drawn'}
                        \cup {Link(v, u) : v \in Ancestors(u) \cap drawn'}
  BY DEF Draw
<1>3. known \subseteq known'
  BY <1>2
<1>4. ASSUME NEW e \in edges'
      PROVE  \E s \in known' : e = Edge(s)
  <2>1. CASE e \in edges
    BY <1>1, <1>3, <2>1
  <2>2. ASSUME NEW v \in Successors(u) \cap drawn', e = Link(u, v)
        PROVE  \E s \in known' : e = Edge(s)
    <3>1. PICK s \in successors : s.parent = u /\ s.at = "crawled" /\ s.child = v
      BY <2>2 DEF Successors
    <3>2. s \in known'
      BY <1>2, <2>2, <3>1
    <3> QED
      BY <2>2, <3>1, <3>2 DEF Link
  <2>3. ASSUME NEW v \in Ancestors(u) \cap drawn', e = Link(v, u)
        PROVE  \E s \in known' : e = Edge(s)
    <3>1. PICK s \in successors : s.child = u /\ s.at = "crawled" /\ s.parent = v
      BY <2>3 DEF Ancestors
    <3>2. s \in known'
      BY <1>2, <2>3, <3>1
    <3> QED
      BY <2>3, <3>1, <3>2 DEF Link
  <2> QED
    BY <1>2, <2>1, <2>2, <2>3
<1>5. ASSUME NEW t \in known', <<t.parent, t.child>> \notin late'
      PROVE  Edge(t) \in edges'
  <2>1. CASE t \in known
    BY <1>1, <1>2, <1>5, <2>1
  <2>2. CASE t.parent = u
    <3>1. t.child \in Successors(u) \cap drawn' /\ Edge(t) = Link(u, t.child)
      BY <2>2 DEF Successors, Link
    <3> QED
      BY <1>2, <3>1
  <2>3. CASE t.child = u
    <3>1. t.parent \in Ancestors(u) \cap drawn' /\ Edge(t) = Link(t.parent, u)
      BY <2>3 DEF Ancestors, Link
    <3> QED
      BY <1>2, <3>1
  <2> QED
    BY <1>2, <2>1, <2>2, <2>3
<1> QED
  BY <1>4, <1>5 DEF GraphShowsLinks

-----------------------------------------------------------------------------
(* Every step.                                                              *)

LEMMA ViewInitial == ViewInit => Init /\ ViewInv
<1> SUFFICES ASSUME ViewInit PROVE Init /\ ViewInv
  OBVIOUS
<1>1. /\ Init /\ notices = <<>> /\ queueRows = {} /\ drawn = {} /\ edges = {} /\ successors = {}
      /\ inQueue = {} /\ crawled = {}
  BY DEF ViewInit, Init
<1>2. ViewTypes
  BY <1>1 DEF ViewTypes
<1>3. TreesToCome
  <2>1. DOMAIN <<>> = {} /\ Len(<<>>) = 0 /\ 1 .. 0 = {}
    OBVIOUS
  <2>2. RowsAfter({}, <<>>, 0) = {} /\ CrawledIn(<<>>) = {}
    BY <2>1 DEF RowsAfter, CrawledIn
  <2> QED
    BY <1>1, <2>1, <2>2 DEF TreesToCome
<1>4. GraphShowsLinks
  BY <1>1 DEF GraphShowsLinks
<1> QED
  BY <1>1, <1>2, <1>3, <1>4 DEF ViewInv

LEMMA StepOfDispatch == [ViewNext]_allVars => [Next]_vars
<1>1. ASSUME HandleNotice
      PROVE  UNCHANGED vars
  BY <1>1 DEF HandleNotice
<1>2. ASSUME NEW u \in Seeds, ViewAddSeedUrl(u)
      PROVE  AddSeedUrl(u)
  BY <1>2 DEF ViewAddSeedUrl
<1>3. ASSUME NEW c \in Clients, ViewMain(c)
      PROVE  Main(c)
  BY <1>3 DEF ViewMain, ViewSeedUrlRequest, ViewDataNodes, ViewLinkNodes, ViewUnconnected, Main
<1>4. UNCHANGED allVars => UNCHANGED vars
  BY DEF allVars
<1> QED
  BY <1>1, <1>2, <1>3, <1>4 DEF ViewNext, Next

LEMMA AddSeedUrlShown ==
    ASSUME TypeOK, TypeOK', ViewInv, NEW u \in Seeds, ViewAddSeedUrl(u)
    PROVE  ViewInv'
<1>1. /\ inQueue' = inQueue \cup {u} /\ crawled' = crawled /\ Announce({Queued(u)})
      /\ UNCHANGED <<rows, graph, successors, late>>
  BY DEF ViewAddSeedUrl, AddSeedUrl
<1>2. u \in Urls /\ {Queued(u)} \in SUBSET Notice
  BY DispatchAssumption DEF Notice
<1>3. TreesToCome' /\ notices' \in Seq(Notice)
  <2>1. \A v \in Urls : /\ Queued(v) \in {Queued(u)} <=> v = u
                        /\ Unqueued(v) \notin {Queued(u)} /\ Crawled(v) \notin {Queued(u)}
    BY NoticeKinds
  <2>2. inQueue' \subseteq Urls
    BY DEF TypeOK
  <2>3. crawled' = crawled \cup {v \in Urls : Crawled(v) \in {Queued(u)}}
    BY <1>1, <2>1
  <2> QED
    BY <1>1, <1>2, <2>1, <2>2, <2>3, FollowsSignals DEF ViewInv, rows, graph
<1> QED
  BY <1>1, <1>3 DEF ViewInv, ViewTypes, GraphShowsLinks, rows, graph

LEMMA SeedUrlRequestShown ==
    ASSUME TypeOK, TypeOK', ViewInv, NEW c \in Clients, ViewSeedUrlRequest(c)
    PROVE  ViewInv'
<1> DEFINE taken == inQueue \ inQueue'
           S == {Unqueued(u) : u \in taken}
           Place(s) == IF s.at # "queue" \/ s.child \notin taken THEN s.at
                       ELSE IF s.child \in inProgress[c] THEN "gone" ELSE c
<1>1. /\ inQueue' \subseteq inQueue /\ crawled' = crawled /\ Announce(S)
      /\ UNCHANGED <<queueRows, graph, late>>
      /\ successors' = {t \in {[s EXCEPT !.at = Place(s)] : s \in successors} : t.at \in Places}
  <2>1. inQueue' \subseteq inQueue /\ crawled' = crawled
    BY DEF ViewSeedUrlRequest, OnSeedUrlRequest, TakeOne
  <2>2. /\ Announce(S) /\ UNCHANGED <<queueRows, graph, late>>
        /\ successors' = {t \in {[s EXCEPT !.at = Place(s)] : s \in successors} : t.at \in Places}
    BY DEF ViewSeedUrlRequest, Relocated
  <2> QED
    BY <2>1, <2>2
<1>2. inQueue \subseteq Urls /\ inQueue' \subseteq Urls
  BY DEF TypeOK
<1>3. S \in SUBSET Notice
  BY <1>2 DEF Notice
<1>4. TreesToCome' /\ notices' \in Seq(Notice)
  <2>1. \A v \in Urls : /\ Unqueued(v) \in S <=> v \in taken
                        /\ Queued(v) \notin S /\ Crawled(v) \notin S
    BY NoticeKinds
  <2>2. crawled' = crawled \cup {v \in Urls : Crawled(v) \in S}
    BY <1>1, <2>1
  <2> HIDE DEF S
  <2> QED
    BY <1>1, <1>2, <1>3, <2>1, <2>2, FollowsSignals DEF ViewInv, graph
<1>5. GraphShowsLinks' /\ successors' \subseteq [parent : Urls, child : Urls, at : Places]
  <2>1. successors \subseteq [parent : Urls, child : Urls, at : Places]
    BY DEF ViewInv, ViewTypes
  <2>2. \A s \in successors : Place(s) = "crawled" => s.at = "crawled"
    BY PlacesDiffer
  <2>3. \A s \in successors : s.at = "crawled" => Place(s) = s.at
    OBVIOUS
  <2> HIDE DEF Place
  <2>4. \A t \in successors' : \E s \in successors :
          /\ t = [s EXCEPT !.at = t.at] /\ t.at \in Places
          /\ t.at = "crawled" => s.at = "crawled" \/ s.child \notin drawn
    BY <1>1, <2>1, <2>2
  <2>5. ASSUME NEW s \in successors, s.at = "crawled"
        PROVE  s \in successors'
    <3>1. [s EXCEPT !.at = Place(s)] = s /\ s.at \in Places
      BY <2>1, <2>3, <2>5
    <3> QED
      BY <1>1, <3>1
  <2> QED
    BY <1>1, <2>4, <2>5, Moves DEF ViewInv, graph
<1> QED
  BY <1>1, <1>4, <1>5 DEF ViewInv, ViewTypes, graph

LEMMA DataNodesShown ==
    ASSUME TypeOK, TypeOK', ViewInv, NEW c \in Clients, ViewDataNodes(c)
    PROVE  ViewInv'
<1> DEFINE flags == Head(events[c]).nodes
           done  == {u \in DOMAIN flags : flags[u]}
           A == {Queued(u) : u \in (DOMAIN flags \ done) \ inQueue}
           B == {Unqueued(u) : u \in done \cap inQueue}
           C == {Crawled(u) : u \in done \ crawled}
           S == A \cup B \cup C
           Place(s) == IF s.at # "queue" \/ s.child \notin done THEN s.at
                       ELSE IF s.child \in crawled THEN "gone" ELSE "crawled"
<1>1. /\ inQueue' = (inQueue \cup DOMAIN flags) \ done /\ crawled' = crawled \cup done
      /\ Announce(S) /\ UNCHANGED <<rows, graph, late>>
      /\ successors' = {t \in {[s EXCEPT !.at = Place(s)] : s \in successors} : t.at \in Places}
  BY DEF ViewDataNodes, OnDataNodes, Relocated
<1>2. DOMAIN flags \subseteq Urls
  <2>1. Head(events[c]) \in Signals /\ Head(events[c]).type = "dataNodes"
    BY Delivered DEF ViewDataNodes, OnDataNodes
  <2>2. PICK T \in SUBSET Urls : flags \in [T -> BOOLEAN]
    BY <2>1, NodesContent
  <2> QED
    BY <2>2
<1> HIDE DEF flags
<1>3. S \in SUBSET Notice /\ inQueue' \subseteq Urls
  BY <1>2 DEF Notice, TypeOK
<1>4. TreesToCome' /\ notices' \in Seq(Notice)
  <2>1. \A v \in Urls : /\ Queued(v) \in S <=> v \in (DOMAIN flags \ done) \ inQueue
                        /\ Unqueued(v) \in S <=> v \in done \cap inQueue
                        /\ Crawled(v) \in S <=> v \in done \ crawled
    <3>1. SUFFICES ASSUME NEW v \in Urls
                   PROVE  /\ Queued(v) \in S <=> v \in (DOMAIN flags \ done) \ inQueue
                          /\ Unqueued(v) \in S <=> v \in done \cap inQueue
                          /\ Crawled(v) \in S <=> v \in done \ crawled
      OBVIOUS
    <3> HIDE DEF done
    <3>2. /\ Queued(v) \in A <=> v \in (DOMAIN flags \ done) \ inQueue
          /\ Queued(v) \notin B /\ Queued(v) \notin C
      BY NoticeKinds
    <3>3. /\ Unqueued(v) \in B <=> v \in done \cap inQueue
          /\ Unqueued(v) \notin A /\ Unqueued(v) \notin C
      BY NoticeKinds
    <3>4. /\ Crawled(v) \in C <=> v \in done \ crawled
          /\ Crawled(v) \notin A /\ Crawled(v) \notin B
      BY NoticeKinds
    <3> QED
      BY <3>2, <3>3, <3>4
  <2>2. crawled' = crawled \cup {v \in Urls : Crawled(v) \in S}
    <3>1. done \subseteq Urls
      BY <1>2
    <3> HIDE DEF S, done
    <3> QED
      BY <1>1, <2>1, <3>1
  <2> HIDE DEF S
  <2>3. /\ \A u \in Urls : Queued(u) \in S => Unqueued(u) \notin S /\ u \in inQueue'
        /\ \A u \in Urls : Unqueued(u) \in S => u \in inQueue /\ u \notin inQueue'
        /\ \A u \in Urls : Queued(u) \notin S /\ Unqueued(u) \notin S =>
                              (u \in inQueue' <=> u \in inQueue)
    BY <1>1, <2>1
  <2> QED
    BY <1>1, <1>3, <2>2, <2>3, FollowsSignals DEF ViewInv, rows, graph
<1>5. GraphShowsLinks' /\ successors' \subseteq [parent : Urls, child : Urls, at : Places]
  <2>1. /\ successors \subseteq [parent : Urls, child : Urls, at : Places]
        /\ drawn \subseteq crawled
    BY DEF ViewInv, ViewTypes, TreesToCome
  <2>2. \A s \in successors : Place(s) = "crawled" => s.at = "crawled" \/ s.child \notin drawn
    BY <2>1
  <2>3. \A s \in successors : s.at = "crawled" => Place(s) = s.at
    OBVIOUS
  <2> HIDE DEF Place
  <2>4. \A t \in successors' : \E s \in successors :
          /\ t = [s EXCEPT !.at = t.at] /\ t.at \in Places
          /\ t.at = "crawled" => s.at = "crawled" \/ s.child \notin drawn
    BY <1>1, <2>1, <2>2
  <2>5. ASSUME NEW s \in successors, s.at = "crawled"
        PROVE  s \in successors'
    <3>1. [s EXCEPT !.at = Place(s)] = s /\ s.at \in Places
      BY <2>1, <2>3, <2>5
    <3> QED
      BY <1>1, <3>1
  <2> QED
    BY <1>1, <2>4, <2>5, Moves DEF ViewInv, graph
<1> QED
  BY <1>1, <1>4, <1>5 DEF ViewInv, ViewTypes, graph, rows

LEMMA LinkNodesShown ==
    ASSUME TypeOK, ViewInv, NEW c \in Clients, ViewLinkNodes(c)
    PROVE  ViewInv'
<1> DEFINE p == Head(events[c]).parent
           kids == IF p \in crawled THEN Head(events[c]).children ELSE {}
           Made(S, place) == {[parent |-> p, child |-> u, at |-> place] : u \in S}
<1>1. /\ UNCHANGED <<inQueue, crawled, notices, rows, graph>>
      /\ successors' = successors \cup Made(kids \cap inQueue, "queue")
                           \cup Made((kids \cap crawled) \ inQueue, "crawled")
      /\ late' = late \cup {<<p, u>> : u \in IF p \in drawn THEN kids \cap drawn ELSE {}}
  BY DEF ViewLinkNodes, OnLinkNodes
<1>2. p \in Urls /\ kids \subseteq Urls
  <2>1. Head(events[c]) \in Signals /\ Head(events[c]).type = "linkNodes"
    BY Delivered DEF ViewLinkNodes, OnLinkNodes
  <2> QED
    BY <2>1, LinksContent
<1> HIDE DEF p, kids
<1>3. TreesToCome'
  BY <1>1, FollowsSame DEF ViewInv, rows, graph
<1>4. successors' \subseteq [parent : Urls, child : Urls, at : Places]
  BY <1>1, <1>2, PlacesDiffer DEF ViewInv, ViewTypes
<1>5. \A s \in successors' : s.at = "crawled" /\ {s.parent, s.child} \subseteq drawn =>
          s \in successors \/ <<s.parent, s.child>> \in late'
  <2>1. SUFFICES ASSUME NEW s \in successors', s.at = "crawled",
                        s.parent \in drawn, s.child \in drawn, s \notin successors
                 PROVE  <<s.parent, s.child>> \in late'
    OBVIOUS
  <2>2. PICK u \in (kids \cap crawled) \ inQueue : s = [parent |-> p, child |-> u, at |-> "crawled"]
    BY <1>1, <2>1
  <2>3. s.parent = p /\ s.child = u
    BY <2>2
  <2>4. p \in drawn /\ u \in kids \cap drawn
    BY <2>1, <2>2, <2>3
  <2> QED
    BY <1>1, <2>3, <2>4
<1>6. GraphShowsLinks'
  <2>1. successors \subseteq successors' /\ late \subseteq late'
    BY <1>1
  <2> QED
    BY <1>1, <1>5, <2>1, GraphSame DEF ViewInv, graph
<1> QED
  BY <1>1, <1>3, <1>4, <1>6 DEF ViewInv, ViewTypes, rows, graph

LEMMA UnconnectedShown ==
    ASSUME TypeOK, TypeOK', ViewInv, NEW c \in Clients, ViewUnconnected(c)
    PROVE  ViewInv'
<1> DEFINE S == {Queued(u) : u \in inProgress[c]}
           Place(s) == IF s.child \notin inProgress[c] THEN s.at
                       ELSE IF s.at = "queue" THEN "gone"
                       ELSE IF s.at = c THEN "queue" ELSE s.at
<1>1. /\ inQueue' = inQueue \cup inProgress[c] /\ crawled' = crawled /\ Announce(S)
      /\ UNCHANGED <<rows, graph, late>>
      /\ successors' = {t \in {[s EXCEPT !.at = Place(s)] : s \in successors} : t.at \in Places}
  BY DEF ViewUnconnected, OnUnconnected, Relocated, MergeSignals
<1>2. inProgress[c] \subseteq Urls /\ inQueue' \subseteq Urls
  BY DEF TypeOK
<1>3. S \in SUBSET Notice
  BY <1>2 DEF Notice
<1>4. TreesToCome' /\ notices' \in Seq(Notice)
  <2>1. \A v \in Urls : /\ Queued(v) \in S <=> v \in inProgress[c]
                        /\ Unqueued(v) \notin S /\ Crawled(v) \notin S
    BY NoticeKinds
  <2>2. crawled' = crawled \cup {v \in Urls : Crawled(v) \in S}
    BY <1>1, <2>1
  <2> HIDE DEF S
  <2> QED
    BY <1>1, <1>2, <1>3, <2>1, <2>2, FollowsSignals DEF ViewInv, rows, graph
<1>5. GraphShowsLinks' /\ successors' \subseteq [parent : Urls, child : Urls, at : Places]
  <2>1. successors \subseteq [parent : Urls, child : Urls, at : Places]
    BY DEF ViewInv, ViewTypes
  <2>2. \A s \in successors : Place(s) = "crawled" => s.at = "crawled"
    OBVIOUS
  <2>3. \A s \in successors : s.at = "crawled" => Place(s) = s.at
    BY PlacesDiffer
  <2> HIDE DEF Place
  <2>4. \A t \in successors' : \E s \in successors :
          /\ t = [s EXCEPT !.at = t.at] /\ t.at \in Places
          /\ t.at = "crawled" => s.at = "crawled" \/ s.child \notin drawn
    BY <1>1, <2>1, <2>2
  <2>5. ASSUME NEW s \in successors, s.at = "crawled"
        PROVE  s \in successors'
    <3>1. [s EXCEPT !.at = Place(s)] = s /\ s.at \in Places
      BY <2>1, <2>3, <2>5
    <3> QED
      BY <1>1, <3>1
  <2> QED
    BY <1>1, <2>4, <2>5, Moves DEF ViewInv, graph
<1> QED
  BY <1>1, <1>4, <1>5 DEF ViewInv, ViewTypes, rows, graph

LEMMA NoticeShown ==
    ASSUME ViewInv, HandleNotice
    PROVE  ViewInv'
<1>1. ViewTypes /\ TreesToCome /\ GraphShowsLinks
  BY DEF ViewInv
<1>2. TreesToCome' /\ notices' \in Seq(Notice) /\ queueRows' \subseteq Urls /\ drawn' \subseteq Urls
  BY <1>1, FollowsHandling
<1>3. UNCHANGED <<successors, late>>
  BY DEF HandleNotice
<1>4. GraphShowsLinks'
  <2>1. PICK h \in Notice : h = Head(notices)
    BY <1>1, TailFacts DEF HandleNotice, ViewTypes
  <2>2. h.url \in Urls
    BY NoticeContent
  <2>3. \/ AddQueueRow(h.url) \/ RemoveQueueRow(h.url)
        \/ Draw(h.url)
    BY <2>1 DEF HandleNotice
  <2>4. CASE Draw(h.url)
    BY <1>1, <1>3, <2>2, <2>4, Draws
  <2>5. CASE AddQueueRow(h.url) \/ RemoveQueueRow(h.url)
    BY <1>1, <1>3, <2>5 DEF AddQueueRow, RemoveQueueRow, graph, GraphShowsLinks
  <2> QED
    BY <2>3, <2>4, <2>5
<1> QED
  BY <1>1, <1>2, <1>3, <1>4 DEF ViewInv, ViewTypes

LEMMA ViewKept == TypeOK /\ TypeOK' /\ ViewInv /\ [ViewNext]_allVars => ViewInv'
<1> SUFFICES ASSUME TypeOK, TypeOK', ViewInv, [ViewNext]_allVars
             PROVE  ViewInv'
  OBVIOUS
<1>1. ASSUME NEW c \in Clients, OnFinished(c) \/ Client(c), UNCHANGED viewVars
      PROVE  ViewInv'
  <2>1. UNCHANGED <<inQueue, crawled>>
    BY <1>1 DEF OnFinished, Client, Connect, AskForUrl, ReceiveAnswer, Report,
                LoseConnection, collections
  <2> QED
    BY <1>1, <2>1, StillShown DEF viewVars, rows, graph
<1>2. ASSUME NEW c \in Clients, ViewMain(c)
      PROVE  ViewInv'
  BY <1>1, <1>2, SeedUrlRequestShown, DataNodesShown, LinkNodesShown, UnconnectedShown
  DEF ViewMain
<1>3. CASE UNCHANGED allVars
  BY <1>3, StillShown DEF allVars, vars, collections, viewVars, rows, graph
<1> QED
  BY <1>1, <1>2, <1>3, AddSeedUrlShown, NoticeShown DEF ViewNext

-----------------------------------------------------------------------------
(* The rows that are left behind.                                           *)

\* A notice that will find a row when it is handled is one of a Url that is in
\* the queue when the notice is sent.
LEMMA DoubledSent ==
    ASSUME ViewTypes, TreesToCome, NEW S \in SUBSET Notice, Announce(S),
           queueRows' = queueRows, \A v \in Urls : Queued(v) \in S => Unqueued(v) \notin S,
           NEW u \in Doubled', u \notin Doubled
    PROVE  u \in Urls /\ Queued(u) \in S /\ u \in inQueue
<1>1. PICK s \in Orders(S) : notices' = notices \o s
  BY DEF Announce
<1>2. /\ s \in Seq(Notice) /\ Len(s) \in Nat
      /\ \A i \in 1 .. Len(s) : s[i] \in S
      /\ \A i, j \in 1 .. Len(s) : s[i] = s[j] => i = j
  BY OrderOnce
<1> DEFINE l == Len(notices)
           t == notices \o s
<1>3. /\ notices \in Seq(Notice) /\ l \in Nat /\ t \in Seq(Notice) /\ Len(t) = l + Len(s)
      /\ \A i \in 1 .. l : t[i] = notices[i]
      /\ \A i \in 1 .. Len(t) : i <= l \/ (i - l \in 1 .. Len(s) /\ t[i] = s[i - l])
  BY <1>2, ConcatFacts DEF ViewTypes
<1>4. DOMAIN notices = 1 .. l /\ DOMAIN t = 1 .. Len(t)
  BY <1>3
<1>5. RowsAfter(queueRows, notices, l) = inQueue
  BY DEF TreesToCome
<1>6. PICK n \in DOMAIN t : /\ t[n].type = "queued" /\ t[n].url = u
                            /\ u \in RowsAfter(queueRows, t, n - 1)
  BY <1>1 DEF Doubled
<1> HIDE DEF t
<1>7. n \notin 1 .. l
  <2>1. SUFFICES ASSUME n \in 1 .. l PROVE FALSE
    OBVIOUS
  <2>2. n - 1 \in 0 .. l
    BY <1>3, <2>1
  <2>3. RowsAfter(queueRows, t, n - 1) = RowsAfter(queueRows, notices, n - 1)
    BY <1>2, <1>3, <2>2, ShownBefore DEF t
  <2>4. n \in DOMAIN notices /\ t[n] = notices[n]
    BY <1>3, <1>4, <2>1
  <2> QED
    BY <1>6, <2>3, <2>4 DEF Doubled
<1>8. PICK i \in 1 .. Len(s) : i = n - l /\ t[n] = s[i]
  BY <1>3, <1>4, <1>7
<1>9. t[n] \in Notice /\ t[n] \in S
  BY <1>2, <1>8
<1>10. u \in Urls /\ t[n] = Queued(u)
  BY <1>6, <1>9, NoticeContent
<1>11. s[i] = Queued(u) /\ Queued(u) \in S /\ Unqueued(u) \notin S
  BY <1>8, <1>9, <1>10
<1>12. i - 1 \in 0 .. Len(s) /\ \A j \in 1 .. i - 1 : j \in 1 .. Len(s) /\ j # i
  BY <1>2
<1>13. \A j \in 1 .. i - 1 : s[j] # Unqueued(u) /\ s[j] # Queued(u)
  <2>1. SUFFICES ASSUME NEW j \in 1 .. i - 1
                 PROVE  s[j] # Unqueued(u) /\ s[j] # Queued(u)
    OBVIOUS
  <2>2. j \in 1 .. Len(s) /\ j # i
    BY <1>12
  <2>3. s[j] # s[i] /\ s[j] \in S
    BY <1>2, <2>2
  <2> QED
    BY <1>11, <2>3
<1>14. u \in RowsAfter(queueRows, t, l + (i - 1)) <=> u \in inQueue
  BY <1>2, <1>3, <1>5, <1>10, <1>12, <1>13, ShownBatch DEF t
<1>15. l + (i - 1) = n - 1
  <2>1. n \in 1 .. Len(t)
    BY <1>4
  <2> QED
    BY <1>3, <1>8, <2>1
<1> QED
  BY <1>6, <1>10, <1>11, <1>14, <1>15

\* Handling a notice leaves behind a row only if the notice was sent for a Url
\* whose row it finds.
LEMMA DoubledHandled ==
    ASSUME ViewTypes, HandleNotice
    PROVE  (staleRows \cup Doubled)' \subseteq staleRows \cup Doubled
<1> DEFINE h == Head(notices)
           t == Tail(notices)
           q == IF h.type = "queued" THEN queueRows \cup {h.url}
                ELSE IF h.type = "unqueued" THEN queueRows \ {h.url} ELSE queueRows
<1>1. /\ notices \in Seq(Notice) /\ notices # <<>> /\ notices' = t
      /\ \/ h.type = "queued" /\ AddQueueRow(h.url)
         \/ h.type = "unqueued" /\ RemoveQueueRow(h.url)
         \/ h.type = "crawled" /\ Draw(h.url)
  BY DEF HandleNotice, ViewTypes
<1>2. /\ h = notices[1] /\ Len(notices) \in Nat /\ Len(notices) > 0
      /\ t \in Seq(Notice) /\ Len(t) = Len(notices) - 1
      /\ \A i \in 1 .. Len(notices) - 1 : t[i] = notices[i + 1]
  BY <1>1, TailFacts
<1>3. queueRows' = q
  BY <1>1 DEF AddQueueRow, RemoveQueueRow, Draw
<1>4. queueRows \in SUBSET Urls
  BY DEF ViewTypes
<1>5. \A n \in 0 .. Len(notices) - 1 : RowsAfter(q, t, n) = RowsAfter(queueRows, notices, n + 1)
  BY <1>1, <1>4, ShownTail
<1>6. ASSUME NEW u \in staleRows', u \notin staleRows
      PROVE  u \in Doubled
  <2>1. h.type = "queued" /\ u = h.url /\ u \in queueRows
    BY <1>1, <1>6 DEF AddQueueRow, RemoveQueueRow, Draw
  <2>2. u \in RowsAfter(queueRows, notices, 0)
    BY <1>4, <2>1 DEF RowsAfter
  <2>3. 1 \in DOMAIN notices /\ notices[1].type = "queued" /\ notices[1].url = u /\ 1 - 1 = 0
    BY <1>1, <1>2, <2>1
  <2> QED
    BY <2>2, <2>3 DEF Doubled
<1> HIDE DEF h, t, q
<1>7. ASSUME NEW u \in Doubled'
      PROVE  u \in Doubled
  <2>1. PICK n \in DOMAIN t : /\ t[n].type = "queued" /\ t[n].url = u
                              /\ u \in RowsAfter(q, t, n - 1)
    BY <1>1, <1>3, <1>7 DEF Doubled
  <2>2. /\ n - 1 \in 0 .. Len(notices) - 1 /\ (n - 1) + 1 = n /\ (n + 1) - 1 = n
        /\ n + 1 \in DOMAIN notices /\ t[n] = notices[n + 1]
    BY <1>1, <1>2
  <2>3. u \in RowsAfter(queueRows, notices, (n + 1) - 1)
    BY <1>5, <2>1, <2>2
  <2> QED
    BY <2>1, <2>2, <2>3 DEF Doubled
<1> QED
  BY <1>6, <1>7

\* A row is left behind by merge() only.
Overwritten == \A u \in (staleRows \cup Doubled)' \ (staleRows \cup Doubled) :
                  \E c \in Clients : OnUnconnected(c) /\ u \in inProgress[c] \cap inQueue

LEMMA OverwrittenOnly ==
    ASSUME TypeOK, TypeOK', ViewInv, ViewNext
    PROVE  Overwritten
<1> SUFFICES ASSUME NEW u \in (staleRows \cup Doubled)', u \notin staleRows, u \notin Doubled
             PROVE  \E c \in Clients : OnUnconnected(c) /\ u \in inProgress[c] \cap inQueue
  BY DEF Overwritten
<1>1. ViewTypes /\ TreesToCome
  BY DEF ViewInv
<1>2. ASSUME UNCHANGED <<staleRows, queueRows, notices>>
      PROVE  FALSE
  BY <1>2 DEF Doubled
<1>3. ASSUME NEW S \in SUBSET Notice, Announce(S), UNCHANGED <<staleRows, queueRows>>,
             \A v \in Urls : Queued(v) \in S => Unqueued(v) \notin S
      PROVE  u \in Urls /\ Queued(u) \in S /\ u \in inQueue
  BY <1>1, <1>3, DoubledSent
<1>4. ASSUME NEW v \in Seeds, ViewAddSeedUrl(v)
      PROVE  FALSE
  <2>1. {Queued(v)} \in SUBSET Notice
    BY DispatchAssumption DEF Notice
  <2>2. Announce({Queued(v)}) /\ UNCHANGED <<staleRows, queueRows>> /\ v \notin inQueue
    BY <1>4 DEF ViewAddSeedUrl, AddSeedUrl, rows
  <2> QED
    BY <1>3, <2>1, <2>2, NoticeKinds
<1>5. ASSUME NEW c \in Clients, ViewSeedUrlRequest(c)
      PROVE  FALSE
  <2> DEFINE S == {Unqueued(v) : v \in inQueue \ inQueue'}
  <2>1. S \in SUBSET Notice
    BY DEF Notice, TypeOK
  <2>2. Announce(S) /\ UNCHANGED <<staleRows, queueRows>>
    BY <1>5 DEF ViewSeedUrlRequest
  <2>3. \A v : Queued(v) \notin S
    BY NoticeKinds
  <2> HIDE DEF S
  <2> QED
    BY <1>3, <2>1, <2>2, <2>3
<1>6. ASSUME NEW c \in Clients, ViewDataNodes(c)
      PROVE  FALSE
  <2> DEFINE flags == Head(events[c]).nodes
             done  == {v \in DOMAIN flags : flags[v]}
             A == {Queued(v) : v \in (DOMAIN flags \ done) \ inQueue}
             B == {Unqueued(v) : v \in done \cap inQueue}
             C == {Crawled(v) : v \in done \ crawled}
             S == A \cup B \cup C
  <2>1. Announce(S) /\ UNCHANGED <<staleRows, queueRows>>
    BY <1>6 DEF ViewDataNodes, rows
  <2>2. DOMAIN flags \subseteq Urls
    <3>1. Head(events[c]) \in Signals /\ Head(events[c]).type = "dataNodes"
      BY <1>6, Delivered DEF ViewDataNodes, OnDataNodes
    <3>2. PICK T \in SUBSET Urls : flags \in [T -> BOOLEAN]
      BY <3>1, NodesContent
    <3> QED
      BY <3>2
  <2> HIDE DEF flags
  <2>3. S \in SUBSET Notice
    BY <2>2 DEF Notice
  <2> HIDE DEF done
  <2>4. \A v : Queued(v) \in S => v \notin inQueue
    BY NoticeKinds
  <2>5. \A v : Unqueued(v) \in S => v \in inQueue
    BY NoticeKinds
  <2> HIDE DEF S
  <2> QED
    BY <1>3, <2>1, <2>3, <2>4, <2>5
<1>7. ASSUME NEW c \in Clients, ViewUnconnected(c)
      PROVE  OnUnconnected(c) /\ u \in inProgress[c] \cap inQueue
  <2> DEFINE S == {Queued(v) : v \in inProgress[c]}
  <2>1. S \in SUBSET Notice
    BY DEF Notice, TypeOK
  <2>2. OnUnconnected(c) /\ Announce(S) /\ UNCHANGED <<staleRows, queueRows>>
    BY <1>7 DEF ViewUnconnected, MergeSignals, rows
  <2>3. \A v : Queued(v) \in S => v \in inProgress[c]
    BY NoticeKinds
  <2>4. \A v : Unqueued(v) \notin S
    BY NoticeKinds
  <2> HIDE DEF S
  <2> QED
    BY <1>3, <2>1, <2>2, <2>3, <2>4
<1>8. ASSUME HandleNotice
      PROVE  FALSE
  BY <1>1, <1>8, DoubledHandled
<1>9. ASSUME NEW c \in Clients, ViewMain(c)
      PROVE  OnUnconnected(c) /\ u \in inProgress[c] \cap inQueue
  <2>1. ~ ViewLinkNodes(c)
    BY <1>2 DEF ViewLinkNodes, rows
  <2>2. ~ UNCHANGED viewVars
    BY <1>2 DEF viewVars, rows
  <2> QED
    BY <1>5, <1>6, <1>7, <1>9, <2>1, <2>2 DEF ViewMain
<1>10. ~ UNCHANGED viewVars
  BY <1>2 DEF viewVars, rows
<1> QED
  BY <1>4, <1>8, <1>9, <1>10 DEF ViewNext

-----------------------------------------------------------------------------
(* The theorems.                                                            *)

\* The server with its window does what UrlDispatch says: the widgets and the
\* notices posted to them change nothing of the dispatch of Urls.
THEOREM ViewsOnlyWatch == ViewSpec => Spec
<1>1. ViewInit => Init
  BY ViewInitial
<1>2. [ViewNext]_allVars => [Next]_vars
  BY StepOfDispatch
<1> QED
  BY <1>1, <1>2, PTL DEF ViewSpec, Spec

LEMMA ViewInvariant == ViewSpec => []ViewInv
<1>1. ViewSpec => []TypeOK
  BY ViewsOnlyWatch, TypeCorrect, PTL
<1>2. ViewInit => ViewInv
  BY ViewInitial
<1> QED
  BY <1>1, <1>2, ViewKept, PTL DEF ViewSpec

\* The tree of the queue and that of the crawled Urls show the collections of
\* the server once the notices that wait are handled, every notice of a removal
\* finds the row of its object, and a row is left behind for ever only where
\* merge() overwrites an object of the queue.
THEOREM TreesFollowCollections == ViewSpec => RowsFollow
<1>1. ViewInv => TreesToCome
  BY DEF ViewInv
<1>2. TypeOK /\ TypeOK' /\ ViewInv /\ [ViewNext]_allVars => [Overwritten]_allVars
  BY OverwrittenOnly
<1>3. ViewSpec => []TypeOK
  BY ViewsOnlyWatch, TypeCorrect, PTL
<1>4. ViewSpec => []TreesToCome /\ [][Overwritten]_allVars
  BY <1>1, <1>2, <1>3, ViewInvariant, PTL DEF ViewSpec
<1> QED
  BY <1>4 DEF RowsFollow, TreesToCome, Overwritten

\* The graph draws only links the server knows between crawled pages, and all
\* of them but those that came when both pages were drawn.
THEOREM GraphFollowsLinks == ViewSpec => []GraphShowsLinks
<1>1. ViewInv => GraphShowsLinks
  BY DEF ViewInv
<1> QED
  BY <1>1, ViewInvariant, PTL

-----------------------------------------------------------------------------
(* The forces of the links.  What rises from a list of siblings are the      *)
(* links that lead from a leaf below it to one that is not: the equation of  *)
(* Rising has this solution, and no other since paths are bounded.           *)

Paths == {s \in Seq(Segments) : Len(s) \in 1 .. 8}

\* Every inner node above a leaf is in the tree.
TreeInv ==
    /\ tree \subseteq [path : Paths, leaf : BOOLEAN]
    /\ \A n \in tree : n.leaf =>
          \A k \in 1 .. Len(n.path) - 1 : Inner(SubSeq(n.path, 1, k)) \in tree

LEMMA PrefixFacts ==
    ASSUME NEW S, NEW s \in Seq(S), NEW n \in 0 .. Len(s)
    PROVE  /\ Len(s) \in Nat
           /\ SubSeq(s, 1, n) \in Seq(S) /\ Len(SubSeq(s, 1, n)) = n
           /\ \A i \in 1 .. n : SubSeq(s, 1, n)[i] = s[i]
<1>1. Len(s) \in Nat /\ n \in Nat
  BY LenProperties
<1>2. \A i \in 1 .. n : s[i] \in S
  BY <1>1, ElementOfSeq
<1>3. /\ SubSeq(s, 1, n) \in Seq(S)
      /\ Len(SubSeq(s, 1, n)) = IF 1 <= n THEN n - 1 + 1 ELSE 0
      /\ \A i \in 1 .. n - 1 + 1 : SubSeq(s, 1, n)[i] = s[1 + i - 1]
  BY <1>1, <1>2, SubSeqProperties
<1>4. n - 1 + 1 = n /\ \A i \in 1 .. n : 1 + i - 1 = i
  BY <1>1
<1> QED
  BY <1>1, <1>3, <1>4

LEMMA PrefixOfPrefix ==
    ASSUME NEW S, NEW s \in Seq(S), NEW n \in 0 .. Len(s), NEW k \in 0 .. n
    PROVE  SubSeq(SubSeq(s, 1, n), 1, k) = SubSeq(s, 1, k)
<1>1. Len(s) \in Nat
  BY LenProperties
<1>2. n \in Nat /\ k \in Nat /\ k \in 0 .. Len(s)
  BY <1>1
<1>3. PICK t \in Seq(S) : t = SubSeq(s, 1, n)
  BY PrefixFacts
<1>4. Len(t) = n /\ \A i \in 1 .. n : t[i] = s[i]
  BY <1>3, PrefixFacts
<1>5. /\ SubSeq(t, 1, k) \in Seq(S) /\ Len(SubSeq(t, 1, k)) = k
      /\ \A i \in 1 .. k : SubSeq(t, 1, k)[i] = t[i]
  BY <1>4, PrefixFacts
<1>6. /\ SubSeq(s, 1, k) \in Seq(S) /\ Len(SubSeq(s, 1, k)) = k
      /\ \A i \in 1 .. k : SubSeq(s, 1, k)[i] = s[i]
  BY <1>2, PrefixFacts
<1>7. \A i \in 1 .. k : SubSeq(t, 1, k)[i] = SubSeq(s, 1, k)[i]
  BY <1>2, <1>4, <1>5, <1>6
<1>8. SubSeq(t, 1, k) = SubSeq(s, 1, k)
  BY <1>5, <1>6, <1>7, SeqEqual
<1> QED
  BY <1>3, <1>8

\* A list of siblings is above what is below one of them.
LEMMA AboveParent ==
    ASSUME NEW S, NEW c \in Seq(S), NEW t \in Seq(S), Len(c) > 0, IsIn(c, t)
    PROVE  IsIn(SubSeq(c, 1, Len(c) - 1), t)
<1>1. Len(c) \in Nat /\ Len(t) \in Nat
  BY LenProperties
<1>2. Len(t) > Len(c) /\ SubSeq(t, 1, Len(c)) = c
  BY DEF IsIn
<1> DEFINE k == Len(c) - 1
<1>3. k \in 0 .. Len(c) /\ k \in Nat /\ Len(c) \in 0 .. Len(t) /\ k < Len(t)
  BY <1>1, <1>2
<1> HIDE DEF k
<1>4. SubSeq(SubSeq(t, 1, Len(c)), 1, k) = SubSeq(t, 1, k)
  BY <1>3, PrefixOfPrefix
<1>5. Len(SubSeq(c, 1, k)) = k
  BY <1>3, PrefixFacts
<1>6. IsIn(SubSeq(c, 1, k), t)
  BY <1>2, <1>3, <1>4, <1>5 DEF IsIn
<1> QED
  BY <1>6 DEF k

\* The sibling that is above a path, or the leaf of that path.
LEMMA BelowParent ==
    ASSUME NEW S, NEW p \in Seq(S), NEW t \in Seq(S), IsIn(p, t)
    PROVE  /\ Len(p) \in Nat /\ Len(p) + 1 \in 1 .. Len(t)
           /\ SubSeq(t, 1, Len(p)) = p
           /\ SubSeq(t, 1, Len(p) + 1) \in Seq(S) /\ Len(SubSeq(t, 1, Len(p) + 1)) = Len(p) + 1
           /\ SubSeq(SubSeq(t, 1, Len(p) + 1), 1, Len(p)) = p
           /\ Len(p) + 1 < Len(t) => IsIn(SubSeq(t, 1, Len(p) + 1), t)
<1>1. Len(t) \in Nat /\ Len(p) \in Nat /\ Len(t) > Len(p) /\ p = SubSeq(t, 1, Len(p))
  BY LenProperties DEF IsIn
<1> DEFINE k == Len(p) + 1
<1>2. k \in 0 .. Len(t) /\ k \in 1 .. Len(t) /\ Len(p) \in 0 .. k
  BY <1>1
<1> HIDE DEF k
<1>3. SubSeq(t, 1, k) \in Seq(S) /\ Len(SubSeq(t, 1, k)) = k
  BY <1>2, PrefixFacts
<1>4. SubSeq(SubSeq(t, 1, k), 1, Len(p)) = SubSeq(t, 1, Len(p))
  BY <1>2, PrefixOfPrefix
<1>5. k < Len(t) => IsIn(SubSeq(t, 1, k), t)
  BY <1>1, <1>2, <1>3 DEF IsIn
<1> QED
  BY <1>1, <1>2, <1>3, <1>4, <1>5 DEF k

\* What is above one of two paths is above the other, when a longer path is
\* above both.
LEMMA AboveBoth ==
    ASSUME NEW S, NEW c \in Seq(S), NEW q \in Seq(S), NEW t \in Seq(S), NEW r \in Seq(S),
           IsIn(c, t), IsIn(q, t), IsIn(q, r), Len(c) <= Len(q)
    PROVE  IsIn(c, r)
<1>1. /\ Len(t) \in Nat /\ Len(r) \in Nat /\ Len(c) \in Nat /\ Len(q) \in Nat
      /\ Len(t) > Len(q) /\ Len(r) > Len(q)
      /\ SubSeq(t, 1, Len(c)) = c /\ SubSeq(t, 1, Len(q)) = q /\ SubSeq(r, 1, Len(q)) = q
  BY LenProperties DEF IsIn
<1>2. Len(q) \in 0 .. Len(t) /\ Len(q) \in 0 .. Len(r) /\ Len(c) \in 0 .. Len(q)
  BY <1>1
<1>3. SubSeq(SubSeq(t, 1, Len(q)), 1, Len(c)) = SubSeq(t, 1, Len(c))
  BY <1>2, PrefixOfPrefix
<1>4. SubSeq(SubSeq(r, 1, Len(q)), 1, Len(c)) = SubSeq(r, 1, Len(c))
  BY <1>2, PrefixOfPrefix
<1>5. SubSeq(r, 1, Len(c)) = c
  BY <1>1, <1>3, <1>4
<1> QED
  BY <1>1, <1>5 DEF IsIn

\* The nodes of the tree.
LeafPaths == {n.path : n \in {m \in tree : m.leaf}}

LEMMA TreeFacts ==
    ASSUME TreeInv
    PROVE  /\ <<>> \in Lists
           /\ \A p \in Lists : p \in Seq(Segments) /\ Len(p) \in 0 .. 8
           /\ \A t \in LeafPaths : t \in Seq(Segments) /\ Len(t) \in 1 .. 8
           /\ \A p \in Lists : \A n \in Children(p) :
                 /\ n \in tree /\ n.path \in Seq(Segments)
                 /\ Len(n.path) = Len(p) + 1 /\ SubSeq(n.path, 1, Len(n.path) - 1) = p
                 /\ n.leaf \in BOOLEAN
                 /\ n.leaf => n = Leaf(n.path)
                 /\ ~n.leaf => n.path \in Lists
<1>1. \A n \in tree : /\ n.path \in Seq(Segments) /\ Len(n.path) \in 1 .. 8 /\ n.leaf \in BOOLEAN
                      /\ n.leaf => n = Leaf(n.path)
  BY DEF TreeInv, Paths, Leaf
<1>2. <<>> \in Lists /\ <<>> \in Seq(Segments) /\ Len(<<>>) = 0
  BY DEF Lists
<1>3. ASSUME NEW p \in Lists PROVE p \in Seq(Segments) /\ Len(p) \in 0 .. 8
  <2>1. CASE p = <<>>
    BY <1>2, <2>1
  <2>2. ASSUME NEW n \in tree, p = n.path PROVE p \in Seq(Segments) /\ Len(p) \in 0 .. 8
    <3>1. p \in Seq(Segments) /\ Len(p) \in 1 .. 8
      BY <1>1, <2>2
    <3> QED
      BY <3>1
  <2> QED
    BY <2>1, <2>2 DEF Lists
<1>4. \A t \in LeafPaths : t \in Seq(Segments) /\ Len(t) \in 1 .. 8
  BY <1>1 DEF LeafPaths
<1>5. ASSUME NEW p \in Lists, NEW n \in Children(p)
      PROVE  /\ n \in tree /\ n.path \in Seq(Segments)
             /\ Len(n.path) = Len(p) + 1 /\ SubSeq(n.path, 1, Len(n.path) - 1) = p
             /\ n.leaf \in BOOLEAN
             /\ n.leaf => n = Leaf(n.path)
             /\ ~n.leaf => n.path \in Lists
  <2>1. n \in tree /\ SubSeq(n.path, 1, Len(n.path) - 1) = p
    BY <1>5 DEF Children
  <2>2. n.path \in Seq(Segments) /\ Len(n.path) \in 1 .. 8
    BY <1>1, <2>1
  <2>3. Len(n.path) - 1 \in 0 .. Len(n.path)
    <3>1. \A k \in 1 .. 8 : k - 1 \in 0 .. k
      OBVIOUS
    <3> QED
      BY <2>2, <3>1
  <2>4. Len(SubSeq(n.path, 1, Len(n.path) - 1)) = Len(n.path) - 1
    BY <2>2, <2>3, PrefixFacts
  <2>5. Len(n.path) = Len(p) + 1
    BY <2>1, <2>2, <2>4
  <2>6. ~n.leaf => n.path \in Lists
    BY <2>1 DEF Lists
  <2> QED
    BY <1>1, <2>1, <2>2, <2>5, <2>6
<1> QED
  BY <1>2, <1>3, <1>4, <1>5

\* A list is above a leaf when the leaf is one of its nodes or one of them is
\* above it.
LEMMA ListAbove ==
    ASSUME TreeInv, NEW p \in Lists, NEW n \in Children(p), NEW t \in LeafPaths,
           IF n.leaf THEN n.path = t ELSE IsIn(n.path, t)
    PROVE  IsIn(p, t)
<1>1. /\ n.path \in Seq(Segments) /\ t \in Seq(Segments) /\ p \in Seq(Segments)
      /\ Len(n.path) = Len(p) + 1 /\ SubSeq(n.path, 1, Len(n.path) - 1) = p
  BY TreeFacts
<1>2. Len(p) \in Nat /\ Len(n.path) \in Nat
  BY <1>1, LenProperties
<1>3. CASE n.path = t
  <2>1. Len(t) - 1 = Len(p) /\ Len(t) > Len(p)
    BY <1>1, <1>2, <1>3
  <2> QED
    BY <1>1, <1>3, <2>1 DEF IsIn
<1>4. CASE IsIn(n.path, t)
  <2>1. Len(n.path) > 0
    BY <1>1, <1>2
  <2>2. IsIn(SubSeq(n.path, 1, Len(n.path) - 1), t)
    BY <1>1, <1>4, <2>1, AboveParent
  <2> QED
    BY <1>1, <2>2
<1> QED
  BY <1>3, <1>4

LEMMA NodeAbove ==
    ASSUME TreeInv, NEW p \in Lists, NEW t \in LeafPaths, IsIn(p, t)
    PROVE  \E n \in Children(p) : IF n.leaf THEN n.path = t ELSE IsIn(n.path, t)
<1>1. p \in Seq(Segments) /\ t \in Seq(Segments) /\ Len(t) \in 1 .. 8
  BY TreeFacts
<1>2. PICK m \in tree : m.leaf /\ m.path = t
  BY DEF LeafPaths
<1> DEFINE k == Len(p) + 1
           c == SubSeq(t, 1, k)
<1>3. /\ Len(p) \in Nat /\ k \in 1 .. Len(t)
      /\ SubSeq(t, 1, Len(p)) = p /\ Len(c) = k /\ SubSeq(c, 1, Len(p)) = p
      /\ k < Len(t) => IsIn(c, t)
  BY <1>1, BelowParent
<1> HIDE DEF c
<1>4. CASE k = Len(t)
  <2>1. Len(m.path) - 1 = Len(p)
    BY <1>1, <1>2, <1>3, <1>4
  <2>2. m \in Children(p)
    BY <1>2, <1>3, <2>1 DEF Children
  <2> QED
    BY <1>2, <2>2
<1>5. CASE k < Len(t)
  <2>1. k \in 1 .. Len(m.path) - 1
    BY <1>1, <1>2, <1>3, <1>5
  <2>2. Inner(c) \in tree
    BY <1>2, <2>1 DEF TreeInv, c
  <2>3. Inner(c).path = c /\ ~Inner(c).leaf
    BY DEF Inner
  <2>4. Len(c) - 1 = Len(p)
    BY <1>3
  <2>5. Inner(c) \in Children(p)
    BY <1>3, <2>2, <2>3, <2>4 DEF Children
  <2> QED
    BY <1>3, <1>5, <2>3, <2>5
<1> QED
  BY <1>1, <1>3, <1>4, <1>5

-----------------------------------------------------------------------------
(* What rises. *)

\* One round at the list p when f says what rises from the lists below.
RisesAt(E, f, p) ==
    {e \in E : /\ ~IsIn(p, e[2])
               /\ \E n \in Children(p) :
                    e \in IF n.leaf THEN Brings(n, E) ELSE f[n.path]}

LeavesFor(E, p) == {e \in E : IsIn(p, e[1]) /\ ~IsIn(p, e[2])}

LEMMA RisingEquation ==
    ASSUME NEW E, NEW f, f = [p \in Lists |-> RisesAt(E, f, p)]
    PROVE  Rising(E) = [p \in Lists |-> RisesAt(E, Rising(E), p)]
BY DEF Rising, RisesAt

LEMMA LeavesRise ==
    ASSUME TreeInv, NEW E \in SUBSET (LeafPaths \X LeafPaths), NEW f,
           NEW p \in Lists, \A n \in Children(p) : ~n.leaf => f[n.path] = LeavesFor(E, n.path)
    PROVE  RisesAt(E, f, p) = LeavesFor(E, p)
<1>1. \A e \in E : e[1] \in LeafPaths /\ e[2] \in LeafPaths
  OBVIOUS
<1>2. ASSUME NEW e \in E, NEW n \in Children(p), e \in IF n.leaf THEN Brings(n, E) ELSE f[n.path]
      PROVE  IsIn(p, e[1])
  <2>1. IF n.leaf THEN n.path = e[1] ELSE IsIn(n.path, e[1])
    BY <1>2 DEF Brings, Leaf, LeavesFor
  <2> QED
    BY <1>1, <2>1, ListAbove
<1>3. ASSUME NEW e \in E, IsIn(p, e[1]), ~IsIn(p, e[2])
      PROVE  \E n \in Children(p) : e \in IF n.leaf THEN Brings(n, E) ELSE f[n.path]
  <2>1. PICK n \in Children(p) : IF n.leaf THEN n.path = e[1] ELSE IsIn(n.path, e[1])
    BY <1>1, <1>3, NodeAbove
  <2>2. ~n.leaf => ~IsIn(n.path, e[2])
    BY <1>1, <1>3, ListAbove
  <2>3. n.leaf => n = Leaf(n.path)
    BY TreeFacts
  <2> QED
    BY <2>1, <2>2, <2>3 DEF Brings, LeavesFor
<1> QED
  BY <1>2, <1>3 DEF RisesAt, LeavesFor

\* A set of numbers has a least one.
LEMMA LeastNat ==
    ASSUME NEW T, T \subseteq Nat, T # {}
    PROVE  \E x \in T : \A y \in T : ~(y < x)
<1> DEFINE R == {ss \in Nat \X Nat : ss[1] < ss[2]}
<1>1. IsWellFoundedOn(R, Nat)
  BY NatLessThanWellFounded DEF OpToRel
<1>2. \A x, y \in Nat : y < x => <<y, x>> \in R
  OBVIOUS
<1> HIDE DEF R
<1>3. PICK x \in T : \A y \in T : ~(<<y, x>> \in R)
  BY <1>1, WFMin
<1> QED
  BY <1>2, <1>3

\* By induction from the deepest lists to the root.
LEMMA RisingIs ==
    ASSUME TreeInv, NEW E \in SUBSET (LeafPaths \X LeafPaths)
    PROVE  \A p \in Lists : Rising(E)[p] = LeavesFor(E, p)
<1> DEFINE g == [p \in Lists |-> LeavesFor(E, p)]
<1>1. g = [p \in Lists |-> RisesAt(E, g, p)]
  <2>1. ASSUME NEW p \in Lists PROVE RisesAt(E, g, p) = LeavesFor(E, p)
    <3>1. \A n \in Children(p) : ~n.leaf => g[n.path] = LeavesFor(E, n.path)
      BY TreeFacts
    <3> HIDE DEF g
    <3> QED
      BY <3>1, LeavesRise
  <2> QED
    BY <2>1
<1> HIDE DEF g
<1>2. PICK f : f = Rising(E)
  OBVIOUS
<1>3. f = [p \in Lists |-> RisesAt(E, f, p)]
  BY <1>1, <1>2, RisingEquation
<1>4. \A p \in Lists : f[p] = RisesAt(E, f, p)
  BY <1>3
<1>5. PICK N \in Nat : \A p \in Lists : Len(p) \in 0 .. N
  BY TreeFacts
<1> DEFINE D == {d \in Nat : \E p \in Lists : Len(p) + d = N /\ f[p] # LeavesFor(E, p)}
<1>6. ASSUME D # {} PROVE FALSE
  <2>1. PICK d \in D : \A b \in D : ~(b < d)
    <3>1. D \subseteq Nat
      OBVIOUS
    <3> HIDE DEF D
    <3> QED
      BY <1>6, <3>1, LeastNat
  <2>2. d \in Nat /\ \E p \in Lists : Len(p) + d = N /\ f[p] # LeavesFor(E, p)
    OBVIOUS
  <2>3. PICK p \in Lists : Len(p) + d = N /\ f[p] # LeavesFor(E, p)
    BY <2>2
  <2>4. ASSUME NEW n \in Children(p), ~n.leaf PROVE f[n.path] = LeavesFor(E, n.path)
    <3>1. n.path \in Lists /\ Len(n.path) = Len(p) + 1
      BY <2>4, TreeFacts
    <3>2. Len(p) \in Nat /\ Len(n.path) \in 0 .. N
      BY <1>5, <3>1
    <3>3. d - 1 \in Nat /\ Len(n.path) + (d - 1) = N /\ d - 1 < d
      BY <2>2, <2>3, <3>1, <3>2
    <3>4. d - 1 \notin D
      BY <2>1, <3>3
    <3> QED
      BY <3>1, <3>3, <3>4
  <2>5. RisesAt(E, f, p) = LeavesFor(E, p)
    BY <2>4, LeavesRise
  <2> QED
    BY <1>4, <2>3, <2>5
<1>7. \A p \in Lists : f[p] = LeavesFor(E, p)
  <2>1. \A p \in Lists : \E d \in Nat : Len(p) + d = N
    BY <1>5
  <2> QED
    BY <1>6, <2>1
<1> QED
  BY <1>2, <1>7

-----------------------------------------------------------------------------
(* Where a link pulls. *)

Common(e) == {p \in Lists : IsIn(p, e[1]) /\ IsIn(p, e[2])}

LEMMA NothingRests ==
    ASSUME TreeInv, NEW E \in SUBSET (LeafPaths \X LeafPaths)
    PROVE  Rest(Rising(E)) = {}
<1>1. <<>> \in Lists
  BY TreeFacts
<1>2. Rising(E)[<<>>] = LeavesFor(E, <<>>)
  BY <1>1, RisingIs
<1>3. ASSUME NEW e \in E PROVE IsIn(<<>>, e[2])
  <2>1. PICK t \in LeafPaths : t = e[2]
    OBVIOUS
  <2>2. t \in Seq(Segments) /\ Len(t) \in 1 .. 8
    BY TreeFacts
  <2>3. /\ 0 \in 0 .. Len(t) /\ Len(t) > 0
        /\ SubSeq(t, 1, 0) \in Seq(Segments) /\ Len(SubSeq(t, 1, 0)) = 0
    BY <2>2, PrefixFacts
  <2>4. <<>> \in Seq(Segments) /\ Len(<<>>) = 0 /\ \A i \in 1 .. 0 : FALSE
    OBVIOUS
  <2>5. SubSeq(t, 1, 0) = <<>>
    BY <2>3, <2>4, SeqEqual
  <2>6. IsIn(<<>>, t)
    BY <2>3, <2>4, <2>5 DEF IsIn
  <2> QED
    BY <2>1, <2>6
<1> QED
  BY <1>2, <1>3 DEF Rest, LeavesFor

\* A link pulls in p when p is above both its ends and none of the nodes of p
\* is.
LEMMA PullsAt ==
    ASSUME TreeInv, NEW E \in SUBSET (LeafPaths \X LeafPaths), NEW e \in E, NEW p \in Lists
    PROVE  e \in Pulling(E, Rising(E), p)
              <=> /\ p \in Common(e)
                  /\ \A n \in Children(p) : ~n.leaf => n.path \notin Common(e)
<1> DEFINE f == Rising(E)
<1>1. e[1] \in LeafPaths /\ e[2] \in LeafPaths
  OBVIOUS
<1>2. \A n \in Children(p) : ~n.leaf => n.path \in Lists /\ f[n.path] = LeavesFor(E, n.path)
  BY TreeFacts, RisingIs
<1> HIDE DEF f
<1>3. \A n \in Children(p) :
        e \in (IF n.leaf THEN Brings(n, E) ELSE f[n.path])
           <=> IF n.leaf THEN n.path = e[1] ELSE IsIn(n.path, e[1]) /\ ~IsIn(n.path, e[2])
  <2>1. \A n \in Children(p) : n.leaf => n = Leaf(n.path)
    BY TreeFacts
  <2> QED
    BY <1>2, <2>1 DEF Brings, Leaf, LeavesFor
<1>4. ASSUME NEW n \in Children(p), IsIn(p, e[2]),
             IF n.leaf THEN n.path = e[1] ELSE IsIn(n.path, e[1]) /\ ~IsIn(n.path, e[2])
      PROVE  /\ p \in Common(e)
             /\ \A m \in Children(p) : ~m.leaf => m.path \notin Common(e)
  <2>1. IsIn(p, e[1])
    BY <1>1, <1>4, ListAbove
  <2>2. ASSUME NEW m \in Children(p), ~m.leaf, IsIn(m.path, e[1]), IsIn(m.path, e[2]) PROVE FALSE
    <3>1. /\ n.path \in Seq(Segments) /\ m.path \in Seq(Segments)
          /\ e[1] \in Seq(Segments) /\ e[2] \in Seq(Segments)
          /\ Len(n.path) = Len(p) + 1 /\ Len(m.path) = Len(p) + 1 /\ Len(p) \in 0 .. 8
      BY <1>1, TreeFacts
    <3>2. CASE n.leaf
      BY <1>4, <2>2, <3>1, <3>2 DEF IsIn
    <3>3. CASE ~n.leaf
      <4>1. Len(n.path) <= Len(m.path)
        BY <3>1
      <4>2. IsIn(n.path, e[2])
        BY <1>4, <2>2, <3>1, <3>3, <4>1, AboveBoth
      <4> QED
        BY <1>4, <3>3, <4>2
    <3> QED
      BY <3>2, <3>3
  <2> QED
    BY <1>4, <2>1, <2>2 DEF Common
<1>5. ASSUME p \in Common(e), \A m \in Children(p) : ~m.leaf => m.path \notin Common(e)
      PROVE  \E n \in Children(p) :
                IF n.leaf THEN n.path = e[1] ELSE IsIn(n.path, e[1]) /\ ~IsIn(n.path, e[2])
  <2>1. PICK n \in Children(p) : IF n.leaf THEN n.path = e[1] ELSE IsIn(n.path, e[1])
    BY <1>1, <1>5, NodeAbove DEF Common
  <2> QED
    BY <1>2, <1>5, <2>1 DEF Common
<1>6. e \in Pulling(E, f, p)
         <=> IsIn(p, e[2]) /\ \E n \in Children(p) :
               e \in (IF n.leaf THEN Brings(n, E) ELSE f[n.path])
  BY DEF Pulling
<1>7. p \in Common(e) => IsIn(p, e[2])
  BY DEF Common
<1> QED
  BY <1>3, <1>4, <1>5, <1>6, <1>7 DEF f

\* Of the lists above two leaves, the longest is the one no node of which is
\* above both.
LEMMA LongestCommon ==
    ASSUME TreeInv, NEW e \in LeafPaths \X LeafPaths, NEW p \in Common(e)
    PROVE  (\A n \in Children(p) : ~n.leaf => n.path \notin Common(e))
              <=> \A q \in Common(e) : Len(q) <= Len(p)
<1>1. /\ e[1] \in LeafPaths /\ e[2] \in LeafPaths /\ p \in Lists
      /\ e[1] \in Seq(Segments) /\ e[2] \in Seq(Segments) /\ p \in Seq(Segments)
      /\ Len(p) \in 0 .. 8 /\ Len(e[1]) \in 1 .. 8
  BY TreeFacts DEF Common
<1>2. ASSUME NEW n \in Children(p), ~n.leaf, n.path \in Common(e),
             \A q \in Common(e) : Len(q) <= Len(p)
      PROVE  FALSE
  <2>1. Len(n.path) = Len(p) + 1
    BY <1>1, TreeFacts
  <2> QED
    BY <1>1, <1>2, <2>1
<1>3. ASSUME NEW q \in Common(e), ~(Len(q) <= Len(p))
      PROVE  \E n \in Children(p) : ~n.leaf /\ n.path \in Common(e)
  <2>1. /\ q \in Seq(Segments) /\ Len(q) \in 0 .. 8 /\ IsIn(q, e[1]) /\ IsIn(q, e[2])
        /\ IsIn(p, e[1])
    BY <1>3, TreeFacts DEF Common
  <2>2. PICK n \in Children(p) : IF n.leaf THEN n.path = e[1] ELSE IsIn(n.path, e[1])
    BY <1>1, <2>1, NodeAbove
  <2>3. /\ n.path \in Seq(Segments) /\ Len(n.path) = Len(p) + 1
        /\ n.leaf \in BOOLEAN
        /\ ~n.leaf => n.path \in Lists
    BY <1>1, TreeFacts
  <2>4. Len(n.path) <= Len(q)
    BY <1>1, <1>3, <2>1, <2>3
  <2>5. ~n.leaf
    BY <2>1, <2>2, <2>3, <2>4, <1>1 DEF IsIn
  <2>6. IsIn(n.path, e[1]) /\ IsIn(n.path, e[2])
    BY <1>1, <2>1, <2>2, <2>3, <2>4, <2>5, AboveBoth
  <2> QED
    BY <2>3, <2>5, <2>6 DEF Common
<1> QED
  BY <1>2, <1>3

LEMMA TreePullsOnce == TreeInv => PullsOnce
<1> SUFFICES ASSUME TreeInv PROVE PullsOnce
  OBVIOUS
<1>1. ASSUME NEW E \in SUBSET (LeafPaths \X LeafPaths), NEW e \in E
      PROVE  {p \in Lists : e \in Pulling(E, Rising(E), p)}
                = {p \in Common(e) : \A q \in Common(e) : Len(q) <= Len(p)}
  <2>1. e \in LeafPaths \X LeafPaths
    OBVIOUS
  <2>2. Common(e) \subseteq Lists
    BY DEF Common
  <2>3. \A p \in Lists : e \in Pulling(E, Rising(E), p)
           <=> p \in Common(e) /\ \A q \in Common(e) : Len(q) <= Len(p)
    BY <2>1, PullsAt, LongestCommon
  <2> QED
    BY <2>2, <2>3
<1>2. \A p, t : (Len(p) < Len(t) /\ SubSeq(t, 1, Len(p)) = p) <=> IsIn(p, t)
  BY DEF IsIn
<1> DEFINE Both(e) == {p \in Lists :
          /\ Len(p) < Len(e[1]) /\ SubSeq(e[1], 1, Len(p)) = p
          /\ Len(p) < Len(e[2]) /\ SubSeq(e[2], 1, Len(p)) = p}
<1>3. ASSUME NEW e PROVE Common(e) = Both(e)
  BY <1>2 DEF Common
<1>4. ASSUME NEW E \in SUBSET (LeafPaths \X LeafPaths)
      PROVE  /\ Rest(Rising(E)) = {}
             /\ \A e \in E : {p \in Lists : e \in Pulling(E, Rising(E), p)}
                                = {p \in Both(e) : \A q \in Both(e) : Len(q) <= Len(p)}
  <2> HIDE DEF Both
  <2>1. ASSUME NEW e \in E
        PROVE  {p \in Lists : e \in Pulling(E, Rising(E), p)}
                  = {p \in Both(e) : \A q \in Both(e) : Len(q) <= Len(p)}
    <3>1. PICK C : C = Common(e)
      OBVIOUS
    <3>2. {p \in Lists : e \in Pulling(E, Rising(E), p)}
             = {p \in C : \A q \in C : Len(q) <= Len(p)}
      BY <1>1, <3>1
    <3>3. C = Both(e)
      BY <1>3, <3>1
    <3> QED
      BY <3>2, <3>3
  <2> QED
    BY <2>1, NothingRests
<1> QED
  BY <1>4 DEF PullsOnce, LeafPaths

-----------------------------------------------------------------------------
(* The tree keeps its inner nodes. *)

LEMMA NodesFacts ==
    ASSUME NEW s \in Paths
    PROVE  /\ NodesOf(s) \subseteq [path : Paths, leaf : BOOLEAN]
           /\ \A n \in NodesOf(s) : n.leaf =>
                 \A k \in 1 .. Len(n.path) - 1 : Inner(SubSeq(n.path, 1, k)) \in NodesOf(s)
<1>1. s \in Seq(Segments) /\ Len(s) \in 1 .. 8
  BY DEF Paths
<1>2. ASSUME NEW k \in 1 .. Len(s) - 1 PROVE SubSeq(s, 1, k) \in Paths
  <2>0. \A l \in 1 .. 8 : \A i \in 1 .. l - 1 : i \in 0 .. l /\ i \in 1 .. 8
    OBVIOUS
  <2>1. k \in 0 .. Len(s) /\ k \in 1 .. 8
    BY <1>1, <2>0
  <2>2. SubSeq(s, 1, k) \in Seq(Segments) /\ Len(SubSeq(s, 1, k)) = k
    BY <1>1, <2>1, PrefixFacts
  <2> QED
    BY <2>1, <2>2 DEF Paths
<1>3. /\ Leaf(s).path = s /\ Leaf(s).leaf = TRUE
      /\ \A q : Inner(q).path = q /\ Inner(q).leaf = FALSE
      /\ \A q \in Paths : {Leaf(q), Inner(q)} \subseteq [path : Paths, leaf : BOOLEAN]
  BY DEF Inner, Leaf
<1>4. \A n \in NodesOf(s) :
        n = Leaf(s) \/ \E k \in 1 .. Len(s) - 1 : n = Inner(SubSeq(s, 1, k))
  BY DEF NodesOf
<1>5. ASSUME NEW n \in NodesOf(s)
      PROVE  n \in [path : Paths, leaf : BOOLEAN] /\ (n.leaf => n.path = s)
  BY <1>2, <1>3, <1>4
<1>6. \A k \in 1 .. Len(s) - 1 : Inner(SubSeq(s, 1, k)) \in NodesOf(s)
  BY DEF NodesOf
<1> QED
  BY <1>5, <1>6

LEMMA TreeInvStart == ViewInit => TreeInv
BY DEF ViewInit, TreeInv

LEMMA TreeInvDraw ==
    ASSUME TreeInv, NEW u \in Urls, tree' = tree \cup NodesOf(Path[u]) PROVE TreeInv'
<1>1. Path[u] \in Paths
  BY ViewsAssumption DEF Paths
<1>2. PICK new : new = NodesOf(Path[u])
  OBVIOUS
<1>3. /\ new \subseteq [path : Paths, leaf : BOOLEAN]
      /\ \A n \in new : n.leaf =>
            \A k \in 1 .. Len(n.path) - 1 : Inner(SubSeq(n.path, 1, k)) \in new
  BY <1>1, <1>2, NodesFacts
<1>4. tree' = tree \cup new
  BY <1>2
<1> QED
  BY <1>3, <1>4 DEF TreeInv

LEMMA TreeInvStutter == TreeInv /\ UNCHANGED tree => TreeInv'
BY DEF TreeInv

LEMMA TreeKept == ViewInv /\ TreeInv /\ [ViewNext]_allVars => TreeInv'
<1> SUFFICES ASSUME ViewInv, TreeInv, [ViewNext]_allVars
             PROVE  TreeInv'
  OBVIOUS
<1>1. CASE HandleNotice
  <2>1. PICK n : n = Head(notices)
    OBVIOUS
  <2>2. n.url \in Urls
    <3>1. notices \in Seq(Notice) /\ notices # <<>>
      BY <1>1 DEF HandleNotice, ViewInv, ViewTypes
    <3>2. n \in Notice
      BY <2>1, <3>1, TailFacts
    <3> QED
      BY <3>2, NoticeContent
  <2>3. \/ UNCHANGED tree
        \/ tree' = tree \cup NodesOf(Path[n.url])
    BY <1>1, <2>1 DEF HandleNotice, AddQueueRow, RemoveQueueRow, Draw, graph
  <2> QED
    BY <2>2, <2>3, TreeInvDraw, TreeInvStutter
<1>2. ASSUME NEW u \in Seeds, ViewAddSeedUrl(u) PROVE UNCHANGED tree
  BY <1>2 DEF ViewAddSeedUrl, graph
<1>3. ASSUME NEW c \in Clients, ViewMain(c) PROVE UNCHANGED tree
  BY <1>3 DEF ViewMain, ViewSeedUrlRequest, ViewDataNodes, ViewLinkNodes, ViewUnconnected,
              viewVars, graph
<1>4. UNCHANGED viewVars \/ UNCHANGED allVars => UNCHANGED tree
  BY DEF viewVars, allVars, graph
<1> QED
  BY <1>1, <1>2, <1>3, <1>4, TreeInvStutter DEF ViewNext

\* After every change of the graph's tree, whatever links are drawn between its
\* leaves, a round of forces lets each link pull in one list only, that of the
\* last node above both its ends, and no link is left over at the root: the two
\* traversals of the tree lose no force and apply none twice.
THEOREM ForcesBalance == ViewSpec => LinksPullOnce
<1>1. TreeInv' => PullsOnce'
  BY TreePullsOnce, PTL
<1>2. TreeInv' => [tree' # tree => PullsOnce']_tree
  BY <1>1
<1> QED
  BY <1>2, TreeInvStart, TreeKept, ViewInvariant, PTL DEF ViewSpec, LinksPullOnce
=============================================================================
