---------------------------- MODULE CrawlerProofs ----------------------------
(***************************************************************************)
(* Proofs about Crawler, for any number of download slots, any web and any *)
(* nesting of the analyses of pages.                                       *)
(*                                                                         *)
(* Urls, requests and slots: what waits or is loaded is the queue of the   *)
(* client, each Url once, and no request waits beside a free slot (NetInv).*)
(* Analyses: each one on the stack has a slot of its own, which no other   *)
(* ends (FrameInv).  Links: the first analysis of a page has found all its *)
(* links but the rest (LinksInv).  IInv joins the three.                   *)
(***************************************************************************)
EXTENDS Crawler, FiniteSetTheorems, FunctionTheorems, SequenceTheorems, TLAPS

USE CrawlerAssumption

-----------------------------------------------------------------------------
(* Slots and requests of the download manager.                              *)

Working(s) == s.phase \in {"loading", "redirecting"}

\* A Url of the queue Q waits or is downloaded, once; nothing else is.
WorkInv(n, Q) ==
    /\ \A i, j \in DOMAIN n.pending : n.pending[i] = n.pending[j] => i = j
    /\ \A s, t \in Threads :
          Working(n.slots[s]) /\ Working(n.slots[t]) /\ n.slots[s].url = n.slots[t].url => s = t
    /\ \A i \in DOMAIN n.pending : \A t \in Threads :
          Working(n.slots[t]) => n.pending[i] # n.slots[t].url
    /\ \A i \in DOMAIN n.pending : n.pending[i] \in Q
    /\ \A t \in Threads : Working(n.slots[t]) => n.slots[t].url \in Q
    /\ \A u \in Q : \/ \E i \in DOMAIN n.pending : n.pending[i] = u
                    \/ \E t \in Threads : Working(n.slots[t]) /\ n.slots[t].url = u

\* No request waits beside a free slot.
NoWaste(n) == n.pending # <<>> /\ n.processing => Free(n) = {}

\* The slots that are not free in n are the same in m.
KeepsBusy(n, m) == \A t \in Threads : m.slots[t] = n.slots[t] \/ t \in Free(n)

\* There is something to download, or a page in analysis.
HasWork(n) == n.pending # <<>> \/ \E t \in Threads : n.slots[t].phase # "free"

LEMMA SlotFacts ==
    /\ FreeSlot \in Slot /\ ~Working(FreeSlot)
    /\ \A u \in Urls : Start(u) \in Slot /\ Working(Start(u)) /\ Start(u).url = u
                          /\ Start(u).phase = "loading"
BY DEF FreeSlot, Start, Slot, Working

LEMMA PendingFacts ==
    ASSUME NEW n \in Network
    PROVE  /\ n.pending \in Seq(Urls) /\ Len(n.pending) \in Nat
           /\ DOMAIN n.pending = 1 .. Len(n.pending)
           /\ n.processing \in BOOLEAN /\ n.slots \in [Threads -> Slot]
BY LenProperties DEF Network

LEMMA NetworkRecord ==
    ASSUME NEW n \in Network
    PROVE  n = [pending |-> n.pending, processing |-> n.processing, slots |-> n.slots]
BY DEF Network

\* The ranks of the free slots are 1, 2, ... up to their number.
LEMMA RankFacts ==
    ASSUME NEW n \in Network
    PROVE  /\ IsFiniteSet(Free(n)) /\ Cardinality(Free(n)) \in Nat
           /\ \A t \in Free(n) : Rank(n, t) \in 1 .. Cardinality(Free(n))
           /\ \A s, t \in Free(n) : Rank(n, s) = Rank(n, t) => s = t
           /\ \A k \in 1 .. Cardinality(Free(n)) : \E t \in Free(n) : Rank(n, t) = k
<1> DEFINE F == Free(n)
           Below(t) == {s \in F : s <= t}
<1>1. IsFiniteSet(F) /\ \A t \in F : t \in Nat
    BY FS_Subset DEF CrawlerAssumption, Free
<1>2. Cardinality(F) \in Nat
    BY <1>1, FS_CardinalityType
<1>3. \A t \in F : Rank(n, t) = Cardinality(Below(t))
    BY DEF Rank
<1>4. ASSUME NEW t \in F
      PROVE  /\ IsFiniteSet(Below(t)) /\ Cardinality(Below(t)) \in 1 .. Cardinality(F)
  <2>1. Below(t) \in SUBSET F /\ t \in Below(t)
      BY <1>1
  <2>2. IsFiniteSet(Below(t)) /\ Cardinality(Below(t)) <= Cardinality(F)
      BY <1>1, <2>1, FS_Subset
  <2>3. Cardinality(Below(t)) \in Nat /\ Cardinality(Below(t)) # 0
      BY <2>1, <2>2, FS_CardinalityType, FS_EmptySet
  <2> QED
      BY <1>2, <2>2, <2>3
<1>5. ASSUME NEW s \in F, NEW t \in F, s < t
      PROVE  Cardinality(Below(s)) # Cardinality(Below(t))
  <2>1. Below(s) \in SUBSET Below(t) /\ t \in Below(t) /\ t \notin Below(s)
      BY <1>1, <1>5
  <2> QED
      BY <1>4, <2>1, FS_Subset
<1>6. \A s, t \in F : Rank(n, s) = Rank(n, t) => s = t
  <2> SUFFICES ASSUME NEW s \in F, NEW t \in F, Rank(n, s) = Rank(n, t)
               PROVE  s = t
      OBVIOUS
  <2>1. s \in Nat /\ t \in Nat
      BY <1>1
  <2> QED
    <3>1. CASE s < t
        BY <1>3, <1>5, <3>1
    <3>2. CASE t < s
        BY <1>3, <1>5, <3>2
    <3> QED
        BY <2>1, <3>1, <3>2
<1>7. \A k \in 1 .. Cardinality(F) : \E t \in F : Rank(n, t) = k
  <2> DEFINE f == [t \in F |-> Rank(n, t)]
             T == 1 .. Cardinality(F)
  <2>1. f \in [F -> T]
      BY <1>3, <1>4
  <2>2. f \in Injection(F, T)
      BY <1>6, <2>1, Fun_IsInj
  <2>3. IsFiniteSet(T) /\ Cardinality(T) = Cardinality(F)
      BY <1>2, FS_Interval
  <2> HIDE DEF T
  <2>4. f \in Surjection(F, T)
      BY <2>2, <2>3, FS_Injection
  <2>5. \A k \in T : \E t \in F : f[t] = k
      BY <2>4, Fun_SurjectionProperties
  <2> QED
      BY <2>5 DEF T
<1>8. \A t \in F : Rank(n, t) \in 1 .. Cardinality(F)
    BY <1>3, <1>4
<1> HIDE DEF Below
<1> QED
    BY <1>1, <1>2, <1>6, <1>7, <1>8

LEMMA LeastFree ==
    ASSUME NEW n \in Network, Free(n) # {}
    PROVE  LET t == CHOOSE t \in Free(n) : \A s \in Free(n) : t <= s
           IN  t \in Free(n)
<1>1. Cardinality(Free(n)) \in Nat \ {0} /\ \A t \in Free(n) : t \in Nat
  <2>1. \A t \in Free(n) : t \in Nat
      BY DEF Free, CrawlerAssumption
  <2> QED
      BY <2>1, RankFacts, FS_EmptySet
<1>2. PICK t \in Free(n) : Rank(n, t) = 1
    BY <1>1, RankFacts
<1>3. ASSUME NEW s \in Free(n) PROVE t <= s
  <2> DEFINE B == {x \in Free(n) : x <= t}
  <2>1. B \in SUBSET Free(n) /\ t \in B
      BY <1>1
  <2>2. IsFiniteSet(B) /\ Cardinality(B) = 1
      BY <1>2, <2>1, RankFacts, FS_Subset DEF Rank
  <2>3. B = {t}
      BY <2>1, <2>2, FS_Singleton
  <2>4. s <= t => s = t
      BY <2>3
  <2> QED
      BY <1>1, <2>4
<1> QED
    BY <1>3

\* The free slots that take a request in Resume.
Takers(n) == {t \in Free(n) : Rank(n, t) <= Len(n.pending)}

LEMMA TakersFacts ==
    ASSUME NEW n \in Network
    PROVE  /\ Cardinality(Takers(n)) \in 0 .. Len(n.pending)
           /\ \A t \in Takers(n) : Rank(n, t) \in 1 .. Cardinality(Takers(n))
           /\ \A k \in 1 .. Cardinality(Takers(n)) : \E t \in Takers(n) : Rank(n, t) = k
           /\ Cardinality(Takers(n)) < Len(n.pending) => Takers(n) = Free(n)
<1> DEFINE F == Free(n)
           L == Len(n.pending)
<1>1. L \in Nat /\ IsFiniteSet(F) /\ Cardinality(F) \in Nat
    BY PendingFacts, RankFacts
<1>2. CASE Cardinality(F) <= L
  <2>1. Takers(n) = F
      BY <1>1, <1>2, RankFacts DEF Takers
  <2> QED
      BY <1>1, <1>2, <2>1, RankFacts
<1>3. CASE L < Cardinality(F)
  <2> DEFINE f == [t \in Takers(n) |-> Rank(n, t)]
             T == 1 .. L
  <2>1. Takers(n) \subseteq F /\ \A t \in Takers(n) : Rank(n, t) \in T
      BY <1>1, RankFacts DEF Takers
  <2>2. \A k \in T : \E t \in Takers(n) : Rank(n, t) = k
    <3> SUFFICES ASSUME NEW k \in T PROVE \E t \in Takers(n) : Rank(n, t) = k
        OBVIOUS
    <3>1. k \in 1 .. Cardinality(F) /\ k <= L
        BY <1>1, <1>3
    <3> QED
        BY <3>1, RankFacts DEF Takers
  <2>3. IsFiniteSet(T) /\ Cardinality(T) = L
    <3>1. 1 \in Int /\ L \in Int /\ (1 > L => L = 0)
        BY <1>1
    <3>2. IsFiniteSet(1 .. L) /\ Cardinality(1 .. L) = IF 1 > L THEN 0 ELSE L - 1 + 1
        BY <3>1, FS_Interval
    <3> QED
        BY <1>1, <3>1, <3>2
  <2>4. IsFiniteSet(Takers(n))
      BY <1>1, <2>1, FS_Subset
  <2> HIDE DEF T
  <2>5. f \in [Takers(n) -> T] /\ \A s, t \in Takers(n) : f[s] = f[t] => s = t
      BY <2>1, RankFacts
  <2>6. f \in Bijection(Takers(n), T)
      BY <2>2, <2>5, Fun_IsBij
  <2>7. ExistsBijection(Takers(n), T)
      BY <2>6, Fun_ExistsBij
  <2>8. Cardinality(Takers(n)) = L
      BY <2>3, <2>4, <2>7, FS_Bijection
  <2> QED
      BY <1>1, <2>1, <2>2, <2>8 DEF T
<1> QED
    BY <1>1, <1>2, <1>3

-----------------------------------------------------------------------------
(* What the operators of the download manager preserve.                     *)

LEMMA NextPendingRecord ==
    ASSUME NEW n \in Network, NEW t \in Threads
    PROVE  NextPending(n, t)
             = [pending |-> Tail(n.pending), processing |-> n.processing,
                slots |-> [n.slots EXCEPT ![t] = Start(Head(n.pending))]]
<1> DEFINE p == n.pending
           m == NextPending(n, t)
<1> DEFINE k == [n EXCEPT !.slots[t] = Start(Head(p))]
<1>1. k = [pending |-> p, processing |-> n.processing,
           slots |-> [n.slots EXCEPT ![t] = Start(Head(p))]]
    BY NetworkRecord
<1>2. m = [k EXCEPT !.pending = Tail(p)]
  <2>1. k.pending = p
      BY <1>1
  <2> QED
      BY <2>1, Zenon DEF NextPending
<1> HIDE DEF k
<1>3. \A y, z : k = [pending |-> p, processing |-> n.processing, slots |-> z]
        => [k EXCEPT !.pending = y]
             = [pending |-> y, processing |-> n.processing, slots |-> z]
    OBVIOUS
<1> QED
    BY <1>1, <1>2, <1>3, Zenon

LEMMA NextPendingFacts ==
    ASSUME NEW n \in Network, NEW t \in Threads, n.pending # <<>>
    PROVE  LET m == NextPending(n, t) IN
           /\ m \in Network /\ m.processing = n.processing
           /\ Len(m.pending) = Len(n.pending) - 1 /\ Len(n.pending) \in Nat \ {0}
           /\ \A i \in 1 .. Len(m.pending) : m.pending[i] = n.pending[i + 1]
           /\ m.slots[t] = Start(n.pending[1])
           /\ \A s \in Threads : s # t => m.slots[s] = n.slots[s]
<1> DEFINE p == n.pending
           m == NextPending(n, t)
<1>1. /\ p \in Seq(Urls) /\ Len(p) \in Nat \ {0} /\ n.slots \in [Threads -> Slot]
      /\ n.processing \in BOOLEAN /\ DOMAIN p = 1 .. Len(p)
    BY PendingFacts, EmptySeq
<1>2. /\ Tail(p) \in Seq(Urls) /\ Len(Tail(p)) = Len(p) - 1
      /\ \A i \in 1 .. Len(Tail(p)) : Tail(p)[i] = p[i + 1]
      /\ Head(p) = p[1] /\ Head(p) \in Urls
    BY <1>1, HeadTailProperties
<1>3. Start(Head(p)) \in Slot
    BY <1>2, SlotFacts
<1>4. m = [pending |-> Tail(p), processing |-> n.processing,
           slots |-> [n.slots EXCEPT ![t] = Start(Head(p))]]
    BY NextPendingRecord
<1>5. [n.slots EXCEPT ![t] = Start(Head(p))] \in [Threads -> Slot]
    BY <1>1, <1>3
<1> HIDE DEF m
<1>6. m \in Network
    BY <1>1, <1>2, <1>4, <1>5 DEF Network
<1>7. /\ m.slots[t] = Start(p[1])
      /\ \A s \in Threads : s # t => m.slots[s] = n.slots[s]
    BY <1>1, <1>2, <1>4
<1>8. m.pending = Tail(p) /\ m.processing = n.processing
    BY <1>4
<1> QED
    BY <1>1, <1>2, <1>6, <1>7, <1>8 DEF m

LEMMA NextPendingWork ==
    ASSUME NEW n \in Network, NEW t \in Threads, NEW Q, n.pending # <<>>,
           WorkInv(n, Q), ~Working(n.slots[t])
    PROVE  WorkInv(NextPending(n, t), Q)
<1> DEFINE m == NextPending(n, t)
           L == Len(n.pending)
           K == Len(m.pending)
<1>1. /\ m \in Network /\ L \in Nat \ {0} /\ K = L - 1
      /\ \A i \in 1 .. K : m.pending[i] = n.pending[i + 1]
      /\ m.slots[t] = Start(n.pending[1])
      /\ \A s \in Threads : s # t => m.slots[s] = n.slots[s]
    BY NextPendingFacts
<1> HIDE DEF m
<1>2. /\ DOMAIN n.pending = 1 .. L /\ DOMAIN m.pending = 1 .. K
      /\ 1 \in 1 .. L /\ n.pending[1] \in Urls
      /\ \A i \in 1 .. K : i + 1 \in 1 .. L /\ i + 1 # 1 /\ i \in Nat
    BY <1>1, PendingFacts, ElementOfSeq
<1>3. Working(m.slots[t]) /\ m.slots[t].url = n.pending[1]
    BY <1>1, <1>2, SlotFacts
<1>4. /\ \A i, j \in 1 .. L : n.pending[i] = n.pending[j] => i = j
      /\ \A i \in 1 .. L : \A s \in Threads : Working(n.slots[s]) => n.pending[i] # n.slots[s].url
      /\ \A i \in 1 .. L : n.pending[i] \in Q
    BY <1>2 DEF WorkInv
<1>5. \A i, j \in 1 .. K : m.pending[i] = m.pending[j] => i = j
  <2> SUFFICES ASSUME NEW i \in 1 .. K, NEW j \in 1 .. K, m.pending[i] = m.pending[j]
               PROVE  i = j
      OBVIOUS
  <2>1. n.pending[i + 1] = n.pending[j + 1]
      BY <1>1
  <2>2. i + 1 \in 1 .. L /\ j + 1 \in 1 .. L /\ i \in Nat /\ j \in Nat
      BY <1>2
  <2>3. i + 1 = j + 1
      BY <1>4, <2>1, <2>2, Zenon
  <2> QED
      BY <2>2, <2>3
<1>6. \A i \in 1 .. K : m.pending[i] # n.pending[1]
    BY <1>1, <1>2, <1>4
<1>7. \A s \in Threads : Working(m.slots[s]) /\ s # t => m.slots[s].url # n.pending[1]
    BY <1>1, <1>2, <1>4
<1>8. ASSUME NEW r \in Threads, NEW s \in Threads,
             Working(m.slots[r]), Working(m.slots[s]), m.slots[r].url = m.slots[s].url
      PROVE  r = s
    BY <1>1, <1>3, <1>7, <1>8 DEF WorkInv
<1>9. ASSUME NEW i \in 1 .. K, NEW s \in Threads, Working(m.slots[s])
      PROVE  m.pending[i] # m.slots[s].url
  <2>1. CASE s = t
      BY <1>3, <1>6, <2>1
  <2>2. CASE s # t
    <3>1. m.slots[s] = n.slots[s] /\ m.pending[i] = n.pending[i + 1] /\ i + 1 \in 1 .. L
        BY <1>1, <1>2, <2>2
    <3> QED
        BY <1>4, <1>9, <3>1
  <2> QED
      BY <2>1, <2>2
<1>10. \A i \in 1 .. K : m.pending[i] \in Q
    BY <1>1, <1>2, <1>4
<1>11. \A s \in Threads : Working(m.slots[s]) => m.slots[s].url \in Q
    BY <1>1, <1>2, <1>3, <1>4 DEF WorkInv
<1>12. ASSUME NEW u \in Q
       PROVE  \/ \E i \in 1 .. K : m.pending[i] = u
              \/ \E s \in Threads : Working(m.slots[s]) /\ m.slots[s].url = u
  <2>1. CASE \E i \in 1 .. L : n.pending[i] = u
    <3>1. PICK i \in 1 .. L : n.pending[i] = u
        BY <2>1
    <3>2. i = 1 \/ (i - 1 \in 1 .. K /\ (i - 1) + 1 = i)
        BY <1>1
    <3> QED
        BY <1>1, <1>3, <3>1, <3>2
  <2>2. CASE \E s \in Threads : Working(n.slots[s]) /\ n.slots[s].url = u
      BY <1>1, <2>2
  <2> QED
      BY <1>2, <2>1, <2>2 DEF WorkInv
<1> QED
    BY <1>2, <1>5, <1>8, <1>9, <1>10, <1>11, <1>12 DEF WorkInv, m

\* The slot t becomes x.
Put(n, t, x) == [n EXCEPT !.slots[t] = x]

Left(n, t, Q) == IF Working(n.slots[t]) THEN Q \ {n.slots[t].url} ELSE Q

LEMMA PutFacts ==
    ASSUME NEW n \in Network, NEW t \in Threads, NEW x \in Slot
    PROVE  LET m == Put(n, t, x) IN
           /\ m \in Network /\ m.pending = n.pending /\ m.processing = n.processing
           /\ m.slots[t] = x /\ \A s \in Threads : s # t => m.slots[s] = n.slots[s]
           /\ \A Q : WorkInv(n, Q) /\ ~Working(x) => WorkInv(m, Left(n, t, Q))
           /\ \A Q : WorkInv(n, Q) /\ Working(x) /\ Working(n.slots[t])
                       /\ x.url = n.slots[t].url => WorkInv(m, Q)
<1> DEFINE m == Put(n, t, x)
<1>1. m = [pending |-> n.pending, processing |-> n.processing,
           slots |-> [n.slots EXCEPT ![t] = x]]
    BY NetworkRecord DEF Put
<1>2. [n.slots EXCEPT ![t] = x] \in [Threads -> Slot]
    BY PendingFacts
<1> HIDE DEF m
<1>3. m \in Network
    BY <1>1, <1>2, PendingFacts DEF Network
<1>4. /\ m.pending = n.pending /\ m.processing = n.processing
      /\ m.slots[t] = x /\ \A s \in Threads : s # t => m.slots[s] = n.slots[s]
    BY <1>1, PendingFacts
<1>5. ASSUME NEW Q, WorkInv(n, Q), ~Working(x) PROVE WorkInv(m, Left(n, t, Q))
  <2>2. \A s \in Threads : Working(m.slots[s]) => s # t /\ m.slots[s] = n.slots[s]
      BY <1>4, <1>5
  <2>3. CASE Working(n.slots[t])
    <3>1. Left(n, t, Q) = Q \ {n.slots[t].url}
        BY <2>3 DEF Left
    <3> QED
        BY <1>4, <1>5, <2>2, <2>3, <3>1 DEF WorkInv
  <2>4. CASE ~Working(n.slots[t])
    <3>1. Left(n, t, Q) = Q
        BY <2>4 DEF Left
    <3>2. \A s \in Threads : Working(m.slots[s]) <=> Working(n.slots[s])
        BY <1>4, <1>5, <2>4
    <3> QED
        BY <1>4, <1>5, <2>2, <2>4, <3>1, <3>2 DEF WorkInv
  <2> QED
      BY <2>3, <2>4
<1>6. ASSUME NEW Q, WorkInv(n, Q), Working(x), Working(n.slots[t]), x.url = n.slots[t].url
      PROVE  WorkInv(m, Q)
  <2>1. \A s \in Threads : /\ Working(m.slots[s]) <=> Working(n.slots[s])
                           /\ m.slots[s].url = n.slots[s].url
      BY <1>4, <1>6
  <2> QED
      BY <1>4, <1>6, <2>1 DEF WorkInv
<1> QED
    BY <1>3, <1>4, <1>5, <1>6 DEF m

\* A new request.
LEMMA AppendFacts ==
    ASSUME NEW n \in Network, NEW u \in Urls
    PROVE  LET m == [n EXCEPT !.pending = Append(@, u)] IN
           /\ m \in Network /\ m.slots = n.slots /\ m.processing = n.processing
           /\ Len(n.pending) \in Nat /\ Len(m.pending) = Len(n.pending) + 1
           /\ \A Q : WorkInv(n, Q) /\ u \notin Q => WorkInv(m, Q \cup {u})
<1> DEFINE p == n.pending
           m == [n EXCEPT !.pending = Append(@, u)]
           L == Len(p)
<1>1. m = [pending |-> Append(p, u), processing |-> n.processing, slots |-> n.slots]
  <2>1. \A y : [n EXCEPT !.pending = y]
                 = [pending |-> y, processing |-> n.processing, slots |-> n.slots]
      BY NetworkRecord
  <2> QED
      BY <2>1, Zenon
<1>2. /\ Append(p, u) \in Seq(Urls) /\ Len(Append(p, u)) = L + 1 /\ L \in Nat
      /\ \A i \in 1 .. L : Append(p, u)[i] = p[i]
      /\ Append(p, u)[L + 1] = u
    BY PendingFacts, AppendProperties
<1> HIDE DEF m
<1>3. m \in Network /\ m.slots = n.slots /\ m.processing = n.processing
    BY <1>1, <1>2, PendingFacts DEF Network
<1>4. /\ DOMAIN m.pending = 1 .. L + 1 /\ DOMAIN p = 1 .. L
      /\ Len(m.pending) = L + 1 /\ L + 1 \in 1 .. L + 1
      /\ \A i \in 1 .. L : m.pending[i] = p[i] /\ i \in 1 .. L + 1
      /\ m.pending[L + 1] = u
      /\ \A i \in 1 .. L + 1 : i \in 1 .. L \/ i = L + 1
    BY <1>1, <1>2, <1>3, PendingFacts
<1> HIDE DEF L
<1>5. ASSUME NEW Q, WorkInv(n, Q), u \notin Q PROVE WorkInv(m, Q \cup {u})
  <2>1. /\ \A i, j \in 1 .. L : p[i] = p[j] => i = j
        /\ \A i \in 1 .. L : p[i] # u /\ p[i] \in Q
        /\ \A s \in Threads : Working(n.slots[s]) => n.slots[s].url # u
      BY <1>4, <1>5 DEF WorkInv
  <2>2. \A i, j \in DOMAIN m.pending : m.pending[i] = m.pending[j] => i = j
      BY <1>4, <2>1
  <2>3. \A i \in DOMAIN m.pending : m.pending[i] \in Q \cup {u}
      BY <1>4, <2>1
  <2>4. \A i \in DOMAIN m.pending : \A s \in Threads :
            Working(m.slots[s]) => m.pending[i] # m.slots[s].url
      BY <1>3, <1>4, <1>5, <2>1 DEF WorkInv
  <2>5. \A v \in Q : \/ \E i \in DOMAIN m.pending : m.pending[i] = v
                     \/ \E s \in Threads : Working(m.slots[s]) /\ m.slots[s].url = v
      BY <1>3, <1>4, <1>5 DEF WorkInv
  <2>6. \E i \in DOMAIN m.pending : m.pending[i] = u
      BY <1>4
  <2> QED
      BY <1>3, <1>5, <2>2, <2>3, <2>4, <2>5, <2>6 DEF WorkInv
<1>6. Len(m.pending) = Len(n.pending) + 1 /\ Len(n.pending) \in Nat
    BY <1>2, <1>4 DEF L
<1> QED
    BY <1>3, <1>5, <1>6, Zenon DEF m

LEMMA AddPendingFacts ==
    ASSUME NEW n \in Network, NEW u \in Urls, NoWaste(n)
    PROVE  LET m == AddPending(n, u) IN
           /\ m \in Network /\ NoWaste(m) /\ KeepsBusy(n, m) /\ HasWork(m)
           /\ m.processing = n.processing
           /\ \A Q : WorkInv(n, Q) /\ u \notin Q => WorkInv(m, Q \cup {u})
<1> DEFINE a == [n EXCEPT !.pending = Append(@, u)]
           t == CHOOSE t \in Free(a) : \A s \in Free(a) : t <= s
           m == AddPending(n, u)
<1>1. /\ a \in Network /\ a.slots = n.slots /\ a.processing = n.processing
      /\ Len(n.pending) \in Nat /\ Len(a.pending) = Len(n.pending) + 1
      /\ \A Q : WorkInv(n, Q) /\ u \notin Q => WorkInv(a, Q \cup {u})
    BY AppendFacts
<1>2. m = IF a.processing /\ Free(a) # {} THEN NextPending(a, t) ELSE a
    BY DEF AddPending
<1> HIDE DEF a
<1>3. Free(a) = Free(n) /\ a.pending # <<>>
    BY <1>1, EmptySeq DEF Free
<1>4. CASE ~(a.processing /\ Free(a) # {})
    BY <1>1, <1>2, <1>3, <1>4 DEF NoWaste, KeepsBusy, HasWork
<1>5. CASE a.processing /\ Free(a) # {}
  <2>1. t \in Free(a)
      BY <1>1, <1>5, LeastFree
  <2> HIDE DEF t
  <2>2. t \in Threads /\ a.slots[t].phase = "free" /\ ~Working(a.slots[t])
      BY <2>1 DEF Free, Working
  <2>3. m = NextPending(a, t)
      BY <1>2, <1>5
  <2> HIDE DEF m
  <2>4. /\ m \in Network /\ m.processing = a.processing
        /\ Len(m.pending) = Len(a.pending) - 1
        /\ m.slots[t] = Start(a.pending[1])
        /\ \A s \in Threads : s # t => m.slots[s] = a.slots[s]
      BY <1>1, <1>3, <2>2, <2>3, NextPendingFacts
  <2>5. a.pending[1] \in Urls
      BY <1>1, PendingFacts, ElementOfSeq
  <2>6. m.slots[t].phase = "loading"
      BY <2>4, <2>5, SlotFacts
  <2>7. n.pending = <<>>
      BY <1>1, <1>3, <1>5 DEF NoWaste
  <2>8. m.pending = <<>>
      BY <1>1, <2>4, <2>7, PendingFacts, EmptySeq
  <2>9. KeepsBusy(n, m)
      BY <1>1, <1>3, <2>1, <2>4 DEF KeepsBusy
  <2>10. \A Q : WorkInv(n, Q) /\ u \notin Q => WorkInv(m, Q \cup {u})
      BY <1>1, <1>3, <2>2, <2>3, NextPendingWork
  <2> QED
      BY <1>1, <2>2, <2>4, <2>6, <2>8, <2>9, <2>10 DEF NoWaste, HasWork, m
<1> HIDE DEF m
<1> QED
    BY <1>4, <1>5 DEF m

\* Each free slot takes a request.
LEMMA ResumeFacts ==
    ASSUME NEW n \in Network
    PROVE  LET m == Resume(n) IN
           /\ m \in Network /\ NoWaste(m) /\ KeepsBusy(n, m) /\ m.processing
           /\ HasWork(n) => HasWork(m)
           /\ \A Q : WorkInv(n, Q) => WorkInv(m, Q)
<1> DEFINE p == n.pending
           T == Takers(n)
           k == Cardinality(T)
           L == Len(p)
           m == Resume(n)
           rank == [t \in Threads |-> Rank(n, t)]
<1>1. /\ k \in 0 .. L /\ p \in Seq(Urls) /\ L \in Nat /\ DOMAIN p = 1 .. L
      /\ n.slots \in [Threads -> Slot]
      /\ T \subseteq Free(n) /\ T \subseteq Threads
      /\ \A i \in 1 .. L : p[i] \in Urls
    BY TakersFacts, PendingFacts, ElementOfSeq DEF Takers, Free
<1>2. /\ \A t \in T : rank[t] \in 1 .. k
      /\ \A s, t \in T : rank[s] = rank[t] => s = t
      /\ \A i \in 1 .. k : \E t \in T : rank[t] = i
      /\ k < L => T = Free(n)
    BY <1>1, TakersFacts, RankFacts
<1>3. m = [pending |-> SubSeq(p, k + 1, L), processing |-> TRUE,
           slots |-> [t \in Threads |-> IF t \in T THEN Start(p[rank[t]]) ELSE n.slots[t]]]
    BY DEF Resume, Takers
<1> HIDE DEF rank, T, k, L, m
<1>4. /\ SubSeq(p, k + 1, L) \in Seq(Urls) /\ Len(SubSeq(p, k + 1, L)) = L - k
      /\ \A i \in 1 .. L - k : SubSeq(p, k + 1, L)[i] = p[i + k]
  <2>1. k + 1 \in Int /\ L \in Int /\ k \in Nat
      BY <1>1
  <2>2. \A i \in (k + 1) .. L : p[i] \in Urls
      BY <1>1
  <2>3. SubSeq(p, k + 1, L) \in Seq(Urls)
      BY <1>1, <2>1, <2>2, SubSeqProperties
  <2>4. k + 1 <= L + 1 => Len(SubSeq(p, k + 1, L)) = L - k
      BY <1>1, <2>1, SubSeqProperties
  <2>5. \A i \in 1 .. L - k : SubSeq(p, k + 1, L)[i] = p[i + k]
      BY <1>1, <2>1, SubSeqProperties
  <2> QED
      BY <1>1, <2>3, <2>4, <2>5
<1>5. /\ m.processing /\ DOMAIN m.pending = 1 .. L - k
      /\ \A i \in 1 .. L - k : m.pending[i] = p[i + k] /\ i + k \in 1 .. L /\ i + k > k
      /\ \A t \in T : m.slots[t] = Start(p[rank[t]]) /\ rank[t] \in 1 .. L /\ t \in Free(n)
      /\ \A t \in Threads : t \notin T => m.slots[t] = n.slots[t]
  <2>1. m.pending = SubSeq(p, k + 1, L) /\ DOMAIN m.pending = 1 .. L - k
      BY <1>3, <1>4, LenProperties
  <2>2. \A i \in 1 .. L - k : i + k \in 1 .. L /\ i + k > k
      BY <1>1
  <2>3. \A t \in T : rank[t] \in 1 .. L
      BY <1>1, <1>2
  <2> QED
      BY <1>1, <1>3, <1>4, <2>1, <2>2, <2>3
<1>6. \A t \in T : /\ m.slots[t] \in Slot /\ Working(m.slots[t])
                   /\ m.slots[t].url = p[rank[t]] /\ m.slots[t].phase = "loading"
                   /\ ~Working(n.slots[t])
    BY <1>1, <1>5, SlotFacts DEF Free, Working
<1>7. m \in Network
  <2>1. \A t \in Threads :
           (IF t \in T THEN Start(p[rank[t]]) ELSE n.slots[t]) \in Slot
      BY <1>1, <1>5, SlotFacts
  <2> QED
      BY <1>3, <1>4, <2>1 DEF Network
<1>8. KeepsBusy(n, m)
    BY <1>5 DEF KeepsBusy
<1>9. NoWaste(m)
  <2>1. CASE k < L
    <3>1. \A s \in Threads : m.slots[s].phase # "free"
        BY <1>2, <1>5, <1>6, <2>1 DEF Free
    <3> QED
        BY <3>1 DEF NoWaste, Free
  <2>2. CASE k = L
      BY <1>1, <1>3, <1>4, <2>2, EmptySeq DEF NoWaste
  <2> QED
      BY <1>1, <2>1, <2>2
<1>10. HasWork(n) => HasWork(m)
  <2>1. CASE \E t \in Threads : n.slots[t].phase # "free"
      BY <1>5, <2>1 DEF HasWork, Free
  <2>2. CASE p # <<>> /\ k = L
    <3>1. L \in 1 .. k
        BY <1>1, <2>2, EmptySeq DEF L
    <3> QED
        BY <1>1, <1>2, <1>6, <3>1 DEF HasWork
  <2>3. CASE p # <<>> /\ k # L
    <3>1. 1 \in DOMAIN m.pending
        BY <1>1, <1>5, <2>3
    <3> QED
        BY <3>1 DEF HasWork
  <2> QED
      BY <2>1, <2>2, <2>3 DEF HasWork
<1>11. ASSUME NEW Q, WorkInv(n, Q) PROVE WorkInv(m, Q)
  <2>1. /\ \A i, j \in 1 .. L : p[i] = p[j] => i = j
        /\ \A i \in 1 .. L : p[i] \in Q
        /\ \A i \in 1 .. L : \A s \in Threads :
              Working(n.slots[s]) => p[i] # n.slots[s].url
      BY <1>1, <1>11 DEF WorkInv
  <2>2. \A s \in Threads : \/ s \in T
                           \/ m.slots[s] = n.slots[s] /\ s \notin T
      BY <1>5
  <2>3. ASSUME NEW i \in 1 .. L - k, NEW j \in 1 .. L - k, m.pending[i] = m.pending[j]
        PROVE  i = j
    <3>1. i + k = j + k /\ i \in Int /\ j \in Int /\ k \in Int
        BY <1>1, <1>5, <2>1, <2>3
    <3> QED
        BY <3>1
  <2>4. ASSUME NEW r \in Threads, NEW s \in Threads, Working(m.slots[r]),
               Working(m.slots[s]), m.slots[r].url = m.slots[s].url
        PROVE  r = s
    <3>1. CASE r \in T /\ s \in T
        BY <1>2, <1>5, <1>6, <2>1, <2>4, <3>1
    <3>2. CASE r \notin T /\ s \notin T
        BY <1>5, <1>11, <2>4, <3>2 DEF WorkInv
    <3>3. CASE r \in T /\ s \notin T
        BY <1>5, <1>6, <2>1, <2>4, <3>3
    <3>4. CASE r \notin T /\ s \in T
        BY <1>5, <1>6, <2>1, <2>4, <3>4
    <3> QED
        BY <3>1, <3>2, <3>3, <3>4
  <2>5. ASSUME NEW i \in 1 .. L - k, NEW s \in Threads, Working(m.slots[s])
        PROVE  m.pending[i] # m.slots[s].url
    <3>1. m.pending[i] = p[i + k] /\ i + k \in 1 .. L /\ i + k > k
        BY <1>5
    <3>2. CASE s \in T
      <4>1. rank[s] \in 1 .. L /\ rank[s] # i + k /\ m.slots[s].url = p[rank[s]]
          BY <1>1, <1>2, <1>5, <1>6, <3>1, <3>2
      <4> QED
          BY <2>1, <3>1, <4>1
    <3>3. CASE s \notin T
        BY <1>5, <2>1, <2>5, <3>1, <3>3
    <3> QED
        BY <3>2, <3>3
  <2>6. \A i \in 1 .. L - k : m.pending[i] \in Q
      BY <1>5, <2>1
  <2>7. \A s \in Threads : Working(m.slots[s]) => m.slots[s].url \in Q
      BY <1>5, <1>6, <1>11, <2>1 DEF WorkInv
  <2>8. ASSUME NEW u \in Q
        PROVE  \/ \E i \in 1 .. L - k : m.pending[i] = u
               \/ \E s \in Threads : Working(m.slots[s]) /\ m.slots[s].url = u
    <3>1. CASE \E s \in Threads : Working(n.slots[s]) /\ n.slots[s].url = u
        BY <1>5, <1>6, <3>1
    <3>2. CASE \E i \in 1 .. L : p[i] = u
      <4>1. PICK i \in 1 .. L : p[i] = u
          BY <3>2
      <4>2. CASE i \in 1 .. k
          BY <1>1, <1>2, <1>6, <4>1, <4>2
      <4>3. CASE i \notin 1 .. k
        <5>1. i - k \in 1 .. L - k /\ (i - k) + k = i
            BY <1>1, <4>3
        <5> QED
            BY <1>5, <4>1, <5>1
      <4> QED
          BY <4>2, <4>3
    <3> QED
        BY <1>1, <1>11, <3>1, <3>2 DEF WorkInv
  <2> QED
      BY <1>5, <2>3, <2>4, <2>5, <2>6, <2>7, <2>8 DEF WorkInv
<1> QED
    BY <1>5, <1>7, <1>8, <1>9, <1>10, <1>11 DEF m

\* The reply of the slot t ended, or its analysis.
LEMMA EndThreadFacts ==
    ASSUME NEW n \in Network, NEW t \in Threads, NoWaste(n)
    PROVE  LET m == EndThread(n, t) IN
           /\ m \in Network /\ NoWaste(m) /\ m.processing = n.processing
           /\ \A s \in Threads : s # t => m.slots[s] = n.slots[s]
           /\ m.pending # <<>> => n.pending # <<>>
           /\ n.processing /\ n.pending # <<>> => m.slots[t].phase = "loading"
           /\ ~(n.processing /\ n.pending # <<>>) => m.pending = n.pending
           /\ \A Q : WorkInv(n, Q) => WorkInv(m, Left(n, t, Q))
<1> DEFINE m == EndThread(n, t)
           f == Put(n, t, FreeSlot)
<1>1. FreeSlot \in Slot /\ ~Working(FreeSlot)
    BY SlotFacts
<1>2. /\ f \in Network /\ f.pending = n.pending /\ f.processing = n.processing
      /\ f.slots[t] = FreeSlot /\ \A s \in Threads : s # t => f.slots[s] = n.slots[s]
      /\ \A Q : WorkInv(n, Q) => WorkInv(f, Left(n, t, Q))
    BY <1>1, PutFacts
<1>3. m = IF n.processing /\ n.pending # <<>> THEN NextPending(n, t) ELSE f
    BY Zenon DEF EndThread, Put
<1> HIDE DEF f
<1>4. CASE ~(n.processing /\ n.pending # <<>>)
    BY <1>2, <1>3, <1>4 DEF NoWaste
<1>5. CASE n.processing /\ n.pending # <<>>
  <2>1. m = NextPending(n, t)
      BY <1>3, <1>5
  <2> HIDE DEF m
  <2>2. /\ m \in Network /\ m.processing = n.processing
        /\ m.slots[t] = Start(n.pending[1])
        /\ \A s \in Threads : s # t => m.slots[s] = n.slots[s]
        /\ Len(n.pending) \in Nat \ {0}
      BY <1>5, <2>1, NextPendingFacts
  <2>3. n.pending[1] \in Urls
      BY <2>2, PendingFacts, ElementOfSeq
  <2>4. m.slots[t].phase = "loading"
      BY <2>2, <2>3, SlotFacts
  <2>5. NoWaste(m)
    <3>1. \A s \in Threads : n.slots[s].phase # "free"
        BY <1>5 DEF NoWaste, Free
    <3>2. \A s \in Threads : m.slots[s].phase # "free"
        BY <2>2, <2>4, <3>1
    <3> QED
        BY <3>2 DEF NoWaste, Free
  <2>6. m = NextPending(f, t)
    <3>1. f.slots \in [Threads -> Slot] /\ n.slots \in [Threads -> Slot]
        BY <1>2, PendingFacts
    <3>2. \A x : [f.slots EXCEPT ![t] = x] = [n.slots EXCEPT ![t] = x]
        BY <1>2, <3>1
    <3> QED
      <4>1. NextPending(f, t)
              = [pending |-> Tail(f.pending), processing |-> f.processing,
                 slots |-> [f.slots EXCEPT ![t] = Start(Head(f.pending))]]
          BY <1>2, NextPendingRecord
      <4>2. m = [pending |-> Tail(n.pending), processing |-> n.processing,
                 slots |-> [n.slots EXCEPT ![t] = Start(Head(n.pending))]]
          BY <2>1, NextPendingRecord
      <4>3. [f.slots EXCEPT ![t] = Start(Head(n.pending))]
              = [n.slots EXCEPT ![t] = Start(Head(n.pending))]
          BY <3>2, Zenon
      <4> QED
          BY <1>2, <4>1, <4>2, <4>3, Zenon
  <2>7. \A Q : WorkInv(n, Q) => WorkInv(m, Left(n, t, Q))
      BY <1>1, <1>2, <1>5, <2>6, NextPendingWork
  <2> QED
      BY <1>5, <2>2, <2>4, <2>5, <2>7 DEF m
<1> HIDE DEF m
<1> QED
    BY <1>4, <1>5 DEF m
-----------------------------------------------------------------------------
(* The inductive invariant.                                                 *)

\* Each analysis in progress keeps a slot of its own, whose page has arrived.
FrameInv ==
    /\ \A i \in 1 .. Len(analyses) : net.slots[analyses[i].thread].phase = "analyzing"
    /\ \A i, j \in 1 .. Len(analyses) : analyses[i].thread = analyses[j].thread => i = j

\* The client takes requests while it crawls.
CrawlTakes == client = "Crawl" => net.processing

NetInv == WorkInv(net, inQueue) /\ NoSlotWasted /\ CrawlTakes /\ CrawlHasWork

\* What an analysis found of the links of the Url f.url.
Found(f, found) ==
    \/ found = Web[f.url] \ f.rest
    \/ f.url \in LinkFirst /\ f.rest = {} /\ found = {}

\* All the links of u were found, or none of them because of the first one.
Complete(u, found) == found = Web[u] \/ (u \in LinkFirst /\ found = {})

\* A crawled Url has one first analysis at most, which is under way or over.
LinksInv ==
    /\ \A u \in Urls : u \notin crawled => links[u] = {}
    /\ \A i \in 1 .. Len(analyses) :
          analyses[i].url \in crawled /\ analyses[i].rest \subseteq Web[analyses[i].url]
    /\ \A i, j \in 1 .. Len(analyses) :
          analyses[i].new /\ analyses[j].new /\ analyses[i].url = analyses[j].url => i = j
    /\ \A i \in 1 .. Len(analyses) :
          analyses[i].new => Found(analyses[i], links[analyses[i].url])
    /\ \A u \in crawled :
          \/ Complete(u, links[u])
          \/ \E i \in 1 .. Len(analyses) : analyses[i].url = u /\ analyses[i].new
    /\ \A u \in Urls : [url |-> u, crawled |-> TRUE] \in toTransfer => u \in crawled

IInv == TypeOK /\ NetInv /\ FrameInv /\ LinksInv

-----------------------------------------------------------------------------
(* Queued notifications and new Urls.                                       *)

Notified(q) == \E i \in DOMAIN q : q[i] = "crawl"

LEMMA AllDoneFacts ==
    ASSUME NEW n \in Network, NEW t \in Threads, NoWaste(n),
           allDone \in Seq({"crawl", "pool"})
    PROVE  LET q == AllDoneAfter([n EXCEPT !.slots[t].phase = "free"]) IN
           /\ q \in Seq({"crawl", "pool"})
           /\ Notified(allDone) => Notified(q)
           /\ HasWork(EndThread(n, t)) \/ Notified(q)
<1> DEFINE k == [n EXCEPT !.slots[t].phase = "free"]
           q == AllDoneAfter(k)
           N == {"crawl", "pool"}
           L == Len(allDone)
           m == EndThread(n, t)
<1>1. /\ k.pending = n.pending /\ k.processing = n.processing
      /\ k.slots = [n.slots EXCEPT ![t].phase = "free"]
    BY NetworkRecord
<1> HIDE DEF k
<1>2. \A s \in Threads : s \in Loading(k) => s # t /\ n.slots[s].phase = "loading"
  <2>1. \A s \in Threads : s # t => k.slots[s] = n.slots[s]
      BY <1>1, PendingFacts
  <2>2. k.slots[t].phase = "free"
      BY <1>1, PendingFacts DEF Slot
  <2> QED
      BY <2>1, <2>2 DEF Loading
<1>3. /\ allDone \in Seq(N) /\ <<"crawl", "pool">> \in Seq(N) /\ L \in Nat
      /\ Len(<<"crawl", "pool">>) = 2 /\ DOMAIN allDone = 1 .. L
    BY LenProperties
<1>4. /\ allDone \o <<"crawl", "pool">> \in Seq(N)
      /\ Notified(allDone \o <<"crawl", "pool">>)
  <2> DEFINE c == allDone \o <<"crawl", "pool">>
  <2>1. /\ c \in Seq(N) /\ Len(c) = L + 2
        /\ \A i \in 1 .. L + 2 : c[i] = IF i <= L THEN allDone[i]
                                        ELSE <<"crawl", "pool">>[i - L]
      BY <1>3, ConcatProperties
  <2>2. L + 1 \in 1 .. L + 2 /\ ~(L + 1 <= L) /\ (L + 1) - L = 1
      BY <1>3
  <2>3. c[L + 1] = "crawl"
      BY <2>1, <2>2
  <2>4. DOMAIN c = 1 .. L + 2
      BY <2>1, LenProperties
  <2> QED
      BY <2>1, <2>2, <2>3, <2>4 DEF Notified
<1>5. /\ m.processing = n.processing
      /\ \A s \in Threads : s # t => m.slots[s] = n.slots[s]
      /\ n.processing /\ n.pending # <<>> => m.slots[t].phase = "loading"
    BY EndThreadFacts
<1> HIDE DEF m
<1>6. CASE ~(n.processing /\ n.pending # <<>>) /\ Loading(k) = {}
  <2>1. q = allDone \o <<"crawl", "pool">>
      BY <1>1, <1>6 DEF AllDoneAfter
  <2> QED
      BY <1>4, <2>1 DEF k, m
<1>7. CASE n.processing /\ n.pending # <<>>
  <2>1. q = allDone
      BY <1>1, <1>7 DEF AllDoneAfter
  <2>2. HasWork(m)
      BY <1>5, <1>7 DEF HasWork
  <2> QED
      BY <1>3, <2>1, <2>2 DEF k, m
<1>8. CASE ~(n.processing /\ n.pending # <<>>) /\ Loading(k) # {}
  <2>1. q = allDone
      BY <1>1, <1>8 DEF AllDoneAfter
  <2>2. PICK s \in Threads : s \in Loading(k)
      BY <1>8 DEF Loading
  <2>3. m.slots[s].phase = "loading"
      BY <1>2, <1>5, <2>2
  <2>4. HasWork(m)
      BY <2>3 DEF HasWork
  <2> QED
      BY <1>3, <2>1, <2>4 DEF k, m
<1> QED
    BY <1>6, <1>7, <1>8

\* The first notification is delivered.
LEMMA DeliveredFacts ==
    ASSUME allDone \in Seq({"crawl", "pool"}), allDone # <<>>
    PROVE  /\ Tail(allDone) \in Seq({"crawl", "pool"})
           /\ Head(allDone) = "pool" /\ Notified(allDone) => Notified(Tail(allDone))
<1> DEFINE L == Len(allDone)
           q == Tail(allDone)
<1>1. /\ q \in Seq({"crawl", "pool"}) /\ Len(q) = L - 1 /\ L \in Nat \ {0}
      /\ \A i \in 1 .. Len(q) : q[i] = allDone[i + 1]
      /\ Head(allDone) = allDone[1]
      /\ DOMAIN q = 1 .. L - 1 /\ DOMAIN allDone = 1 .. L
    BY HeadTailProperties, LenProperties, EmptySeq
<1>2. ASSUME Head(allDone) = "pool", Notified(allDone) PROVE Notified(q)
  <2>1. PICK i \in 1 .. L : allDone[i] = "crawl"
      BY <1>1, <1>2 DEF Notified
  <2>2. i - 1 \in 1 .. L - 1 /\ (i - 1) + 1 = i
      BY <1>1, <1>2, <2>1
  <2> QED
      BY <1>1, <2>1, <2>2 DEF Notified
<1> QED
    BY <1>1, <1>2

\* What a step that changes the client, the download manager or the queue
\* leaves true of them.
NetOK ==
    /\ client \in ClientStates /\ net \in Network /\ inQueue \subseteq Urls
    /\ WorkInv(net, inQueue) /\ NoSlotWasted /\ CrawlTakes

LEMMA EnqueueFacts ==
    ASSUME NetOK, NEW u \in Urls, Enqueue(u)
    PROVE  /\ NetOK' /\ KeepsBusy(net, net')
           /\ client' = "Crawl" => HasWork(net') \/ (client = "Crawl" /\ net' = net)
<1> DEFINE m == AddPending(net, u)
           r == Resume(m)
<1>1. inQueue' = inQueue \cup {u}
    BY DEF Enqueue
<1>2. NoWaste(net)
    BY DEF NetOK, NoSlotWasted, NoWaste
<1>3. CASE u \in inQueue
  <2>1. inQueue' = inQueue /\ net' = net /\ client' = client
      BY <1>1, <1>3 DEF Enqueue
  <2>2. NetOK'
      BY <2>1 DEF NetOK, NoSlotWasted, CrawlTakes, Free, WorkInv, Working
  <2> QED
      BY <2>1, <2>2 DEF KeepsBusy
<1>4. CASE u \notin inQueue
  <2>1. /\ m \in Network /\ NoWaste(m) /\ KeepsBusy(net, m) /\ HasWork(m)
        /\ m.processing = net.processing /\ WorkInv(m, inQueue')
      BY <1>1, <1>2, <1>4, AddPendingFacts DEF NetOK
  <2> HIDE DEF m
  <2>2. /\ r \in Network /\ NoWaste(r) /\ KeepsBusy(m, r) /\ r.processing
        /\ HasWork(r) /\ WorkInv(r, inQueue')
      BY <2>1, ResumeFacts
  <2> HIDE DEF r
  <2>3. KeepsBusy(net, r)
    <3> SUFFICES ASSUME NEW t \in Threads, t \notin Free(net)
                 PROVE  r.slots[t] = net.slots[t]
        BY DEF KeepsBusy
    <3>1. m.slots[t] = net.slots[t]
        BY <2>1 DEF KeepsBusy
    <3>2. t \notin Free(m)
        BY <3>1 DEF Free
    <3> QED
        BY <2>2, <3>1, <3>2 DEF KeepsBusy
  <2>4. CASE client = "Idle"
    <3>1. client' = "Crawl" /\ net' = r
        BY <1>4, <2>4 DEF Enqueue, BecomeCrawl, SetState, m, r
    <3>2. NoSlotWasted'
        BY <2>2, <3>1 DEF NoSlotWasted, NoWaste, Free
    <3>3. inQueue' \subseteq Urls
        BY <1>1 DEF NetOK
    <3>4. WorkInv(net, inQueue)'
        BY <2>2, <3>1 DEF WorkInv, Working
    <3> QED
        BY <2>2, <2>3, <3>1, <3>2, <3>3, <3>4 DEF NetOK, ClientStates, CrawlTakes
  <2>5. CASE client # "Idle"
    <3>1. client' = client /\ net' = m
        BY <1>4, <2>5 DEF Enqueue, SetState, m
    <3>2. NoSlotWasted'
      <4>1. (net.pending # <<>> /\ net.processing => Free(net) = {})'
          BY <2>1, <3>1 DEF NoWaste, Free
      <4>2. client # "Unavailable" => net.processing
          BY <2>5 DEF NetOK, CrawlTakes, ClientStates
      <4>3. net.processing => client # "Unavailable"
          BY DEF NetOK, NoSlotWasted
      <4> QED
          BY <2>1, <3>1, <4>1, <4>2, <4>3 DEF NoSlotWasted
    <3>3. inQueue' \subseteq Urls /\ CrawlTakes'
        BY <1>1, <2>1, <3>1 DEF NetOK, CrawlTakes
    <3>4. WorkInv(net, inQueue)'
        BY <2>1, <3>1 DEF WorkInv, Working
    <3> QED
        BY <2>1, <3>1, <3>2, <3>3, <3>4 DEF NetOK
  <2> QED
      BY <2>4, <2>5
<1> QED
    BY <1>3, <1>4

\* setState_(CrawlState) of a client that has requests.
LEMMA BecomeCrawlFacts ==
    ASSUME NetOK, BecomeCrawl(net), UNCHANGED inQueue
    PROVE  /\ NetOK' /\ KeepsBusy(net, net') /\ client' = "Crawl"
           /\ HasWork(net) => HasWork(net')
<1> DEFINE r == Resume(net)
<1>1. /\ r \in Network /\ NoWaste(r) /\ KeepsBusy(net, r) /\ r.processing
      /\ HasWork(net) => HasWork(r)
      /\ WorkInv(r, inQueue)
    BY ResumeFacts DEF NetOK
<1> HIDE DEF r
<1>2. client' = "Crawl" /\ net' = r /\ inQueue' = inQueue
    BY DEF BecomeCrawl, SetState, r
<1>3. NoSlotWasted'
    BY <1>1, <1>2 DEF NoSlotWasted, NoWaste, Free
<1>4. WorkInv(net, inQueue)'
    BY <1>1, <1>2 DEF WorkInv, Working
<1> QED
    BY <1>1, <1>2, <1>3, <1>4 DEF NetOK, ClientStates, CrawlTakes

LEMMA BecomeIdleFacts ==
    ASSUME NetOK, asked \in Nat, BecomeIdle(net), UNCHANGED inQueue
    PROVE  /\ NetOK' /\ KeepsBusy(net, net') /\ asked' \in Nat
           /\ client' = "Crawl" => HasWork(net')
           /\ client' = "Idle" => asked' # 0
<1>1. CASE net.pending = <<>>
  <2>1. client' = "Idle" /\ net' = net /\ inQueue' = inQueue
      BY <1>1 DEF BecomeIdle, SetState
  <2>2. asked' \in Nat /\ asked' # 0
      BY <1>1 DEF BecomeIdle, CrawlerAssumption
  <2>3. NetOK'
      BY <1>1, <2>1 DEF NetOK, NoSlotWasted, CrawlTakes, Free, WorkInv, Working, ClientStates
  <2> QED
      BY <2>1, <2>2, <2>3 DEF KeepsBusy
<1>2. CASE net.pending # <<>>
  <2>1. BecomeCrawl(net) /\ asked' = asked
      BY <1>2 DEF BecomeIdle
  <2> QED
      BY <1>2, <2>1, BecomeCrawlFacts DEF HasWork
<1> QED
    BY <1>1, <1>2

\* The slots of the analyses in progress are left alone.
LEMMA FramesKept ==
    ASSUME TypeOK, FrameInv, UNCHANGED analyses,
           \A s \in Threads : net.slots[s].phase = "analyzing" => net'.slots[s] = net.slots[s]
    PROVE  FrameInv'
<1>1. ASSUME NEW i \in 1 .. Len(analyses)
      PROVE  net'.slots[analyses[i].thread].phase = "analyzing"
  <2>1. analyses[i] \in Frame
      BY ElementOfSeq DEF TypeOK
  <2>2. analyses[i].thread \in Threads
      BY <2>1 DEF Frame
  <2> QED
      BY <2>2 DEF FrameInv
<1> QED
    BY <1>1 DEF FrameInv

LEMMA BusyKept ==
    ASSUME TypeOK, FrameInv, UNCHANGED analyses, KeepsBusy(net, net')
    PROVE  FrameInv'
BY FramesKept DEF KeepsBusy, Free

\* A slot goes from one phase to the next.
LEMMA PhaseFacts ==
    ASSUME NEW n \in Network, NEW t \in Threads
    PROVE  /\ [n EXCEPT !.slots[t].phase = "redirecting"]
                = Put(n, t, [n.slots[t] EXCEPT !.phase = "redirecting"])
           /\ [n EXCEPT !.slots[t].phase = "analyzing"]
                = Put(n, t, [n.slots[t] EXCEPT !.phase = "analyzing"])
           /\ [n EXCEPT !.slots[t].phase = "loading", !.slots[t].redirected = TRUE]
                = Put(n, t, [n.slots[t] EXCEPT !.phase = "loading", !.redirected = TRUE])
<1>1. n.slots \in [Threads -> Slot]
    BY PendingFacts
<1>2. \A x : [n EXCEPT !.slots[t].phase = x] = Put(n, t, [n.slots[t] EXCEPT !.phase = x])
    BY <1>1 DEF Put
<1>3. [n EXCEPT !.slots[t].phase = "loading", !.slots[t].redirected = TRUE]
        = Put(n, t, [n.slots[t] EXCEPT !.phase = "loading", !.redirected = TRUE])
    BY <1>1, NetworkRecord DEF Put
<1> QED
    BY <1>2, <1>3

LEMMA SlotStep ==
    ASSUME NetOK, NEW t \in Threads, NEW x \in Slot,
           x.phase # "free", net.slots[t].phase # "free",
           net' = Put(net, t, x), client' = client,
           inQueue' \subseteq Urls, WorkInv(net', inQueue')
    PROVE  /\ NetOK' /\ HasWork(net')
           /\ \A s \in Threads : s # t => net'.slots[s] = net.slots[s]
<1>1. /\ net' \in Network /\ net'.pending = net.pending
      /\ net'.processing = net.processing /\ net'.slots[t] = x
      /\ \A s \in Threads : s # t => net'.slots[s] = net.slots[s]
    BY PutFacts DEF NetOK
<1>2. \A s \in Threads : net'.slots[s].phase = "free" <=> net.slots[s].phase = "free"
    BY <1>1
<1>3. Free(net)' = Free(net)
    BY <1>2 DEF Free
<1>4. NoSlotWasted'
    BY <1>1, <1>3 DEF NetOK, NoSlotWasted
<1>5. WorkInv(net, inQueue)'
    BY DEF WorkInv, Working
<1> QED
    BY <1>1, <1>4, <1>5 DEF NetOK, CrawlTakes, HasWork

LEMMA EndThreadStep ==
    ASSUME NetOK, NEW t \in Threads, net' = EndThread(net, t), client' = client,
           inQueue' = Left(net, t, inQueue)
    PROVE  /\ NetOK' /\ \A s \in Threads : s # t => net'.slots[s] = net.slots[s]
<1>1. NoWaste(net) /\ inQueue' \subseteq Urls
    BY DEF NetOK, NoSlotWasted, NoWaste, Left
<1>2. /\ net' \in Network /\ NoWaste(net') /\ net'.processing = net.processing
      /\ \A s \in Threads : s # t => net'.slots[s] = net.slots[s]
      /\ net'.pending # <<>> => net.pending # <<>>
      /\ WorkInv(net', inQueue')
    BY <1>1, EndThreadFacts DEF NetOK
<1>3. NoSlotWasted'
  <2>1. (net.pending # <<>> /\ net.processing => Free(net) = {})'
      BY <1>2 DEF NoWaste, Free
  <2> QED
      BY <1>2, <2>1 DEF NetOK, NoSlotWasted
<1>4. WorkInv(net, inQueue)'
    BY <1>2 DEF WorkInv, Working
<1> QED
    BY <1>1, <1>2, <1>3, <1>4 DEF NetOK, CrawlTakes

LEMMA TopFacts ==
    ASSUME TypeOK, analyses # <<>>
    PROVE  /\ Len(analyses) \in Nat \ {0} /\ Len(analyses) \in 1 .. Len(analyses)
           /\ Top \in Frame /\ Top.thread \in Threads
           /\ \A f \in Frame :
                 LET a == [analyses EXCEPT ![Len(analyses)] = f] IN
                 /\ a \in Seq(Frame) /\ Len(a) = Len(analyses)
                 /\ \A i \in 1 .. Len(analyses) :
                       a[i] = IF i = Len(analyses) THEN f ELSE analyses[i]
<1>1. Len(analyses) \in Nat \ {0} /\ Len(analyses) \in 1 .. Len(analyses)
    BY EmptySeq DEF TypeOK
<1>2. Top \in Frame
    BY <1>1, ElementOfSeq DEF TypeOK, Top
<1>3. \A f \in Frame :
         LET a == [analyses EXCEPT ![Len(analyses)] = f] IN
         /\ a \in Seq(Frame) /\ Len(a) = Len(analyses)
         /\ \A i \in 1 .. Len(analyses) :
               a[i] = IF i = Len(analyses) THEN f ELSE analyses[i]
    BY <1>1, ExceptSeq DEF TypeOK
<1> QED
    BY <1>1, <1>2, <1>3 DEF Frame

-----------------------------------------------------------------------------
(* Steps of the download manager, the client and the queue.                 *)

Core == TypeOK /\ NetInv /\ FrameInv

LEMMA CoreFacts ==
    ASSUME Core
    PROVE  /\ NetOK /\ NoWaste(net) /\ asked \in Nat /\ allDone \in Seq({"crawl", "pool"})
           /\ client = "Crawl" => HasWork(net) \/ Notified(allDone)
BY DEF Core, TypeOK, NetInv, NetOK, NoSlotWasted, NoWaste, CrawlHasWork, HasWork, Notified

LEMMA CoreFrom ==
    ASSUME NetOK', FrameInv', asked' \in Nat, neighbor' \subseteq Urls, crawled' \subseteq Urls,
           links' \in [Urls -> SUBSET Urls], analyses' \in Seq(Frame),
           allDone' \in Seq({"crawl", "pool"}), toTransfer' \subseteq Entry,
           client' = "Crawl" => HasWork(net') \/ Notified(allDone')
    PROVE  Core'
BY DEF Core, TypeOK, NetInv, NetOK, CrawlHasWork, HasWork, Notified

LEMMA ClientConnectedCore ==
    ASSUME Core, ClientConnected PROVE Core'
<1>1. BecomeIdle(net) /\ UNCHANGED <<inQueue, neighbor, crawled, links, analyses, allDone, toTransfer>>
    BY DEF ClientConnected, collections
<1>2. /\ NetOK' /\ KeepsBusy(net, net') /\ asked' \in Nat
      /\ client' = "Crawl" => HasWork(net')
    BY <1>1, BecomeIdleFacts, CoreFacts
<1>3. FrameInv'
    BY <1>1, <1>2, BusyKept DEF Core
<1> QED
    BY <1>1, <1>2, <1>3, CoreFrom DEF Core, TypeOK

LEMMA ClientDisconnectedCore ==
    ASSUME Core, ClientDisconnected PROVE Core'
<1>1. /\ client' = "Unavailable" /\ net' = [net EXCEPT !.processing = FALSE] /\ asked' = 0
      /\ UNCHANGED <<inQueue, neighbor, crawled, links, analyses, allDone, toTransfer>>
    BY DEF ClientDisconnected, SetState, Pause, collections
<1>2. NetOK
    BY CoreFacts
<1>3. /\ net'.slots = net.slots /\ net'.pending = net.pending /\ ~net'.processing
      /\ net' \in Network
  <2>1. net' = [pending |-> net.pending, processing |-> FALSE, slots |-> net.slots]
    <3>1. \A y : [net EXCEPT !.processing = y]
                   = [pending |-> net.pending, processing |-> y, slots |-> net.slots]
        BY <1>2, NetworkRecord DEF NetOK
    <3> QED
        BY <1>1, <3>1, Zenon
  <2> QED
      BY <1>2, <2>1, PendingFacts DEF NetOK, Network
<1>4. NetOK'
  <2>1. WorkInv(net, inQueue)'
      BY <1>1, <1>2, <1>3 DEF NetOK, WorkInv, Working
  <2>2. NoSlotWasted'
      BY <1>1, <1>3 DEF NoSlotWasted
  <2> QED
      BY <1>1, <1>2, <1>3, <2>1, <2>2 DEF NetOK, ClientStates, CrawlTakes
<1>5. FrameInv'
    BY <1>1, <1>3, BusyKept DEF Core, KeepsBusy
<1> QED
    BY <1>1, <1>4, <1>5, CoreFrom DEF Core, TypeOK

LEMMA SeedUrlReceivedCore ==
    ASSUME Core, NEW u \in Seeds, SeedUrlReceived(u) PROVE Core'
<1>1. /\ Enqueue(u) /\ asked > 0 /\ asked' = asked - 1 /\ u \in Urls
      /\ UNCHANGED <<neighbor, crawled, links, analyses, allDone, toTransfer>>
    BY DEF SeedUrlReceived, CrawlerAssumption
<1>2. /\ NetOK' /\ KeepsBusy(net, net')
      /\ client' = "Crawl" => HasWork(net') \/ (client = "Crawl" /\ net' = net)
    BY <1>1, CoreFacts, EnqueueFacts
<1>3. FrameInv'
    BY <1>1, <1>2, BusyKept DEF Core
<1>4. asked' \in Nat
    BY <1>1, CoreFacts
<1>5. client' = "Crawl" => HasWork(net') \/ Notified(allDone')
    BY <1>1, <1>2, CoreFacts
<1> QED
    BY <1>1, <1>2, <1>3, <1>4, <1>5, CoreFrom DEF Core, TypeOK

LEMMA RedirectCore ==
    ASSUME Core, NEW t \in Threads, Redirect(t) \/ FollowRedirect(t) PROVE Core'
<1>1. UNCHANGED <<client, asked, inQueue, neighbor, crawled, links, analyses, allDone, toTransfer>>
    BY DEF Redirect, FollowRedirect, collections
<1>2. NetOK /\ net.slots[t] \in Slot /\ Working(net.slots[t])
    BY CoreFacts, PendingFacts DEF NetOK, Redirect, FollowRedirect, Working
<1>3. PICK x \in Slot : /\ net' = Put(net, t, x) /\ x.phase \in {"loading", "redirecting"}
                        /\ x.url = net.slots[t].url
  <2>1. CASE Redirect(t)
    <3>1. net' = Put(net, t, [net.slots[t] EXCEPT !.phase = "redirecting"])
        BY <1>2, <2>1, PhaseFacts DEF Redirect, NetOK
    <3>2. [net.slots[t] EXCEPT !.phase = "redirecting"] \in Slot
        BY <1>2 DEF Slot
    <3> QED
        BY <1>2, <3>1, <3>2 DEF Slot
  <2>2. CASE FollowRedirect(t)
    <3>1. net' = Put(net, t, [net.slots[t] EXCEPT !.phase = "loading", !.redirected = TRUE])
        BY <1>2, <2>2, PhaseFacts DEF FollowRedirect, NetOK
    <3>2. [net.slots[t] EXCEPT !.phase = "loading", !.redirected = TRUE] \in Slot
        BY <1>2 DEF Slot
    <3> QED
        BY <1>2, <3>1, <3>2 DEF Slot
  <2> QED
      BY <2>1, <2>2
<1>4. WorkInv(net', inQueue')
    BY <1>1, <1>2, <1>3, PutFacts DEF NetOK, Working
<1>5. /\ NetOK' /\ HasWork(net')
      /\ \A s \in Threads : s # t => net'.slots[s] = net.slots[s]
    BY <1>1, <1>2, <1>3, <1>4, SlotStep DEF NetOK, Working
<1>6. FrameInv'
    BY <1>1, <1>2, <1>5, FramesKept DEF Core, Working
<1> QED
    BY <1>1, <1>5, <1>6, CoreFrom DEF Core, TypeOK

LEMMA DownloadFailsCore ==
    ASSUME Core, NEW t \in Threads, DownloadFails(t) PROVE Core'
<1> DEFINE u == net.slots[t].url
<1>1. /\ net.slots[t].phase = "loading" /\ net' = EndThread(net, t)
      /\ inQueue' = inQueue \ {u} /\ neighbor' = neighbor \ {u}
      /\ allDone' = AllDoneAfter([net EXCEPT !.slots[t].phase = "free"])
      /\ UNCHANGED <<client, asked, crawled, links, analyses, toTransfer>>
    BY DEF DownloadFails
<1>2. NetOK /\ NoWaste(net) /\ allDone \in Seq({"crawl", "pool"})
    BY CoreFacts
<1>3. inQueue' = Left(net, t, inQueue)
    BY <1>1 DEF Left, Working
<1>4. NetOK' /\ \A s \in Threads : s # t => net'.slots[s] = net.slots[s]
    BY <1>1, <1>2, <1>3, EndThreadStep
<1>5. /\ allDone' \in Seq({"crawl", "pool"})
      /\ HasWork(net') \/ Notified(allDone')
    BY <1>1, <1>2, AllDoneFacts DEF NetOK
<1>6. FrameInv'
    BY <1>1, <1>4, FramesKept DEF Core
<1> QED
    BY <1>1, <1>4, <1>5, <1>6, CoreFrom DEF Core, TypeOK

LEMMA PoolAllDoneCore ==
    ASSUME Core, PoolAllDone PROVE Core'
<1>1. /\ allDone # <<>> /\ Head(allDone) = "pool" /\ allDone' = Tail(allDone)
      /\ UNCHANGED <<client, asked, net, inQueue, neighbor, crawled, links, analyses>>
      /\ toTransfer' \in {EmptyPool, toTransfer}
    BY DEF PoolAllDone, collections
<1>2. allDone' \in Seq({"crawl", "pool"}) /\ (Notified(allDone) => Notified(allDone'))
    BY <1>1, CoreFacts, DeliveredFacts
<1>3. NetOK'
    BY <1>1, CoreFacts DEF NetOK, NoSlotWasted, CrawlTakes, Free, WorkInv, Working
<1>4. FrameInv'
    BY <1>1, BusyKept DEF Core, KeepsBusy
<1>5. client' = "Crawl" => HasWork(net') \/ Notified(allDone')
    BY <1>1, <1>2, CoreFacts
<1> QED
    BY <1>1, <1>2, <1>3, <1>4, <1>5, CoreFrom DEF Core, TypeOK, EmptyPool

LEMMA CrawlAllDoneCore ==
    ASSUME Core, CrawlAllDone
    PROVE  Core' /\ (client' = "Idle" /\ client # "Idle" => asked' # 0)
<1>1. /\ allDone # <<>> /\ allDone' = Tail(allDone)
      /\ UNCHANGED <<inQueue, neighbor, crawled, links, analyses, toTransfer>>
    BY DEF CrawlAllDone, collections
<1>2. allDone' \in Seq({"crawl", "pool"})
    BY <1>1, CoreFacts, DeliveredFacts
<1>3. /\ NetOK' /\ KeepsBusy(net, net') /\ asked' \in Nat
      /\ client' = "Crawl" => HasWork(net')
      /\ client' = "Idle" /\ client # "Idle" => asked' # 0
  <2>1. CASE net.pending = <<>> /\ Changes("Idle")
      BY <1>1, <2>1, BecomeIdleFacts, CoreFacts DEF CrawlAllDone
  <2>2. CASE net.pending # <<>> /\ ~net.processing /\ Changes("Crawl")
    <3>1. BecomeCrawl(net) /\ asked' = asked
        BY <2>2 DEF CrawlAllDone
    <3> QED
        BY <1>1, <2>2, <3>1, BecomeCrawlFacts, CoreFacts DEF HasWork
  <2>3. CASE ~(net.pending = <<>> /\ Changes("Idle"))
             /\ ~(net.pending # <<>> /\ ~net.processing /\ Changes("Crawl"))
    <3>1. client' = client /\ asked' = asked /\ net' = net
        BY <2>3 DEF CrawlAllDone
    <3>2. client = "Crawl" => net.pending # <<>>
        BY <2>3 DEF Changes
    <3>3. NetOK'
        BY <1>1, <3>1, CoreFacts DEF NetOK, NoSlotWasted, CrawlTakes, Free, WorkInv, Working
    <3> QED
        BY <3>1, <3>2, <3>3, CoreFacts DEF KeepsBusy, HasWork
  <2> QED
      BY <2>1, <2>2, <2>3
<1>4. FrameInv'
    BY <1>1, <1>3, BusyKept DEF Core
<1> QED
    BY <1>1, <1>2, <1>3, <1>4, CoreFrom DEF Core, TypeOK

-----------------------------------------------------------------------------
(* Steps of the analyses.                                                   *)

\* The analysis f goes on as g, with the links of r left.
GoesOn(f, g, r) == g.thread = f.thread /\ g.url = f.url /\ g.new = f.new /\ g.rest = r

LEMMA FrameFacts ==
    ASSUME TypeOK
    PROVE  /\ Len(analyses) \in Nat /\ DOMAIN analyses = 1 .. Len(analyses)
           /\ \A i \in 1 .. Len(analyses) :
                 /\ analyses[i] \in Frame /\ analyses[i].thread \in Threads
                 /\ analyses[i].url \in Urls /\ analyses[i].rest \subseteq Urls
                 /\ analyses[i].new \in BOOLEAN
<1>1. analyses \in Seq(Frame)
    BY DEF TypeOK
<1>2. \A i \in 1 .. Len(analyses) : analyses[i] \in Frame
    BY <1>1, ElementOfSeq
<1> QED
    BY <1>1, <1>2, LenProperties DEF Frame

LEMMA DownloadSucceedsFrames ==
    ASSUME TypeOK, NEW t \in Threads, DownloadSucceeds(t), net.slots[t].url \in Urls
    PROVE  LET L == Len(analyses)
               u == net.slots[t].url
               f == [thread |-> t, url |-> u, rest |-> Web[u],
                     new |-> u \notin crawled, overtaken |-> FALSE]
           IN  /\ analyses' \in Seq(Frame) /\ Len(analyses') = L + 1 /\ L \in Nat
               /\ analyses'[L + 1] = f /\ f \in Frame
               /\ \A i \in 1 .. L : GoesOn(analyses[i], analyses'[i], analyses[i].rest)
<1> DEFINE L == Len(analyses)
           u == net.slots[t].url
           f == [thread |-> t, url |-> u, rest |-> Web[u],
                 new |-> u \notin crawled, overtaken |-> FALSE]
           o == Overtaken
<1>1. f \in Frame
    BY DEF Frame, CrawlerAssumption
<1>2. L \in Nat /\ analyses \in Seq(Frame)
    BY FrameFacts DEF TypeOK
<1>3. /\ o \in Seq(Frame) /\ Len(o) = L
      /\ \A i \in 1 .. L : GoesOn(analyses[i], o[i], analyses[i].rest)
  <2>1. CASE analyses = <<>>
      BY <1>2, <2>1, EmptySeq DEF Overtaken
  <2>2. CASE analyses # <<>>
    <3> DEFINE g == [Top EXCEPT !.overtaken = TRUE]
    <3>1. g \in Frame /\ GoesOn(Top, g, Top.rest)
        BY <2>2, TopFacts DEF Frame, GoesOn
    <3>2. o = [analyses EXCEPT ![L] = g]
        BY <2>2 DEF Overtaken, Top
    <3> HIDE DEF g
    <3>3. /\ o \in Seq(Frame) /\ Len(o) = L
          /\ \A i \in 1 .. L : o[i] = IF i = L THEN g ELSE analyses[i]
        BY <2>2, <3>1, <3>2, TopFacts
    <3> QED
        BY <3>1, <3>3 DEF GoesOn, Top
  <2> QED
      BY <2>1, <2>2
<1>4. analyses' = Append(o, f)
    BY DEF DownloadSucceeds
<1> HIDE DEF o, f
<1>5. /\ analyses' \in Seq(Frame) /\ Len(analyses') = L + 1 /\ analyses'[L + 1] = f
      /\ \A i \in 1 .. L : analyses'[i] = o[i]
    BY <1>1, <1>2, <1>3, <1>4, AppendProperties
<1> QED
    BY <1>1, <1>2, <1>3, <1>5 DEF f

\* The running analysis handles a link, or matches it again.
LEMMA TopFrames ==
    ASSUME TypeOK, analyses # <<>>, NEW r \in SUBSET Urls, NEW b \in BOOLEAN,
           \/ analyses' = [analyses EXCEPT ![Len(analyses)].rest = r]
           \/ analyses' = [analyses EXCEPT ![Len(analyses)].overtaken = b,
                                           ![Len(analyses)].rest = r]
    PROVE  LET L == Len(analyses) IN
           /\ analyses' \in Seq(Frame) /\ Len(analyses') = L /\ L \in Nat \ {0}
           /\ GoesOn(Top, analyses'[L], r)
           /\ \A i \in 1 .. L : i # L => analyses'[i] = analyses[i]
<1> DEFINE L == Len(analyses)
<1>1. /\ L \in Nat \ {0} /\ L \in 1 .. L /\ Top \in Frame
    BY TopFacts
<1>2. PICK g \in Frame : GoesOn(Top, g, r) /\ analyses' = [analyses EXCEPT ![L] = g]
  <2>1. CASE analyses' = [analyses EXCEPT ![L].rest = r]
    <3> DEFINE g == [Top EXCEPT !.rest = r]
    <3>1. g \in Frame /\ GoesOn(Top, g, r)
        BY <1>1 DEF Frame, GoesOn
    <3>2. analyses' = [analyses EXCEPT ![L] = g]
        BY <2>1 DEF Top
    <3> HIDE DEF g
    <3> QED
        BY <3>1, <3>2
  <2>2. CASE analyses' = [analyses EXCEPT ![L].overtaken = b, ![L].rest = r]
    <3> DEFINE g == [Top EXCEPT !.overtaken = b, !.rest = r]
    <3>1. g \in Frame /\ GoesOn(Top, g, r)
        BY <1>1 DEF Frame, GoesOn
    <3>2. analyses' = [analyses EXCEPT ![L] = g]
        BY <2>2, FrameFacts DEF Top
    <3> HIDE DEF g
    <3> QED
        BY <3>1, <3>2
  <2> QED
      BY <2>1, <2>2
<1>3. /\ analyses' \in Seq(Frame) /\ Len(analyses') = L
      /\ \A i \in 1 .. L : analyses'[i] = IF i = L THEN g ELSE analyses[i]
    BY <1>2, TopFacts
<1> QED
    BY <1>1, <1>2, <1>3

LEMMA AnalyzeLinkFrames ==
    ASSUME TypeOK, AnalyzeLink
    PROVE  \E v \in Top.rest :
             LET L == Len(analyses) IN
             /\ v \in Urls /\ analyses # <<>> /\ AddSuccessor(v)
             /\ analyses' \in Seq(Frame) /\ Len(analyses') = L /\ L \in Nat \ {0}
             /\ GoesOn(Top, analyses'[L], Top.rest \ {v})
             /\ \A i \in 1 .. L : i # L => analyses'[i] = analyses[i]
             /\ \/ /\ v \in crawled \cup neighbor \cup inQueue
                   /\ UNCHANGED <<client, net, inQueue, neighbor, toTransfer>>
                \/ /\ neighbor' = neighbor \cup {v}
                   /\ toTransfer' = ToTransfer(v, FALSE)
                   /\ UNCHANGED <<client, net, inQueue>>
                \/ Enqueue(v) /\ UNCHANGED <<neighbor, toTransfer>>
<1>1. PICK v \in Top.rest :
        /\ analyses' = [analyses EXCEPT ![Len(analyses)].rest = @ \ {v}]
        /\ AddSuccessor(v)
        /\ \/ /\ v \in crawled \cup neighbor \cup inQueue
              /\ UNCHANGED <<client, net, inQueue, neighbor, toTransfer>>
           \/ /\ neighbor' = neighbor \cup {v}
              /\ toTransfer' = ToTransfer(v, FALSE)
              /\ UNCHANGED <<client, net, inQueue>>
           \/ Enqueue(v) /\ UNCHANGED <<neighbor, toTransfer>>
    BY DEF AnalyzeLink
<1>2. analyses # <<>>
    BY DEF AnalyzeLink
<1>3. v \in Urls /\ Top.rest \ {v} \in SUBSET Urls
    BY <1>2, TopFacts DEF Frame
<1>4. analyses' = [analyses EXCEPT ![Len(analyses)].rest = Top.rest \ {v}]
    BY <1>1 DEF Top
<1>5. LET L == Len(analyses) IN
      /\ analyses' \in Seq(Frame) /\ Len(analyses') = L /\ L \in Nat \ {0}
      /\ GoesOn(Top, analyses'[L], Top.rest \ {v})
      /\ \A i \in 1 .. L : i # L => analyses'[i] = analyses[i]
    BY <1>2, <1>3, <1>4, TopFrames
<1> QED
    BY <1>1, <1>2, <1>3, <1>5

LEMMA MatchAgainFrames ==
    ASSUME TypeOK, MatchAgain
    PROVE  \E r \in SUBSET Urls :
             LET L == Len(analyses) IN
             /\ analyses # <<>>
             /\ r = Top.rest \/ (r = {} /\ Top.url \in LinkFirst /\ Top.rest = Web[Top.url])
             /\ analyses' \in Seq(Frame) /\ Len(analyses') = L /\ L \in Nat \ {0}
             /\ GoesOn(Top, analyses'[L], r)
             /\ \A i \in 1 .. L : i # L => analyses'[i] = analyses[i]
<1> DEFINE r == IF Top.url \in LinkFirst /\ Top.rest = Web[Top.url] THEN {} ELSE Top.rest
<1>1. analyses # <<>>
    BY DEF MatchAgain
<1>2. r \in SUBSET Urls
    BY <1>1, TopFacts DEF Frame
<1>3. analyses' = [analyses EXCEPT ![Len(analyses)].overtaken = FALSE,
                                   ![Len(analyses)].rest = r]
    BY FrameFacts DEF MatchAgain, Top
<1>4. r = Top.rest \/ (r = {} /\ Top.url \in LinkFirst /\ Top.rest = Web[Top.url])
    OBVIOUS
<1> HIDE DEF r
<1>5. LET L == Len(analyses) IN
      /\ analyses' \in Seq(Frame) /\ Len(analyses') = L /\ L \in Nat \ {0}
      /\ GoesOn(Top, analyses'[L], r)
      /\ \A i \in 1 .. L : i # L => analyses'[i] = analyses[i]
    BY <1>1, <1>2, <1>3, TopFrames
<1> QED
    BY <1>1, <1>2, <1>4, <1>5

LEMMA AnalysisEndsFrames ==
    ASSUME TypeOK, AnalysisEnds
    PROVE  LET L == Len(analyses) IN
           /\ analyses # <<>> /\ Top.rest = {} /\ L \in Nat \ {0}
           /\ analyses' \in Seq(Frame) /\ Len(analyses') = L - 1
           /\ \A i \in 1 .. L - 1 : analyses'[i] = analyses[i]
<1> DEFINE L == Len(analyses)
<1>1. /\ analyses # <<>> /\ Top.rest = {} /\ analyses' = SubSeq(analyses, 1, L - 1)
    BY DEF AnalysisEnds
<1>2. L \in Nat \ {0}
    BY <1>1, TopFacts
<1>3. \A i \in 1 .. L - 1 : analyses[i] \in Frame
    BY <1>2, FrameFacts
<1>4. 1 \in Int /\ L - 1 \in Int
    BY <1>2
<1>5. /\ analyses' \in Seq(Frame)
      /\ Len(analyses') = IF 1 <= L - 1 THEN (L - 1) - 1 + 1 ELSE 0
      /\ \A i \in 1 .. (L - 1) - 1 + 1 : analyses'[i] = analyses[1 + i - 1]
    BY <1>1, <1>3, <1>4, SubSeqProperties
<1> HIDE DEF L
<1>6. Len(analyses') = L - 1 /\ \A i \in 1 .. L - 1 : analyses'[i] = analyses[i]
    BY <1>2, <1>5
<1> QED
    BY <1>1, <1>2, <1>5, <1>6 DEF L

LEMMA ToTransferFacts ==
    ASSUME toTransfer \subseteq Entry, NEW u \in Urls, NEW b \in BOOLEAN
    PROVE  ToTransfer(u, b) \subseteq Entry
<1>1. [url |-> u, crawled |-> b] \in Entry
    BY DEF Entry
<1> QED
    BY <1>1 DEF ToTransfer

LEMMA DownloadSucceedsCore ==
    ASSUME Core, NEW t \in Threads, DownloadSucceeds(t) PROVE Core'
<1> DEFINE u == net.slots[t].url
           x == [net.slots[t] EXCEPT !.phase = "analyzing"]
           L == Len(analyses)
<1>1. /\ net.slots[t].phase = "loading"
      /\ net' = [net EXCEPT !.slots[t].phase = "analyzing"]
      /\ inQueue' = inQueue \ {u} /\ neighbor' = neighbor \ {u}
      /\ crawled' = crawled \cup {u}
      /\ toTransfer' \in {toTransfer, ToTransfer(u, TRUE)}
      /\ UNCHANGED <<client, asked, links, allDone>>
    BY DEF DownloadSucceeds
<1>2. NetOK /\ net \in Network /\ net.slots[t] \in Slot /\ TypeOK
    BY CoreFacts, PendingFacts DEF NetOK, Core
<1>3. u \in inQueue /\ u \in Urls
    BY <1>1, <1>2 DEF NetOK, WorkInv, Working
<1>4. net' = Put(net, t, x)
    BY <1>1, <1>2, PhaseFacts
<1>5. x \in Slot /\ x.phase = "analyzing"
    BY <1>2 DEF Slot
<1> HIDE DEF x
<1>6. inQueue' = Left(net, t, inQueue)
    BY <1>1 DEF Left, Working
<1>7. WorkInv(net', inQueue') /\ inQueue' \subseteq Urls
  <2>1. ~Working(x) /\ WorkInv(net, inQueue) /\ inQueue \subseteq Urls
      BY <1>2, <1>5 DEF NetOK, Working
  <2>2. WorkInv(Put(net, t, x), Left(net, t, inQueue))
      BY <1>2, <1>5, <2>1, PutFacts
  <2> QED
      BY <1>1, <1>4, <1>6, <2>1, <2>2
<1>8. /\ NetOK' /\ HasWork(net') /\ \A s \in Threads : s # t => net'.slots[s] = net.slots[s]
    BY <1>1, <1>2, <1>4, <1>5, <1>7, SlotStep
<1>9. net'.slots[t].phase = "analyzing"
    BY <1>2, <1>4, <1>5, PutFacts
<1>10. /\ analyses' \in Seq(Frame) /\ Len(analyses') = L + 1 /\ L \in Nat
       /\ analyses'[L + 1].thread = t
       /\ \A i \in 1 .. L : analyses'[i].thread = analyses[i].thread
  <2> DEFINE f == [thread |-> t, url |-> u, rest |-> Web[u],
                   new |-> u \notin crawled, overtaken |-> FALSE]
  <2>1. /\ analyses' \in Seq(Frame) /\ Len(analyses') = L + 1 /\ L \in Nat
        /\ analyses'[L + 1] = f
        /\ \A i \in 1 .. L : GoesOn(analyses[i], analyses'[i], analyses[i].rest)
      BY <1>2, <1>3, DownloadSucceedsFrames
  <2> QED
      BY <2>1 DEF GoesOn
<1>11. \A i \in 1 .. L : /\ analyses[i].thread \in Threads /\ analyses[i].thread # t
                         /\ net.slots[analyses[i].thread].phase = "analyzing"
    BY <1>1, <1>2, FrameFacts DEF Core, FrameInv
<1>12. FrameInv'
  <2>1. \A i \in 1 .. L + 1 : i \in 1 .. L \/ i = L + 1
      BY <1>10
  <2>2. \A i \in 1 .. L + 1 : net'.slots[analyses'[i].thread].phase = "analyzing"
      BY <1>8, <1>9, <1>10, <1>11, <2>1
  <2>3. \A i, j \in 1 .. L + 1 : analyses'[i].thread = analyses'[j].thread => i = j
      BY <1>10, <1>11, <2>1 DEF Core, FrameInv
  <2> QED
      BY <1>10, <2>2, <2>3 DEF FrameInv
<1>13. toTransfer' \subseteq Entry
    BY <1>1, <1>2, <1>3, ToTransferFacts DEF TypeOK
<1> QED
    BY <1>1, <1>2, <1>3, <1>8, <1>10, <1>12, <1>13, CoreFrom DEF TypeOK

\* The threads of the analyses are the same, and their slots.
LEMMA SameThreads ==
    ASSUME Core, KeepsBusy(net, net'), Len(analyses') <= Len(analyses), Len(analyses') \in Nat,
           \A i \in 1 .. Len(analyses') : analyses'[i].thread = analyses[i].thread
    PROVE  FrameInv'
<1>1. \A i \in 1 .. Len(analyses') : i \in 1 .. Len(analyses)
    BY FrameFacts DEF Core
<1>2. ASSUME NEW i \in 1 .. Len(analyses')
      PROVE  net'.slots[analyses'[i].thread].phase = "analyzing"
  <2>1. /\ analyses[i].thread \in Threads
        /\ net.slots[analyses[i].thread].phase = "analyzing"
      BY <1>1, FrameFacts DEF Core, FrameInv
  <2> QED
      BY <2>1 DEF KeepsBusy, Free
<1>3. \A i, j \in 1 .. Len(analyses') : analyses'[i].thread = analyses'[j].thread => i = j
    BY <1>1 DEF Core, FrameInv
<1> QED
    BY <1>2, <1>3 DEF FrameInv

LEMMA AnalyzeLinkCore ==
    ASSUME Core, AnalyzeLink PROVE Core'
<1> DEFINE L == Len(analyses)
<1>1. TypeOK /\ NetOK
    BY CoreFacts DEF Core
<1>2. PICK v \in Top.rest :
        /\ v \in Urls /\ analyses # <<>> /\ AddSuccessor(v)
        /\ analyses' \in Seq(Frame) /\ Len(analyses') = L /\ L \in Nat \ {0}
        /\ GoesOn(Top, analyses'[L], Top.rest \ {v})
        /\ \A i \in 1 .. L : i # L => analyses'[i] = analyses[i]
        /\ \/ /\ v \in crawled \cup neighbor \cup inQueue
              /\ UNCHANGED <<client, net, inQueue, neighbor, toTransfer>>
           \/ /\ neighbor' = neighbor \cup {v}
              /\ toTransfer' = ToTransfer(v, FALSE)
              /\ UNCHANGED <<client, net, inQueue>>
           \/ Enqueue(v) /\ UNCHANGED <<neighbor, toTransfer>>
    BY <1>1, AnalyzeLinkFrames
<1>3. UNCHANGED <<asked, crawled, allDone>>
    BY DEF AnalyzeLink
<1>4. /\ NetOK' /\ KeepsBusy(net, net')
      /\ client' = "Crawl" => HasWork(net') \/ (client = "Crawl" /\ net' = net)
  <2>1. CASE Enqueue(v)
      BY <1>1, <1>2, <2>1, EnqueueFacts
  <2>2. CASE UNCHANGED <<client, net, inQueue>>
      BY <1>1, <2>2 DEF NetOK, NoSlotWasted, CrawlTakes, Free, WorkInv, Working, KeepsBusy
  <2> QED
      BY <1>2, <2>1, <2>2
<1>5. \A i \in 1 .. L : analyses'[i].thread = analyses[i].thread
    BY <1>2 DEF GoesOn, Top
<1>6. FrameInv'
    BY <1>2, <1>4, <1>5, SameThreads
<1>7. neighbor' \subseteq Urls /\ toTransfer' \subseteq Entry
    BY <1>1, <1>2, ToTransferFacts DEF TypeOK
<1>8. links' \in [Urls -> SUBSET Urls]
    BY <1>1, <1>2, TopFacts DEF TypeOK, AddSuccessor, Frame
<1>9. client' = "Crawl" => HasWork(net') \/ Notified(allDone')
    BY <1>3, <1>4, CoreFacts
<1>10. asked' \in Nat /\ crawled' \subseteq Urls /\ allDone' \in Seq({"crawl", "pool"})
    BY <1>1, <1>3 DEF TypeOK
<1> QED
    BY <1>2, <1>4, <1>6, <1>7, <1>8, <1>9, <1>10, CoreFrom

LEMMA MatchAgainCore ==
    ASSUME Core, MatchAgain PROVE Core'
<1> DEFINE L == Len(analyses)
<1>1. TypeOK /\ NetOK
    BY CoreFacts DEF Core
<1>2. PICK r \in SUBSET Urls :
        /\ analyses' \in Seq(Frame) /\ Len(analyses') = L /\ L \in Nat \ {0}
        /\ GoesOn(Top, analyses'[L], r)
        /\ \A i \in 1 .. L : i # L => analyses'[i] = analyses[i]
    BY <1>1, MatchAgainFrames
<1>3. UNCHANGED <<client, asked, net, inQueue, neighbor, crawled, links, allDone, toTransfer>>
    BY DEF MatchAgain, collections
<1>4. NetOK' /\ KeepsBusy(net, net')
    BY <1>1, <1>3 DEF NetOK, NoSlotWasted, CrawlTakes, Free, WorkInv, Working, KeepsBusy
<1>5. \A i \in 1 .. L : analyses'[i].thread = analyses[i].thread
    BY <1>2 DEF GoesOn, Top
<1>6. FrameInv'
    BY <1>2, <1>4, <1>5, SameThreads
<1>7. client' = "Crawl" => HasWork(net') \/ Notified(allDone')
    BY <1>3, CoreFacts
<1> QED
    BY <1>1, <1>2, <1>3, <1>4, <1>6, <1>7, CoreFrom DEF TypeOK

LEMMA AnalysisEndsCore ==
    ASSUME Core, AnalysisEnds PROVE Core'
<1> DEFINE L == Len(analyses)
           t == Top.thread
<1>1. /\ TypeOK /\ NetOK /\ NoWaste(net) /\ allDone \in Seq({"crawl", "pool"})
    BY CoreFacts DEF Core
<1>2. /\ analyses # <<>> /\ L \in Nat \ {0}
      /\ analyses' \in Seq(Frame) /\ Len(analyses') = L - 1
      /\ \A i \in 1 .. L - 1 : analyses'[i] = analyses[i]
    BY <1>1, AnalysisEndsFrames
<1>3. /\ net' = EndThread(net, t)
      /\ allDone' = AllDoneAfter([net EXCEPT !.slots[t].phase = "free"])
      /\ UNCHANGED <<client, asked, inQueue, neighbor, crawled, links, toTransfer>>
    BY DEF AnalysisEnds, collections
<1>4. t \in Threads /\ net.slots[t].phase = "analyzing" /\ t = analyses[L].thread
    BY <1>1, <1>2, TopFacts DEF Core, FrameInv, Top
<1>5. inQueue' = Left(net, t, inQueue)
    BY <1>3, <1>4 DEF Left, Working
<1> HIDE DEF t
<1>6. NetOK' /\ \A s \in Threads : s # t => net'.slots[s] = net.slots[s]
    BY <1>1, <1>3, <1>4, <1>5, EndThreadStep
<1>7. /\ allDone' \in Seq({"crawl", "pool"})
      /\ HasWork(net') \/ Notified(allDone')
    BY <1>1, <1>3, <1>4, AllDoneFacts DEF NetOK
<1>8. \A i \in 1 .. L - 1 : i \in 1 .. L /\ i # L /\ L \in 1 .. L
    BY <1>2
<1>9. \A i \in 1 .. L - 1 : /\ analyses[i].thread \in Threads /\ analyses[i].thread # t
                            /\ net.slots[analyses[i].thread].phase = "analyzing"
    BY <1>1, <1>4, <1>8, FrameFacts DEF Core, FrameInv
<1>10. FrameInv'
  <2>1. \A i \in 1 .. L - 1 : net'.slots[analyses'[i].thread].phase = "analyzing"
      BY <1>2, <1>6, <1>9
  <2>2. \A i, j \in 1 .. L - 1 : analyses'[i].thread = analyses'[j].thread => i = j
      BY <1>2, <1>8 DEF Core, FrameInv
  <2> QED
      BY <1>2, <2>1, <2>2 DEF FrameInv
<1> QED
    BY <1>1, <1>2, <1>3, <1>6, <1>7, <1>10, CoreFrom DEF TypeOK

LEMMA CoreInit == Init => Core
<1> SUFFICES ASSUME Init PROVE Core
    OBVIOUS
<1> USE DEF Init
<1>1. FreshNetwork \in Network
  <2>1. <<>> \in Seq(Urls) /\ [t \in Threads |-> FreeSlot] \in [Threads -> Slot]
      BY EmptySeq, SlotFacts
  <2> QED
      BY <2>1 DEF FreshNetwork, Network
<1>2. /\ net.pending = <<>> /\ ~net.processing /\ DOMAIN net.pending = {}
      /\ \A t \in Threads : ~Working(net.slots[t])
    BY SlotFacts DEF FreshNetwork
<1>3. /\ analyses \in Seq(Frame) /\ Len(analyses) = 0 /\ allDone \in Seq({"crawl", "pool"})
    BY EmptySeq DEF FreshCrawl
<1>4. TypeOK
    BY <1>1, <1>3 DEF TypeOK, ClientStates, EmptyPool
<1>5. WorkInv(net, inQueue)
    BY <1>2 DEF WorkInv
<1>6. NoSlotWasted /\ CrawlTakes /\ CrawlHasWork
    BY <1>2 DEF NoSlotWasted, CrawlTakes, CrawlHasWork
<1>7. FrameInv
    BY <1>3 DEF FrameInv
<1> QED
    BY <1>4, <1>5, <1>6, <1>7 DEF Core, NetInv

LEMMA CoreStep == Core /\ [Next]_vars => Core'
<1> SUFFICES ASSUME Core, [Next]_vars PROVE Core'
    OBVIOUS
<1>1. CASE Next
    BY <1>1, ClientConnectedCore, ClientDisconnectedCore, SeedUrlReceivedCore, RedirectCore,
       DownloadFailsCore, DownloadSucceedsCore, AnalyzeLinkCore, MatchAgainCore,
       AnalysisEndsCore, CrawlAllDoneCore, PoolAllDoneCore DEF Next
<1>2. CASE UNCHANGED vars
  <2>1. UNCHANGED <<client, asked, net, inQueue, neighbor, crawled, links, analyses, allDone,
                    toTransfer>>
      BY <1>2 DEF vars, collections
  <2>2. TypeOK' /\ FrameInv'
      BY <2>1 DEF Core, TypeOK, FrameInv
  <2>3. NetInv'
      BY <2>1 DEF Core, NetInv, WorkInv, Working, NoSlotWasted, CrawlTakes, CrawlHasWork, Free
  <2> QED
      BY <2>2, <2>3 DEF Core
<1> QED
    BY <1>1, <1>2

-----------------------------------------------------------------------------
(* The links of the crawled pages.                                          *)

LEMMA OtherLinks ==
    ASSUME LinksInv, UNCHANGED <<crawled, links, analyses>>, toTransfer' \subseteq toTransfer
    PROVE  LinksInv'
<1>1. \A u \in Urls : [url |-> u, crawled |-> TRUE] \in toTransfer' => u \in crawled
    BY DEF LinksInv
<1> QED
    BY <1>1 DEF LinksInv

LEMMA DownloadSucceedsLinks ==
    ASSUME Core, LinksInv, NEW t \in Threads, DownloadSucceeds(t) PROVE LinksInv'
<1> DEFINE L == Len(analyses)
           u == net.slots[t].url
           f == [thread |-> t, url |-> u, rest |-> Web[u],
                 new |-> u \notin crawled, overtaken |-> FALSE]
<1>1. /\ crawled' = crawled \cup {u} /\ links' = links
      /\ toTransfer' = IF u \in crawled THEN toTransfer ELSE ToTransfer(u, TRUE)
      /\ net.slots[t].phase = "loading"
    BY DEF DownloadSucceeds
<1>2. TypeOK /\ u \in Urls
    BY <1>1, CoreFacts DEF Core, NetOK, WorkInv, Working
<1>3. /\ Len(analyses') = L + 1 /\ L \in Nat /\ analyses'[L + 1] = f
      /\ \A i \in 1 .. L : GoesOn(analyses[i], analyses'[i], analyses[i].rest)
    BY <1>2, DownloadSucceedsFrames
<1>4. f.url = u /\ f.rest = Web[u] /\ (f.new <=> u \notin crawled)
    OBVIOUS
<1> HIDE DEF f, u
<1>5. \A i \in 1 .. L : /\ i \in 1 .. L + 1 /\ analyses'[i].url = analyses[i].url
                        /\ analyses'[i].new = analyses[i].new
                        /\ analyses'[i].rest = analyses[i].rest
    BY <1>3 DEF GoesOn
<1>6. /\ \A i \in 1 .. L + 1 : i \in 1 .. L \/ i = L + 1
      /\ L + 1 \in 1 .. L + 1
    BY <1>3
<1>7. \A i \in 1 .. L : /\ analyses[i].url \in crawled
                        /\ analyses[i].rest \subseteq Web[analyses[i].url]
    BY DEF LinksInv
<1>8. \A v \in Urls : v \notin crawled' => links'[v] = {}
    BY <1>1 DEF LinksInv
<1>9. \A i \in 1 .. L + 1 : /\ analyses'[i].url \in crawled'
                            /\ analyses'[i].rest \subseteq Web[analyses'[i].url]
    BY <1>1, <1>3, <1>4, <1>5, <1>6, <1>7
<1>10. \A i, j \in 1 .. L + 1 :
          analyses'[i].new /\ analyses'[j].new /\ analyses'[i].url = analyses'[j].url => i = j
  <2> SUFFICES ASSUME NEW i \in 1 .. L + 1, NEW j \in 1 .. L + 1,
                      analyses'[i].new, analyses'[j].new, analyses'[i].url = analyses'[j].url
               PROVE  i = j
      OBVIOUS
  <2>1. CASE i \in 1 .. L /\ j \in 1 .. L
      BY <1>5, <2>1 DEF LinksInv
  <2>2. CASE i \in 1 .. L /\ j = L + 1
      BY <1>3, <1>4, <1>5, <1>7, <2>2
  <2>3. CASE i = L + 1 /\ j \in 1 .. L
      BY <1>3, <1>4, <1>5, <1>7, <2>3
  <2> QED
      BY <1>6, <2>1, <2>2, <2>3
<1>11. \A i \in 1 .. L + 1 : analyses'[i].new => Found(analyses'[i], links'[analyses'[i].url])
  <2>1. ASSUME NEW i \in 1 .. L, analyses'[i].new
        PROVE  Found(analyses'[i], links'[analyses'[i].url])
      BY <1>1, <1>5, <2>1 DEF LinksInv, Found
  <2>2. analyses'[L + 1].new => Found(analyses'[L + 1], links'[analyses'[L + 1].url])
      BY <1>1, <1>2, <1>3, <1>4 DEF LinksInv, Found
  <2> QED
      BY <1>6, <2>1, <2>2
<1>12. \A v \in crawled' :
          \/ Complete(v, links'[v])
          \/ \E i \in 1 .. L + 1 : analyses'[i].url = v /\ analyses'[i].new
  <2>1. ASSUME NEW v \in crawled
        PROVE  \/ Complete(v, links'[v])
               \/ \E i \in 1 .. L + 1 : analyses'[i].url = v /\ analyses'[i].new
      BY <1>1, <1>5 DEF LinksInv
  <2>2. u \notin crawled => \E i \in 1 .. L + 1 : analyses'[i].url = u /\ analyses'[i].new
      BY <1>3, <1>4, <1>6
  <2> QED
      BY <1>1, <2>1, <2>2
<1>13. \A v \in Urls : [url |-> v, crawled |-> TRUE] \in toTransfer' => v \in crawled'
    BY <1>1 DEF LinksInv, ToTransfer
<1> QED
    BY <1>3, <1>8, <1>9, <1>10, <1>11, <1>12, <1>13 DEF LinksInv

LEMMA AnalyzeLinkLinks ==
    ASSUME Core, LinksInv, AnalyzeLink PROVE LinksInv'
<1> DEFINE L == Len(analyses)
           u == Top.url
<1>1. TypeOK
    BY DEF Core
<1>2. PICK v \in Top.rest :
        /\ v \in Urls /\ analyses # <<>> /\ AddSuccessor(v)
        /\ Len(analyses') = L /\ L \in Nat \ {0}
        /\ GoesOn(Top, analyses'[L], Top.rest \ {v})
        /\ \A i \in 1 .. L : i # L => analyses'[i] = analyses[i]
        /\ \/ toTransfer' = toTransfer
           \/ toTransfer' = ToTransfer(v, FALSE)
    BY <1>1, AnalyzeLinkFrames, Zenon
<1>3. crawled' = crawled
    BY DEF AnalyzeLink
<1>4. L \in 1 .. L /\ Top = analyses[L] /\ u \in Urls /\ links \in [Urls -> SUBSET Urls]
    BY <1>1, <1>2, TopFacts DEF Top, Frame, TypeOK
<1>5. u \in crawled /\ Top.rest \subseteq Web[u] /\ (Top.new => Found(Top, links[u]))
    BY <1>4 DEF LinksInv
<1>6. /\ analyses'[L].url = u /\ analyses'[L].new = Top.new
      /\ analyses'[L].rest = Top.rest \ {v}
    BY <1>2 DEF GoesOn
<1>7. \A i \in 1 .. L : /\ analyses'[i].url = analyses[i].url
                        /\ analyses'[i].new = analyses[i].new
                        /\ analyses'[i].rest \subseteq analyses[i].rest
    BY <1>2, <1>4, <1>6
<1>8. /\ links' = IF Top.new THEN [links EXCEPT ![u] = @ \cup {v}] ELSE links
      /\ \A w \in Urls : w # u => links'[w] = links[w]
      /\ Top.new => links'[u] = links[u] \cup {v}
    BY <1>2, <1>4 DEF AddSuccessor
<1> HIDE DEF u
<1>9. \A w \in Urls : w \notin crawled' => links'[w] = {}
    BY <1>3, <1>5, <1>8 DEF LinksInv
<1>10. \A i \in 1 .. L : /\ analyses'[i].url \in crawled'
                         /\ analyses'[i].rest \subseteq Web[analyses'[i].url]
    BY <1>3, <1>7 DEF LinksInv
<1>11. \A i, j \in 1 .. L :
          analyses'[i].new /\ analyses'[j].new /\ analyses'[i].url = analyses'[j].url => i = j
    BY <1>7 DEF LinksInv
<1>12. ASSUME NEW i \in 1 .. L, analyses'[i].new
       PROVE  Found(analyses'[i], links'[analyses'[i].url])
  <2>1. CASE i = L
    <3>1. links[u] = Web[u] \ Top.rest
        BY <1>2, <1>4, <1>5, <1>6, <1>12, <2>1 DEF Found, u
    <3>2. links'[u] = Web[u] \ (Top.rest \ {v})
        BY <1>2, <1>5, <1>6, <1>8, <1>12, <2>1, <3>1
    <3> QED
        BY <1>6, <2>1, <3>2 DEF Found
  <2>2. CASE i # L
    <3>1. analyses'[i] = analyses[i] /\ Found(analyses[i], links[analyses[i].url])
        BY <1>2, <1>12, <2>2 DEF LinksInv
    <3>2. analyses[i].url \in Urls
        BY <1>1, FrameFacts
    <3>3. links'[analyses[i].url] = links[analyses[i].url]
      <4>1. CASE analyses[i].url = u
        <5>1. ~Top.new
            BY <1>4, <1>12, <2>2, <3>1, <4>1 DEF LinksInv, u
        <5> QED
            BY <1>8, <5>1
      <4>2. CASE analyses[i].url # u
          BY <1>8, <3>2, <4>2
      <4> QED
          BY <4>1, <4>2
    <3> QED
        BY <3>1, <3>3
  <2> QED
      BY <2>1, <2>2
<1>13. ASSUME NEW w \in crawled'
       PROVE  \/ Complete(w, links'[w])
              \/ \E i \in 1 .. L : analyses'[i].url = w /\ analyses'[i].new
  <2>1. w \in crawled /\ w \in Urls
      BY <1>1, <1>3 DEF TypeOK
  <2>2. CASE w = u /\ Top.new
      BY <1>4, <1>6, <2>2
  <2>3. CASE ~(w = u /\ Top.new)
      BY <1>7, <1>8, <2>1, <2>3 DEF LinksInv
  <2> QED
      BY <2>2, <2>3
<1>14. \A w \in Urls : [url |-> w, crawled |-> TRUE] \in toTransfer' => w \in crawled'
    BY <1>2, <1>3 DEF LinksInv, ToTransfer
<1> QED
    BY <1>2, <1>9, <1>10, <1>11, <1>12, <1>13, <1>14 DEF LinksInv

LEMMA MatchAgainLinks ==
    ASSUME Core, LinksInv, MatchAgain PROVE LinksInv'
<1> DEFINE L == Len(analyses)
<1>1. TypeOK
    BY DEF Core
<1>2. PICK r \in SUBSET Urls :
        /\ analyses # <<>>
        /\ r = Top.rest \/ (r = {} /\ Top.url \in LinkFirst /\ Top.rest = Web[Top.url])
        /\ Len(analyses') = L /\ L \in Nat \ {0}
        /\ GoesOn(Top, analyses'[L], r)
        /\ \A i \in 1 .. L : i # L => analyses'[i] = analyses[i]
    BY <1>1, MatchAgainFrames
<1>3. crawled' = crawled /\ links' = links /\ toTransfer' = toTransfer
    BY DEF MatchAgain, collections
<1>4. L \in 1 .. L /\ Top = analyses[L]
    BY <1>2 DEF Top
<1>5. \A i \in 1 .. L : /\ analyses'[i].url = analyses[i].url
                        /\ analyses'[i].new = analyses[i].new
                        /\ analyses'[i].rest \subseteq analyses[i].rest
    BY <1>2, <1>4 DEF GoesOn
<1>6. ASSUME NEW i \in 1 .. L, analyses'[i].new
      PROVE  Found(analyses'[i], links[analyses'[i].url])
  <2>1. Found(analyses[i], links[analyses[i].url])
      BY <1>5, <1>6 DEF LinksInv
  <2>2. CASE i = L
      BY <1>2, <1>4, <2>1, <2>2 DEF Found, GoesOn
  <2>3. CASE i # L
      BY <1>2, <2>1, <2>3
  <2> QED
      BY <2>2, <2>3
<1>7. \A i \in 1 .. L : /\ analyses'[i].url \in crawled
                        /\ analyses'[i].rest \subseteq Web[analyses'[i].url]
    BY <1>5 DEF LinksInv
<1>8. \A i, j \in 1 .. L :
          analyses'[i].new /\ analyses'[j].new /\ analyses'[i].url = analyses'[j].url => i = j
    BY <1>5 DEF LinksInv
<1>9. \A u \in crawled :
         \/ Complete(u, links[u])
         \/ \E i \in 1 .. L : analyses'[i].url = u /\ analyses'[i].new
    BY <1>5 DEF LinksInv
<1> QED
    BY <1>2, <1>3, <1>6, <1>7, <1>8, <1>9 DEF LinksInv

LEMMA AnalysisEndsLinks ==
    ASSUME Core, LinksInv, AnalysisEnds PROVE LinksInv'
<1> DEFINE L == Len(analyses)
<1>1. TypeOK
    BY DEF Core
<1>2. /\ Top.rest = {} /\ L \in Nat \ {0} /\ Len(analyses') = L - 1
      /\ \A i \in 1 .. L - 1 : analyses'[i] = analyses[i]
    BY <1>1, AnalysisEndsFrames
<1>3. crawled' = crawled /\ links' = links /\ toTransfer' = toTransfer
    BY DEF AnalysisEnds, collections
<1>4. /\ L \in 1 .. L /\ Top = analyses[L]
      /\ \A i \in 1 .. L - 1 : i \in 1 .. L
      /\ \A i \in 1 .. L : i \in 1 .. L - 1 \/ i = L
    BY <1>2 DEF Top
<1>5. ASSUME NEW u \in crawled
      PROVE  \/ Complete(u, links[u])
             \/ \E i \in 1 .. L - 1 : analyses'[i].url = u /\ analyses'[i].new
  <2>1. CASE Top.url = u /\ Top.new
    <3>1. Found(Top, links[u])
        BY <1>4, <2>1 DEF LinksInv
    <3> QED
        BY <1>2, <2>1, <3>1 DEF Found, Complete
  <2>2. CASE ~(Top.url = u /\ Top.new)
    <3>1. \/ Complete(u, links[u])
          \/ \E i \in 1 .. L : analyses[i].url = u /\ analyses[i].new
        BY DEF LinksInv
    <3> QED
        BY <1>2, <1>4, <2>2, <3>1
  <2> QED
      BY <2>1, <2>2
<1>6. \A i \in 1 .. L - 1 : /\ analyses'[i].url \in crawled
                            /\ analyses'[i].rest \subseteq Web[analyses'[i].url]
                            /\ analyses'[i].new => Found(analyses'[i], links[analyses'[i].url])
    BY <1>2, <1>4 DEF LinksInv
<1>7. \A i, j \in 1 .. L - 1 :
          analyses'[i].new /\ analyses'[j].new /\ analyses'[i].url = analyses'[j].url => i = j
    BY <1>2, <1>4 DEF LinksInv
<1> QED
    BY <1>2, <1>3, <1>5, <1>6, <1>7 DEF LinksInv

LEMMA LinksStep == Core /\ LinksInv /\ [Next]_vars => LinksInv'
<1> SUFFICES ASSUME Core, LinksInv, [Next]_vars PROVE LinksInv'
    OBVIOUS
<1>1. CASE \/ ClientConnected \/ ClientDisconnected \/ CrawlAllDone \/ PoolAllDone
           \/ \E u \in Seeds : SeedUrlReceived(u)
           \/ \E t \in Threads : Redirect(t) \/ FollowRedirect(t) \/ DownloadFails(t)
           \/ UNCHANGED vars
  <2>1. UNCHANGED <<crawled, links, analyses>> /\ toTransfer' \subseteq toTransfer
      BY <1>1 DEF ClientConnected, ClientDisconnected, CrawlAllDone, PoolAllDone, EmptyPool,
                  SeedUrlReceived, Redirect, FollowRedirect, DownloadFails, vars, collections
  <2> QED
      BY <2>1, OtherLinks
<1>2. CASE \E t \in Threads : DownloadSucceeds(t)
    BY <1>2, DownloadSucceedsLinks
<1>3. CASE AnalyzeLink
    BY <1>3, AnalyzeLinkLinks
<1>4. CASE MatchAgain
    BY <1>4, MatchAgainLinks
<1>5. CASE AnalysisEnds
    BY <1>5, AnalysisEndsLinks
<1> QED
    BY <1>1, <1>2, <1>3, <1>4, <1>5 DEF Next

LEMMA LinksInit == Init => LinksInv
<1> SUFFICES ASSUME Init PROVE LinksInv
    OBVIOUS
<1>1. Len(analyses) = 0 /\ crawled = {} /\ toTransfer = {}
    BY EmptySeq DEF Init, FreshCrawl, EmptyPool
<1> QED
    BY <1>1 DEF Init, LinksInv

-----------------------------------------------------------------------------
(* The theorems.                                                            *)

THEOREM Inductive == Spec => []IInv
<1>1. Init => IInv
    BY CoreInit, LinksInit DEF IInv, Core
<1>2. IInv /\ [Next]_vars => IInv'
    BY CoreStep, LinksStep DEF IInv, Core
<1> QED
    BY <1>1, <1>2, PTL DEF Spec

\* The state keeps its type: the requests are Urls, each slot has a phase and
\* the analyses in progress are frames of the web.
THEOREM CrawlerTypes == Spec => []TypeOK
<1>1. IInv => TypeOK
    BY DEF IInv
<1> QED
    BY <1>1, Inductive, PTL

LEMMA WorkCounts ==
    ASSUME WorkInv(net, inQueue), NEW u \in Urls
    PROVE  InWork(u) = IF u \in inQueue THEN 1 ELSE 0
<1> DEFINE A == {i \in DOMAIN net.pending : net.pending[i] = u}
           B == {t \in Threads : /\ net.slots[t].url = u
                                 /\ net.slots[t].phase \in {"loading", "redirecting"}}
<1>1. InWork(u) = Cardinality(A) + Cardinality(B)
    BY DEF InWork
<1>2. Cardinality({}) = 0 /\ \A x : Cardinality({x}) = 1
    BY FS_EmptySet, FS_Singleton
<1>3. \A t \in B : Working(net.slots[t]) /\ net.slots[t].url = u
    BY DEF Working
<1>4. \A i \in A, t \in B : FALSE
    BY <1>3 DEF WorkInv
<1>5. (\E i \in A : TRUE) => \E i : A = {i}
    BY DEF WorkInv
<1>6. (\E t \in B : TRUE) => \E t : B = {t}
  <2>1. \A s, t \in B : s = t
      BY <1>3 DEF WorkInv
  <2> HIDE DEF B
  <2> QED
      BY <2>1
<1>7. u \in inQueue <=> A # {} \/ B # {}
  <2>1. ASSUME u \in inQueue PROVE A # {} \/ B # {}
      BY <2>1 DEF WorkInv, Working
  <2>2. ASSUME A # {} \/ B # {} PROVE u \in inQueue
    <3>1. CASE A # {}
        BY <3>1 DEF WorkInv
    <3>2. CASE B # {}
      <4>1. PICK t \in B : TRUE
          BY <3>2
      <4>2. t \in Threads /\ Working(net.slots[t]) /\ net.slots[t].url = u
          BY <1>3, <4>1
      <4> QED
          BY <4>2 DEF WorkInv
    <3> QED
        BY <2>2, <3>1, <3>2
  <2> QED
      BY <2>1, <2>2
<1> HIDE DEF A, B
<1>8. CASE A # {}
  <2>1. B = {} /\ Cardinality(A) = 1
      BY <1>2, <1>4, <1>5, <1>8
  <2> QED
      BY <1>1, <1>2, <1>7, <1>8, <2>1
<1>9. CASE A = {} /\ B # {}
  <2>1. Cardinality(B) = 1
      BY <1>2, <1>6, <1>9
  <2> QED
      BY <1>1, <1>2, <1>7, <1>9, <2>1
<1>10. CASE A = {} /\ B = {}
    BY <1>1, <1>2, <1>7, <1>10
<1> QED
    BY <1>8, <1>9, <1>10

\* Each queued Url waits or is downloaded exactly once, and nothing else is,
\* whatever is added inside an analysis, redirected, retried or disconnected.
THEOREM QueueIsWork == Spec => []QueueMatchesWork
<1>1. IInv => QueueMatchesWork
    BY WorkCounts DEF IInv, NetInv, QueueMatchesWork
<1> QED
    BY <1>1, Inductive, PTL

\* No request waits beside a free slot of a connected client.
THEOREM SlotsAreUsed == Spec => []NoSlotWasted
<1>1. IInv => NoSlotWasted
    BY DEF IInv, NetInv
<1> QED
    BY <1>1, Inductive, PTL

\* A crawling client has something to do, or its end is on the way.
THEOREM CrawlIsAlive == Spec => []CrawlHasWork
<1>1. IInv => CrawlHasWork
    BY DEF IInv, NetInv
<1> QED
    BY <1>1, Inductive, PTL

\* A page is reported with its links, however many analyses overtook its own.
THEOREM ReportsComplete == Spec => []ReportsAreComplete
<1>1. IInv => ReportsAreComplete
  <2> SUFFICES ASSUME IInv, NEW u \in Urls, [url |-> u, crawled |-> TRUE] \in toTransfer
               PROVE  \/ links[u] = Web[u]
                      \/ u \in LinkFirst /\ links[u] = {}
                      \/ \E i \in DOMAIN analyses : analyses[i].url = u /\ analyses[i].new
      BY DEF ReportsAreComplete
  <2>1. DOMAIN analyses = 1 .. Len(analyses)
      BY FrameFacts DEF IInv
  <2>2. u \in crawled
      BY DEF IInv, LinksInv
  <2> QED
      BY <2>1, <2>2 DEF IInv, LinksInv, Complete
<1> QED
    BY <1>1, Inductive, PTL

\* A client becomes idle, or stops waiting for an answer, in the steps the
\* property names only.
THEOREM IdleWaits == Spec => IdleIsWaiting
<1> DEFINE A == client' = "Idle" /\ asked' = 0 =>
                    /\ client = "Idle"
                    /\ asked = 0 \/ \E u \in inQueue : SeedUrlReceived(u)
<1>1. IInv /\ [Next]_vars => [A]_vars
  <2> SUFFICES ASSUME IInv, Next, client' = "Idle", asked' = 0
               PROVE  /\ client = "Idle"
                      /\ asked = 0 \/ \E u \in inQueue : SeedUrlReceived(u)
      OBVIOUS
  <2>1. Core /\ NetOK /\ asked \in Nat
      BY CoreFacts DEF IInv, Core
  <2>2. ~ClientConnected
    <3> SUFFICES ASSUME ClientConnected PROVE FALSE
        OBVIOUS
    <3>1. BecomeIdle(net) /\ inQueue' = inQueue
        BY DEF ClientConnected, collections
    <3> QED
        BY <2>1, <3>1, BecomeIdleFacts
  <2>3. ~ClientDisconnected
      BY DEF ClientDisconnected, SetState
  <2>4. ASSUME NEW u \in Seeds, SeedUrlReceived(u)
        PROVE  client = "Idle" /\ u \in inQueue
    <3>1. Enqueue(u)
        BY <2>4 DEF SeedUrlReceived
    <3> QED
        BY <3>1 DEF Enqueue, BecomeCrawl, SetState
  <2>5. ASSUME AnalyzeLink PROVE client = "Idle" /\ asked = 0
    <3>1. asked' = asked /\ (client' = client \/ \E v \in Top.rest : Enqueue(v))
        BY <2>5 DEF AnalyzeLink
    <3> QED
        BY <3>1 DEF Enqueue, BecomeCrawl, SetState
  <2>6. ASSUME CrawlAllDone PROVE client = "Idle" /\ asked = 0
    <3>1. client = "Idle"
        BY <2>1, <2>6, CrawlAllDoneCore
    <3>2. asked' = asked
        BY <2>6, <3>1 DEF CrawlAllDone, Changes, BecomeCrawl, SetState
    <3> QED
        BY <3>1, <3>2
  <2>7. ASSUME \/ \E t \in Threads : \/ Redirect(t) \/ FollowRedirect(t)
                                     \/ DownloadFails(t) \/ DownloadSucceeds(t)
               \/ MatchAgain \/ AnalysisEnds \/ PoolAllDone
        PROVE  client = "Idle" /\ asked = 0
      BY <2>7 DEF Redirect, FollowRedirect, DownloadFails, DownloadSucceeds, MatchAgain,
                  AnalysisEnds, PoolAllDone
  <2> QED
      BY <2>2, <2>3, <2>4, <2>5, <2>6, <2>7 DEF Next
<1> QED
    BY <1>1, Inductive, PTL DEF Spec, IdleIsWaiting
=============================================================================
