------------------------- MODULE UrlDispatchProofs -------------------------
(***************************************************************************)
(* Proofs about UrlDispatch, for every number of clients and of Urls.      *)
(*                                                                         *)
(* The argument is about the queue of signals of a client: its             *)
(* disconnection is the last signal of its peer, so no request is handled  *)
(* once the Urls in progress have gone back to the queue, and the requests *)
(* in it, counted, with the answers make up those the client has made.     *)
(***************************************************************************)
EXTENDS UrlDispatch, FiniteSetTheorems, FunctionTheorems, SequenceTheorems, TLAPS

USE DEF TakeOne

Quiet(s)    == \A i \in 1 .. Len(s) : s[i] # Unconnected
Requests(s) == {i \in 1 .. Len(s) : s[i] = Request}
Farewell(s) == /\ Len(s) > 0
               /\ s[Len(s)] = Unconnected
               /\ \A i \in 1 .. Len(s) - 1 : s[i] # Unconnected

\* The queue of a client in each phase of its connection.
Phased(c) ==
    /\ session[c] = "open" => Quiet(events[c])
    /\ session[c] = "lost" => Farewell(events[c])
    /\ session[c] \in {"over", "none"} => events[c] = <<>>

\* Requests and answers of a client.
Answered(c) ==
    /\ session[c] # "open" => answers[c] = <<>> /\ asked[c] = 0
    /\ session[c] = "open" =>
          Cardinality(Requests(events[c])) + Len(answers[c]) = asked[c]

ChannelInv == \A c \in Clients : Phased(c) /\ Answered(c)

IInv == TypeOK /\ ChannelInv /\ GivenUrlsHeld /\ LinksSound

-----------------------------------------------------------------------------
(* Signals and sequences of signals. *)

LEMMA Kinds ==
    /\ Request \in Signals
    /\ Unconnected \in Signals
    /\ Request # Unconnected
    /\ Unconnected.type # "dataNodes" /\ Request.type # "dataNodes"
    /\ Unconnected.type # "linkNodes" /\ Request.type # "linkNodes"
BY DEF Signals, Request, Unconnected

LEMMA NodesKind ==
    ASSUME NEW flags \in NodeFlags
    PROVE  Nodes(flags) \in Signals /\ Nodes(flags) # Request
           /\ Nodes(flags) # Unconnected
<1>1. Nodes(flags).type = "dataNodes"
    BY DEF Nodes
<1>2. Nodes(flags) \in Signals
    BY DEF Signals
<1> QED
    BY <1>1, <1>2, Kinds

LEMMA LinksKind ==
    ASSUME NEW p \in Urls, NEW kids \in SUBSET Urls
    PROVE  Links(p, kids) \in Signals /\ Links(p, kids) # Request
           /\ Links(p, kids) # Unconnected
<1>1. Links(p, kids).type = "linkNodes"
    BY DEF Links
<1>2. Links(p, kids) \in Signals
    BY DEF Signals
<1> QED
    BY <1>1, <1>2, Kinds

LEMMA NodesContent ==
    ASSUME NEW e \in Signals, e.type = "dataNodes"
    PROVE  \E S \in SUBSET Urls : e.nodes \in [S -> BOOLEAN]
<1>1. PICK flags \in NodeFlags : e = Nodes(flags)
  <2>1. ASSUME NEW p \in Urls, NEW kids \in SUBSET Urls, e = Links(p, kids)
        PROVE  FALSE
      BY <2>1 DEF Links
  <2> QED
      BY <2>1, Kinds DEF Signals
<1>2. e.nodes = flags
    BY <1>1 DEF Nodes
<1> QED
    BY <1>2 DEF NodeFlags

LEMMA LinksContent ==
    ASSUME NEW e \in Signals, e.type = "linkNodes"
    PROVE  e.parent \in Urls /\ e.children \in SUBSET Urls
<1>1. PICK p \in Urls, kids \in SUBSET Urls : e = Links(p, kids)
  <2>1. ASSUME NEW flags \in NodeFlags, e = Nodes(flags)
        PROVE  FALSE
      BY <2>1 DEF Nodes
  <2> QED
      BY <2>1, Kinds DEF Signals
<1> QED
    BY <1>1 DEF Links

LEMMA TailFacts ==
    ASSUME NEW S, NEW s \in Seq(S), s # <<>>
    PROVE  /\ Head(s) = s[1] /\ Head(s) \in S
           /\ Len(s) \in Nat /\ Len(s) > 0
           /\ Tail(s) \in Seq(S)
           /\ Len(Tail(s)) = Len(s) - 1
           /\ Len(s) = 1 => Tail(s) = <<>>
           /\ \A i \in 1 .. Len(s) - 1 : Tail(s)[i] = s[i + 1]
<1>1. /\ Head(s) = s[1] /\ Head(s) \in S
      /\ Len(s) \in Nat /\ Len(s) > 0
      /\ Tail(s) \in Seq(S) /\ Len(Tail(s)) = Len(s) - 1
      /\ \A i \in 1 .. Len(s) - 1 : Tail(s)[i] = s[i + 1]
    OBVIOUS
<1>2. Len(Tail(s)) = 0 <=> Tail(s) = <<>>
    BY <1>1, EmptySeq
<1> QED
    BY <1>1, <1>2

LEMMA ConcatFacts ==
    ASSUME NEW S, NEW s \in Seq(S), NEW t \in Seq(S)
    PROVE  /\ s \o t \in Seq(S)
           /\ Len(s) \in Nat /\ Len(t) \in Nat
           /\ Len(s \o t) = Len(s) + Len(t)
           /\ \A i \in 1 .. Len(s) : (s \o t)[i] = s[i]
           /\ \A i \in 1 .. Len(t) : (s \o t)[Len(s) + i] = t[i]
           /\ \A i \in 1 .. Len(s \o t) :
                 i <= Len(s) \/ (i - Len(s) \in 1 .. Len(t)
                                 /\ (s \o t)[i] = t[i - Len(s)])
OBVIOUS

-----------------------------------------------------------------------------
(* What the client sends and what the main thread takes. *)

\* What a flush sends: nodes and links.
Batch(es) ==
    /\ es \in Seq(Signals)
    /\ \A i \in 1 .. Len(es) : es[i] # Request /\ es[i] # Unconnected

LEMMA QuietSent ==
    ASSUME NEW s \in Seq(Signals), NEW es \in Seq(Signals), Quiet(s), Quiet(es)
    PROVE  Quiet(s \o es)
<1> DEFINE t == s \o es
<1>1. \A i \in 1 .. Len(t) :
         \/ i \in 1 .. Len(s) /\ t[i] = s[i]
         \/ i - Len(s) \in 1 .. Len(es) /\ t[i] = es[i - Len(s)]
    BY ConcatFacts
<1> HIDE DEF t
<1>2. Quiet(t)
    BY <1>1 DEF Quiet
<1> QED
    BY <1>2 DEF t

-----------------------------------------------------------------------------
(* Counting the requests of a queue. *)

LEMMA RequestsFinite ==
    ASSUME NEW s \in Seq(Signals)
    PROVE  IsFiniteSet(Requests(s)) /\ Cardinality(Requests(s)) \in Nat
<1>1. Len(s) \in Nat /\ Requests(s) \subseteq 1 .. Len(s)
    BY DEF Requests
<1>2. IsFiniteSet(Requests(s))
  <2>1. \A a, b \in Int : IsFiniteSet(a .. b)
      BY FS_Interval
  <2>2. IsFiniteSet(1 .. Len(s))
      BY <1>1, <2>1
  <2> QED
      BY <1>1, <2>2, FS_Subset
<1> QED
    BY <1>2, FS_CardinalityType

LEMMA NoRequests == Cardinality(Requests(<<>>)) = 0
<1>1. Len(<<>>) = 0
    OBVIOUS
<1>2. Requests(<<>>) = {}
    BY <1>1 DEF Requests
<1> QED
    BY <1>2, FS_EmptySet

\* Signals that are no requests add none.
LEMMA RequestsAfterBatch ==
    ASSUME NEW s \in Seq(Signals), NEW es \in Seq(Signals),
           \A i \in 1 .. Len(es) : es[i] # Request
    PROVE  Requests(s \o es) = Requests(s)
<1> DEFINE t == s \o es
<1>1. /\ Len(s) \in Nat /\ Len(es) \in Nat /\ Len(t) = Len(s) + Len(es)
      /\ \A i \in 1 .. Len(s) : t[i] = s[i]
      /\ \A i \in 1 .. Len(t) :
            i <= Len(s) \/ (i - Len(s) \in 1 .. Len(es) /\ t[i] = es[i - Len(s)])
    BY ConcatFacts
<1> HIDE DEF t
<1>2. ASSUME NEW i \in Requests(t) PROVE i \in Requests(s)
  <2>1. i \in 1 .. Len(t) /\ t[i] = Request
      BY <1>2 DEF Requests
  <2>2. i <= Len(s)
      BY <1>1, <2>1
  <2> QED
      BY <1>1, <2>1, <2>2 DEF Requests
<1>3. ASSUME NEW i \in Requests(s) PROVE i \in Requests(t)
    BY <1>1, <1>3 DEF Requests
<1> QED
    BY <1>2, <1>3 DEF t

LEMMA RequestsAfterOne ==
    ASSUME NEW s \in Seq(Signals)
    PROVE  Cardinality(Requests(s \o <<Request>>)) = Cardinality(Requests(s)) + 1
<1> DEFINE t == s \o <<Request>>
           n == Len(s)
<1>0. s \in Seq(Signals) /\ <<Request>> \in Seq(Signals) /\ Len(<<Request>>) = 1
    BY Kinds
<1>1. /\ n \in Nat /\ Len(t) = n + 1
      /\ \A i \in 1 .. n : t[i] = s[i]
      /\ t[n + 1] = Request
    BY <1>0
<1> HIDE DEF t, n
<1>2. n + 1 \notin Requests(s)
    BY <1>1 DEF Requests, n
<1>3. Requests(t) = Requests(s) \cup {n + 1}
  <2>1. ASSUME NEW i PROVE i \in Requests(t) <=> i \in Requests(s) \cup {n + 1}
    <3>1. i \in 1 .. n + 1 <=> i \in 1 .. n \/ i = n + 1
        BY <1>1
    <3> QED
        BY <1>1, <3>1 DEF Requests, n
  <2> QED
      BY <2>1
<1>4. Cardinality(Requests(s) \cup {n + 1}) = Cardinality(Requests(s)) + 1
    BY <1>2, RequestsFinite, FS_AddElement
<1> QED
    BY <1>3, <1>4 DEF t

\* Taking the head of a queue takes its request, if it is one.
LEMMA RequestsOfTail ==
    ASSUME NEW s \in Seq(Signals), s # <<>>
    PROVE  Cardinality(Requests(Tail(s))) =
              Cardinality(Requests(s)) - (IF Head(s) = Request THEN 1 ELSE 0)
<1> DEFINE t == Tail(s)
           n == Len(s)
           P == Requests(s) \ {1}
           f == [i \in Requests(t) |-> i + 1]
<1>1. /\ Head(s) = s[1] /\ n \in Nat /\ n > 0
      /\ t \in Seq(Signals) /\ Len(t) = n - 1
      /\ \A i \in 1 .. n - 1 : t[i] = s[i + 1]
    BY TailFacts
<1> HIDE DEF t, n
<1>2. f \in Bijection(Requests(t), P)
  <2>1. \A i \in Requests(t) : i \in 1 .. n - 1 /\ f[i] = i + 1 /\ f[i] \in P
      BY <1>1 DEF Requests, n
  <2>2. \A j \in P : j - 1 \in Requests(t) /\ f[j - 1] = j
      BY <1>1 DEF Requests, n
  <2>3. f \in [Requests(t) -> P]
      BY <2>1
  <2>4. \A i, j \in Requests(t) : f[i] = f[j] => i = j
      BY <1>1, <2>1
  <2> HIDE DEF f, P
  <2> QED
      BY <2>2, <2>3, <2>4, Fun_IsBij
<1>3. /\ IsFiniteSet(Requests(s)) /\ IsFiniteSet(Requests(t))
      /\ Cardinality(Requests(s)) \in Nat
    BY <1>1, RequestsFinite
<1>4. Cardinality(P) = Cardinality(Requests(t))
  <2>1. ExistsBijection(Requests(t), P)
      BY <1>2 DEF ExistsBijection
  <2> HIDE DEF P
  <2> QED
      BY <1>3, <2>1, FS_Bijection
<1>5. 1 \in Requests(s) <=> Head(s) = Request
    BY <1>1 DEF Requests, n
<1>6. Cardinality(P) = IF 1 \in Requests(s) THEN Cardinality(Requests(s)) - 1
                       ELSE Cardinality(Requests(s))
    BY <1>3, FS_RemoveElement
<1> QED
    BY <1>3, <1>4, <1>5, <1>6 DEF t

LEMMA FlushBatch ==
    ASSUME TypeOK, NEW c \in Clients, NEW new \in SUBSET Urls, NEW seen \in Analyses(new),
           NEW found \in SUBSET Urls, Flush(c, seen, found)
    PROVE  \E es : Batch(es) /\ Send(c, es)
<1>0. seen \in [new -> SUBSET Urls] /\ DOMAIN seen = new
    BY DEF Analyses
<1> DEFINE S == {p \in new : seen[p] # {}}
           flags == [u \in new \cup found |-> u \in new]
<1>1. PICK s \in Orders(S) :
        Send(c, <<Nodes(flags)>> \o [i \in DOMAIN s |-> Links(s[i], seen[s[i]])])
    BY <1>0 DEF Flush
<1> DEFINE ls == [i \in DOMAIN s |-> Links(s[i], seen[s[i]])]
           hd == <<Nodes(flags)>>
           es == hd \o ls
<1>2. IsFiniteSet(S)
    BY DispatchAssumption, FS_Subset
<1>3. Cardinality(S) \in Nat /\ s \in [1 .. Cardinality(S) -> S]
    BY <1>2, FS_CardinalityType DEF Orders
<1>4. \A i \in DOMAIN s : s[i] \in Urls /\ seen[s[i]] \in SUBSET Urls
    BY <1>0, <1>3
<1>5. ls \in Seq(Signals) /\ \A i \in 1 .. Len(ls) : ls[i] # Request /\ ls[i] # Unconnected
  <2>1. /\ ls = [i \in 1 .. Cardinality(S) |-> Links(s[i], seen[s[i]])]
        /\ \A i \in 1 .. Cardinality(S) :
              Links(s[i], seen[s[i]]) \in Signals
              /\ Links(s[i], seen[s[i]]) # Request
              /\ Links(s[i], seen[s[i]]) # Unconnected
      BY <1>3, <1>4, LinksKind
  <2> HIDE DEF S
  <2>2. ls \in Seq(Signals) /\ Len(ls) = Cardinality(S)
      BY <1>3, <2>1
  <2> QED
      BY <1>3, <2>1, <2>2
<1>6. flags \in NodeFlags
  <2>1. flags \in [new \cup found -> BOOLEAN]
      OBVIOUS
  <2>2. new \cup found \in SUBSET Urls
      OBVIOUS
  <2> HIDE DEF flags
  <2> QED
      BY <2>1, <2>2 DEF NodeFlags
<1>7. /\ hd \in Seq(Signals) /\ Len(hd) = 1
      /\ hd[1] # Request /\ hd[1] # Unconnected
  <2>1. Nodes(flags) \in Signals /\ Nodes(flags) # Request
        /\ Nodes(flags) # Unconnected
      BY <1>6, NodesKind
  <2> HIDE DEF flags
  <2> QED
      BY <2>1
<1> HIDE DEF hd, ls
<1>8. /\ es \in Seq(Signals)
      /\ Len(ls) \in Nat /\ Len(es) = 1 + Len(ls)
      /\ \A i \in 1 .. Len(hd) : es[i] = hd[i]
      /\ \A i \in 1 .. Len(es) : i <= 1 \/ (i - 1 \in 1 .. Len(ls) /\ es[i] = ls[i - 1])
  <2>1. /\ es \in Seq(Signals) /\ Len(ls) \in Nat /\ Len(es) = Len(hd) + Len(ls)
        /\ \A i \in 1 .. Len(hd) : es[i] = hd[i]
        /\ \A i \in 1 .. Len(es) :
              i <= Len(hd) \/ (i - Len(hd) \in 1 .. Len(ls) /\ es[i] = ls[i - Len(hd)])
    <3>1. PICK a \in Seq(Signals) : a = hd
        BY <1>7
    <3>2. PICK b \in Seq(Signals) : b = ls
        BY <1>5
    <3>3. /\ a \o b \in Seq(Signals) /\ Len(b) \in Nat /\ Len(a \o b) = Len(a) + Len(b)
          /\ \A i \in 1 .. Len(a) : (a \o b)[i] = a[i]
          /\ \A i \in 1 .. Len(a \o b) :
                i <= Len(a) \/ (i - Len(a) \in 1 .. Len(b) /\ (a \o b)[i] = b[i - Len(a)])
        BY ConcatFacts
    <3> QED
        BY <3>1, <3>2, <3>3
  <2> HIDE DEF es
  <2> QED
      BY <1>7, <2>1
<1> HIDE DEF es
<1>9. Batch(es)
  <2>1. ASSUME NEW i \in 1 .. Len(es)
        PROVE  es[i] # Request /\ es[i] # Unconnected
    <3>1. CASE i - 1 \in 1 .. Len(ls) /\ es[i] = ls[i - 1]
        BY <1>5, <3>1
    <3>2. CASE i <= 1
      <4>1. i = 1 /\ i \in 1 .. Len(hd)
          BY <1>7, <1>8, <3>2
      <4> QED
          BY <1>7, <1>8, <4>1
    <3> QED
        BY <1>8, <3>1, <3>2
  <2> QED
      BY <1>8, <2>1 DEF Batch
<1> QED
  <2>1. Send(c, es)
      BY <1>1 DEF es, hd, ls
  <2> QED
      BY <1>9, <2>1

LEMMA RequestSent == <<Request>> \in Seq(Signals) /\ Quiet(<<Request>>)
BY Kinds DEF Quiet

LEMMA Sent ==
    ASSUME TypeOK, NEW c \in Clients, NEW es \in Seq(Signals), Send(c, es)
    PROVE  /\ events' \in [Clients -> Seq(Signals)]
           /\ events'[c] = events[c] \o es
           /\ \A d \in Clients \ {c} : events'[d] = events[d]
<1>1. events[c] \in Seq(Signals)
    BY DEF TypeOK
<1>2. events[c] \o es \in Seq(Signals)
    BY <1>1, ConcatFacts
<1> QED
    BY <1>2 DEF TypeOK, Send

LEMMA Delivered ==
    ASSUME TypeOK, NEW c \in Clients, Deliver(c)
    PROVE  /\ events' \in [Clients -> Seq(Signals)]
           /\ events[c] \in Seq(Signals) /\ events[c] # <<>>
           /\ Head(events[c]) \in Signals
           /\ events'[c] = Tail(events[c])
           /\ \A d \in Clients \ {c} : events'[d] = events[d]
<1>1. events[c] \in Seq(Signals) /\ events[c] # <<>>
    BY DEF TypeOK, Deliver
<1>2. Head(events[c]) \in Signals /\ Tail(events[c]) \in Seq(Signals)
    BY <1>1, TailFacts
<1> QED
    BY <1>1, <1>2 DEF TypeOK, Deliver

LEMMA AnswerGiven ==
    ASSUME TypeOK, NEW c \in Clients, NEW u \in Urls \cup {NoUrl}, Answer(c, u)
    PROVE  /\ answers' \in [Clients -> Seq(Urls \cup {NoUrl})]
           /\ session[c] = "open" => answers'[c] = Append(answers[c], u)
           /\ session[c] # "open" => answers'[c] = answers[c]
           /\ \A d \in Clients \ {c} : answers'[d] = answers[d]
<1>1. answers[c] \in Seq(Urls \cup {NoUrl})
    BY DEF TypeOK
<1>2. Append(answers[c], u) \in Seq(Urls \cup {NoUrl})
    BY <1>1
<1> QED
    BY <1>2 DEF TypeOK, Answer

\* What a client sends when its pool is flushed.
LEMMA Reports ==
    ASSUME TypeOK, NEW c \in Clients, Report(c)
    PROVE  /\ session[c] = "open" => \E es : Batch(es) /\ Send(c, es)
           /\ session[c] # "open" => events' = events
           /\ given' \in [Clients -> SUBSET Urls]
           /\ given'[c] \subseteq given[c] /\ \A d \in Clients \ {c} : given'[d] = given[d]
           /\ read' \in [Clients -> SUBSET Urls] /\ neighbors' \in [Clients -> SUBSET Urls]
<1>a. PICK new \in SUBSET (Urls \ read[c]) :
        \E seen \in Analyses(new) : \E found \in SUBSET Neighbors(c, seen) :
        /\ IF session[c] = "open" THEN Flush(c, seen, found) ELSE UNCHANGED events
        /\ given' = [given EXCEPT ![c] = @ \ (new \cup found)]
        /\ read' = [read EXCEPT ![c] = @ \cup new]
        /\ neighbors' = [neighbors EXCEPT ![c] = (@ \ new) \cup found]
    BY DEF Report
<1>b. PICK seen \in Analyses(new) :
        \E found \in SUBSET Neighbors(c, seen) :
        /\ IF session[c] = "open" THEN Flush(c, seen, found) ELSE UNCHANGED events
        /\ given' = [given EXCEPT ![c] = @ \ (new \cup found)]
        /\ read' = [read EXCEPT ![c] = @ \cup new]
        /\ neighbors' = [neighbors EXCEPT ![c] = (@ \ new) \cup found]
    BY <1>a
<1>1. PICK found \in SUBSET Neighbors(c, seen) :
        /\ IF session[c] = "open" THEN Flush(c, seen, found) ELSE UNCHANGED events
        /\ given' = [given EXCEPT ![c] = @ \ (new \cup found)]
        /\ read' = [read EXCEPT ![c] = @ \cup new]
        /\ neighbors' = [neighbors EXCEPT ![c] = (@ \ new) \cup found]
    BY <1>b
<1>2. found \in SUBSET Urls
  <2>1. seen \in [new -> SUBSET Urls]
      BY DEF Analyses
  <2>2. Leads(c, seen) \in SUBSET Urls
      BY <2>1, DispatchAssumption DEF Leads, TypeOK
  <2> QED
      BY <2>2 DEF Neighbors
<1>3. new \in SUBSET Urls
    OBVIOUS
<1>4. session[c] = "open" => \E es : Batch(es) /\ Send(c, es)
    BY <1>1, <1>2, <1>3, FlushBatch
<1> QED
    BY <1>1, <1>2, <1>3, <1>4 DEF TypeOK

-----------------------------------------------------------------------------
(* Types. *)

LEMMA TypeInit == Init => TypeOK
BY DEF Init, TypeOK, Phases

LEMMA TypeClient ==
    ASSUME TypeOK, ChannelInv, NEW c \in Clients, Client(c)
    PROVE  TypeOK'
<1>1. CASE Connect(c)
    BY <1>1 DEF Connect, TypeOK, Phases, collections, memory
<1>2. CASE AskForUrl(c)
  <2>1. events' \in [Clients -> Seq(Signals)]
      BY <1>2, RequestSent, Sent DEF AskForUrl
  <2>2. asked' \in [Clients -> Nat]
      BY <1>2 DEF AskForUrl, TypeOK
  <2> QED
      BY <1>2, <2>1, <2>2 DEF AskForUrl, TypeOK, collections, memory
<1>3. CASE ReceiveAnswer(c)
  <2>1. answers[c] \in Seq(Urls \cup {NoUrl}) /\ answers[c] # <<>>
      BY <1>3 DEF ReceiveAnswer, TypeOK
  <2>2. /\ Head(answers[c]) \in Urls \cup {NoUrl}
        /\ Tail(answers[c]) \in Seq(Urls \cup {NoUrl})
        /\ Len(answers[c]) \in Nat /\ Len(answers[c]) > 0
      BY <2>1, TailFacts
  <2>3. asked' \in [Clients -> Nat]
    <3>1. asked[c] \in Nat /\ asked[c] > 0
      <4>1. asked[c] \in Nat /\ Cardinality(Requests(events[c])) \in Nat
          BY RequestsFinite DEF TypeOK
      <4>2. session[c] = "open" /\ Cardinality(Requests(events[c])) + Len(answers[c]) = asked[c]
          BY <2>1 DEF ChannelInv, Answered
      <4> QED
          BY <2>2, <4>1, <4>2
    <3> QED
        BY <1>3, <3>1 DEF ReceiveAnswer, TypeOK
  <2>4. given' \in [Clients -> SUBSET Urls] /\ neighbors' \in [Clients -> SUBSET Urls]
      BY <1>3, <2>2 DEF ReceiveAnswer, TypeOK
  <2> QED
      BY <1>3, <2>2, <2>3, <2>4 DEF ReceiveAnswer, TypeOK, collections, memory
<1>4. CASE Report(c)
  <2>1. events' \in [Clients -> Seq(Signals)]
    <3>1. CASE session[c] = "open"
      <4>1. PICK es : Batch(es) /\ Send(c, es)
          BY <1>4, <3>1, Reports
      <4> QED
          BY <4>1, Sent DEF Batch
    <3>2. CASE session[c] # "open"
        BY <1>4, <3>2, Reports DEF TypeOK
    <3> QED
        BY <3>1, <3>2
  <2> QED
      BY <1>4, <2>1, Reports DEF Report, TypeOK, collections
<1>5. CASE LoseConnection(c)
  <2>1. <<Unconnected>> \in Seq(Signals)
      BY Kinds
  <2>2. events' \in [Clients -> Seq(Signals)]
      BY <1>5, <2>1, Sent DEF LoseConnection
  <2>3. answers' \in [Clients -> Seq(Urls \cup {NoUrl})]
      BY <1>5 DEF LoseConnection, TypeOK
  <2> QED
      BY <1>5, <2>2, <2>3 DEF LoseConnection, TypeOK, collections, memory, Phases
<1> QED
    BY <1>1, <1>2, <1>3, <1>4, <1>5 DEF Client

LEMMA TypeMain ==
    ASSUME TypeOK, NEW c \in Clients, Main(c)
    PROVE  TypeOK'
<1>1. CASE OnSeedUrlRequest(c)
  <2>1. events' \in [Clients -> Seq(Signals)]
      BY <1>1, Delivered DEF OnSeedUrlRequest
  <2>2. CASE inQueue = {}
      BY <1>1, <2>1, <2>2, AnswerGiven DEF OnSeedUrlRequest, TypeOK, memory
  <2>3. CASE inQueue # {}
    <3>1. PICK u \in inQueue :
            /\ inQueue' = inQueue \ {u}
            /\ inProgress' = [inProgress EXCEPT ![c] = @ \cup {u}]
            /\ Answer(c, u)
        BY <1>1, <2>3 DEF OnSeedUrlRequest
    <3>2. u \in Urls
        BY DEF TypeOK
    <3> QED
        BY <1>1, <2>1, <3>1, <3>2, AnswerGiven DEF OnSeedUrlRequest, TypeOK, memory
  <2> QED
      BY <2>2, <2>3
<1>2. CASE OnDataNodes(c)
  <2>1. events' \in [Clients -> Seq(Signals)] /\ Head(events[c]) \in Signals
      BY <1>2, Delivered DEF OnDataNodes
  <2>2. DOMAIN Head(events[c]).nodes \subseteq Urls
      BY <1>2, <2>1, NodesContent DEF OnDataNodes
  <2> QED
      BY <1>2, <2>1, <2>2 DEF OnDataNodes, TypeOK, clientVars, memory
<1>3. CASE OnLinkNodes(c)
  <2>1. events' \in [Clients -> Seq(Signals)] /\ Head(events[c]) \in Signals
      BY <1>3, Delivered DEF OnLinkNodes
  <2>2. Head(events[c]).parent \in Urls
        /\ Head(events[c]).children \in SUBSET Urls
      BY <1>3, <2>1, LinksContent DEF OnLinkNodes
  <2>3. links' \subseteq Urls \X Urls
      BY <1>3, <2>2 DEF OnLinkNodes, TypeOK
  <2> QED
      BY <1>3, <2>1, <2>3 DEF OnLinkNodes, TypeOK, clientVars, memory
<1>4. CASE OnUnconnected(c)
  <2>1. events' \in [Clients -> Seq(Signals)]
      BY <1>4, Delivered DEF OnUnconnected
  <2> QED
      BY <1>4, <2>1 DEF OnUnconnected, TypeOK, clientVars, memory, Phases
<1>5. CASE OnFinished(c)
    BY <1>5 DEF OnFinished, TypeOK, clientVars, memory, collections, Phases
<1> QED
    BY <1>1, <1>2, <1>3, <1>4, <1>5 DEF Main

LEMMA TypeNext == TypeOK /\ ChannelInv /\ [Next]_vars => TypeOK'
<1> SUFFICES ASSUME TypeOK, ChannelInv, [Next]_vars
             PROVE  TypeOK'
    OBVIOUS
<1>1. CASE UNCHANGED vars
    BY <1>1 DEF TypeOK, vars, collections, clientVars, memory
<1>2. ASSUME NEW u \in Seeds, AddSeedUrl(u)
      PROVE  TypeOK'
    BY <1>2, DispatchAssumption DEF AddSeedUrl, TypeOK, clientVars, memory
<1> QED
    BY <1>1, <1>2, TypeClient, TypeMain DEF Next

-----------------------------------------------------------------------------
(* The queue of signals and the answers of a client. *)

\* A step that leaves client d alone keeps its invariants.
LEMMA Untouched ==
    ASSUME NEW d \in Clients, Phased(d), Answered(d),
           events'[d] = events[d], session'[d] = session[d],
           answers'[d] = answers[d], asked'[d] = asked[d]
    PROVE  Phased(d)' /\ Answered(d)'
BY DEF Phased, Answered

LEMMA EmptyQueue ==
    /\ <<>> \in Seq(Signals)
    /\ Quiet(<<>>)
BY DEF Quiet

\* Taking the head of a queue.
LEMMA TailPhases ==
    ASSUME NEW s \in Seq(Signals), s # <<>>
    PROVE  /\ Quiet(s) => Quiet(Tail(s)) /\ Head(s) # Unconnected
           /\ Farewell(s) /\ Head(s) # Unconnected => Farewell(Tail(s))
           /\ Farewell(s) /\ Head(s) = Unconnected => Tail(s) = <<>>
<1> DEFINE t == Tail(s)
           n == Len(s)
<1>1. /\ Head(s) = s[1] /\ n \in Nat /\ n > 0
      /\ t \in Seq(Signals) /\ Len(t) = n - 1
      /\ \A i \in 1 .. n - 1 : t[i] = s[i + 1]
      /\ n = 1 => t = <<>>
    BY TailFacts
<1> HIDE DEF t, n
<1>2. Quiet(s) => Quiet(t) /\ Head(s) # Unconnected
    BY <1>1 DEF Quiet, n
<1>3. Farewell(s) /\ Head(s) # Unconnected => Farewell(t)
  <2> SUFFICES ASSUME Farewell(s), Head(s) # Unconnected
               PROVE  Farewell(t)
      OBVIOUS
  <2>1. n > 1
      BY <1>1 DEF Farewell, n
  <2>2. Len(t) > 0 /\ t[Len(t)] = Unconnected
      BY <1>1, <2>1 DEF Farewell, n
  <2>3. \A i \in 1 .. Len(t) - 1 : t[i] # Unconnected
      BY <1>1, <2>1 DEF Farewell, n
  <2> QED
      BY <2>2, <2>3 DEF Farewell
<1>4. Farewell(s) /\ Head(s) = Unconnected => t = <<>>
    BY <1>1 DEF Farewell, n
<1> QED
    BY <1>2, <1>3, <1>4 DEF t

LEMMA ChannelClient ==
    ASSUME TypeOK, ChannelInv, NEW c \in Clients, Client(c)
    PROVE  ChannelInv'
<1>1. Phased(c) /\ Answered(c)
    BY DEF ChannelInv
<1>2. ASSUME NEW d \in Clients \ {c}
      PROVE  Phased(d)' /\ Answered(d)'
  <2>1. events'[d] = events[d]
    <3>1. \A es : Send(c, es) => events'[d] = events[d]
        BY DEF Send, TypeOK
    <3> QED
        BY <3>1, Reports DEF Client, Connect, AskForUrl, ReceiveAnswer, LoseConnection
  <2>2. /\ session'[d] = session[d] /\ answers'[d] = answers[d]
        /\ asked'[d] = asked[d]
      BY DEF Client, Connect, AskForUrl, ReceiveAnswer, Report,
             LoseConnection, TypeOK
  <2> QED
      BY <2>1, <2>2, Untouched DEF ChannelInv
<1>3. Phased(c)' /\ Answered(c)'
  <2>1. CASE Connect(c)
    <3>1. /\ session[c] = "none" /\ session'[c] = "open"
          /\ events' = events /\ answers' = answers /\ asked' = asked
        BY <2>1 DEF Connect, TypeOK
    <3> QED
        BY <1>1, <3>1, EmptyQueue, NoRequests DEF Phased, Answered
  <2>2. CASE AskForUrl(c)
    <3>1. /\ session[c] = "open" /\ session'[c] = "open" /\ answers' = answers
          /\ asked'[c] = asked[c] + 1
        BY <2>2 DEF AskForUrl, TypeOK
    <3>2. events'[c] = events[c] \o <<Request>> /\ events[c] \in Seq(Signals)
        BY <2>2, RequestSent, Sent DEF AskForUrl, TypeOK
    <3>3. Quiet(events'[c])
        BY <1>1, <3>1, <3>2, RequestSent, QuietSent DEF Phased
    <3>4. Cardinality(Requests(events'[c])) + Len(answers'[c]) = asked'[c]
      <4>1. Cardinality(Requests(events'[c])) = Cardinality(Requests(events[c])) + 1
          BY <3>2, RequestsAfterOne
      <4>2. Cardinality(Requests(events[c])) + Len(answers[c]) = asked[c]
          BY <1>1, <3>1 DEF Answered
      <4>3. Cardinality(Requests(events[c])) \in Nat /\ Len(answers[c]) \in Nat
          BY <3>2, RequestsFinite DEF TypeOK
      <4> QED
          BY <3>1, <4>1, <4>2, <4>3
    <3> QED
        BY <3>1, <3>3, <3>4 DEF Phased, Answered
  <2>3. CASE Report(c)
    <3>1. answers' = answers /\ asked' = asked /\ session' = session
        BY <2>3 DEF Report
    <3>2. CASE session[c] # "open"
        BY <1>1, <2>3, <3>1, <3>2, Reports DEF Phased, Answered
    <3>3. CASE session[c] = "open"
      <4>1. PICK es : Batch(es) /\ Send(c, es)
          BY <2>3, <3>3, Reports
      <4>2. events'[c] = events[c] \o es /\ events[c] \in Seq(Signals) /\ es \in Seq(Signals)
          BY <4>1, Sent DEF Batch, TypeOK
      <4>3. Quiet(events'[c])
          BY <1>1, <3>3, <4>1, <4>2, QuietSent DEF Phased, Batch, Quiet
      <4>4. Requests(events'[c]) = Requests(events[c])
          BY <4>1, <4>2, RequestsAfterBatch DEF Batch
      <4> QED
          BY <1>1, <3>1, <3>3, <4>3, <4>4 DEF Phased, Answered
    <3> QED
        BY <3>2, <3>3
  <2>4. CASE ReceiveAnswer(c)
    <3>1. /\ answers[c] # <<>> /\ answers'[c] = Tail(answers[c])
          /\ asked'[c] = asked[c] - 1 /\ events' = events /\ session' = session
        BY <2>4 DEF ReceiveAnswer, TypeOK
    <3>2. session[c] = "open" /\ Cardinality(Requests(events[c])) + Len(answers[c]) = asked[c]
        BY <1>1, <3>1 DEF Answered
    <3>3. Len(answers'[c]) = Len(answers[c]) - 1 /\ Len(answers[c]) \in Nat
      <4>1. answers[c] \in Seq(Urls \cup {NoUrl})
          BY DEF TypeOK
      <4> QED
          BY <3>1, <4>1, TailFacts
    <3>4. Cardinality(Requests(events[c])) \in Nat
        BY RequestsFinite DEF TypeOK
    <3>5. Cardinality(Requests(events[c])) + Len(answers'[c]) = asked'[c]
        BY <3>1, <3>2, <3>3, <3>4
    <3> QED
        BY <1>1, <3>1, <3>2, <3>5 DEF Phased, Answered
  <2>5. CASE LoseConnection(c)
    <3>1. /\ session[c] = "open" /\ session'[c] = "lost"
          /\ answers'[c] = <<>> /\ asked'[c] = 0
        BY <2>5 DEF LoseConnection, TypeOK
    <3>2. Farewell(events'[c])
      <4> DEFINE s == events[c]
                 t == s \o <<Unconnected>>
      <4>0. <<Unconnected>> \in Seq(Signals) /\ s \in Seq(Signals)
          BY Kinds DEF TypeOK
      <4>1. events'[c] = t
          BY <2>5, <4>0, Sent DEF LoseConnection
      <4>2. Quiet(s)
          BY <1>1, <3>1 DEF Phased
      <4>3. /\ Len(s) \in Nat /\ Len(t) = Len(s) + 1
            /\ t[Len(s) + 1] = Unconnected
            /\ \A i \in 1 .. Len(s) : t[i] = s[i]
          BY <4>0
      <4> HIDE DEF s, t
      <4> QED
          BY <4>1, <4>2, <4>3 DEF Farewell, Quiet
    <3> QED
        BY <3>1, <3>2 DEF Phased, Answered
  <2> QED
      BY <2>1, <2>2, <2>3, <2>4, <2>5 DEF Client
<1> QED
    BY <1>2, <1>3 DEF ChannelInv

LEMMA ChannelMain ==
    ASSUME TypeOK, ChannelInv, NEW c \in Clients, Main(c)
    PROVE  ChannelInv'
<1>1. Phased(c) /\ Answered(c)
    BY DEF ChannelInv
<1>2. ASSUME NEW d \in Clients \ {c}
      PROVE  Phased(d)' /\ Answered(d)'
  <2>1. events'[d] = events[d]
    <3>1. Deliver(c) => events'[d] = events[d]
        BY Delivered
    <3> QED
        BY <3>1 DEF Main, OnSeedUrlRequest, OnDataNodes, OnLinkNodes,
                    OnUnconnected, OnFinished
  <2>2. answers'[d] = answers[d]
    <3>1. \A u : Answer(c, u) => answers'[d] = answers[d]
        BY DEF Answer, TypeOK
    <3> QED
        BY <3>1 DEF Main, OnSeedUrlRequest, OnDataNodes, OnLinkNodes,
                    OnUnconnected, OnFinished, clientVars
  <2>3. /\ session'[d] = session[d] /\ asked'[d] = asked[d]
      BY DEF Main, OnSeedUrlRequest, OnDataNodes, OnLinkNodes, OnUnconnected,
             OnFinished, clientVars, TypeOK
  <2> QED
      BY <2>1, <2>2, <2>3, Untouched DEF ChannelInv
<1>3. Phased(c)' /\ Answered(c)'
  <2>1. CASE OnSeedUrlRequest(c)
    <3>1. /\ events[c] \in Seq(Signals) /\ events[c] # <<>>
          /\ events'[c] = Tail(events[c])
          /\ Head(events[c]) = Request /\ Request # Unconnected
          /\ session' = session /\ asked' = asked
        BY <2>1, Delivered, Kinds DEF OnSeedUrlRequest
    <3>2. session[c] \in {"open", "lost"}
        BY <1>1, <3>1 DEF Phased, TypeOK, Phases
    <3>3. Phased(c)'
        BY <1>1, <3>1, <3>2, TailPhases DEF Phased
    <3>4. PICK u \in Urls \cup {NoUrl} : Answer(c, u)
        BY <2>1 DEF OnSeedUrlRequest, TypeOK
    <3>5. CASE session[c] = "lost"
      <4>1. answers[c] = <<>> /\ asked[c] = 0
          BY <1>1, <3>5 DEF Answered
      <4>2. answers'[c] = answers[c]
          BY <3>4, <3>5, AnswerGiven
      <4>3. session'[c] = "lost" /\ answers'[c] = <<>> /\ asked'[c] = 0
          BY <3>1, <3>5, <4>1, <4>2
      <4> QED
          BY <3>3, <4>3 DEF Answered
    <3>6. CASE session[c] = "open"
      <4>1. Cardinality(Requests(events[c])) + Len(answers[c]) = asked[c]
          BY <1>1, <3>6 DEF Answered
      <4>2. /\ Cardinality(Requests(events'[c])) = Cardinality(Requests(events[c])) - 1
            /\ Cardinality(Requests(events[c])) \in Nat
          BY <3>1, RequestsOfTail, RequestsFinite
      <4>3. Len(answers'[c]) = Len(answers[c]) + 1 /\ Len(answers[c]) \in Nat
        <5>1. answers'[c] = Append(answers[c], u)
            BY <3>4, <3>6, AnswerGiven
        <5>2. answers[c] \in Seq(Urls \cup {NoUrl})
            BY DEF TypeOK
        <5> QED
            BY <5>1, <5>2
      <4>4. Cardinality(Requests(events'[c])) + Len(answers'[c]) = asked'[c]
          BY <3>1, <4>1, <4>2, <4>3
      <4> QED
          BY <3>1, <3>3, <3>6, <4>4 DEF Answered
    <3> QED
        BY <3>2, <3>5, <3>6
  <2>2. CASE OnDataNodes(c) \/ OnLinkNodes(c)
    <3>1. /\ events[c] \in Seq(Signals) /\ events[c] # <<>>
          /\ events'[c] = Tail(events[c])
          /\ Head(events[c]) # Request /\ Head(events[c]) # Unconnected
          /\ session' = session /\ asked' = asked /\ answers' = answers
        BY <2>2, Delivered, Kinds DEF OnDataNodes, OnLinkNodes, clientVars
    <3>2. session[c] \in {"open", "lost"}
        BY <1>1, <3>1 DEF Phased, TypeOK, Phases
    <3>3. Phased(c)'
        BY <1>1, <3>1, <3>2, TailPhases DEF Phased
    <3>4. Answered(c)'
      <4>1. Cardinality(Requests(events'[c])) = Cardinality(Requests(events[c]))
        <5>1. Cardinality(Requests(events[c])) \in Nat
            BY <3>1, RequestsFinite
        <5> QED
            BY <3>1, <5>1, RequestsOfTail
      <4> QED
          BY <1>1, <3>1, <3>2, <4>1 DEF Answered
    <3> QED
        BY <3>3, <3>4
  <2>3. CASE OnUnconnected(c)
    <3>1. /\ events[c] \in Seq(Signals) /\ events[c] # <<>>
          /\ events'[c] = Tail(events[c])
          /\ Head(events[c]) = Unconnected
          /\ session'[c] = "over" /\ asked' = asked /\ answers' = answers
        BY <2>3, Delivered DEF OnUnconnected, clientVars, TypeOK
    <3>2. session[c] = "lost" /\ Farewell(events[c])
        BY <1>1, <3>1, TailPhases DEF Phased, TypeOK, Phases
    <3>3. events'[c] = <<>>
        BY <3>1, <3>2, TailPhases
    <3> QED
        BY <1>1, <3>1, <3>2, <3>3 DEF Phased, Answered
  <2>4. CASE OnFinished(c)
    <3>1. /\ session[c] = "over" /\ session'[c] = "none"
          /\ events' = events /\ answers' = answers /\ asked' = asked
        BY <2>4 DEF OnFinished, clientVars, TypeOK
    <3> QED
        BY <1>1, <3>1 DEF Phased, Answered
  <2> QED
      BY <2>1, <2>2, <2>3, <2>4 DEF Main
<1> QED
    BY <1>2, <1>3 DEF ChannelInv

LEMMA ChannelNext == TypeOK /\ ChannelInv /\ [Next]_vars => ChannelInv'
<1> SUFFICES ASSUME TypeOK, ChannelInv, [Next]_vars
             PROVE  ChannelInv'
    OBVIOUS
<1>1. CASE UNCHANGED vars \/ \E u \in Seeds : AddSeedUrl(u)
    BY <1>1 DEF ChannelInv, Phased, Answered, AddSeedUrl, vars, clientVars
<1> QED
    BY <1>1, ChannelClient, ChannelMain DEF Next

-----------------------------------------------------------------------------
(* No Url is forgotten. *)

LEMMA HeldNext == TypeOK /\ ChannelInv /\ [Next]_vars => Held \subseteq Held'
<1> SUFFICES ASSUME TypeOK, ChannelInv, [Next]_vars, NEW u \in Held
             PROVE  u \in Held'
    OBVIOUS
<1> USE DEF Held
<1>1. CASE u \in inQueue
  <2>1. CASE u \in inQueue'
      BY <2>1
  <2>2. CASE u \notin inQueue'
    <3>1. PICK c \in Clients : OnSeedUrlRequest(c) \/ OnDataNodes(c)
        BY <1>1, <2>2 DEF Next, Main, Client, AddSeedUrl, Connect, AskForUrl,
             ReceiveAnswer, Report, LoseConnection, OnLinkNodes,
             OnUnconnected, OnFinished, vars, collections
    <3>2. CASE OnDataNodes(c)
        BY <1>1, <2>2, <3>2 DEF OnDataNodes
    <3>3. CASE OnSeedUrlRequest(c)
      <4>1. session' = session /\ u \in inProgress'[c]
          BY <1>1, <2>2, <3>3 DEF OnSeedUrlRequest, TypeOK
      <4>2. session[c] \in {"open", "lost"}
        <5>1. events[c] # <<>> /\ Phased(c)
            BY <3>3 DEF OnSeedUrlRequest, Deliver, ChannelInv
        <5> QED
            BY <5>1 DEF Phased, TypeOK, Phases
      <4> QED
          BY <4>1, <4>2
    <3> QED
        BY <3>1, <3>2, <3>3
  <2> QED
      BY <2>1, <2>2
<1>2. CASE u \in crawled
    BY <1>2 DEF Next, Main, Client, AddSeedUrl, Connect, AskForUrl,
         ReceiveAnswer, Report, LoseConnection, OnLinkNodes, OnDataNodes,
         OnSeedUrlRequest, OnUnconnected, OnFinished, vars, collections
<1>3. ASSUME NEW d \in Clients, session[d] \in {"open", "lost"}, u \in inProgress[d]
      PROVE  u \in Held'
  <2>1. CASE OnUnconnected(d)
      BY <1>3, <2>1 DEF OnUnconnected
  <2>2. CASE ~OnUnconnected(d)
    <3>1. session'[d] \in {"open", "lost"}
        BY <1>3, <2>2 DEF Next, Main, Client, AddSeedUrl, Connect, AskForUrl,
             ReceiveAnswer, Report, LoseConnection, OnLinkNodes, OnDataNodes,
             OnSeedUrlRequest, OnUnconnected, OnFinished, vars, TypeOK
    <3>2. u \in inProgress'[d]
        BY <1>3 DEF Next, Main, Client, AddSeedUrl, Connect, AskForUrl,
             ReceiveAnswer, Report, LoseConnection, OnLinkNodes, OnDataNodes,
             OnSeedUrlRequest, OnUnconnected, OnFinished, vars, TypeOK
    <3> QED
        BY <3>1, <3>2
  <2> QED
      BY <2>1, <2>2
<1> QED
    BY <1>1, <1>2, <1>3

LEMMA LinksNext ==
    TypeOK /\ ChannelInv /\ LinksSound /\ [Next]_vars => LinksSound'
<1> SUFFICES ASSUME TypeOK, ChannelInv, LinksSound, [Next]_vars, NEW e \in links'
             PROVE  e[1] \in crawled' /\ e[2] \in Held'
    BY DEF LinksSound
<1>1. CASE e \in links
  <2>1. e[1] \in crawled /\ e[2] \in Held
      BY <1>1 DEF LinksSound
  <2>2. crawled \subseteq crawled'
      BY DEF Next, Main, Client, AddSeedUrl, Connect, AskForUrl,
         ReceiveAnswer, Report, LoseConnection, OnLinkNodes, OnDataNodes,
         OnSeedUrlRequest, OnUnconnected, OnFinished, vars, collections
  <2> QED
      BY <2>1, <2>2, HeldNext
<1>2. CASE e \notin links
  <2>1. PICK c \in Clients : OnLinkNodes(c)
      BY <1>2 DEF Next, Main, Client, AddSeedUrl, Connect, AskForUrl,
         ReceiveAnswer, Report, LoseConnection, OnDataNodes,
         OnSeedUrlRequest, OnUnconnected, OnFinished, vars, collections
  <2>2. e \in crawled \X (inQueue \cup crawled)
      BY <1>2, <2>1 DEF OnLinkNodes
  <2>3. crawled' = crawled /\ inQueue' = inQueue
      BY <2>1 DEF OnLinkNodes
  <2> QED
      BY <2>2, <2>3 DEF Held
<1> QED
    BY <1>1, <1>2

LEMMA GivenNext ==
    TypeOK /\ ChannelInv /\ GivenUrlsHeld /\ [Next]_vars => GivenUrlsHeld'
<1> SUFFICES ASSUME TypeOK, ChannelInv, GivenUrlsHeld, [Next]_vars,
                    NEW c \in Clients
             PROVE  /\ given'[c] \subseteq Held'
                    /\ \A i \in DOMAIN answers'[c] :
                          answers'[c][i] # NoUrl => answers'[c][i] \in inProgress'[c]
    BY DEF GivenUrlsHeld
<1>1. ASSUME NEW u \in given'[c] PROVE u \in Held'
  <2>1. CASE u \notin given[c]
    <3>1. ReceiveAnswer(c)
        BY <1>1, <2>1, Reports DEF Next, Main, Client, AddSeedUrl, Connect, AskForUrl,
          ReceiveAnswer, LoseConnection, OnLinkNodes, OnDataNodes, memory,
          OnSeedUrlRequest, OnUnconnected, OnFinished, vars, clientVars, TypeOK
    <3>2. answers[c] \in Seq(Urls \cup {NoUrl}) /\ answers[c] # <<>>
          /\ u = Head(answers[c]) /\ u # NoUrl
        BY <1>1, <2>1, <3>1 DEF ReceiveAnswer, TypeOK
    <3>3. u = answers[c][1] /\ 1 \in DOMAIN answers[c]
        BY <3>2
    <3>4. u \in inProgress[c]
        BY <3>2, <3>3 DEF GivenUrlsHeld
    <3>5. session[c] = "open"
        BY <3>2 DEF ChannelInv, Answered
    <3> QED
        BY <3>4, <3>5, HeldNext DEF Held
  <2>2. CASE u \in given[c]
      BY <2>2, HeldNext DEF GivenUrlsHeld
  <2> QED
      BY <2>1, <2>2
<1>2. ASSUME NEW i \in DOMAIN answers'[c], answers'[c][i] # NoUrl
      PROVE  answers'[c][i] \in inProgress'[c]
  <2>1. CASE answers'[c] = answers[c]
    <3>1. answers[c] # <<>> /\ answers[c][i] \in inProgress[c]
        BY <1>2, <2>1 DEF GivenUrlsHeld
    <3>2. session[c] # "over"
        BY <3>1 DEF ChannelInv, Answered
    <3>3. inProgress[c] \subseteq inProgress'[c]
      <4>1. CASE \E d \in Clients : Main(d)
          BY <3>2, <4>1 DEF Main, OnLinkNodes, OnDataNodes,
            OnSeedUrlRequest, OnUnconnected, OnFinished, TypeOK
      <4>2. CASE UNCHANGED inProgress
          BY <4>2
      <4> QED
          BY <4>1, <4>2 DEF Next, Client, AddSeedUrl, Connect, AskForUrl,
            ReceiveAnswer, Report, LoseConnection, vars
    <3> QED
        BY <2>1, <3>1, <3>3
  <2>2. CASE answers'[c] # answers[c] /\ OnSeedUrlRequest(c)
    <3>1. session[c] = "open"
        BY <2>2, AnswerGiven DEF OnSeedUrlRequest, TypeOK
    <3>2. answers[c] \in Seq(Urls \cup {NoUrl})
        BY DEF TypeOK
    <3>3. ASSUME NEW u \in Urls \cup {NoUrl}, Answer(c, u), u = NoUrl \/ u \in inProgress'[c],
                 inProgress[c] \subseteq inProgress'[c]
          PROVE  answers'[c][i] \in inProgress'[c]
      <4>1. answers'[c] = Append(answers[c], u)
          BY <3>1, <3>3, AnswerGiven
      <4>2. (i \in DOMAIN answers[c] /\ answers'[c][i] = answers[c][i]) \/ answers'[c][i] = u
          BY <1>2, <3>2, <4>1
      <4> QED
          BY <1>2, <3>3, <4>2 DEF GivenUrlsHeld
    <3>4. CASE inQueue = {}
        BY <2>2, <3>3, <3>4 DEF OnSeedUrlRequest
    <3>5. CASE inQueue # {}
      <4>1. PICK u \in inQueue :
              /\ inProgress' = [inProgress EXCEPT ![c] = @ \cup {u}]
              /\ Answer(c, u)
          BY <2>2, <3>5 DEF OnSeedUrlRequest
      <4>2. u \in Urls /\ u \in inProgress'[c] /\ inProgress[c] \subseteq inProgress'[c]
          BY <4>1 DEF TypeOK
      <4> QED
          BY <3>3, <4>1, <4>2
    <3> QED
        BY <3>4, <3>5
  <2>3. CASE answers'[c] # answers[c] /\ LoseConnection(c)
      BY <1>2, <2>3 DEF LoseConnection, TypeOK
  <2>4. CASE answers'[c] # answers[c] /\ ReceiveAnswer(c)
    <3>1. /\ answers[c] # <<>> /\ answers'[c] = Tail(answers[c])
          /\ answers[c] \in Seq(Urls \cup {NoUrl}) /\ inProgress' = inProgress
        BY <2>4 DEF ReceiveAnswer, TypeOK
    <3>2. i + 1 \in DOMAIN answers[c] /\ answers'[c][i] = answers[c][i + 1]
      <4>1. /\ Len(answers[c]) \in Nat /\ Len(Tail(answers[c])) = Len(answers[c]) - 1
            /\ Tail(answers[c]) \in Seq(Urls \cup {NoUrl})
            /\ \A k \in 1 .. Len(answers[c]) - 1 : Tail(answers[c])[k] = answers[c][k + 1]
          BY <3>1, TailFacts
      <4>2. i \in 1 .. Len(answers[c]) - 1
          BY <1>2, <3>1, <4>1
      <4> QED
          BY <3>1, <4>1, <4>2
    <3> QED
        BY <1>2, <3>1, <3>2 DEF GivenUrlsHeld
  <2> QED
    <3>1. ASSUME NEW d \in Clients, OnSeedUrlRequest(d), d # c
          PROVE  answers'[c] = answers[c]
        BY <3>1 DEF OnSeedUrlRequest, Answer, TypeOK
    <3>2. ASSUME NEW d \in Clients, ReceiveAnswer(d) \/ LoseConnection(d), d # c
          PROVE  answers'[c] = answers[c]
        BY <3>2 DEF ReceiveAnswer, LoseConnection, TypeOK
    <3>3. \/ \E d \in Clients : OnSeedUrlRequest(d) \/ ReceiveAnswer(d) \/ LoseConnection(d)
          \/ answers' = answers
        BY DEF Next, Main, Client, AddSeedUrl, Connect, AskForUrl, Report,
          OnLinkNodes, OnDataNodes, OnUnconnected, OnFinished, vars, clientVars
    <3> QED
        BY <2>1, <2>2, <2>3, <2>4, <3>1, <3>2, <3>3
<1> QED
    BY <1>1, <1>2

-----------------------------------------------------------------------------
(* The theorems. *)

\* The inductive invariant holds at first, is kept by every step, and holds
\* in every state of the server.
THEOREM Inductive == Spec => []IInv
<1>1. Init => IInv
  <2>1. Init => ChannelInv
      BY EmptyQueue, NoRequests, EmptySeq DEF Init, ChannelInv, Phased, Answered
  <2>2. Init => GivenUrlsHeld
      BY DEF Init, GivenUrlsHeld
  <2>3. Init => LinksSound
      BY DEF Init, LinksSound
  <2> QED
      BY <2>1, <2>2, <2>3, TypeInit DEF IInv
<1>2. IInv /\ [Next]_vars => IInv'
    BY TypeNext, ChannelNext, GivenNext, LinksNext DEF IInv
<1> QED
    BY <1>1, <1>2, PTL DEF Spec

\* The variables keep their types.
THEOREM TypeCorrect == Spec => []TypeOK
<1>1. IInv => TypeOK
    BY DEF IInv
<1> QED
    BY <1>1, Inductive, PTL

\* Every Url given out and not yet crawled is still held by the server.
THEOREM GivenStaysHeld == Spec => []GivenUrlsHeld
<1>1. IInv => GivenUrlsHeld
    BY DEF IInv
<1> QED
    BY <1>1, Inductive, PTL

\* Every link joins a crawled page and a Url the server holds.
THEOREM LinksJoinHeldUrls == Spec => []LinksSound
<1>1. IInv => LinksSound
    BY DEF IInv
<1> QED
    BY <1>1, Inductive, PTL

\* No Url is ever forgotten.
THEOREM UrlsKept == Spec => NothingForgotten
<1>1. IInv /\ [Next]_vars => [Held \subseteq Held']_vars
    BY HeldNext DEF IInv
<1> QED
    BY <1>1, Inductive, PTL DEF Spec, NothingForgotten

\* While a connection lasts, the requests not yet handled and the answers not
\* yet received are those its client waits for, however many they are.
THEOREM EveryRequestAnsweredOnce == Spec => []OneAnswerPerRequest
<1>1. IInv => OneAnswerPerRequest
  <2> SUFFICES ASSUME IInv, NEW c \in Clients, session[c] = "open"
               PROVE  Cardinality({i \in DOMAIN events[c] : events[c][i] = Request})
                          + Len(answers[c]) = asked[c]
      BY DEF OneAnswerPerRequest
  <2>1. events[c] \in Seq(Signals) /\ Answered(c)
      BY DEF IInv, TypeOK, ChannelInv
  <2>2. {i \in DOMAIN events[c] : events[c][i] = Request} = Requests(events[c])
      BY <2>1 DEF Requests
  <2> QED
      BY <2>1, <2>2 DEF Answered
<1> QED
    BY <1>1, Inductive, PTL

=============================================================================
