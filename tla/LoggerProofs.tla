---------------------------- MODULE LoggerProofs ----------------------------
(***************************************************************************)
(* The lines of every logger are whole, and two loggers show the           *)
(* statements they share in one order, for every set of threads and every  *)
(* number of statements.                                                   *)
(*                                                                         *)
(* A thread has an unfinished line in a logger from its head to its end    *)
(* (Busy).  Until it has locked the logger it holds the static mutex, and  *)
(* the mutex of the logger is free; from then on it holds the latter.  So  *)
(* no two threads have an unfinished line in one logger, and what was      *)
(* written to the logger ends in the part of the line that the phase of    *)
(* that thread says, or in a whole line when there is none.                *)
(*                                                                         *)
(* A thread writes the text of its statement to its loggers one by one but *)
(* holds them all meanwhile: those that have it already (TextInv) end with *)
(* it, and no other text can have come in between in some of them only.    *)
(***************************************************************************)
EXTENDS Logger, SequenceTheorems, TLAPS

NoRepeat(s) == \A i, j \in DOMAIN s : s[i] = s[j] => i = j

In(l, s) == \E i \in DOMAIN s : s[i] = l

\* Parts of a line.
LineLength(l) == IF l = "box" THEN 2 ELSE 3
HeadLength(l) == IF l = "box" THEN 0 ELSE 1

Entry == [thread : Threads, number : 0 .. MaxMessages,
          part : {"head", "text", "newline", "shown"}]

\* Thread t has locked the logger, and has not unlocked it.
Locked(t, l) ==
    /\ In(l, list[t])
    /\ \/ phase[t] = "lock" /\ ~ In(l, todo[t])
       \/ phase[t] = "text"
       \/ phase[t] = "end" /\ In(l, todo[t])

\* Thread t is to lock the logger, under the static mutex.
Locking(t, l) ==
    /\ In(l, list[t])
    /\ \/ phase[t] = "head" /\ ~ In(l, todo[t])
       \/ phase[t] = "lock" /\ In(l, todo[t])

Busy(t, l) == Locked(t, l) \/ Locking(t, l)

\* The parts of the line of t that are written to l.
Parts(t, l) ==
    IF phase[t] = "end" \/ (phase[t] = "text" /\ ~ In(l, todo[t]))
    THEN HeadLength(l) + 1
    ELSE HeadLength(l)

ListInv ==
    /\ \A v \in Levels : NoRepeat(collection[v])
    /\ \A t \in Threads :
        /\ NoRepeat(list[t])
        /\ NoRepeat(todo[t])
        /\ \A l \in Loggers : In(l, todo[t]) => In(l, list[t])
        /\ phase[t] # "idle" => todo[t] # <<>>

MutexInv ==
    /\ \A t \in Threads : sMutex = t <=> phase[t] \in {"head", "lock"}
    /\ \A t \in Threads, l \in Loggers :
        /\ mutex[l] = t <=> Locked(t, l)
        /\ Locking(t, l) => mutex[l] = NoThread

\* What was written to l ends as the thread that is busy with it says.
OutAt(l) ==
    /\ \A t \in Threads : Busy(t, l) =>
        /\ Len(out[l]) % LineLength(l) = Parts(t, l)
        /\ Parts(t, l) > 0 => /\ out[l][Len(out[l])].thread = t
                              /\ out[l][Len(out[l])].number = sent[t]
    /\ (\A t \in Threads : ~ Busy(t, l)) => Len(out[l]) % LineLength(l) = 0

OutInv == \A l \in Loggers : OutAt(l)

\* The texts of a thread that are already in l: none is of a later statement, and
\* that of its last one is there once the thread has visited l to write it.
TextsAt(t, l) ==
    \A i \in DOMAIN out[l] : out[l][i].thread = t =>
        /\ out[l][i].number <= sent[t]
        /\ out[l][i].part = "text" /\ out[l][i].number = sent[t] =>
            /\ phase[t] \notin {"head", "lock"}
            /\ phase[t] = "text" => In(l, list[t]) /\ ~ In(l, todo[t])

TextInv == \A t \in Threads, l \in Loggers : TextsAt(t, l)

IInv == TypeOK /\ ListInv /\ MutexInv /\ OutInv /\ LinesWhole

-----------------------------------------------------------------------------
(* Sequences, lines and their parts.                                        *)

LEMMA NotEmpty ==
    ASSUME NEW S, NEW s \in Seq(S), Len(s) # 0
    PROVE  s # <<>>
BY EmptySeq

LEMMA TailRest ==
    ASSUME NEW S, NEW s \in Seq(S), s # <<>>, NoRepeat(s)
    PROVE  /\ Head(s) \in S /\ In(Head(s), s)
           /\ Len(s) = 1 => \A l : In(l, s) <=> l = Head(s)
           /\ Len(s) # 1 => /\ Tail(s) \in Seq(S) /\ Tail(s) # <<>> /\ NoRepeat(Tail(s))
                            /\ \A l : In(l, Tail(s)) <=> In(l, s) /\ l # Head(s)
<1>1. Len(s) \in Nat /\ Len(s) >= 1 /\ Head(s) = s[1] /\ Head(s) \in S /\ 1 \in DOMAIN s
  OBVIOUS
<1>2. In(Head(s), s)
  BY <1>1 DEF In
<1>3. ASSUME Len(s) = 1
      PROVE  \A l : In(l, s) <=> l = Head(s)
  BY <1>1, <1>3 DEF In
<1>4. ASSUME Len(s) # 1
      PROVE  /\ Tail(s) \in Seq(S) /\ Tail(s) # <<>> /\ NoRepeat(Tail(s))
             /\ \A l : In(l, Tail(s)) <=> In(l, s) /\ l # Head(s)
  <2>1. /\ Tail(s) \in Seq(S) /\ Len(Tail(s)) = Len(s) - 1 /\ Tail(s) # <<>>
        /\ \A i \in 1 .. Len(s) - 1 : Tail(s)[i] = s[i + 1]
        /\ DOMAIN s = 1 .. Len(s) /\ DOMAIN Tail(s) = 1 .. Len(s) - 1
    <3>1. Tail(s) \in Seq(S) /\ Len(Tail(s)) = Len(s) - 1
      BY HeadTailProperties
    <3>2. DOMAIN Tail(s) = 1 .. Len(s) - 1 /\ DOMAIN s = 1 .. Len(s)
      BY <1>1, <3>1, LenProperties
    <3>4. Tail(s) # <<>>
      <4>1. Len(Tail(s)) # 0
        BY <1>1, <1>4, <3>1
      <4> QED
        BY <3>1, <4>1, NotEmpty
    <3>3. \A i \in 1 .. Len(s) - 1 : Tail(s)[i] = s[i + 1]
      BY <1>1
    <3> QED
      BY <3>1, <3>2, <3>3, <3>4
  <2>2. NoRepeat(Tail(s))
    <3>1. SUFFICES ASSUME NEW i \in 1 .. Len(s) - 1, NEW j \in 1 .. Len(s) - 1,
                          Tail(s)[i] = Tail(s)[j]
                   PROVE  i = j
      BY <2>1 DEF NoRepeat
    <3>2. s[i + 1] = s[j + 1] /\ i + 1 \in DOMAIN s /\ j + 1 \in DOMAIN s
      BY <1>1, <2>1, <3>1
    <3> QED
      BY <1>1, <3>2 DEF NoRepeat
  <2>3. ASSUME NEW l
        PROVE  In(l, Tail(s)) <=> In(l, s) /\ l # Head(s)
    <3>1. ASSUME In(l, Tail(s))
          PROVE  In(l, s) /\ l # Head(s)
      <4>1. PICK i \in 1 .. Len(s) - 1 : s[i + 1] = l
        BY <2>1, <3>1 DEF In
      <4>2. i + 1 \in DOMAIN s /\ i + 1 # 1
        BY <1>1, <2>1
      <4> QED
        BY <1>1, <4>1, <4>2 DEF In, NoRepeat
    <3>2. ASSUME In(l, s), l # Head(s)
          PROVE  In(l, Tail(s))
      <4>1. PICK i \in 1 .. Len(s) : s[i] = l
        BY <2>1, <3>2 DEF In
      <4>2. i # 1 /\ i - 1 \in 1 .. Len(s) - 1 /\ (i - 1) + 1 = i
        BY <1>1, <3>2, <4>1
      <4> QED
        BY <2>1, <4>1, <4>2 DEF In
    <3> QED
      BY <3>1, <3>2
  <2> QED
    BY <2>1, <2>2, <2>3
<1> QED
  BY <1>1, <1>2, <1>3, <1>4

LEMMA Prepended ==
    ASSUME NEW S, NEW s \in Seq(S), NEW x \in S, NoRepeat(s), ~ In(x, s)
    PROVE  <<x>> \o s \in Seq(S) /\ NoRepeat(<<x>> \o s)
<1>1. /\ <<x>> \o s \in Seq(S) /\ Len(<<x>> \o s) = Len(s) + 1 /\ Len(s) \in Nat
      /\ (<<x>> \o s)[1] = x
      /\ \A i \in 2 .. Len(s) + 1 : (<<x>> \o s)[i] = s[i - 1]
      /\ DOMAIN s = 1 .. Len(s) /\ DOMAIN (<<x>> \o s) = 1 .. Len(s) + 1
  OBVIOUS
<1>2. SUFFICES ASSUME NEW i \in 1 .. Len(s) + 1, NEW j \in 1 .. Len(s) + 1,
                      (<<x>> \o s)[i] = (<<x>> \o s)[j]
               PROVE  i = j
  BY <1>1 DEF NoRepeat
<1>3. \A k \in 2 .. Len(s) + 1 : k - 1 \in DOMAIN s /\ s[k - 1] # x
  BY <1>1 DEF In
<1>4. CASE i = 1 \/ j = 1
  BY <1>1, <1>2, <1>3, <1>4
<1>5. CASE i # 1 /\ j # 1
  <2>1. /\ i - 1 \in DOMAIN s /\ j - 1 \in DOMAIN s /\ s[i - 1] = s[j - 1]
    BY <1>1, <1>2, <1>3, <1>5
  <2>2. i - 1 = j - 1
    BY <2>1 DEF NoRepeat
  <2> QED
    BY <1>1, <2>2
<1> QED
  BY <1>4, <1>5

LEMMA LineParts ==
    ASSUME NEW l \in Loggers
    PROVE  /\ Len(Line(l)) = LineLength(l)
           /\ Heading(l) = IF l = "box" THEN <<>> ELSE <<Line(l)[1]>>
           /\ Line(l)[HeadLength(l) + 1] = "text"
           /\ LineEnd(l) = <<Line(l)[HeadLength(l) + 2]>>
           /\ LineLength(l) = HeadLength(l) + 2
           /\ HeadLength(l) \in {0, 1}
           /\ \A i \in 1 .. LineLength(l) : Line(l)[i] \in {"head", "text", "newline", "shown"}
BY DEF Line, LineLength, HeadLength, Heading, LineEnd

LEMMA NextPlace ==
    ASSUME NEW n \in Nat, NEW k \in {2, 3}
    PROVE  /\ n % k \in 0 .. k - 1
           /\ (n + 1) % k = IF n % k = k - 1 THEN 0 ELSE (n % k) + 1
<1>1. CASE k = 2
  BY <1>1, Z3
<1>2. CASE k = 3
  BY <1>2, Z3
<1> QED
  BY <1>1, <1>2

-----------------------------------------------------------------------------
(* A part written to a logger.                                              *)

PartNames == {"head", "text", "newline", "shown"}

EntryOf(t, p) == [thread |-> t, number |-> sent[t], part |-> p]

LEMMA WritesOne ==
    ASSUME TypeOK, NEW t \in Threads, NEW h \in Loggers, NEW p \in PartNames,
           Writes(t, h, <<p>>)
    PROVE  out' = [out EXCEPT ![h] = Append(@, EntryOf(t, p))]
<1> DEFINE e == [i \in DOMAIN <<p>> |-> [thread |-> t, number |-> sent[t], part |-> <<p>>[i]]]
<1>1. e = <<EntryOf(t, p)>>
  BY DEF EntryOf
<1>2. out[h] \o <<EntryOf(t, p)>> = Append(out[h], EntryOf(t, p))
  <2>1. EntryOf(t, p) \in Entry /\ out[h] \in Seq(Entry)
    BY DEF TypeOK, Entry, EntryOf, PartNames
  <2> QED
    BY <2>1, AppendIsConcat
<1>3. out' = [out EXCEPT ![h] = @ \o e]
  BY DEF Writes
<1> QED
  BY <1>1, <1>2, <1>3

LEMMA WritesNone ==
    ASSUME TypeOK, NEW t \in Threads, NEW h \in Loggers, Writes(t, h, <<>>)
    PROVE  out' = out
<1> DEFINE e == [i \in DOMAIN <<>> |-> [thread |-> t, number |-> sent[t], part |-> <<>>[i]]]
<1>1. e = <<>>
  OBVIOUS
<1>2. out[h] \o <<>> = out[h] /\ out \in [Loggers -> Seq(Entry)]
  <2>1. out \in [Loggers -> Seq(Entry)]
    BY DEF TypeOK, Entry
  <2> QED
    BY <2>1, ConcatEmptySeq
<1>3. out' = [out EXCEPT ![h] = @ \o e]
  BY DEF Writes
<1> QED
  BY <1>1, <1>2, <1>3

\* The next part of a line, written by the thread that wrote the one before.
LEMMA NextPart ==
    ASSUME TypeOK, LinesWhole, NEW t \in Threads, NEW h \in Loggers, NEW n \in Nat,
           n = Len(out[h]) % LineLength(h),
           Writes(t, h, <<Line(h)[n + 1]>>),
           n > 0 => /\ out[h][Len(out[h])].thread = t
                    /\ out[h][Len(out[h])].number = sent[t]
    PROVE  /\ out' \in [Loggers -> Seq(Entry)]
           /\ \A l \in Loggers \ {h} : out'[l] = out[l]
           /\ Len(out'[h]) % LineLength(h) = IF n + 1 = LineLength(h) THEN 0 ELSE n + 1
           /\ out'[h][Len(out'[h])].thread = t
           /\ out'[h][Len(out'[h])].number = sent[t]
           /\ LinesWhole'
<1> DEFINE p == Line(h)[n + 1]
           e == EntryOf(t, p)
           k == Len(out[h])
<1>1. LineLength(h) \in {2, 3} /\ Len(Line(h)) = LineLength(h)
  BY LineParts DEF LineLength
<1>2. out \in [Loggers -> Seq(Entry)] /\ k \in Nat /\ DOMAIN out[h] = 1 .. k
      /\ \A i \in 1 .. k : out[h][i] \in Entry
  <2>1. out \in [Loggers -> Seq(Entry)]
    BY DEF TypeOK, Entry
  <2>2. out[h] \in Seq(Entry)
    BY <2>1
  <2>3. k \in Nat /\ out[h] \in [1 .. k -> Entry]
    BY <2>2, LenProperties
  <2> QED
    BY <2>1, <2>3
<1>3. n \in 0 .. LineLength(h) - 1
      /\ (k + 1) % LineLength(h) = IF n = LineLength(h) - 1 THEN 0 ELSE n + 1
  BY <1>1, <1>2, NextPlace
<1>4. p \in PartNames
  <2>1. n + 1 \in 1 .. LineLength(h)
    BY <1>1, <1>3
  <2> QED
    BY <2>1, LineParts DEF PartNames
<1>5. e \in Entry /\ e.thread = t /\ e.number = sent[t] /\ e.part = p
  BY <1>4 DEF EntryOf, Entry, TypeOK, PartNames
<1>6. out' = [out EXCEPT ![h] = Append(@, e)]
  BY <1>4, WritesOne
<1> HIDE DEF e, k, p
<1>7. /\ out'[h] = Append(out[h], e) /\ \A l \in Loggers \ {h} : out'[l] = out[l]
      /\ out' \in [Loggers -> Seq(Entry)]
      /\ Len(out'[h]) = k + 1 /\ out'[h][k + 1] = e
      /\ \A i \in 1 .. k : out'[h][i] = out[h][i]
      /\ DOMAIN out'[h] = 1 .. k + 1
  <2>1. out'[h] = Append(out[h], e) /\ \A l \in Loggers \ {h} : out'[l] = out[l]
    BY <1>2, <1>6
  <2>2. Append(out[h], e) \in Seq(Entry)
    BY <1>2, <1>5
  <2>3. out' \in [Loggers -> Seq(Entry)]
    BY <1>2, <1>6, <2>2
  <2>4. /\ Len(out'[h]) = k + 1 /\ out'[h][k + 1] = e
        /\ \A i \in 1 .. k : out'[h][i] = out[h][i]
    BY <1>2, <1>5, <2>1, AppendProperties DEF k
  <2>5. DOMAIN out'[h] = 1 .. k + 1
    BY <2>3, <2>4, LenProperties
  <2> QED
    BY <2>1, <2>3, <2>4, <2>5
<1>8. LinesWhole'
  <2>1. SUFFICES ASSUME NEW l \in Loggers, NEW i \in DOMAIN out'[l]
                 PROVE  LET place == ((i - 1) % Len(Line(l))) + 1
                        IN  /\ out'[l][i].part = Line(l)[place]
                            /\ place > 1 => [out'[l][i] EXCEPT !.part = out'[l][i - 1].part]
                                            = out'[l][i - 1]
    BY DEF LinesWhole, Line
  <2>2. CASE l # h
    BY <1>7, <2>1, <2>2 DEF LinesWhole
  <2>3. CASE l = h /\ i # k + 1
    <3>1. i \in DOMAIN out[h] /\ out'[h][i] = out[h][i]
      BY <1>2, <1>7, <2>1, <2>3
    <3>2. i - 1 \in DOMAIN out[h] => out'[h][i - 1] = out[h][i - 1]
      BY <1>2, <1>7
    <3>3. (i - 1) % Len(Line(h)) # 0 => i - 1 \in DOMAIN out[h]
      <4>1. (i - 1) % Len(Line(h)) # 0 => i # 1
        BY <1>1, Z3
      <4> QED
        BY <1>2, <3>1, <4>1
    <3>4. (i - 1) % Len(Line(h)) \in Nat
      <4>1. i - 1 \in Nat
        BY <1>2, <3>1
      <4> QED
        BY <1>1, <4>1, NextPlace
    <3> DEFINE place == ((i - 1) % Len(Line(h))) + 1
    <3>5. /\ out[h][i].part = Line(h)[place]
          /\ place > 1 => [out[h][i] EXCEPT !.part = out[h][i - 1].part] = out[h][i - 1]
      BY <3>1 DEF LinesWhole
    <3>6. place > 1 => out'[h][i - 1] = out[h][i - 1]
      BY <3>2, <3>3, <3>4
    <3> HIDE DEF place
    <3>7. /\ out'[h][i].part = Line(h)[place]
          /\ place > 1 => [out'[h][i] EXCEPT !.part = out'[h][i - 1].part] = out'[h][i - 1]
      BY <3>1, <3>5, <3>6
    <3> QED
      BY <2>3, <3>7 DEF place
  <2>4. CASE l = h /\ i = k + 1
    <3>1. (i - 1) % Len(Line(h)) = n /\ i - 1 = k
      BY <1>1, <1>2, <2>4 DEF k
    <3>2. out'[h][i].part = Line(h)[n + 1]
      BY <1>5, <1>7, <2>4 DEF p
    <3>3. ASSUME n > 0
          PROVE  [e EXCEPT !.part = out[h][k].part] = out[h][k]
      <4>1. k # 0
        BY <1>1, <3>3, Z3 DEF k
      <4>2. out[h][k] \in Entry /\ out[h][k].thread = t /\ out[h][k].number = sent[t]
        BY <1>2, <3>3, <4>1 DEF k
      <4> QED
        BY <1>5, <4>2 DEF Entry
    <3>4. n > 0 => out'[h][k] = out[h][k]
      <4>1. n > 0 => k # 0
        BY <1>1, Z3 DEF k
      <4> QED
        BY <1>2, <1>7, <4>1
    <3>5. n + 1 > 1 <=> n > 0
      BY <1>3
    <3>6. [out'[h][i] EXCEPT !.part = out'[h][i - 1].part] = out'[h][i - 1]
             \/ ~ n > 0
      BY <1>7, <2>4, <3>1, <3>3, <3>4
    <3> QED
      BY <2>4, <3>1, <3>2, <3>5, <3>6
  <2> QED
    BY <1>7, <2>1, <2>2, <2>3, <2>4
<1> QED
  BY <1>1, <1>3, <1>5, <1>7, <1>8

-----------------------------------------------------------------------------
(* A visit: the thread goes on with the next logger, or the next phase.     *)

LEMMA ListTypes ==
    ASSUME TypeOK, ListInv, NEW t \in Threads
    PROVE  /\ list[t] \in Seq(Loggers) /\ todo[t] \in Seq(Loggers)
           /\ NoRepeat(list[t]) /\ NoRepeat(todo[t])
           /\ \A l \in Loggers : In(l, todo[t]) => In(l, list[t])
BY DEF TypeOK, ListInv

LEMMA VisitRest ==
    ASSUME TypeOK, ListInv, NEW t \in Threads, NEW next \in Phases,
           NEW from \in Seq(Loggers), phase[t] # "idle", Visit(t, next, from)
    PROVE  LET h == Head(todo[t])
           IN  /\ h \in Loggers /\ In(h, todo[t]) /\ In(h, list[t])
               /\ phase' \in [Threads -> Phases] /\ todo' \in [Threads -> Seq(Loggers)]
               /\ \A u \in Threads \ {t} : phase'[u] = phase[u] /\ todo'[u] = todo[u]
               /\ \/ /\ phase'[t] = next /\ todo'[t] = from /\ Len(todo[t]) = 1
                     /\ \A l \in Loggers : In(l, todo[t]) <=> l = h
                  \/ /\ phase'[t] = phase[t] /\ todo'[t] # <<>> /\ Len(todo[t]) # 1
                     /\ NoRepeat(todo'[t])
                     /\ \A l \in Loggers : In(l, todo'[t]) <=> In(l, todo[t]) /\ l # h
<1> DEFINE h == Head(todo[t])
<1>1. todo[t] \in Seq(Loggers) /\ todo[t] # <<>> /\ NoRepeat(todo[t])
  BY DEF TypeOK, ListInv
<1>2. h \in Loggers /\ In(h, todo[t]) /\ In(h, list[t])
  BY <1>1, TailRest DEF ListInv
<1>3. phase \in [Threads -> Phases] /\ todo \in [Threads -> Seq(Loggers)]
  BY DEF TypeOK
<1>4. CASE Len(todo[t]) = 1
  <2>1. phase' = [phase EXCEPT ![t] = next] /\ todo' = [todo EXCEPT ![t] = from]
    BY <1>3, <1>4 DEF Visit
  <2>2. \A l \in Loggers : In(l, todo[t]) <=> l = h
    BY <1>1, <1>4, TailRest
  <2> QED
    BY <1>2, <1>3, <1>4, <2>1, <2>2
<1>5. CASE Len(todo[t]) # 1
  <2>1. phase' = phase /\ todo' = [todo EXCEPT ![t] = Tail(@)]
    BY <1>3, <1>5 DEF Visit
  <2>2. /\ Tail(todo[t]) \in Seq(Loggers) /\ Tail(todo[t]) # <<>> /\ NoRepeat(Tail(todo[t]))
        /\ \A l : In(l, Tail(todo[t])) <=> In(l, todo[t]) /\ l # h
    BY <1>1, <1>5, TailRest
  <2> QED
    BY <1>2, <1>3, <1>5, <2>1, <2>2
<1> QED
  BY <1>4, <1>5

\* What a thread holds follows from its phase and its lists.
LEMMA Others ==
    ASSUME NEW u \in Threads, phase'[u] = phase[u], list'[u] = list[u], todo'[u] = todo[u]
    PROVE  \A l \in Loggers : /\ Locked(u, l)' <=> Locked(u, l)
                              /\ Locking(u, l)' <=> Locking(u, l)
                              /\ Parts(u, l)' = Parts(u, l)
BY DEF Locked, Locking, Parts, HeadLength

LEMMA HeadEffect ==
    ASSUME TypeOK, ListInv, NEW t \in Threads, WriteHead(t)
    PROVE  \A l \in Loggers :
             /\ ~ Locked(t, l) /\ ~ Locked(t, l)'
             /\ Locking(t, l)' <=> Locking(t, l) \/ l = Head(todo[t])
             /\ ~ Locking(t, Head(todo[t]))
             /\ Parts(t, l) = HeadLength(l) /\ Parts(t, l)' = HeadLength(l)
<1>1. phase[t] = "head" /\ Visit(t, "lock", list[t]) /\ list' = list
  BY DEF WriteHead
<1>2. \A l \in Loggers : In(l, todo[t]) => In(l, list[t])
  BY ListTypes
<1> QED
  BY <1>1, <1>2, VisitRest, ListTypes DEF Phases, Locked, Locking, Parts, HeadLength

LEMMA LockEffect ==
    ASSUME TypeOK, ListInv, NEW t \in Threads, Lock(t)
    PROVE  \A l \in Loggers :
             /\ Locked(t, l)' <=> Locked(t, l) \/ l = Head(todo[t])
             /\ Locking(t, l)' <=> Locking(t, l) /\ l # Head(todo[t])
             /\ Locking(t, Head(todo[t])) /\ ~ Locked(t, Head(todo[t]))
             /\ Parts(t, l) = HeadLength(l)
             /\ In(l, list[t]) => Parts(t, l)' = HeadLength(l)
<1>1. phase[t] = "lock" /\ Visit(t, "text", list[t]) /\ list' = list
  BY DEF Lock
<1>2. \A l \in Loggers : In(l, todo[t]) => In(l, list[t])
  BY ListTypes
<1> QED
  BY <1>1, <1>2, VisitRest, ListTypes DEF Phases, Locked, Locking, Parts, HeadLength

LEMMA TextEffect ==
    ASSUME TypeOK, ListInv, NEW t \in Threads, WriteText(t)
    PROVE  \A l \in Loggers :
             /\ Locked(t, l)' <=> Locked(t, l)
             /\ ~ Locking(t, l) /\ ~ Locking(t, l)'
             /\ Locked(t, Head(todo[t]))
             /\ In(l, list[t]) =>
                  Parts(t, l)' = IF l = Head(todo[t]) THEN HeadLength(l) + 1 ELSE Parts(t, l)
             /\ Parts(t, Head(todo[t])) = HeadLength(Head(todo[t]))
<1>1. phase[t] = "text" /\ Visit(t, "end", list[t]) /\ list' = list
  BY DEF WriteText
<1>2. \A l \in Loggers : In(l, todo[t]) => In(l, list[t])
  BY ListTypes
<1> QED
  BY <1>1, <1>2, VisitRest, ListTypes DEF Phases, Locked, Locking, Parts, HeadLength

LEMMA EndEffect ==
    ASSUME TypeOK, ListInv, NEW t \in Threads, EndLine(t)
    PROVE  \A l \in Loggers :
             /\ Locked(t, l)' <=> Locked(t, l) /\ l # Head(todo[t])
             /\ ~ Locking(t, l) /\ ~ Locking(t, l)'
             /\ Locked(t, Head(todo[t]))
             /\ Locked(t, l)' => Parts(t, l)' = Parts(t, l)
             /\ Parts(t, l) = HeadLength(l) + 1
<1>1. /\ phase[t] = "end" /\ Visit(t, "idle", <<>>)
      /\ list' = [list EXCEPT ![t] = IF Len(todo[t]) = 1 THEN <<>> ELSE @]
  BY DEF EndLine
<1>2. \A l \in Loggers : In(l, todo[t]) => In(l, list[t])
  BY ListTypes
<1>3. Len(todo[t]) # 1 => list'[t] = list[t]
  BY <1>1 DEF TypeOK
<1>4. <<>> \in Seq(Loggers)
  OBVIOUS
<1> QED
  BY <1>1, <1>2, <1>3, <1>4, VisitRest DEF Phases, Locked, Locking, Parts, HeadLength

-----------------------------------------------------------------------------
(* The lists and the types are kept.                                        *)

\* The collection is the only part that Attach changes.
LEMMA AttachKeeps ==
    ASSUME TypeOK, ListInv, Attach
    PROVE  /\ collection' \in [Levels -> Seq(Loggers)]
           /\ \A v \in Levels : NoRepeat(collection'[v])
<1>1. PICK n \in DOMAIN Installed :
          /\ ~ IsAttached(Installed[n])
          /\ collection' = [v \in Levels |-> IF v \in LevelsOf(Installed[n])
                                             THEN <<Installed[n]>> \o collection[v]
                                             ELSE collection[v]]
  BY DEF Attach
<1> DEFINE l == Installed[n]
<1>2. l \in Loggers
  BY DEF Loggers
<1> HIDE DEF l
<1>3. ASSUME NEW v \in Levels
      PROVE  collection'[v] \in Seq(Loggers) /\ NoRepeat(collection'[v])
  <2>1. collection[v] \in Seq(Loggers) /\ NoRepeat(collection[v]) /\ ~ In(l, collection[v])
    BY <1>1 DEF TypeOK, ListInv, IsAttached, In, l
  <2>2. <<l>> \o collection[v] \in Seq(Loggers) /\ NoRepeat(<<l>> \o collection[v])
    BY <1>2, <2>1, Prepended
  <2>3. collection'[v] = <<l>> \o collection[v] \/ collection'[v] = collection[v]
    BY <1>1 DEF l
  <2> QED
    BY <2>1, <2>2, <2>3
<1>4. collection' = [v \in Levels |-> collection'[v]]
  BY <1>1
<1> QED
  BY <1>3, <1>4

LEMMA ListKeeps == TypeOK /\ ListInv /\ [Next]_vars => ListInv'
<1> SUFFICES ASSUME TypeOK, ListInv, [Next]_vars
             PROVE  ListInv'
  OBVIOUS
<1>1. CASE Attach
  BY <1>1, AttachKeeps DEF Attach, ListInv
<1>2. ASSUME NEW t \in Threads, NEW level \in Levels, Statement(t, level)
      PROVE  ListInv'
  <2>1. CASE collection[level] = <<>>
    BY <1>2, <2>1 DEF Statement, ListInv
  <2>2. CASE collection[level] # <<>>
    <3>1. /\ phase' = [phase EXCEPT ![t] = "head"]
          /\ list' = [list EXCEPT ![t] = collection[level]]
          /\ todo' = [todo EXCEPT ![t] = collection[level]]
          /\ collection' = collection
      BY <1>2, <2>2 DEF Statement
    <3>2. NoRepeat(collection[level])
      BY DEF ListInv
    <3> QED
      BY <2>2, <3>1, <3>2 DEF ListInv, TypeOK
  <2> QED
    BY <2>1, <2>2
<1>3. ASSUME NEW t \in Threads, Write(t)
      PROVE  ListInv'
  <2>1. PICK next \in Phases, from \in Seq(Loggers) :
          /\ phase[t] # "idle" /\ Visit(t, next, from)
          /\ next = "idle" \/ from = list[t]
          /\ \/ list' = list /\ from = list[t]
             \/ /\ next = "idle" /\ from = <<>>
                /\ list' = [list EXCEPT ![t] = IF Len(todo[t]) = 1 THEN <<>> ELSE @]
          /\ collection' = collection
    <3>1. list[t] \in Seq(Loggers) /\ <<>> \in Seq(Loggers)
      BY ListTypes
    <3> QED
      BY <1>3, <3>1 DEF Write, WriteHead, Lock, WriteText, EndLine, Phases
  <2>2. /\ \A u \in Threads \ {t} : /\ phase'[u] = phase[u] /\ todo'[u] = todo[u]
                                    /\ list'[u] = list[u]
    BY <2>1, VisitRest DEF TypeOK
  <2>3. CASE phase'[t] = next /\ todo'[t] = from /\ Len(todo[t]) = 1
    <3>1. list[t] # <<>>
      BY <2>1, VisitRest DEF In
    <3>2. CASE next = "idle"
      <4>1. \/ list'[t] = <<>> /\ todo'[t] = <<>>
            \/ list'[t] = list[t] /\ todo'[t] = list[t]
        BY <2>1, <2>3 DEF TypeOK
      <4>2. NoRepeat(<<>>)
        BY DEF NoRepeat
      <4> QED
        BY <2>1, <2>2, <2>3, <3>2, <4>1, <4>2, ListTypes DEF ListInv
    <3>3. CASE next # "idle"
      BY <2>1, <2>2, <2>3, <3>1, <3>3, ListTypes DEF ListInv
    <3> QED
      BY <3>2, <3>3
  <2>4. CASE /\ phase'[t] = phase[t] /\ todo'[t] # <<>> /\ Len(todo[t]) # 1
             /\ NoRepeat(todo'[t])
             /\ \A l \in Loggers : In(l, todo'[t]) <=> In(l, todo[t]) /\ l # Head(todo[t])
    <3>1. list'[t] = list[t]
      BY <2>1, <2>4 DEF TypeOK
    <3> QED
      BY <2>1, <2>2, <2>4, <3>1, ListTypes DEF ListInv
  <2> QED
    BY <2>1, <2>3, <2>4, VisitRest
<1>4. CASE UNCHANGED vars
  BY <1>4 DEF vars, ListInv
<1> QED
  BY <1>1, <1>2, <1>3, <1>4 DEF Next

-----------------------------------------------------------------------------
(* The mutexes and the lines are kept.                                      *)

LEMMA NoThreadFact == \A t \in Threads : t # NoThread
BY LoggerAssumption

LEMMA BusyAlone ==
    ASSUME MutexInv, NEW t \in Threads, NEW u \in Threads, NEW l \in Loggers,
           Busy(t, l), Busy(u, l)
    PROVE  t = u
BY NoThreadFact DEF Busy, MutexInv, Locking

LEMMA OutSame ==
    ASSUME NEW l \in Loggers, OutAt(l), out'[l] = out[l],
           \A u \in Threads : /\ Busy(u, l)' <=> Busy(u, l)
                              /\ Busy(u, l) => Parts(u, l)' = Parts(u, l) /\ sent'[u] = sent[u]
    PROVE  OutAt(l)'
BY DEF OutAt, LineLength

LEMMA HeadKeeps ==
    ASSUME IInv, NEW t \in Threads, WriteHead(t)
    PROVE  MutexInv' /\ OutInv' /\ out' \in [Loggers -> Seq(Entry)] /\ LinesWhole'
<1>2. /\ TypeOK /\ ListInv /\ MutexInv /\ OutInv /\ LinesWhole
  BY DEF IInv
<1>0. PICK h \in Loggers : h = Head(todo[t])
  BY <1>2, VisitRest, ListTypes DEF WriteHead, Phases
<1>1. /\ phase[t] = "head" /\ mutex[h] = NoThread /\ Writes(t, h, Heading(h))
      /\ Visit(t, "lock", list[t]) /\ UNCHANGED <<collection, sMutex, mutex, list, sent>>
  BY <1>0 DEF WriteHead
<1>3. /\ h \in Loggers /\ In(h, list[t]) /\ phase'[t] \in {"head", "lock"}
      /\ \A u \in Threads \ {t} : phase'[u] = phase[u] /\ todo'[u] = todo[u]
  BY <1>0, <1>1, <1>2, VisitRest, ListTypes DEF Phases
<1>4. \A u \in Threads \ {t} : \A l \in Loggers :
        /\ Locked(u, l)' <=> Locked(u, l)
        /\ Locking(u, l)' <=> Locking(u, l)
        /\ Parts(u, l)' = Parts(u, l)
  BY <1>1, <1>3, Others
<1>5. \A l \in Loggers :
        /\ ~ Locked(t, l) /\ ~ Locked(t, l)'
        /\ Locking(t, l)' <=> Locking(t, l) \/ l = h
        /\ ~ Locking(t, h)
        /\ Parts(t, l) = HeadLength(l) /\ Parts(t, l)' = HeadLength(l)
  BY <1>0, <1>2, HeadEffect
<1>6. MutexInv'
  <2>1. \A u \in Threads : (sMutex = u)' <=> phase'[u] \in {"head", "lock"}
    BY <1>1, <1>2, <1>3 DEF MutexInv
  <2>2. \A u \in Threads, l \in Loggers :
          /\ (mutex[l] = u)' <=> Locked(u, l)'
          /\ Locking(u, l)' => (mutex[l] = NoThread)'
    BY <1>1, <1>2, <1>4, <1>5 DEF MutexInv
  <2> QED
    BY <2>1, <2>2 DEF MutexInv
<1>7. \A u \in Threads : ~ Busy(u, h)
  <2>1. SUFFICES ASSUME NEW u \in Threads, Busy(u, h)
                 PROVE  FALSE
    OBVIOUS
  <2>2. Locking(u, h)
    BY <1>1, <1>2, <1>3, <2>1, NoThreadFact DEF Busy, MutexInv
  <2>3. sMutex = u /\ sMutex = t
    BY <1>1, <1>2, <2>2 DEF MutexInv, Locking
  <2> QED
    BY <1>3, <1>5, <2>2, <2>3
<1>8. Len(out[h]) % LineLength(h) = 0
  BY <1>2, <1>3, <1>7 DEF OutInv, OutAt
<1>9. /\ out' \in [Loggers -> Seq(Entry)] /\ LinesWhole'
      /\ \A l \in Loggers \ {h} : out'[l] = out[l]
      /\ Len(out'[h]) % LineLength(h) = HeadLength(h)
      /\ HeadLength(h) > 0 => /\ out'[h][Len(out'[h])].thread = t
                              /\ out'[h][Len(out'[h])].number = sent[t]
  <2>1. CASE h = "box"
    <3>1. Writes(t, h, <<>>)
      BY <1>1, <2>1 DEF Heading
    <3>2. out' = out
      BY <1>2, <3>1, WritesNone
    <3>3. LinesWhole'
      BY <1>2, <3>2 DEF LinesWhole, Line
    <3>4. HeadLength(h) = 0
      BY <2>1 DEF HeadLength
    <3>5. out \in [Loggers -> Seq(Entry)]
      BY <1>2 DEF TypeOK, Entry
    <3>6. ~ (HeadLength(h) > 0)
      BY <3>4
    <3> QED
      BY <1>8, <3>2, <3>3, <3>4, <3>5, <3>6
  <2>2. CASE h # "box"
    <3>1. Heading(h) = <<Line(h)[1]>> /\ HeadLength(h) = 1 /\ LineLength(h) = 3
      BY <1>3, <2>2, LineParts DEF HeadLength, LineLength
    <3>2. PICK n \in Nat : n = 0
      OBVIOUS
    <3>3. n + 1 = 1 /\ ~ (n > 0) /\ n + 1 # 3
      BY <3>2
    <3>4. Writes(t, h, <<Line(h)[n + 1]>>)
      BY <1>1, <3>1, <3>3
    <3>5. /\ out' \in [Loggers -> Seq(Entry)] /\ LinesWhole'
          /\ \A l \in Loggers \ {h} : out'[l] = out[l]
          /\ Len(out'[h]) % LineLength(h) = IF n + 1 = LineLength(h) THEN 0 ELSE n + 1
          /\ out'[h][Len(out'[h])].thread = t
          /\ out'[h][Len(out'[h])].number = sent[t]
      BY <1>2, <1>8, <3>2, <3>3, <3>4, NextPart
    <3> QED
      BY <3>1, <3>3, <3>5
  <2> QED
    BY <2>1, <2>2
<1>10. ASSUME NEW l \in Loggers
       PROVE  OutAt(l)'
  <2>1. CASE l = h
    <3>1. Busy(t, h)' /\ \A u \in Threads \ {t} : ~ Busy(u, h)'
      BY <1>3, <1>4, <1>5, <1>7 DEF Busy
    <3> QED
      BY <1>1, <1>3, <1>5, <1>9, <2>1, <3>1 DEF OutAt, LineLength
  <2>2. CASE l # h
    <3>1. \A u \in Threads : /\ Busy(u, l)' <=> Busy(u, l)
                             /\ Parts(u, l)' = Parts(u, l) /\ sent'[u] = sent[u]
      BY <1>1, <1>4, <1>5, <2>2 DEF Busy
    <3> QED
      BY <1>2, <1>9, <2>2, <3>1, OutSame DEF OutInv
  <2> QED
    BY <2>1, <2>2
<1> QED
  BY <1>6, <1>9, <1>10 DEF OutInv

LEMMA LockKeeps ==
    ASSUME IInv, NEW t \in Threads, Lock(t)
    PROVE  MutexInv' /\ OutInv' /\ out' = out /\ LinesWhole'
<1>1. TypeOK /\ ListInv /\ MutexInv /\ OutInv /\ LinesWhole
  BY DEF IInv
<1>2. PICK h \in Loggers : h = Head(todo[t])
  BY <1>1, VisitRest, ListTypes DEF Lock, Phases
<1>3. /\ phase[t] = "lock" /\ mutex[h] = NoThread /\ mutex' = [mutex EXCEPT ![h] = t]
      /\ sMutex' = IF Len(todo[t]) = 1 THEN NoThread ELSE sMutex
      /\ Visit(t, "text", list[t]) /\ UNCHANGED <<collection, list, sent, out>>
  BY <1>2 DEF Lock
<1>4. /\ In(h, list[t])
      /\ phase'[t] = IF Len(todo[t]) = 1 THEN "text" ELSE "lock"
      /\ \A u \in Threads \ {t} : phase'[u] = phase[u] /\ todo'[u] = todo[u]
  BY <1>1, <1>2, <1>3, VisitRest, ListTypes DEF Phases
<1>5. \A u \in Threads \ {t} : \A l \in Loggers :
        /\ Locked(u, l)' <=> Locked(u, l)
        /\ Locking(u, l)' <=> Locking(u, l)
        /\ Parts(u, l)' = Parts(u, l)
  BY <1>3, <1>4, Others
<1>6. \A l \in Loggers :
        /\ Locked(t, l)' <=> Locked(t, l) \/ l = h
        /\ Locking(t, l)' <=> Locking(t, l) /\ l # h
        /\ Locking(t, h) /\ ~ Locked(t, h)
        /\ Parts(t, l) = HeadLength(l)
        /\ In(l, list[t]) => Parts(t, l)' = HeadLength(l)
  BY <1>1, <1>2, LockEffect
<1>7. sMutex = t /\ \A u \in Threads \ {t} : phase[u] \notin {"head", "lock"}
  BY <1>1, <1>3 DEF MutexInv
<1>8. \A u \in Threads : (sMutex = u)' <=> phase'[u] \in {"head", "lock"}
  BY <1>3, <1>4, <1>7, NoThreadFact
<1>9. ASSUME NEW u \in Threads, NEW l \in Loggers
      PROVE  /\ (mutex[l] = u)' <=> Locked(u, l)'
             /\ Locking(u, l)' => (mutex[l] = NoThread)'
  <2>1. mutex'[l] = IF l = h THEN t ELSE mutex[l]
    BY <1>1, <1>3 DEF TypeOK
  <2>2. CASE u = t
    BY <1>1, <1>6, <2>1, <2>2 DEF MutexInv
  <2>3. CASE u # t
    <3>1. ~ Locking(u, l)
      BY <1>7, <2>3 DEF Locking
    <3>2. l = h => ~ Locked(u, l)
      BY <1>1, <1>3, NoThreadFact DEF MutexInv
    <3> QED
      BY <1>1, <1>5, <2>1, <2>3, <3>1, <3>2 DEF MutexInv
  <2> QED
    BY <2>2, <2>3
<1>10. ASSUME NEW l \in Loggers
       PROVE  OutAt(l)'
  <2>1. \A u \in Threads : /\ Busy(u, l)' <=> Busy(u, l)
                           /\ Busy(u, l) => Parts(u, l)' = Parts(u, l)
                           /\ sent'[u] = sent[u]
    <3>1. Busy(t, l) => In(l, list[t])
      BY DEF Busy, Locked, Locking
    <3>2. Busy(t, l)' <=> Busy(t, l)
      BY <1>6 DEF Busy
    <3> QED
      BY <1>3, <1>5, <1>6, <3>1, <3>2 DEF Busy
  <2> QED
    BY <1>1, <1>3, <2>1, OutSame DEF OutInv
<1>11. LinesWhole'
  BY <1>1, <1>3 DEF LinesWhole, Line
<1> QED
  BY <1>3, <1>8, <1>9, <1>10, <1>11 DEF MutexInv, OutInv

LEMMA TextKeeps ==
    ASSUME IInv, NEW t \in Threads, WriteText(t)
    PROVE  MutexInv' /\ OutInv' /\ out' \in [Loggers -> Seq(Entry)] /\ LinesWhole'
<1>1. TypeOK /\ ListInv /\ MutexInv /\ OutInv /\ LinesWhole
  BY DEF IInv
<1>2. PICK h \in Loggers : h = Head(todo[t])
  BY <1>1, VisitRest, ListTypes DEF WriteText, Phases
<1>3. /\ phase[t] = "text" /\ Writes(t, h, <<"text">>) /\ Visit(t, "end", list[t])
      /\ UNCHANGED <<collection, sMutex, mutex, list, sent>>
  BY <1>2 DEF WriteText
<1>4. /\ In(h, list[t]) /\ phase'[t] \in {"text", "end"}
      /\ \A u \in Threads \ {t} : phase'[u] = phase[u] /\ todo'[u] = todo[u]
  BY <1>1, <1>2, <1>3, VisitRest, ListTypes DEF Phases
<1>5. \A u \in Threads \ {t} : \A l \in Loggers :
        /\ Locked(u, l)' <=> Locked(u, l)
        /\ Locking(u, l)' <=> Locking(u, l)
        /\ Parts(u, l)' = Parts(u, l)
  BY <1>3, <1>4, Others
<1>6. \A l \in Loggers :
        /\ Locked(t, l)' <=> Locked(t, l)
        /\ ~ Locking(t, l) /\ ~ Locking(t, l)'
        /\ Locked(t, h)
        /\ In(l, list[t]) => Parts(t, l)' = IF l = h THEN HeadLength(l) + 1 ELSE Parts(t, l)
        /\ Parts(t, h) = HeadLength(h)
  BY <1>1, <1>2, TextEffect
<1>7. MutexInv'
  <2>1. \A u \in Threads : (sMutex = u)' <=> phase'[u] \in {"head", "lock"}
    BY <1>1, <1>3, <1>4 DEF MutexInv
  <2>2. \A u \in Threads, l \in Loggers :
          /\ (mutex[l] = u)' <=> Locked(u, l)'
          /\ Locking(u, l)' => (mutex[l] = NoThread)'
    BY <1>1, <1>3, <1>5, <1>6 DEF MutexInv
  <2> QED
    BY <2>1, <2>2 DEF MutexInv
<1>8. /\ Len(out[h]) % LineLength(h) = HeadLength(h) /\ HeadLength(h) \in Nat
      /\ HeadLength(h) > 0 => /\ out[h][Len(out[h])].thread = t
                              /\ out[h][Len(out[h])].number = sent[t]
      /\ LineLength(h) = HeadLength(h) + 2
      /\ HeadLength(h) + 1 # LineLength(h)
      /\ Line(h)[HeadLength(h) + 1] = "text"
  <2>1. Busy(t, h)
    BY <1>6 DEF Busy
  <2>2. HeadLength(h) \in Nat /\ LineLength(h) = HeadLength(h) + 2
        /\ Line(h)[HeadLength(h) + 1] = "text"
    BY LineParts
  <2> QED
    BY <1>1, <1>6, <2>1, <2>2 DEF OutInv, OutAt
<1>9. /\ out' \in [Loggers -> Seq(Entry)] /\ LinesWhole'
      /\ \A l \in Loggers \ {h} : out'[l] = out[l]
      /\ Len(out'[h]) % LineLength(h) = HeadLength(h) + 1
      /\ out'[h][Len(out'[h])].thread = t
      /\ out'[h][Len(out'[h])].number = sent[t]
  <2>1. Writes(t, h, <<Line(h)[HeadLength(h) + 1]>>)
    BY <1>3, <1>8
  <2> QED
    BY <1>1, <1>8, <2>1, NextPart
<1>10. ASSUME NEW l \in Loggers
       PROVE  OutAt(l)'
  <2>1. CASE l = h
    <3>1. Busy(t, h) /\ Busy(t, h)' /\ \A u \in Threads \ {t} : ~ Busy(u, h)
      BY <1>1, <1>6, BusyAlone DEF Busy
    <3>2. \A u \in Threads \ {t} : ~ Busy(u, h)'
      BY <1>5, <3>1 DEF Busy
    <3>3. Parts(t, h)' = HeadLength(h) + 1
      BY <1>4, <1>6
    <3> QED
      BY <1>3, <1>9, <2>1, <3>1, <3>2, <3>3 DEF OutAt, LineLength
  <2>2. CASE l # h
    <3>1. Busy(t, l) => In(l, list[t])
      BY DEF Busy, Locked, Locking
    <3>2. \A u \in Threads : /\ Busy(u, l)' <=> Busy(u, l)
                             /\ Busy(u, l) => Parts(u, l)' = Parts(u, l)
                             /\ sent'[u] = sent[u]
      BY <1>3, <1>5, <1>6, <2>2, <3>1 DEF Busy
    <3> QED
      BY <1>1, <1>9, <2>2, <3>2, OutSame DEF OutInv
  <2> QED
    BY <2>1, <2>2
<1> QED
  BY <1>7, <1>9, <1>10 DEF OutInv

LEMMA EndKeeps ==
    ASSUME IInv, NEW t \in Threads, EndLine(t)
    PROVE  MutexInv' /\ OutInv' /\ out' \in [Loggers -> Seq(Entry)] /\ LinesWhole'
<1>1. TypeOK /\ ListInv /\ MutexInv /\ OutInv /\ LinesWhole
  BY DEF IInv
<1>2. PICK h \in Loggers : h = Head(todo[t])
  BY <1>1, VisitRest, ListTypes DEF EndLine, Phases
<1>3. /\ phase[t] = "end" /\ Writes(t, h, LineEnd(h)) /\ mutex' = [mutex EXCEPT ![h] = NoThread]
      /\ Visit(t, "idle", <<>>) /\ UNCHANGED <<collection, sMutex, sent>>
      /\ list' = [list EXCEPT ![t] = IF Len(todo[t]) = 1 THEN <<>> ELSE @]
  BY <1>2 DEF EndLine
<1>4. /\ phase'[t] \in {"end", "idle"}
      /\ \A u \in Threads \ {t} :
            phase'[u] = phase[u] /\ todo'[u] = todo[u] /\ list'[u] = list[u]
  <2>1. <<>> \in Seq(Loggers)
    OBVIOUS
  <2> QED
    BY <1>1, <1>3, <2>1, VisitRest DEF Phases, TypeOK
<1>5. \A u \in Threads \ {t} : \A l \in Loggers :
        /\ Locked(u, l)' <=> Locked(u, l)
        /\ Locking(u, l)' <=> Locking(u, l)
        /\ Parts(u, l)' = Parts(u, l)
  BY <1>4, Others
<1>6. \A l \in Loggers :
        /\ Locked(t, l)' <=> Locked(t, l) /\ l # h
        /\ ~ Locking(t, l) /\ ~ Locking(t, l)'
        /\ Locked(t, h)
        /\ Locked(t, l)' => Parts(t, l)' = Parts(t, l)
        /\ Parts(t, l) = HeadLength(l) + 1
  BY <1>1, <1>2, EndEffect
<1>7. MutexInv'
  <2>1. \A u \in Threads : (sMutex = u)' <=> phase'[u] \in {"head", "lock"}
    BY <1>1, <1>3, <1>4 DEF MutexInv
  <2>2. ASSUME NEW u \in Threads, NEW l \in Loggers
        PROVE  /\ (mutex[l] = u)' <=> Locked(u, l)'
               /\ Locking(u, l)' => (mutex[l] = NoThread)'
    <3>1. mutex'[l] = IF l = h THEN NoThread ELSE mutex[l]
      BY <1>1, <1>3 DEF TypeOK
    <3>2. u # t /\ l = h => ~ Locked(u, l)
      BY <1>1, <1>6 DEF MutexInv
    <3> QED
      BY <1>1, <1>5, <1>6, <3>1, <3>2, NoThreadFact DEF MutexInv
  <2> QED
    BY <2>1, <2>2 DEF MutexInv
<1>8. /\ Len(out[h]) % LineLength(h) = HeadLength(h) + 1 /\ HeadLength(h) + 1 \in Nat
      /\ out[h][Len(out[h])].thread = t /\ out[h][Len(out[h])].number = sent[t]
      /\ LineLength(h) = HeadLength(h) + 1 + 1
      /\ LineEnd(h) = <<Line(h)[HeadLength(h) + 1 + 1]>>
  <2>1. Busy(t, h) /\ Parts(t, h) = HeadLength(h) + 1
    BY <1>6 DEF Busy
  <2>2. HeadLength(h) \in {0, 1} /\ LineLength(h) = HeadLength(h) + 2
        /\ LineEnd(h) = <<Line(h)[HeadLength(h) + 2]>>
    BY LineParts
  <2>3. HeadLength(h) + 1 + 1 = HeadLength(h) + 2 /\ HeadLength(h) + 1 > 0
        /\ HeadLength(h) + 1 \in Nat
    BY <2>2
  <2>4. /\ Len(out[h]) % LineLength(h) = Parts(t, h)
        /\ Parts(t, h) > 0 => /\ out[h][Len(out[h])].thread = t
                              /\ out[h][Len(out[h])].number = sent[t]
    BY <1>1, <2>1 DEF OutInv, OutAt
  <2>5. LineLength(h) = HeadLength(h) + 1 + 1
        /\ LineEnd(h) = <<Line(h)[HeadLength(h) + 1 + 1]>>
    BY <2>2, <2>3
  <2> QED
    BY <2>1, <2>3, <2>4, <2>5
<1>9. /\ out' \in [Loggers -> Seq(Entry)] /\ LinesWhole'
      /\ \A l \in Loggers \ {h} : out'[l] = out[l]
      /\ Len(out'[h]) % LineLength(h) = 0
  <2>1. PICK n \in Nat : n = HeadLength(h) + 1
    BY <1>8
  <2>2. Writes(t, h, <<Line(h)[n + 1]>>)
    BY <1>3, <1>8, <2>1
  <2> QED
    BY <1>1, <1>8, <2>1, <2>2, NextPart
<1>10. ASSUME NEW l \in Loggers
       PROVE  OutAt(l)'
  <2>1. CASE l = h
    <3>1. \A u \in Threads \ {t} : ~ Busy(u, h)
      BY <1>1, <1>6, BusyAlone DEF Busy
    <3>2. \A u \in Threads : ~ Busy(u, h)'
      BY <1>5, <1>6, <3>1 DEF Busy
    <3> QED
      BY <1>9, <2>1, <3>2 DEF OutAt, LineLength
  <2>2. CASE l # h
    <3>1. \A u \in Threads : /\ Busy(u, l)' <=> Busy(u, l)
                             /\ Busy(u, l) => Parts(u, l)' = Parts(u, l)
                             /\ sent'[u] = sent[u]
      BY <1>3, <1>5, <1>6, <2>2 DEF Busy
    <3> QED
      BY <1>1, <1>9, <2>2, <3>1, OutSame DEF OutInv
  <2> QED
    BY <2>1, <2>2
<1> QED
  BY <1>7, <1>9, <1>10 DEF OutInv

-----------------------------------------------------------------------------
(* Every step.                                                              *)

LEMMA WriteTypes ==
    ASSUME IInv, NEW t \in Threads, Write(t), out' \in [Loggers -> Seq(Entry)]
    PROVE  TypeOK'
<1>1. TypeOK /\ ListInv
  BY DEF IInv
<1>2. PICK next \in Phases, from \in Seq(Loggers) :
        /\ phase[t] # "idle" /\ Visit(t, next, from)
        /\ list' = list \/ list' = [list EXCEPT ![t] = IF Len(todo[t]) = 1 THEN <<>> ELSE @]
        /\ UNCHANGED <<collection, sent>>
        /\ sMutex' \in {sMutex, NoThread}
        /\ mutex' \in {mutex, [mutex EXCEPT ![Head(todo[t])] = t],
                       [mutex EXCEPT ![Head(todo[t])] = NoThread]}
  <2>1. list[t] \in Seq(Loggers) /\ <<>> \in Seq(Loggers)
    BY <1>1, ListTypes
  <2> QED
    BY <2>1 DEF Write, WriteHead, Lock, WriteText, EndLine, Phases
<1>3. phase' \in [Threads -> Phases] /\ todo' \in [Threads -> Seq(Loggers)]
      /\ Head(todo[t]) \in Loggers
  BY <1>1, <1>2, VisitRest
<1>4. list' \in [Threads -> Seq(Loggers)]
  <2>1. list \in [Threads -> Seq(Loggers)] /\ <<>> \in Seq(Loggers)
    BY <1>1 DEF TypeOK
  <2> QED
    BY <1>2, <2>1
<1>5. mutex' \in [Loggers -> Threads \cup {NoThread}] /\ sMutex' \in Threads \cup {NoThread}
  <2>1. mutex \in [Loggers -> Threads \cup {NoThread}] /\ sMutex \in Threads \cup {NoThread}
    BY <1>1 DEF TypeOK
  <2> QED
    BY <1>2, <1>3, <2>1
<1>6. collection' \in [Levels -> Seq(Loggers)] /\ sent' \in [Threads -> 0 .. MaxMessages]
  BY <1>1, <1>2 DEF TypeOK
<1> QED
  BY <1>3, <1>4, <1>5, <1>6 DEF TypeOK, Entry

\* Nothing of what a thread holds changes but that of one that begins.
LEMMA StatementKeeps ==
    ASSUME IInv, NEW t \in Threads, NEW level \in Levels, Statement(t, level)
    PROVE  TypeOK' /\ MutexInv' /\ OutInv' /\ LinesWhole'
<1>1. TypeOK /\ ListInv /\ MutexInv /\ OutInv /\ LinesWhole
  BY DEF IInv
<1>2. /\ phase[t] = "idle" /\ sent[t] < MaxMessages /\ sMutex = NoThread
      /\ sent' = [sent EXCEPT ![t] = @ + 1] /\ UNCHANGED <<collection, mutex, out>>
      /\ \/ UNCHANGED <<sMutex, phase, list, todo>>
         \/ /\ sMutex' = t
            /\ phase' = [phase EXCEPT ![t] = "head"]
            /\ list' = [list EXCEPT ![t] = collection[level]]
            /\ todo' = [todo EXCEPT ![t] = collection[level]]
  BY DEF Statement
<1>3. TypeOK'
  <2>1. collection[level] \in Seq(Loggers) /\ sent[t] \in 0 .. MaxMessages /\ MaxMessages \in Nat
    BY <1>1, LoggerAssumption DEF TypeOK
  <2>2. sent[t] + 1 \in 0 .. MaxMessages
    BY <1>2, <2>1
  <2>3. sent' \in [Threads -> 0 .. MaxMessages]
    BY <1>1, <1>2, <2>2 DEF TypeOK
  <2>4. /\ phase' \in [Threads -> Phases] /\ list' \in [Threads -> Seq(Loggers)]
        /\ todo' \in [Threads -> Seq(Loggers)] /\ sMutex' \in Threads \cup {NoThread}
    BY <1>1, <1>2, <2>1 DEF TypeOK, Phases
  <2>5. /\ collection' \in [Levels -> Seq(Loggers)]
        /\ mutex' \in [Loggers -> Threads \cup {NoThread}]
        /\ out' \in [Loggers -> Seq(Entry)]
    BY <1>1, <1>2 DEF TypeOK, Entry
  <2> QED
    BY <2>3, <2>4, <2>5 DEF TypeOK, Entry
<1>4. \A u \in Threads \ {t} :
        phase'[u] = phase[u] /\ list'[u] = list[u] /\ todo'[u] = todo[u] /\ sent'[u] = sent[u]
  BY <1>1, <1>2 DEF TypeOK
<1>5. \A u \in Threads \ {t} : \A l \in Loggers :
        /\ Locked(u, l)' <=> Locked(u, l)
        /\ Locking(u, l)' <=> Locking(u, l)
        /\ Parts(u, l)' = Parts(u, l)
  BY <1>4, Others
<1>6. \/ phase'[t] = "idle" /\ sMutex' = NoThread
      \/ phase'[t] = "head" /\ sMutex' = t /\ list'[t] = todo'[t]
  BY <1>1, <1>2 DEF TypeOK
<1>7. \A l \in Loggers : /\ ~ Locked(t, l) /\ ~ Locked(t, l)'
                         /\ ~ Locking(t, l) /\ ~ Locking(t, l)'
  BY <1>2, <1>6 DEF Locked, Locking
<1>8. MutexInv'
  <2>1. \A u \in Threads : (sMutex = u)' <=> phase'[u] \in {"head", "lock"}
    BY <1>1, <1>2, <1>4, <1>6, NoThreadFact DEF MutexInv
  <2>2. \A u \in Threads, l \in Loggers :
          /\ (mutex[l] = u)' <=> Locked(u, l)'
          /\ Locking(u, l)' => (mutex[l] = NoThread)'
    BY <1>1, <1>2, <1>5, <1>7 DEF MutexInv
  <2> QED
    BY <2>1, <2>2 DEF MutexInv
<1>9. OutInv'
  <2>1. SUFFICES ASSUME NEW l \in Loggers
                 PROVE  OutAt(l)'
    BY DEF OutInv
  <2>2. \A u \in Threads : /\ Busy(u, l)' <=> Busy(u, l)
                           /\ Busy(u, l) => Parts(u, l)' = Parts(u, l) /\ sent'[u] = sent[u]
    BY <1>4, <1>5, <1>7 DEF Busy
  <2> QED
    BY <1>1, <1>2, <2>2, OutSame DEF OutInv
<1>10. LinesWhole'
  BY <1>1, <1>2 DEF LinesWhole, Line
<1> QED
  BY <1>3, <1>8, <1>9, <1>10

\* What the proofs are about does not depend on the collection.
LEMMA SameThreads ==
    ASSUME IInv, UNCHANGED <<sMutex, mutex, phase, list, todo, sent, out>>
    PROVE  MutexInv' /\ OutInv' /\ LinesWhole'
<1>1. MutexInv /\ OutInv /\ LinesWhole
  BY DEF IInv
<1>2. \A u \in Threads, l \in Loggers :
        /\ Locked(u, l)' <=> Locked(u, l)
        /\ Locking(u, l)' <=> Locking(u, l)
        /\ Parts(u, l)' = Parts(u, l)
  BY Others
<1>3. MutexInv'
  BY <1>1, <1>2 DEF MutexInv
<1>4. ASSUME NEW l \in Loggers
      PROVE  OutAt(l)'
  BY <1>1, <1>2, OutSame DEF OutInv, Busy
<1>5. LinesWhole'
  BY <1>1 DEF LinesWhole, Line
<1> QED
  BY <1>3, <1>4, <1>5 DEF OutInv

LEMMA IInvInit == Init => IInv
<1> SUFFICES ASSUME Init PROVE IInv
  OBVIOUS
<1>1. TypeOK
  <2>1. <<>> \in Seq(Loggers) /\ <<>> \in Seq(Entry) /\ 0 \in 0 .. MaxMessages
    BY LoggerAssumption
  <2> QED
    BY <2>1 DEF Init, TypeOK, Phases, Entry
<1>2. ListInv
  <2>1. NoRepeat(<<>>) /\ \A l : ~ In(l, <<>>)
    BY DEF NoRepeat, In
  <2> QED
    BY <2>1 DEF Init, ListInv
<1>3. \A t \in Threads, l \in Loggers : ~ Locked(t, l) /\ ~ Locking(t, l)
  BY DEF Init, Locked, Locking
<1>4. MutexInv
  BY <1>3, NoThreadFact DEF Init, MutexInv
<1>5. OutInv
  <2>1. SUFFICES ASSUME NEW l \in Loggers
                 PROVE  Len(out[l]) % LineLength(l) = 0
    BY <1>3 DEF OutInv, OutAt, Busy
  <2>2. Len(out[l]) = 0
    BY DEF Init
  <2>3. 0 % 2 = 0 /\ 0 % 3 = 0
    BY Z3
  <2> QED
    BY <2>2, <2>3 DEF LineLength
<1>6. LinesWhole
  BY DEF Init, LinesWhole
<1> QED
  BY <1>1, <1>2, <1>4, <1>5, <1>6 DEF IInv

LEMMA IInvNext == IInv /\ [Next]_vars => IInv'
<1> SUFFICES ASSUME IInv, [Next]_vars PROVE IInv'
  OBVIOUS
<1>1. TypeOK /\ ListInv
  BY DEF IInv
<1>2. ListInv'
  BY <1>1, ListKeeps
<1>3. ASSUME Attach
      PROVE  TypeOK' /\ MutexInv' /\ OutInv' /\ LinesWhole'
  <2>1. UNCHANGED <<sMutex, mutex, phase, list, todo, sent, out>>
    BY <1>3 DEF Attach
  <2>2. TypeOK'
    BY <1>1, <1>3, <2>1, AttachKeeps DEF TypeOK
  <2> QED
    BY <2>1, <2>2, SameThreads
<1>4. ASSUME NEW t \in Threads, NEW level \in Levels, Statement(t, level)
      PROVE  TypeOK' /\ MutexInv' /\ OutInv' /\ LinesWhole'
  BY <1>4, StatementKeeps
<1>5. ASSUME NEW t \in Threads, Write(t)
      PROVE  TypeOK' /\ MutexInv' /\ OutInv' /\ LinesWhole'
  <2>1. MutexInv' /\ OutInv' /\ LinesWhole' /\ out' \in [Loggers -> Seq(Entry)]
    <3>1. out \in [Loggers -> Seq(Entry)]
      BY <1>1 DEF TypeOK, Entry
    <3> QED
      BY <1>5, <3>1, HeadKeeps, LockKeeps, TextKeeps, EndKeeps DEF Write
  <2> QED
    BY <1>5, <2>1, WriteTypes
<1>6. ASSUME UNCHANGED vars
      PROVE  TypeOK' /\ MutexInv' /\ OutInv' /\ LinesWhole'
  <2>1. TypeOK'
    BY <1>1, <1>6 DEF TypeOK, vars
  <2> QED
    BY <1>6, <2>1, SameThreads DEF vars
<1> QED
  BY <1>2, <1>3, <1>4, <1>5, <1>6 DEF Next, IInv

\* The lines of every log are whole, whichever threads write to it.
THEOREM LogLinesWhole == Spec => []LinesWhole
<1>1. IInv => LinesWhole
  BY DEF IInv
<1> QED
  BY <1>1, IInvInit, IInvNext, PTL DEF Spec

-----------------------------------------------------------------------------
(* The order of the texts.  A thread writes its text while it holds all its *)
(* loggers, so that in each logger that already has it, it is the last.     *)

\* What a thread writes in one step.
LEMMA OutStep ==
    ASSUME TypeOK, ListInv, NEW t \in Threads, Write(t)
    PROVE  \E h \in Loggers :
             /\ h = Head(todo[t])
             /\ \/ out' = out /\ phase[t] # "text"
                \/ \E p \in PartNames :
                     /\ p = "text" <=> phase[t] = "text"
                     /\ out' = [out EXCEPT ![h] = Append(@, EntryOf(t, p))]
<1>1. PICK h \in Loggers : h = Head(todo[t])
  BY VisitRest, ListTypes DEF Write, WriteHead, Lock, WriteText, EndLine, Phases
<1>2. CASE WriteHead(t)
  <2>1. Writes(t, h, Heading(h)) /\ phase[t] = "head"
    BY <1>1, <1>2 DEF WriteHead
  <2>2. CASE h = "box"
    BY <1>1, <2>1, <2>2, WritesNone DEF Heading
  <2>3. CASE h # "box"
    <3>1. Writes(t, h, <<"head">>) /\ "head" \in PartNames
      BY <2>1, <2>3 DEF Heading, PartNames
    <3>2. out' = [out EXCEPT ![h] = Append(@, EntryOf(t, "head"))]
      BY <3>1, WritesOne
    <3> QED
      BY <1>1, <2>1, <3>1, <3>2
  <2> QED
    BY <2>2, <2>3
<1>3. CASE Lock(t)
  BY <1>1, <1>3 DEF Lock
<1>4. CASE WriteText(t)
  <2>1. Writes(t, h, <<"text">>) /\ phase[t] = "text" /\ "text" \in PartNames
    BY <1>1, <1>4 DEF WriteText, PartNames
  <2>2. out' = [out EXCEPT ![h] = Append(@, EntryOf(t, "text"))]
    BY <2>1, WritesOne
  <2> QED
    BY <1>1, <2>1, <2>2
<1>5. CASE EndLine(t)
  <2>1. PICK p \in {"shown", "newline"} : LineEnd(h) = <<p>>
    BY DEF LineEnd
  <2>2. Writes(t, h, <<p>>) /\ phase[t] = "end" /\ p \in PartNames /\ p # "text"
    BY <1>1, <1>5, <2>1 DEF EndLine, PartNames
  <2>3. out' = [out EXCEPT ![h] = Append(@, EntryOf(t, p))]
    BY <2>2, WritesOne
  <2> QED
    BY <1>1, <2>2, <2>3
<1> QED
  BY <1>2, <1>3, <1>4, <1>5 DEF Write

\* The places of a log before and after an entry is appended to one of them.
LEMMA Appended ==
    ASSUME TypeOK, NEW h \in Loggers, NEW e \in Entry,
           out' = [out EXCEPT ![h] = Append(@, e)]
    PROVE  /\ \A l \in Loggers :
                /\ Len(out[l]) \in Nat /\ DOMAIN out[l] = 1 .. Len(out[l])
                /\ DOMAIN out'[l] = IF l = h THEN 1 .. Len(out[h]) + 1 ELSE DOMAIN out[l]
                /\ \A i \in DOMAIN out[l] : out[l][i] \in Entry /\ out'[l][i] = out[l][i]
                /\ Len(out'[l]) = IF l = h THEN Len(out[h]) + 1 ELSE Len(out[l])
           /\ out'[h][Len(out[h]) + 1] = e
<1>1. out \in [Loggers -> Seq(Entry)]
  BY DEF TypeOK, Entry
<1>2. /\ out'[h] = Append(out[h], e) /\ \A l \in Loggers \ {h} : out'[l] = out[l]
      /\ \A l \in Loggers : out[l] \in Seq(Entry)
  BY <1>1
<1>3. \A l \in Loggers : /\ Len(out[l]) \in Nat /\ DOMAIN out[l] = 1 .. Len(out[l])
                         /\ \A i \in DOMAIN out[l] : out[l][i] \in Entry
  BY <1>2, LenProperties, ElementOfSeq
<1>4. /\ Append(out[h], e) \in Seq(Entry)
      /\ Len(Append(out[h], e)) = Len(out[h]) + 1
      /\ Append(out[h], e)[Len(out[h]) + 1] = e
      /\ \A i \in 1 .. Len(out[h]) : Append(out[h], e)[i] = out[h][i]
  BY <1>2, AppendProperties
<1>5. DOMAIN Append(out[h], e) = 1 .. Len(out[h]) + 1
  BY <1>4, LenProperties
<1> QED
  BY <1>2, <1>3, <1>4, <1>5

LEMMA TextKept == IInv /\ TextInv /\ [Next]_vars => TextInv'
<1> SUFFICES ASSUME IInv, TextInv, [Next]_vars,
                    NEW u \in Threads, NEW l \in Loggers, NEW i \in DOMAIN out'[l],
                    out'[l][i].thread = u
             PROVE  /\ out'[l][i].number <= sent'[u]
                    /\ out'[l][i].part = "text" /\ out'[l][i].number = sent'[u] =>
                         /\ phase'[u] \notin {"head", "lock"}
                         /\ phase'[u] = "text" => In(l, list'[u]) /\ ~ In(l, todo'[u])
  BY DEF TextInv, TextsAt, In
<1>1. TypeOK /\ ListInv
  BY DEF IInv
<1>2. CASE UNCHANGED <<phase, list, todo, sent, out>>
  <2>1. TextsAt(u, l)
    BY DEF TextInv
  <2> QED
    BY <1>2, <2>1 DEF TextsAt
<1>3. CASE Attach
  BY <1>2, <1>3 DEF Attach
<1>4. CASE UNCHANGED vars
  BY <1>2, <1>4 DEF vars
<1>5. ASSUME NEW t \in Threads, NEW level \in Levels, Statement(t, level)
      PROVE  /\ out'[l][i].number <= sent'[u]
             /\ out'[l][i].part = "text" /\ out'[l][i].number = sent'[u] =>
                  /\ phase'[u] \notin {"head", "lock"}
                  /\ phase'[u] = "text" => In(l, list'[u]) /\ ~ In(l, todo'[u])
  <2>1. /\ out' = out /\ sent' = [sent EXCEPT ![t] = @ + 1]
        /\ \/ UNCHANGED <<sMutex, phase, list, todo>>
           \/ /\ phase' = [phase EXCEPT ![t] = "head"]
              /\ list' = [list EXCEPT ![t] = collection[level]]
              /\ todo' = [todo EXCEPT ![t] = collection[level]]
    BY <1>5 DEF Statement
  <2>2. i \in DOMAIN out[l] /\ out'[l][i] = out[l][i] /\ out[l][i].number <= sent[u]
    BY <2>1 DEF TextInv, TextsAt
  <2>3. out[l][i].number \in Nat
    <3>1. out[l] \in Seq(Entry)
      BY <1>1 DEF TypeOK, Entry
    <3>2. out[l][i] \in Entry
      BY <2>2, <3>1
    <3> QED
      BY <3>2 DEF Entry
  <2>4. sent \in [Threads -> Nat]
    BY <1>1 DEF TypeOK
  <2>5. CASE u = t
    BY <2>1, <2>2, <2>3, <2>4, <2>5
  <2>6. CASE u # t
    <3>1. phase'[u] = phase[u] /\ list'[u] = list[u] /\ todo'[u] = todo[u] /\ sent'[u] = sent[u]
      BY <1>1, <2>1, <2>6 DEF TypeOK
    <3> QED
      BY <2>2, <3>1 DEF TextInv, TextsAt
  <2> QED
    BY <2>5, <2>6
<1>6. ASSUME NEW t \in Threads, Write(t)
      PROVE  /\ out'[l][i].number <= sent'[u]
             /\ out'[l][i].part = "text" /\ out'[l][i].number = sent'[u] =>
                  /\ phase'[u] \notin {"head", "lock"}
                  /\ phase'[u] = "text" => In(l, list'[u]) /\ ~ In(l, todo'[u])
  <2>1. PICK h \in Loggers :
          /\ h = Head(todo[t])
          /\ \/ out' = out /\ phase[t] # "text"
             \/ \E p \in PartNames :
                  /\ p = "text" <=> phase[t] = "text"
                  /\ out' = [out EXCEPT ![h] = Append(@, EntryOf(t, p))]
    BY <1>1, <1>6, OutStep
  <2>2. /\ sent' = sent
        /\ \A v \in Threads \ {t} :
              phase'[v] = phase[v] /\ todo'[v] = todo[v] /\ list'[v] = list[v]
        /\ phase[t] # "idle"
    <3>1. list[t] \in Seq(Loggers) /\ <<>> \in Seq(Loggers)
      BY <1>1, ListTypes
    <3> QED
      BY <1>1, <1>6, <3>1, VisitRest
      DEF Write, WriteHead, Lock, WriteText, EndLine, Phases, TypeOK
  <2>3. /\ phase[t] = "text" =>
             /\ In(h, list[t]) /\ list'[t] = list[t] /\ phase'[t] \in {"text", "end"}
             /\ phase'[t] = "text" => \A m \in Loggers : In(m, todo'[t]) <=> In(m, todo[t]) /\ m # h
        /\ phase[t] = "end" => phase'[t] \in {"end", "idle"}
    <3>1. list[t] \in Seq(Loggers) /\ <<>> \in Seq(Loggers)
      BY <1>1, ListTypes
    <3>2. CASE phase[t] = "text"
      <4>1. Visit(t, "end", list[t]) /\ list' = list
        BY <1>6, <3>2 DEF Write, WriteHead, Lock, WriteText, EndLine
      <4> QED
        BY <1>1, <2>1, <3>1, <3>2, <4>1, VisitRest DEF Phases
    <3>3. CASE phase[t] = "end"
      <4>1. Visit(t, "idle", <<>>)
        BY <1>6, <3>3 DEF Write, WriteHead, Lock, WriteText, EndLine
      <4> QED
        BY <1>1, <2>1, <3>1, <3>3, <4>1, VisitRest DEF Phases
    <3> QED
      BY <3>2, <3>3
  <2>4. phase[t] \in Phases
    BY <1>1 DEF TypeOK
  <2>5. CASE i \in DOMAIN out[l] /\ out'[l][i] = out[l][i]
    <3>1. TextsAt(u, l)
      BY DEF TextInv
    <3>2. CASE u = t
      BY <2>2, <2>3, <2>4, <2>5, <3>1, <3>2 DEF TextsAt, Phases
    <3>3. CASE u # t
      BY <2>2, <2>5, <3>1, <3>3 DEF TextsAt
    <3> QED
      BY <3>2, <3>3
  <2>6. ASSUME ~ (i \in DOMAIN out[l] /\ out'[l][i] = out[l][i])
        PROVE  /\ u = t /\ l = h /\ out'[l][i].number = sent[t]
               /\ out'[l][i].part = "text" => phase[t] = "text"
    <3>1. PICK p \in PartNames : /\ p = "text" <=> phase[t] = "text"
                                 /\ out' = [out EXCEPT ![h] = Append(@, EntryOf(t, p))]
      BY <2>1, <2>6
    <3>2. EntryOf(t, p) \in Entry
      BY <1>1 DEF EntryOf, Entry, TypeOK, PartNames
    <3>3. l = h /\ i = Len(out[h]) + 1 /\ out'[l][i] = EntryOf(t, p)
      BY <1>1, <2>6, <3>1, <3>2, Appended
    <3> QED
      BY <3>1, <3>3 DEF EntryOf
  <2>7. CASE ~ (i \in DOMAIN out[l] /\ out'[l][i] = out[l][i])
    <3>1. sent[t] \in Nat
      BY <1>1 DEF TypeOK
    <3> QED
      BY <2>2, <2>3, <2>6, <2>7, <3>1
  <2> QED
    BY <2>5, <2>7
<1> QED
  BY <1>3, <1>4, <1>5, <1>6 DEF Next

\* When a thread writes its text to h, a logger that already has the text is
\* another one, and ends with it.
LEMMA TextIsLast ==
    ASSUME IInv, TextInv, SameOrder, NEW t \in Threads, phase[t] = "text",
           NEW h \in Loggers, In(h, todo[t]),
           NEW m \in Loggers, NEW a \in DOMAIN out[m], out[m][a] = EntryOf(t, "text")
    PROVE  m # h /\ a = Len(out[m])
<1> DEFINE n == Len(out[m])
<1>1. TypeOK /\ OutInv /\ LinesWhole
  BY DEF IInv
<1>2. In(m, list[t]) /\ ~ In(m, todo[t])
  BY DEF TextInv, TextsAt, EntryOf
<1>3. m # h
  BY <1>2
<1>4. out[m] \in Seq(Entry)
  BY <1>1 DEF TypeOK, Entry
<1>5. n \in Nat /\ DOMAIN out[m] = 1 .. n /\ n \in DOMAIN out[m] /\ n - 1 \in Nat
  <2>1. n \in Nat /\ DOMAIN out[m] = 1 .. n
    BY <1>4, LenProperties
  <2> QED
    BY <2>1
<1>6. out[m][n] \in Entry
  BY <1>4, <1>5
<1>7. /\ HeadLength(m) \in {0, 1} /\ LineLength(m) = HeadLength(m) + 2
      /\ LineLength(m) \in {2, 3} /\ Len(Line(m)) = LineLength(m)
      /\ Line(m)[HeadLength(m) + 1] = "text"
  BY LineParts DEF LineLength
<1>8. /\ n % LineLength(m) = HeadLength(m) + 1
      /\ out[m][n].thread = t /\ out[m][n].number = sent[t]
  <2>1. Busy(t, m) /\ Parts(t, m) = HeadLength(m) + 1
    BY <1>2 DEF Busy, Locked, Parts
  <2>2. OutAt(m)
    BY <1>1 DEF OutInv
  <2>3. HeadLength(m) + 1 > 0
    BY <1>7
  <2> QED
    BY <2>1, <2>2, <2>3 DEF OutAt
<1>9. (n - 1) % LineLength(m) = HeadLength(m)
  <2>1. /\ (n - 1) % LineLength(m) \in 0 .. LineLength(m) - 1
        /\ ((n - 1) + 1) % LineLength(m) =
             IF (n - 1) % LineLength(m) = LineLength(m) - 1 THEN 0
             ELSE ((n - 1) % LineLength(m)) + 1
    BY <1>5, <1>7, NextPlace
  <2>2. (n - 1) + 1 = n
    BY <1>5
  <2> HIDE DEF n
  <2>3. PICK q \in 0 .. LineLength(m) - 1 : q = (n - 1) % LineLength(m)
    BY <2>1
  <2>4. HeadLength(m) + 1 = IF q = LineLength(m) - 1 THEN 0 ELSE q + 1
    BY <1>8, <2>1, <2>2, <2>3 DEF n
  <2>5. q = HeadLength(m)
    BY <1>7, <2>3, <2>4
  <2> QED
    BY <2>3, <2>5
<1>10. out[m][n].part = "text"
  <2>1. out[m][n].part = Line(m)[((n - 1) % Len(Line(m))) + 1]
    BY <1>1, <1>5 DEF LinesWhole
  <2> QED
    BY <1>7, <1>9, <2>1
<1>11. out[m][n] = EntryOf(t, "text")
  BY <1>6, <1>8, <1>10 DEF Entry, EntryOf
<1>12. a \in Texts(m) /\ n \in Texts(m)
  BY <1>5, <1>10 DEF Texts, EntryOf
<1> HIDE DEF n
<1>13. ~ (a < n)
  <2>1. SUFFICES ASSUME a < n PROVE FALSE
    OBVIOUS
  <2>2. n < a
    BY <1>11, <1>12, <2>1 DEF SameOrder
  <2> QED
    BY <1>5, <2>1, <2>2
<1> QED
  BY <1>3, <1>5, <1>13 DEF n

LEMMA OrderKept == IInv /\ TextInv /\ SameOrder /\ [Next]_vars => SameOrder'
<1> SUFFICES ASSUME IInv, TextInv, SameOrder, [Next]_vars,
                    NEW l \in Loggers, NEW m \in Loggers,
                    NEW i \in Texts(l)', NEW j \in Texts(l)',
                    NEW a \in Texts(m)', NEW b \in Texts(m)',
                    i < j, out'[l][i] = out'[m][a], out'[l][j] = out'[m][b]
             PROVE  a < b
  BY DEF SameOrder
<1>1. TypeOK /\ ListInv
  BY DEF IInv
<1>2. CASE out' = out
  BY <1>2 DEF SameOrder, Texts
<1>3. ASSUME NEW t \in Threads, Write(t)
      PROVE  a < b
  <2>1. PICK h \in Loggers :
          /\ h = Head(todo[t])
          /\ \/ out' = out /\ phase[t] # "text"
             \/ \E p \in PartNames :
                  /\ p = "text" <=> phase[t] = "text"
                  /\ out' = [out EXCEPT ![h] = Append(@, EntryOf(t, p))]
    BY <1>1, <1>3, OutStep
  <2>2. CASE out' = out
    BY <1>2, <2>2
  <2>3. ASSUME NEW p \in PartNames, p = "text" <=> phase[t] = "text",
               out' = [out EXCEPT ![h] = Append(@, EntryOf(t, p))]
        PROVE  a < b
    <3> DEFINE e == EntryOf(t, p)
    <3>1. e \in Entry /\ e.part = p
      BY <1>1 DEF EntryOf, Entry, TypeOK, PartNames
    <3> HIDE DEF e
    <3>2. /\ \A q \in Loggers :
               /\ Len(out[q]) \in Nat /\ DOMAIN out[q] = 1 .. Len(out[q])
               /\ DOMAIN out'[q] = IF q = h THEN 1 .. Len(out[h]) + 1 ELSE DOMAIN out[q]
               /\ \A c \in DOMAIN out[q] : out[q][c] \in Entry /\ out'[q][c] = out[q][c]
               /\ Len(out'[q]) = IF q = h THEN Len(out[h]) + 1 ELSE Len(out[q])
          /\ out'[h][Len(out[h]) + 1] = e
      BY <1>1, <2>3, <3>1, Appended DEF e
    <3>3. \A q \in Loggers : \A c \in Texts(q)' :
            /\ c \in Nat /\ c <= Len(out'[q])
            /\ out'[q][c] # e => c \in Texts(q) /\ out'[q][c] = out[q][c]
      <4>1. SUFFICES ASSUME NEW q \in Loggers, NEW c \in DOMAIN out'[q], out'[q][c].part = "text"
                     PROVE  /\ c \in Nat /\ c <= Len(out'[q])
                            /\ out'[q][c] # e => c \in DOMAIN out[q] /\ out'[q][c] = out[q][c]
        BY DEF Texts
      <4> QED
        BY <3>2, <4>1
    <3>4. \A q \in Loggers : \A c \in Texts(q)' : out'[q][c] = e => c = Len(out'[q])
      <4>1. SUFFICES ASSUME NEW q \in Loggers, NEW c \in DOMAIN out'[q],
                            out'[q][c].part = "text", out'[q][c] = e
                     PROVE  c = Len(out'[q])
        BY DEF Texts
      <4>2. p = "text" /\ phase[t] = "text"
        BY <2>3, <3>1, <4>1
      <4>3. CASE c \in DOMAIN out[q]
        <5>1. In(h, todo[t])
          <6>1. Visit(t, "end", list[t]) /\ list[t] \in Seq(Loggers)
            BY <1>1, <1>3, <4>2, ListTypes DEF Write, WriteHead, Lock, WriteText, EndLine
          <6> QED
            BY <1>1, <2>1, <4>2, <6>1, VisitRest DEF Phases
        <5>2. out[q][c] = EntryOf(t, "text")
          BY <3>2, <4>1, <4>2, <4>3 DEF e
        <5>3. q # h /\ c = Len(out[q])
          BY <4>2, <4>3, <5>1, <5>2, TextIsLast
        <5> QED
          BY <3>2, <5>3
      <4>4. CASE c \notin DOMAIN out[q]
        BY <3>2, <4>1, <4>4
      <4> QED
        BY <4>3, <4>4
    <3>5. CASE out'[l][i] = e
      <4>1. i = Len(out'[l]) /\ j <= Len(out'[l]) /\ i \in Nat /\ j \in Nat
        BY <3>3, <3>4, <3>5
      <4> QED
        BY <4>1
    <3>6. CASE out'[l][i] # e /\ out'[l][j] = e
      <4>1. b = Len(out'[m]) /\ a <= Len(out'[m]) /\ a \in Nat /\ b \in Nat /\ a # b
        BY <3>3, <3>4, <3>6
      <4> QED
        BY <4>1
    <3>7. CASE out'[l][i] # e /\ out'[l][j] # e
      <4>1. /\ i \in Texts(l) /\ j \in Texts(l) /\ a \in Texts(m) /\ b \in Texts(m)
            /\ out[l][i] = out[m][a] /\ out[l][j] = out[m][b]
        BY <3>3, <3>7
      <4> QED
        BY <4>1 DEF SameOrder
    <3> QED
      BY <3>5, <3>6, <3>7
  <2> QED
    BY <2>1, <2>2, <2>3
<1> QED
  BY <1>2, <1>3 DEF Next, Attach, Statement, vars

\* Two loggers show the statements they share in one order, once each.
THEOREM LogsSameOrder == Spec => []SameOrder
<1>1. Init => TextInv /\ SameOrder
  BY DEF Init, TextInv, TextsAt, SameOrder, Texts
<1>2. IInv /\ TextInv /\ SameOrder /\ [Next]_vars => IInv' /\ TextInv' /\ SameOrder'
  BY IInvNext, TextKept, OrderKept
<1> QED
  BY <1>1, <1>2, IInvInit, PTL DEF Spec
=============================================================================
