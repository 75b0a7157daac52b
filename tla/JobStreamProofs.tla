--------------------------- MODULE JobStreamProofs ----------------------------
(***************************************************************************)
(* What every step of the bus, its streams and their browser preserves,    *)
(* whoever emits the events: the types, the count of the streams a pod     *)
(* serves (CapKept), what the wire may hold (Written), and the numbers and *)
(* the order of the events in Redis and in the handlers (Numbered, Sorted).*)
(***************************************************************************)
EXTENDS JobStream, FiniteSetTheorems, SequenceTheorems, TLAPS

\* Nothing is held for a browser that is away, and what is on the wire lies between
\* what the browser and what the handler have passed.
Written ==
  /\ current = NoConn => last = 0 /\ pending = <<>> /\ missed = <<>> /\ wire = {}
  /\ current # NoConn => /\ lastId <= last
                         /\ conn[current] \in {"ticket", "replay", "answered", "live"}
  /\ \A e \in wire : e.seq > lastId /\ e.seq <= last
  /\ \A d, e \in wire : d.seq = e.seq => d = e

\* An event is above all those before it in q, if it is ordered.
InOrder(q) ==
  \A i \in 1 .. Len(q) : q[i].ordered => \A h \in 1 .. i - 1 : q[h].seq < q[i].seq

\* Numbers are given out once before the counter expires.
Numbered ==
  /\ \A d, e \in Known : d.seq = e.seq => d = e
  /\ \A e \in Known : e.seq <= counter /\ e.seq <= highest
  /\ \A p \in Processes : \A i \in 1 .. Len(outbox[p]) :
       /\ outbox[p][i] <= counter
       /\ \A e \in Known : e.seq # outbox[p][i]
       /\ \A q \in Processes : \A h \in 1 .. Len(outbox[q]) :
            outbox[p][i] = outbox[q][h] => p = q /\ i = h

\* Every queue is in order, and the handler has heard what came before in the
\* subscription.
Sorted ==
  /\ InOrder(buffer) /\ InOrder(pending) /\ InOrder(missed)
  /\ \A p \in Pods : InOrder(channel[p])
  /\ current # NoConn =>
       \A d \in InSeq(pending), e \in InSeq(channel[Site[current]]) : e.ordered => d.seq < e.seq

StreamInv == StreamTypeOK /\ CapKept /\ Written /\ Numbered /\ Sorted

USE StreamAssumption

-----------------------------------------------------------------------------
\* Sequences.

LEMMA InType ==
  ASSUME NEW S, NEW q \in Seq(S) PROVE InSeq(q) \subseteq S
  BY DEF InSeq

LEMMA InAppend ==
  ASSUME NEW S, NEW q \in Seq(S), NEW e \in S
  PROVE  Append(q, e) \in Seq(S) /\ InSeq(Append(q, e)) = InSeq(q) \cup {e}
<1>1. Append(q, e) \in Seq(S) /\ Len(Append(q, e)) = Len(q) + 1
  OBVIOUS
<1>2. \A i \in 1 .. Len(q) : Append(q, e)[i] = q[i]
  OBVIOUS
<1>3. Append(q, e)[Len(q) + 1] = e
  OBVIOUS
<1>4. Len(q) \in Nat
  OBVIOUS
<1>5. ASSUME NEW d \in InSeq(Append(q, e)) PROVE d \in InSeq(q) \cup {e}
  <2>1. PICK i \in 1 .. Len(q) + 1 : d = Append(q, e)[i]
    BY <1>1, <1>5 DEF InSeq
  <2> QED
    BY <2>1, <1>2, <1>3, <1>4 DEF InSeq
<1>6. ASSUME NEW d \in InSeq(q) \cup {e} PROVE d \in InSeq(Append(q, e))
  <2>1. CASE d = e
    BY <2>1, <1>1, <1>3, <1>4 DEF InSeq
  <2>2. CASE d \in InSeq(q)
    BY <2>2, <1>1, <1>2, <1>4 DEF InSeq
  <2> QED
    BY <1>6, <2>1, <2>2
<1> QED
  BY <1>1, <1>5, <1>6

LEMMA InTail ==
  ASSUME NEW S, NEW q \in Seq(S), q # <<>>
  PROVE  /\ Tail(q) \in Seq(S) /\ Head(q) \in S
         /\ InSeq(q) = {Head(q)} \cup InSeq(Tail(q))
<1>1. Tail(q) \in Seq(S) /\ Head(q) \in S /\ Head(q) = q[1] /\ Len(q) \in Nat /\ Len(q) > 0
  OBVIOUS
<1>2. Len(Tail(q)) = Len(q) - 1 /\ \A i \in 1 .. Len(q) - 1 : Tail(q)[i] = q[i + 1]
  OBVIOUS
<1>3. ASSUME NEW d \in InSeq(q) PROVE d \in {Head(q)} \cup InSeq(Tail(q))
  <2>1. PICK i \in 1 .. Len(q) : d = q[i]
    BY <1>3 DEF InSeq
  <2>2. CASE i = 1
    BY <2>1, <2>2, <1>1
  <2>3. CASE i # 1
    <3>1. i - 1 \in 1 .. Len(q) - 1 /\ d = Tail(q)[i - 1]
      BY <2>1, <2>3, <1>1, <1>2
    <3> QED
      BY <3>1, <1>2 DEF InSeq
  <2> QED
    BY <2>2, <2>3
<1>4. ASSUME NEW d \in {Head(q)} \cup InSeq(Tail(q)) PROVE d \in InSeq(q)
  <2>1. CASE d = Head(q)
    BY <2>1, <1>1 DEF InSeq
  <2>2. CASE d \in InSeq(Tail(q))
    <3>1. PICK i \in 1 .. Len(q) - 1 : d = Tail(q)[i]
      BY <2>2, <1>2 DEF InSeq
    <3>2. i + 1 \in 1 .. Len(q) /\ d = q[i + 1]
      BY <3>1, <1>1, <1>2
    <3> QED
      BY <3>2 DEF InSeq
  <2> QED
    BY <1>4, <2>1, <2>2
<1> QED
  BY <1>1, <1>3, <1>4

LEMMA InLastOf ==
  ASSUME NEW S, NEW q \in Seq(S), NEW n \in Nat \ {0}
  PROVE  /\ LastOf(q, n) \in Seq(S) /\ InSeq(LastOf(q, n)) \subseteq InSeq(q)
         /\ \E k \in 0 .. Len(q) : /\ Len(LastOf(q, n)) = Len(q) - k
                                   /\ \A i \in 1 .. Len(q) - k : LastOf(q, n)[i] = q[i + k]
<1>1. Len(q) \in Nat
  OBVIOUS
<1>2. CASE Len(q) <= n
  <2>1. LastOf(q, n) = q
    BY <1>2 DEF LastOf
  <2>2. 0 \in 0 .. Len(q) /\ Len(q) = Len(q) - 0 /\ \A i \in 1 .. Len(q) - 0 : q[i] = q[i + 0]
    BY <1>1
  <2> QED
    BY <2>1, <2>2
<1>3. CASE ~ (Len(q) <= n)
  <2> DEFINE k == Len(q) - n
  <2>1. LastOf(q, n) = SubSeq(q, k + 1, Len(q)) /\ k \in 1 .. Len(q)
    BY <1>1, <1>3 DEF LastOf
  <2> HIDE DEF k
  <2>2. /\ SubSeq(q, k + 1, Len(q)) \in Seq(S)
        /\ Len(SubSeq(q, k + 1, Len(q))) = Len(q) - k
        /\ \A i \in 1 .. Len(q) - k : SubSeq(q, k + 1, Len(q))[i] = q[i + k]
    BY <1>1, <2>1
  <2>3. ASSUME NEW i \in 1 .. Len(q) - k PROVE i + k \in 1 .. Len(q)
    BY <2>1, <1>1
  <2>4. InSeq(LastOf(q, n)) \subseteq InSeq(q)
    BY <2>1, <2>2, <2>3 DEF InSeq
  <2> QED
    BY SMTT(30), <2>1, <2>2, <2>4
<1> QED
  BY SMTT(30), <1>2, <1>3

-----------------------------------------------------------------------------
\* Queues in order.

LEMMA OrderTail ==
  ASSUME NEW q \in Seq(Events), q # <<>>, InOrder(q)
  PROVE  InOrder(Tail(q)) /\ \A e \in InSeq(Tail(q)) : e.ordered => Head(q).seq < e.seq
<1>1. Len(Tail(q)) = Len(q) - 1 /\ Len(q) \in Nat /\ Len(q) > 0 /\ Head(q) = q[1]
  OBVIOUS
<1>2. \A i \in 1 .. Len(q) - 1 : Tail(q)[i] = q[i + 1]
  OBVIOUS
<1>3. ASSUME NEW i \in 1 .. Len(q) - 1, q[i + 1].ordered
      PROVE  q[1].seq < q[i + 1].seq /\ \A h \in 1 .. i - 1 : q[h + 1].seq < q[i + 1].seq
  <2>1. i + 1 \in 1 .. Len(q) /\ \A h \in 1 .. i : q[h].seq < q[i + 1].seq
    BY <1>1, <1>3 DEF InOrder
  <2> QED
    BY <2>1
<1>4. InOrder(Tail(q))
  <2> SUFFICES ASSUME NEW i \in 1 .. Len(q) - 1, Tail(q)[i].ordered, NEW h \in 1 .. i - 1
               PROVE  Tail(q)[h].seq < Tail(q)[i].seq
    BY <1>1 DEF InOrder
  <2>1. h \in 1 .. Len(q) - 1
    BY <1>1
  <2> QED
    BY <1>2, <1>3, <2>1
<1>5. \A e \in InSeq(Tail(q)) : e.ordered => Head(q).seq < e.seq
  BY <1>1, <1>2, <1>3 DEF InSeq
<1> QED
  BY <1>4, <1>5

LEMMA OrderAppend ==
  ASSUME NEW q \in Seq(Events), NEW e \in Events, InOrder(q),
         e.ordered => \A d \in InSeq(q) : d.seq < e.seq
  PROVE  InOrder(Append(q, e))
<1>1. Len(Append(q, e)) = Len(q) + 1 /\ Len(q) \in Nat /\ Append(q, e)[Len(q) + 1] = e
  OBVIOUS
<1>2. \A i \in 1 .. Len(q) : Append(q, e)[i] = q[i] /\ q[i] \in InSeq(q)
  BY DEF InSeq
<1> SUFFICES ASSUME NEW i \in 1 .. Len(q) + 1, Append(q, e)[i].ordered, NEW h \in 1 .. i - 1
             PROVE  Append(q, e)[h].seq < Append(q, e)[i].seq
  BY <1>1 DEF InOrder
<1>3. h \in 1 .. Len(q) /\ Append(q, e)[h] = q[h] /\ q[h] \in InSeq(q)
  BY <1>1, <1>2
<1>4. CASE i = Len(q) + 1
  BY <1>1, <1>3, <1>4
<1>5. CASE i # Len(q) + 1
  BY <1>1, <1>2, <1>3, <1>5 DEF InOrder
<1> QED
  BY <1>4, <1>5

LEMMA OrderLastOf ==
  ASSUME NEW q \in Seq(Events), NEW n \in Nat \ {0}, InOrder(q)
  PROVE  InOrder(LastOf(q, n))
<1>1. PICK k \in 0 .. Len(q) : /\ Len(LastOf(q, n)) = Len(q) - k
                               /\ \A i \in 1 .. Len(q) - k : LastOf(q, n)[i] = q[i + k]
  BY InLastOf
<1>2. Len(q) \in Nat
  OBVIOUS
<1> SUFFICES ASSUME NEW i \in 1 .. Len(q) - k, LastOf(q, n)[i].ordered, NEW h \in 1 .. i - 1
             PROVE  LastOf(q, n)[h].seq < LastOf(q, n)[i].seq
  BY <1>1 DEF InOrder
<1>3. h \in 1 .. Len(q) - k /\ i + k \in 1 .. Len(q) /\ h + k \in 1 .. (i + k) - 1
  BY <1>2
<1>4. LastOf(q, n)[h] = q[h + k] /\ LastOf(q, n)[i] = q[i + k]
  BY <1>1, <1>3
<1> QED
  BY <1>3, <1>4 DEF InOrder

-----------------------------------------------------------------------------
\* What deliver writes.

LEMMA NewsSound ==
  ASSUME NEW q \in Seq(Events), NEW from \in Nat
  PROVE  /\ \A e \in News(q, from) : e \in InSeq(q) /\ e \in Events /\ e.seq > from
         /\ \A d, e \in News(q, from) : d.seq = e.seq => d = e
<1>1. \A e \in News(q, from) : e \in InSeq(q) /\ e \in Events /\ e.seq > from
  BY DEF News, InSeq
<1>2. ASSUME NEW d \in News(q, from), NEW e \in News(q, from), d.seq = e.seq PROVE d = e
  <2>1. PICK i \in 1 .. Len(q) : d = q[i] /\ \A h \in 1 .. i - 1 : q[h].seq < q[i].seq
    BY DEF News
  <2>2. PICK k \in 1 .. Len(q) : e = q[k] /\ \A h \in 1 .. k - 1 : q[h].seq < q[k].seq
    BY DEF News
  <2>3. d.seq \in Nat /\ e.seq \in Nat
    BY <1>1 DEF Events
  <2>4. ~ (i < k) /\ ~ (k < i)
    BY <2>1, <2>2, <2>3, <1>2
  <2> QED
    BY <2>1, <2>2, <2>4
<1> QED
  BY <1>1, <1>2

LEMMA NewsHas ==
  ASSUME NEW q \in Seq(Events), NEW from \in Nat, NEW e \in InSeq(q),
         e.seq > from, e.ordered, InOrder(q)
  PROVE  e \in News(q, from)
<1>1. PICK i \in 1 .. Len(q) : e = q[i]
  BY DEF InSeq
<1>2. \A h \in 1 .. i - 1 : q[h].seq < q[i].seq
  BY <1>1 DEF InOrder
<1> QED
  BY <1>1, <1>2 DEF News

LEMMA NewsHasBoth ==
  ASSUME NEW a \in Seq(Events), NEW b \in Seq(Events), NEW from \in Nat, NEW e \in Events,
         e.seq > from, e.ordered, InOrder(a), InOrder(b),
         e \in InSeq(a) \/ (e \in InSeq(b) /\ \A d \in InSeq(a) : d.seq < e.seq)
  PROVE  e \in News(a \o b, from)
<1>1. /\ a \o b \in Seq(Events) /\ Len(a \o b) = Len(a) + Len(b)
      /\ Len(a) \in Nat /\ Len(b) \in Nat
  OBVIOUS
<1>2. \A i \in 1 .. Len(a) : (a \o b)[i] = a[i] /\ a[i] \in InSeq(a)
  BY DEF InSeq
<1>3. \A i \in 1 .. Len(b) : (a \o b)[Len(a) + i] = b[i]
  OBVIOUS
<1>4. CASE e \in InSeq(a)
  <2>1. PICK i \in 1 .. Len(a) : e = a[i]
    BY <1>4 DEF InSeq
  <2>2. i \in 1 .. Len(a \o b) /\ (a \o b)[i] = e
    BY <2>1, <1>1, <1>2
  <2>3. \A h \in 1 .. i - 1 : (a \o b)[h].seq < e.seq
    <3> TAKE h \in 1 .. i - 1
    <3>1. h \in 1 .. Len(a)
      BY <1>1
    <3> QED
      BY <3>1, <2>1, <1>2 DEF InOrder
  <2> QED
    BY <2>2, <2>3 DEF News
<1>5. CASE e \in InSeq(b) /\ \A d \in InSeq(a) : d.seq < e.seq
  <2>1. PICK i \in 1 .. Len(b) : e = b[i]
    BY <1>5 DEF InSeq
  <2>2. Len(a) + i \in 1 .. Len(a \o b) /\ (a \o b)[Len(a) + i] = e
    BY <2>1, <1>1, <1>3
  <2>3. \A h \in 1 .. Len(a) + i - 1 : (a \o b)[h].seq < e.seq
    <3> TAKE h \in 1 .. Len(a) + i - 1
    <3>1. CASE h <= Len(a)
      BY <3>1, <1>1, <1>2, <1>5
    <3>2. CASE h > Len(a)
      <4>1. h - Len(a) \in 1 .. i - 1 /\ h - Len(a) \in 1 .. Len(b) /\ Len(a) + (h - Len(a)) = h
        BY <3>2, <1>1
      <4>2. (a \o b)[h] = b[h - Len(a)]
        BY <4>1, <1>3
      <4> QED
        BY <4>1, <4>2, <2>1 DEF InOrder
    <3> QED
      BY <3>1, <3>2, <1>1
  <2>4. \E k \in 1 .. Len(a \o b) : /\ (a \o b)[k] = e
                                  /\ \A h \in 1 .. k - 1 : (a \o b)[h].seq < (a \o b)[k].seq
    <3> DEFINE k == Len(a) + i
    <3>1. /\ k \in 1 .. Len(a \o b) /\ (a \o b)[k] = e
          /\ \A h \in 1 .. k - 1 : (a \o b)[h].seq < (a \o b)[k].seq
      BY <2>2, <2>3
    <3> HIDE DEF k
    <3> QED
      BY <3>1
  <2> QED
    BY <2>4 DEF News
<1> QED
  BY <1>4, <1>5

-----------------------------------------------------------------------------
\* The count of the streams.

LEMMA ServedFinite ==
  ASSUME NEW p PROVE IsFiniteSet(Served(p)) /\ Cardinality(Served(p)) \in Nat
<1>1. Served(p) \subseteq Conns
  BY DEF Served
<1> QED
  BY <1>1, FS_Subset, FS_CardinalityType

LEMMA ServedCounted ==
  ASSUME StreamTypeOK, CapKept, NEW c \in Conns, Serving(c)
  PROVE  counted[Site[c]] >= 1 /\ counted[Site[c]] \in Nat
<1>1. c \in Served(Site[c]) /\ Site[c] \in Pods
  BY DEF Served
<1>2. Cardinality(Served(Site[c])) # 0
  BY <1>1, ServedFinite, FS_EmptySet
<1> QED
  BY <1>1, <1>2, ServedFinite DEF CapKept, StreamTypeOK

\* A request that neither enters nor leaves service changes no count.
LEMMA CapSame ==
  ASSUME CapKept, counted' = counted, \A c \in Conns : Serving(c)' <=> Serving(c)
  PROVE  CapKept'
<1>1. ASSUME NEW p \in Pods PROVE Served(p)' = Served(p)
  BY DEF Served
<1> QED
  BY <1>1 DEF CapKept

LEMMA CapStep ==
  ASSUME StreamTypeOK, CapKept,
         \/ StreamStep
         \/ \E p \in Processes : StreamsCrash(p)
         \/ UNCHANGED <<conn, counted>>
  PROVE  CapKept'
<1>1. ASSUME NEW c \in Conns, Admit(c) PROVE CapKept'
  <2>1. /\ conn[c] \in {"ticket", "aborted"} /\ counted[Site[c]] < MaxStreams
        /\ counted' = [counted EXCEPT ![Site[c]] = @ + 1]
    BY <1>1 DEF Admit, Serve
  <2>2. Serving(c)' /\ ~ Serving(c) /\ \A b \in Conns : b # c => (Serving(b)' <=> Serving(b))
    BY <1>1, <2>1 DEF Admit, Serve, SetConn, Serving, StreamTypeOK
  <2>3. ASSUME NEW p \in Pods, p # Site[c] PROVE Served(p)' = Served(p) /\ counted'[p] = counted[p]
    BY <2>1, <2>2, <2>3 DEF Served, StreamTypeOK
  <2>4. Served(Site[c])' = Served(Site[c]) \cup {c} /\ c \notin Served(Site[c])
    BY <2>2 DEF Served
  <2>5. Cardinality(Served(Site[c])') = Cardinality(Served(Site[c])) + 1
    BY <2>4, ServedFinite, FS_AddElement
  <2>6. counted'[Site[c]] = counted[Site[c]] + 1 /\ Site[c] \in Pods /\ counted[Site[c]] \in Nat
    BY <2>1 DEF StreamTypeOK
  <2> QED
    BY <2>1, <2>3, <2>5, <2>6 DEF CapKept
<1>2. ASSUME NEW c \in Conns, Close(c) PROVE CapKept'
  <2>1. CASE conn[c] = "left"
    <3>1. Serving(c) /\ ~ Serving(c)' /\ \A b \in Conns : b # c => (Serving(b)' <=> Serving(b))
      BY <1>2, <2>1 DEF Close, SetConn, Serving, StreamTypeOK
    <3>2. counted' = [counted EXCEPT ![Site[c]] = @ - 1] /\ Site[c] \in Pods
      BY <1>2, <2>1 DEF Close
    <3>3. ASSUME NEW p \in Pods, p # Site[c] PROVE Served(p)' = Served(p) /\ counted'[p] = counted[p]
      BY <3>1, <3>2, <3>3 DEF Served, StreamTypeOK
    <3>4. Served(Site[c])' = Served(Site[c]) \ {c} /\ c \in Served(Site[c])
      BY <3>1 DEF Served
    <3>5. Cardinality(Served(Site[c])') = Cardinality(Served(Site[c])) - 1
      BY ZenonT(30), <3>4, ServedFinite, FS_RemoveElement
    <3>6. counted'[Site[c]] = counted[Site[c]] - 1
      BY <3>2 DEF StreamTypeOK
    <3>7. Cardinality(Served(Site[c])) \in Nat
      BY ServedFinite
    <3> QED
      BY <3>2, <3>3, <3>5, <3>6, <3>7 DEF CapKept
  <2>2. CASE conn[c] # "left"
    <3>1. counted' = counted /\ \A b \in Conns : Serving(b)' <=> Serving(b)
      BY <1>2, <2>2 DEF Close, SetConn, Serving, StreamTypeOK
    <3> QED
      BY <3>1, CapSame
  <2> QED
    BY <2>1, <2>2
<1>3. ASSUME NEW c \in Conns, Connect(c) \/ Refuse(c) \/ Missed(c) \/ Replay(c) \/ ReplayFails(c)
      PROVE  CapKept'
  <2>1. counted' = counted /\ \A b \in Conns : Serving(b)' <=> Serving(b)
    BY <1>3 DEF Connect, Refuse, Missed, Replay, ReplayFails, Play, SetConn, Serving, StreamTypeOK
  <2> QED
    BY <2>1, CapSame
<1>4. ASSUME Break PROVE CapKept'
  <2>1. counted' = counted /\ \A b \in Conns : Serving(b)' <=> Serving(b)
    BY <1>4 DEF Break, Serving, StreamTypeOK
  <2> QED
    BY <2>1, CapSame
<1>5. ASSUME NEW p \in Processes, StreamsCrash(p) PROVE CapKept'
  <2>1. /\ counted' = [q \in Pods |-> IF q = p THEN 0 ELSE counted[q]]
        /\ conn' = [c \in Conns |-> IF Site[c] = p /\ conn[c] # "off" THEN "gone" ELSE conn[c]]
    BY <1>5 DEF StreamsCrash
  <2>2. ASSUME NEW q \in Pods, q # p PROVE Served(q)' = Served(q) /\ counted'[q] = counted[q]
    BY <2>1, <2>2 DEF Served, Serving
  <2>3. ASSUME p \in Pods PROVE Served(p)' = {} /\ counted'[p] = 0
    BY <2>1, <2>3 DEF Served, Serving
  <2>4. Cardinality({}) = 0
    BY FS_EmptySet
  <2> QED
    BY <2>2, <2>3, <2>4 DEF CapKept
<1>6. ASSUME UNCHANGED <<conn, counted>> PROVE CapKept'
  BY <1>6, CapSame DEF Serving
<1>7. ASSUME NEW p \in Processes, Publish(p) \/ PublishFails(p) PROVE CapKept'
  <2>1. UNCHANGED <<conn, counted>>
    BY <1>7 DEF Publish, PublishFails, streamVars
  <2> QED
    BY <2>1, <1>6
<1>8. ASSUME NEW p \in Pods, Dispatch(p) \/ MessageLost(p) PROVE CapKept'
  <2>1. UNCHANGED <<conn, counted>>
    BY <1>8 DEF Dispatch, MessageLost, streamVars
  <2> QED
    BY <2>1, <1>6
<1>9. ASSUME NEW e \in wire, Receive(e) PROVE CapKept'
  <2>1. UNCHANGED <<conn, counted>>
    BY <1>9 DEF Receive
  <2> QED
    BY <2>1, <1>6
<1>10. ASSUME Expire PROVE CapKept'
  <2>1. UNCHANGED <<conn, counted>>
    BY <1>10 DEF Expire, streamVars
  <2> QED
    BY <2>1, <1>6
<1> QED
  BY <1>1, <1>2, <1>3, <1>4, <1>5, <1>6, <1>7, <1>8, <1>9, <1>10 DEF StreamStep

-----------------------------------------------------------------------------
\* The types.

LEMMA ListenType ==
  ASSUME NEW c \in Conns \cup {NoConn}, NEW id \in Nat, Listen(c, id)
  PROVE  /\ current' \in Conns \cup {NoConn} /\ last' \in Nat
         /\ pending' \in Seq(Events) /\ missed' \in Seq(Events) /\ wire' \subseteq Events
  BY DEF Listen

LEMMA PlayType ==
  ASSUME StreamTypeOK, NEW c, NEW q \in Seq(Events), Play(c, q)
  PROVE  /\ last' \in Nat /\ last' >= last /\ wire' \subseteq Events
         /\ \A e \in News(q, last) : e.seq <= last'
<1>1. \A e \in News(q, last) : e \in Events /\ e.seq > last
  BY NewsSound DEF StreamTypeOK
<1>2. last' \in {last} \cup {e.seq : e \in News(q, last)} /\ wire' = wire \cup News(q, last)
  BY DEF Play
<1>3. CASE last' = last
  BY <1>1, <1>2, <1>3 DEF Play, StreamTypeOK
<1>4. CASE \E e \in News(q, last) : last' = e.seq
  BY <1>1, <1>2, <1>4 DEF Play, StreamTypeOK, Events
<1> QED
  BY <1>2, <1>3, <1>4

\* The event that Publish appends.
LEMMA PublishType ==
  ASSUME StreamTypeOK, NEW p \in Processes, Publish(p)
  PROVE  \E e \in Events :
           /\ e.seq = Head(outbox[p]) /\ (e.ordered <=> e.seq > highest)
           /\ highest' = IF e.ordered THEN e.seq ELSE highest
           /\ buffer' = LastOf(Append(buffer, e), BufferSize)
           /\ channel' = [q \in Pods |-> Append(channel[q], e)]
           /\ highest' \in Nat /\ e.seq <= highest' /\ highest <= highest'
<1> DEFINE e == [seq |-> Head(outbox[p]), ordered |-> Head(outbox[p]) > highest]
<1>1. Head(outbox[p]) \in Nat /\ highest \in Nat
  BY InTail DEF StreamTypeOK, Publish
<1>2. e \in Events /\ e.seq = Head(outbox[p]) /\ (e.ordered <=> e.seq > highest)
  <2>1. e \in Events /\ e.seq = Head(outbox[p]) /\ e.ordered = (Head(outbox[p]) > highest)
    BY <1>1 DEF Events
  <2> HIDE DEF e
  <2> QED
    BY <2>1
<1>3. /\ highest' = IF e.ordered THEN e.seq ELSE highest
      /\ buffer' = LastOf(Append(buffer, e), BufferSize)
      /\ channel' = [q \in Pods |-> Append(channel[q], e)]
  BY DEF Publish
<1> HIDE DEF e
<1>4. highest' \in Nat /\ e.seq <= highest' /\ highest <= highest'
  <2>1. e.seq \in Nat
    BY <1>1, <1>2
  <2>2. CASE e.ordered
    BY <1>1, <1>2, <1>3, <2>1, <2>2
  <2>3. CASE ~ e.ordered
    BY <1>1, <1>2, <1>3, <2>1, <2>3
  <2> QED
    BY <2>2, <2>3
<1> QED
  BY <1>2, <1>3, <1>4, Zenon

LEMMA TypeStep ==
  ASSUME StreamTypeOK, CapKept, Written, StreamStep
  PROVE  StreamTypeOK'
<1> USE DEF StreamTypeOK
<1>1. ASSUME NEW p \in Processes, Publish(p) PROVE StreamTypeOK'
  <2>1. PICK e \in Events :
           /\ buffer' = LastOf(Append(buffer, e), BufferSize)
           /\ channel' = [q \in Pods |-> Append(channel[q], e)]
           /\ highest' \in Nat
    BY <1>1, PublishType
  <2>2. buffer' \in Seq(Events)
    BY <2>1, InAppend, InLastOf
  <2>3. channel' \in [Pods -> Seq(Events)]
    BY <2>1, InAppend
  <2>4. outbox' \in [Processes -> Seq(Nat)]
    BY <1>1, InTail DEF Publish
  <2> QED
    BY <1>1, <2>1, <2>2, <2>3, <2>4 DEF Publish, streamVars, Healthy
<1>2. ASSUME NEW p \in Processes, PublishFails(p) PROVE StreamTypeOK'
  <2>1. outbox' \in [Processes -> Seq(Nat)]
    BY <1>2, InTail DEF PublishFails
  <2> QED
    BY <1>2, <2>1 DEF PublishFails, streamVars, Fault
<1>3. CASE Expire
  <2>1. counter' \in Nat /\ buffer' \in Seq(Events)
    BY <1>3 DEF Expire
  <2> QED
    BY <1>3, <2>1 DEF Expire, streamVars, Fault
<1>4. ASSUME NEW c \in Conns, Connect(c) PROVE StreamTypeOK'
  <2>1. conn' \in [Conns -> Progress]
    BY <1>4 DEF Connect, SetConn, Progress
  <2> QED
    BY <1>4, <2>1, ListenType DEF Connect, busVars, Healthy
<1>5. ASSUME NEW c \in Conns, Refuse(c) PROVE StreamTypeOK'
  <2>1. conn' \in [Conns -> Progress]
    BY <1>5 DEF Refuse, SetConn, Progress
  <2>2. CASE c = current
    BY <1>5, <2>1, <2>2, ListenType DEF Refuse, busVars, Healthy
  <2>3. CASE c # current
    BY <1>5, <2>1, <2>3 DEF Refuse, busVars, Healthy, Listening
  <2> QED
    BY <2>2, <2>3
<1>6. ASSUME NEW c \in Conns, Admit(c) PROVE StreamTypeOK'
  <2>1. conn' \in [Conns -> Progress]
    BY <1>6 DEF Admit, Serve, SetConn, Progress
  <2>2. counted' \in [Pods -> Nat]
    BY <1>6 DEF Admit, Serve
  <2> QED
    BY <1>6, <2>1, <2>2 DEF Admit, Serve, busVars, Healthy, Listening
<1>7. ASSUME NEW c \in Conns, Missed(c) PROVE StreamTypeOK'
  <2>1. conn' \in [Conns -> Progress]
    BY <1>7 DEF Missed, SetConn, Progress
  <2> QED
    BY <1>7, <2>1 DEF Missed, busVars, Healthy
<1>8. ASSUME NEW c \in Conns, NEW q \in Seq(Events), Play(c, q), Healthy \/ Fault
      PROVE StreamTypeOK'
  <2>1. conn' \in [Conns -> Progress]
    BY <1>8 DEF Play, SetConn, Progress
  <2>2. faults' \in Nat
    BY <1>8 DEF Healthy, Fault
  <2>3. last' \in Nat /\ wire' \subseteq Events
    BY <1>8, PlayType
  <2>4. pending' \in Seq(Events) /\ missed' \in Seq(Events)
    BY <1>8 DEF Play
  <2>5. UNCHANGED <<busVars, counted, current, lastId>>
    BY <1>8 DEF Play
  <2> QED
    BY <2>1, <2>2, <2>3, <2>4, <2>5 DEF busVars
<1>9. ASSUME NEW c \in Conns, Replay(c) \/ ReplayFails(c) PROVE StreamTypeOK'
  <2>1. missed \o pending \in Seq(Events)
    OBVIOUS
  <2> QED
    BY <1>8, <1>9, <2>1 DEF Replay, ReplayFails
<1>10. ASSUME NEW c \in Conns, Close(c) PROVE StreamTypeOK'
  <2>1. conn' \in [Conns -> Progress]
    BY <1>10 DEF Close, SetConn, Progress
  <2>2. counted' \in [Pods -> Nat]
    <3>1. CASE conn[c] = "left"
      <4>1. counted[Site[c]] >= 1 /\ counted[Site[c]] \in Nat
        BY <3>1, ServedCounted DEF Serving
      <4> QED
        BY <1>10, <3>1, <4>1 DEF Close
    <3>2. CASE conn[c] # "left"
      BY <1>10, <3>2 DEF Close
    <3> QED
      BY <3>1, <3>2
  <2> QED
    BY <1>10, <2>1, <2>2 DEF Close, busVars, Healthy, Listening
<1>11. ASSUME NEW p \in Pods, Dispatch(p) PROVE StreamTypeOK'
  <2>1. Head(channel[p]) \in Events /\ Tail(channel[p]) \in Seq(Events)
    BY <1>11, InTail DEF Dispatch
  <2>2. channel' \in [Pods -> Seq(Events)]
    BY <1>11, <2>1 DEF Dispatch
  <2>3. pending' \in Seq(Events) /\ last' \in Nat /\ wire' \subseteq Events
    BY <1>11, <2>1, InAppend DEF Dispatch, Events
  <2> QED
    BY <1>11, <2>2, <2>3 DEF Dispatch, Healthy
<1>12. ASSUME NEW p \in Pods, MessageLost(p) PROVE StreamTypeOK'
  <2>1. channel' \in [Pods -> Seq(Events)]
    BY <1>12, InTail DEF MessageLost
  <2> QED
    BY <1>12, <2>1 DEF MessageLost, streamVars, Fault
<1>13. ASSUME NEW e \in wire, Receive(e) PROVE StreamTypeOK'
  BY <1>13 DEF Receive, Healthy, busVars, Events
<1>14. CASE Break
  <2>1. conn' \in [Conns -> Progress]
    BY <1>14 DEF Break, Progress
  <2> QED
    BY <1>14, <2>1, ListenType DEF Break, busVars, Healthy
<1> QED
  BY <1>1, <1>2, <1>3, <1>4, <1>5, <1>6, <1>7, <1>9, <1>10, <1>11, <1>12, <1>13, <1>14
     DEF StreamStep

LEMMA TypeCrash ==
  ASSUME StreamTypeOK, NEW p \in Processes, StreamsCrash(p) PROVE StreamTypeOK'
<1> USE DEF StreamTypeOK
<1>1. outbox' \in [Processes -> Seq(Nat)]
  BY DEF StreamsCrash
<1>2. channel' \in [Pods -> Seq(Events)]
  BY DEF StreamsCrash
<1>3. counted' \in [Pods -> Nat]
  BY DEF StreamsCrash
<1>4. conn' \in [Conns -> Progress]
  BY DEF StreamsCrash, Progress
<1>5. /\ current' \in Conns \cup {NoConn} /\ last' \in Nat
      /\ pending' \in Seq(Events) /\ missed' \in Seq(Events) /\ wire' \subseteq Events
  <2>1. CASE current # NoConn /\ Site[current] = p
    BY <2>1, ListenType DEF StreamsCrash
  <2>2. CASE ~ (current # NoConn /\ Site[current] = p)
    BY <2>2 DEF StreamsCrash, Listening
  <2> QED
    BY <2>1, <2>2
<1> QED
  BY SMTT(30), <1>1, <1>2, <1>3, <1>4, <1>5 DEF StreamsCrash, Fault

LEMMA TypeEmit ==
  ASSUME StreamTypeOK, NEW p \in Processes, Emit(p),
         UNCHANGED <<highest, buffer, channel, streamVars, faults>>
  PROVE  StreamTypeOK'
<1>1. counter' \in Nat /\ outbox' \in [Processes -> Seq(Nat)]
  BY InAppend DEF StreamTypeOK, Emit
<1> QED
  BY <1>1 DEF StreamTypeOK, streamVars

-----------------------------------------------------------------------------
\* What the wire may hold.

LEMMA WrittenAway ==
  ASSUME Listen(NoConn, 0) PROVE Written'
  BY DEF Listen, Written

LEMMA WrittenSame ==
  ASSUME Written, UNCHANGED <<Listening, lastId>>,
         current # NoConn => \/ conn'[current] = conn[current]
                             \/ conn'[current] \in {"ticket", "replay", "answered", "live"}
  PROVE  Written'
  BY DEF Written, Listening

\* New events are above all the handler has passed.
LEMMA WrittenMore ==
  ASSUME StreamTypeOK, Written, current # NoConn, UNCHANGED <<current, lastId>>,
         conn'[current] \in {"ticket", "replay", "answered", "live"},
         NEW N, wire' = wire \cup N, last' \in Nat, last' >= last,
         \A e \in N : e \in Events /\ e.seq > last /\ e.seq <= last',
         \A d, e \in N : d.seq = e.seq => d = e
  PROVE  Written'
<1>1. lastId \in Nat /\ last \in Nat /\ lastId <= last /\ lastId' = lastId
  BY DEF StreamTypeOK, Written
<1>2. ASSUME NEW e \in wire \cup N
      PROVE  e.seq \in Nat /\ e.seq > lastId /\ e.seq <= last' /\ (e \in wire <=> e.seq <= last)
  <2>1. CASE e \in wire
    BY <1>1, <2>1 DEF StreamTypeOK, Written, Events
  <2>2. CASE e \notin wire
    <3>1. e \in N
      BY <1>2, <2>2
    <3> QED
      BY <1>1, <2>2, <3>1 DEF Events
  <2> QED
    BY <2>1, <2>2
<1>3. ASSUME NEW d \in wire \cup N, NEW e \in wire \cup N, d.seq = e.seq PROVE d = e
  <2>1. CASE d \in wire
    BY <1>2, <1>3, <2>1 DEF Written
  <2>2. CASE d \notin wire
    BY <1>2, <1>3, <2>2
  <2> QED
    BY <2>1, <2>2
<1> QED
  BY <1>1, <1>2, <1>3 DEF Written

LEMMA WrittenPlay ==
  ASSUME StreamTypeOK, Written, NEW c \in Conns, c = current, NEW q \in Seq(Events), Play(c, q)
  PROVE  Written'
<1>1. /\ \A e \in News(q, last) : e \in Events /\ e.seq > last
      /\ \A d, e \in News(q, last) : d.seq = e.seq => d = e
  BY NewsSound DEF StreamTypeOK
<1>2. last' \in Nat /\ last' >= last /\ \A e \in News(q, last) : e.seq <= last'
  BY PlayType
<1>3. wire' = wire \cup News(q, last) /\ UNCHANGED <<current, lastId>>
  BY DEF Play
<1>4. conn'[current] = "live" /\ current # NoConn
  BY DEF Play, SetConn, StreamTypeOK
<1> HIDE DEF Play, News
<1> QED
  BY <1>1, <1>2, <1>3, <1>4, WrittenMore

LEMMA WrittenStep ==
  ASSUME StreamTypeOK, Written, StreamStep
  PROVE  Written'
<1>1. ASSUME NEW p \in Processes, Publish(p) \/ PublishFails(p) PROVE Written'
  BY <1>1, WrittenSame DEF Publish, PublishFails, streamVars, Listening
<1>2. CASE Expire
  BY <1>2, WrittenSame DEF Expire, streamVars, Listening
<1>3. ASSUME NEW c \in Conns, Connect(c) PROVE Written'
  <2>1. /\ current' = c /\ last' = lastId /\ lastId' = lastId /\ wire' = {}
        /\ conn'[c] = "ticket" /\ lastId \in Nat
    BY <1>3 DEF Connect, Listen, SetConn, StreamTypeOK
  <2> QED
    BY <2>1 DEF Written
<1>4. ASSUME NEW c \in Conns, Refuse(c) PROVE Written'
  <2>1. CASE c = current
    BY <1>4, <2>1, WrittenAway DEF Refuse
  <2>2. CASE c # current
    BY <1>4, <2>2, WrittenSame DEF Refuse, SetConn, StreamTypeOK
  <2> QED
    BY <2>1, <2>2
<1>5. ASSUME NEW c \in Conns, Admit(c) PROVE Written'
  <2>1. CASE c = current
    <3>1. conn[c] = "ticket" /\ c # NoConn
      BY <1>5, <2>1 DEF Admit, Serve, Written
    <3>2. conn'[current] \in {"replay", "live"}
      BY <1>5, <2>1, <3>1 DEF Admit, Serve, SetConn, StreamTypeOK
    <3> QED
      BY <1>5, <3>2, WrittenSame DEF Admit, Serve
  <2>2. CASE c # current
    BY <1>5, <2>2, WrittenSame DEF Admit, Serve, SetConn, StreamTypeOK
  <2> QED
    BY <2>1, <2>2
<1>6. ASSUME NEW c \in Conns, Missed(c) PROVE Written'
  <2>1. /\ conn'[current] = "answered" /\ current # NoConn
        /\ UNCHANGED <<current, last, wire, lastId>>
    BY <1>6 DEF Missed, SetConn, StreamTypeOK
  <2> QED
    BY <2>1 DEF Written
<1>7. ASSUME NEW c \in Conns, Replay(c) PROVE Written'
  <2>1. c = current /\ Play(c, missed \o pending) /\ missed \o pending \in Seq(Events)
    BY <1>7 DEF Replay, StreamTypeOK
  <2> QED
    BY <2>1, WrittenPlay
<1>8. ASSUME NEW c \in Conns, ReplayFails(c) PROVE Written'
  <2>1. c = current /\ Play(c, pending) /\ pending \in Seq(Events)
    BY <1>8 DEF ReplayFails, StreamTypeOK
  <2> QED
    BY <2>1, WrittenPlay
<1>9. ASSUME NEW c \in Conns, Close(c) PROVE Written'
  BY <1>9, WrittenSame DEF Close, SetConn, StreamTypeOK
<1>10. ASSUME NEW p \in Pods, Dispatch(p) PROVE Written'
  <2> DEFINE e == Head(channel[p])
             fresh == current # NoConn /\ Site[current] = p /\ conn[current] = "live" /\ e.seq > last
  <2>1. e \in Events /\ e.seq \in Nat
    <3>1. e \in Events
      BY <1>10, InTail DEF Dispatch, StreamTypeOK
    <3> QED
      BY <3>1 DEF Events
  <2>2. /\ last' = IF fresh THEN e.seq ELSE last
        /\ wire' = IF fresh THEN wire \cup {e} ELSE wire
        /\ UNCHANGED <<current, lastId, conn, missed>>
    BY <1>10 DEF Dispatch
  <2>3. CASE fresh
    <3>1. \A d \in {e} : d \in Events /\ d.seq > last /\ d.seq <= last'
      BY <2>1, <2>2, <2>3
    <3>2. last' \in Nat /\ last' >= last
      BY <2>1, <2>2, <2>3 DEF StreamTypeOK
    <3>3. wire' = wire \cup {e} /\ current # NoConn /\ conn'[current] = "live"
      BY <2>2, <2>3
    <3>4. \A d, f \in {e} : d.seq = f.seq => d = f
      OBVIOUS
    <3> HIDE DEF e, fresh
    <3> QED
      BY <2>2, <3>1, <3>2, <3>3, <3>4, WrittenMore
  <2>4. CASE ~ fresh
    <3>1. last' = last /\ wire' = wire
      BY <2>2, <2>4
    <3>2. current = NoConn => pending' = pending
      BY <1>10 DEF Dispatch
    <3> HIDE DEF e, fresh
    <3> QED
      BY <2>2, <3>1, <3>2 DEF Written
  <2> QED
    BY <2>3, <2>4
<1>11. ASSUME NEW p \in Pods, MessageLost(p) PROVE Written'
  BY <1>11, WrittenSame DEF MessageLost, streamVars, Listening
<1>12. ASSUME NEW e \in wire, Receive(e) PROVE Written'
  <2>1. /\ \A d \in wire : e.seq <= d.seq
        /\ wire' = wire \ {e} /\ lastId' = e.seq
        /\ UNCHANGED <<conn, current, last, pending, missed>>
    BY <1>12 DEF Receive
  <2>2. ASSUME NEW d \in wire \ {e} PROVE d.seq > e.seq /\ d.seq <= last
    <3>1. d.seq \in Nat /\ e.seq \in Nat /\ d.seq # e.seq /\ e.seq <= d.seq
      BY <2>1 DEF Written, StreamTypeOK, Events
    <3> QED
      BY <3>1 DEF Written
  <2>3. e.seq <= last /\ current # NoConn
    BY DEF Written
  <2> QED
    BY <2>1, <2>2, <2>3 DEF Written
<1>13. CASE Break
  BY <1>13, WrittenAway DEF Break
<1> QED
  BY <1>1, <1>2, <1>3, <1>4, <1>5, <1>6, <1>7, <1>8, <1>9, <1>10, <1>11, <1>12, <1>13
     DEF StreamStep

LEMMA WrittenCrash ==
  ASSUME StreamTypeOK, Written, NEW p \in Processes, StreamsCrash(p) PROVE Written'
<1>1. CASE current # NoConn /\ Site[current] = p
  BY <1>1, WrittenAway DEF StreamsCrash
<1>2. CASE ~ (current # NoConn /\ Site[current] = p)
  <2>1. UNCHANGED <<Listening, lastId>>
    BY <1>2 DEF StreamsCrash
  <2>2. current # NoConn => conn'[current] = conn[current]
    BY <1>2 DEF StreamsCrash, StreamTypeOK
  <2> QED
    BY <2>1, <2>2, WrittenSame
<1> QED
  BY <1>1, <1>2

-----------------------------------------------------------------------------
\* The numbers.

LEMMA KnownType == ASSUME StreamTypeOK PROVE Known \subseteq Events
<1>1. /\ InSeq(buffer) \subseteq Events /\ InSeq(pending) \subseteq Events
      /\ InSeq(missed) \subseteq Events
  BY InType DEF StreamTypeOK
<1>2. ASSUME NEW p \in Pods PROVE InSeq(channel[p]) \subseteq Events
  <2>1. channel[p] \in Seq(Events)
    BY DEF StreamTypeOK
  <2> QED
    BY <2>1 DEF InSeq
<1> QED
  BY <1>1, <1>2 DEF Known

\* A number waits in one place.
LEMMA NumberedOnce ==
  ASSUME Numbered, NEW p \in Processes, NEW q \in Processes,
         NEW i \in 1 .. Len(outbox[p]), NEW h \in 1 .. Len(outbox[q]),
         outbox[p][i] = outbox[q][h]
  PROVE  p = q /\ i = h
  BY DEF Numbered

\* Fewer events, and no more numbers to append.
LEMMA NumberedFewer ==
  ASSUME StreamTypeOK, Numbered, Known' \subseteq Known, UNCHANGED <<counter, highest>>,
         \A p \in Processes :
           \/ outbox'[p] = outbox[p]
           \/ outbox'[p] = <<>>
           \/ outbox[p] # <<>> /\ outbox'[p] = Tail(outbox[p])
  PROVE  Numbered'
<1>1. ASSUME NEW p \in Processes
      PROVE  \E k \in Nat : \A i \in 1 .. Len(outbox'[p]) :
               i + k \in 1 .. Len(outbox[p]) /\ outbox'[p][i] = outbox[p][i + k]
  <2>1. outbox[p] \in Seq(Nat)
    BY DEF StreamTypeOK
  <2>2. CASE outbox'[p] = outbox[p]
    <3>1. \A i \in 1 .. Len(outbox'[p]) :
            i + 0 \in 1 .. Len(outbox[p]) /\ outbox'[p][i] = outbox[p][i + 0]
      BY <2>1, <2>2
    <3> QED
      BY <3>1
  <2>3. CASE outbox'[p] = <<>>
    <3>1. \A i \in 1 .. Len(outbox'[p]) :
            i + 0 \in 1 .. Len(outbox[p]) /\ outbox'[p][i] = outbox[p][i + 0]
      BY <2>3
    <3> QED
      BY <3>1
  <2>4. CASE outbox[p] # <<>> /\ outbox'[p] = Tail(outbox[p])
    <3>1. \A i \in 1 .. Len(outbox'[p]) :
            i + 1 \in 1 .. Len(outbox[p]) /\ outbox'[p][i] = outbox[p][i + 1]
      BY <2>1, <2>4
    <3> QED
      BY <3>1
  <2> QED
    BY <2>2, <2>3, <2>4
<1>2. ASSUME NEW p \in Processes, NEW i \in 1 .. Len(outbox'[p])
      PROVE  /\ outbox'[p][i] <= counter
             /\ \A e \in Known : e.seq # outbox'[p][i]
             /\ \A q \in Processes : \A h \in 1 .. Len(outbox'[q]) :
                  outbox'[p][i] = outbox'[q][h] => p = q /\ i = h
  <2>1. PICK k \in Nat : \A j \in 1 .. Len(outbox'[p]) :
          j + k \in 1 .. Len(outbox[p]) /\ outbox'[p][j] = outbox[p][j + k]
    BY <1>1
  <2>2. ASSUME NEW q \in Processes, NEW h \in 1 .. Len(outbox'[q]), outbox'[p][i] = outbox'[q][h]
        PROVE  p = q /\ i = h
    <3>1. PICK m \in Nat : \A j \in 1 .. Len(outbox'[q]) :
            j + m \in 1 .. Len(outbox[q]) /\ outbox'[q][j] = outbox[q][j + m]
      BY <1>1
    <3>2. p = q
      <4>1. /\ i + k \in 1 .. Len(outbox[p]) /\ h + m \in 1 .. Len(outbox[q])
            /\ outbox[p][i + k] = outbox[q][h + m]
        BY <2>1, <2>2, <3>1
      <4> QED
        BY <4>1, NumberedOnce
    <3>3. i + k = h + k
      <4> DEFINE a == i + k
                 b == h + k
      <4>1. /\ a \in 1 .. Len(outbox[p]) /\ b \in 1 .. Len(outbox[p])
            /\ outbox[p][a] = outbox[p][b]
        BY <2>1, <2>2, <3>2
      <4> HIDE DEF a, b
      <4> SUFFICES a = b
        BY DEF a, b
      <4> QED
        BY <4>1, NumberedOnce
    <3>4. h \in Int /\ i \in Int
      OBVIOUS
    <3> QED
      BY <3>2, <3>3, <3>4
  <2>3. outbox'[p][i] <= counter /\ \A e \in Known : e.seq # outbox'[p][i]
    <3> DEFINE a == i + k
    <3>1. a \in 1 .. Len(outbox[p]) /\ outbox'[p][i] = outbox[p][a]
      BY <2>1
    <3> HIDE DEF a
    <3>2. outbox[p][a] <= counter /\ \A e \in Known : e.seq # outbox[p][a]
      BY <3>1 DEF Numbered
    <3> QED
      BY <3>1, <3>2
  <2> QED
    BY <2>2, <2>3
<1>3. \A d, e \in Known' : d.seq = e.seq => d = e
  BY DEF Numbered
<1>4. \A e \in Known' : e.seq <= counter' /\ e.seq <= highest'
  BY DEF Numbered
<1>5. \A p \in Processes : \A i \in 1 .. Len(outbox'[p]) :
        /\ outbox'[p][i] <= counter'
        /\ \A e \in Known' : e.seq # outbox'[p][i]
        /\ \A q \in Processes : \A h \in 1 .. Len(outbox'[q]) :
             outbox'[p][i] = outbox'[q][h] => p = q /\ i = h
  BY <1>2
<1> QED
  BY <1>3, <1>4, <1>5 DEF Numbered

LEMMA InEmpty == InSeq(<<>>) = {} /\ InOrder(<<>>)
  BY DEF InSeq, InOrder

LEMMA KnownWithin ==
  ASSUME NEW X, InSeq(buffer') \subseteq X, \A p \in Pods : InSeq(channel'[p]) \subseteq X,
         InSeq(pending') \subseteq X, InSeq(missed') \subseteq X
  PROVE  Known' \subseteq X
<1>1. Known' = InSeq(buffer') \cup (UNION {InSeq(channel'[p]) : p \in Pods})
                 \cup InSeq(pending') \cup InSeq(missed')
  BY DEF Known, InSeq
<1> QED
  BY <1>1

LEMMA KnownHas ==
  /\ InSeq(buffer) \subseteq Known /\ InSeq(pending) \subseteq Known /\ InSeq(missed) \subseteq Known
  /\ \A p \in Pods : InSeq(channel[p]) \subseteq Known
  BY DEF Known

LEMMA Unmoved ==
  ASSUME StreamTypeOK, Numbered, Sorted, UNCHANGED <<busVars, current, pending, missed>>
  PROVE  Numbered' /\ Sorted'
<1>1. Known' = Known
  BY DEF Known, InSeq, busVars
<1>2. Numbered'
  BY <1>1, NumberedFewer DEF busVars
<1>3. Sorted'
  BY DEF Sorted, busVars, InOrder, InSeq
<1> QED
  BY <1>2, <1>3

\* What a handler held is dropped.
LEMMA Emptied ==
  ASSUME StreamTypeOK, Numbered, Sorted, UNCHANGED busVars, pending' = <<>>, missed' = <<>>
  PROVE  Numbered' /\ Sorted'
<1>1. Known' \subseteq Known
  BY KnownHas, KnownWithin, InEmpty DEF busVars
<1>2. Numbered'
  BY <1>1, NumberedFewer DEF busVars
<1>3. Sorted'
  BY InEmpty DEF Sorted, busVars
<1> QED
  BY <1>2, <1>3

\* A message leaves a subscription, and a handler may hold it back.
LEMMA Shortened ==
  ASSUME StreamTypeOK, Numbered, Sorted, NEW p \in Pods, channel[p] # <<>>,
         channel' = [channel EXCEPT ![p] = Tail(@)],
         \/ pending' = pending
         \/ /\ current # NoConn /\ Site[current] = p
            /\ pending' = Append(pending, Head(channel[p])),
         UNCHANGED <<counter, highest, outbox, buffer, current, missed>>
  PROVE  Numbered' /\ Sorted'
<1> DEFINE e == Head(channel[p])
<1>1. channel[p] \in Seq(Events) /\ pending \in Seq(Events)
  BY DEF StreamTypeOK
<1>2. /\ Tail(channel[p]) \in Seq(Events) /\ e \in Events
      /\ InSeq(channel[p]) = {e} \cup InSeq(Tail(channel[p]))
  BY <1>1, InTail
<1>3. channel'[p] = Tail(channel[p]) /\ \A q \in Pods : q # p => channel'[q] = channel[q]
  BY DEF StreamTypeOK
<1>4. InOrder(Tail(channel[p])) /\ \A d \in InSeq(Tail(channel[p])) : d.ordered => e.seq < d.seq
  BY <1>1, OrderTail DEF Sorted
<1>5. \A q \in Pods : InSeq(channel'[q]) \subseteq InSeq(channel[q]) /\ InOrder(channel'[q])
  BY <1>2, <1>3, <1>4 DEF Sorted
<1> HIDE DEF e
<1>6. CASE pending' = pending
  <2>1. Known' \subseteq Known
    BY <1>5, <1>6, KnownHas, KnownWithin
  <2>2. Numbered'
    BY <2>1, NumberedFewer
  <2>3. Sorted'
    BY <1>5, <1>6 DEF Sorted
  <2> QED
    BY <2>2, <2>3
<1>7. CASE /\ current # NoConn /\ Site[current] = p
           /\ pending' = Append(pending, e)
  <2>1. pending' \in Seq(Events) /\ InSeq(pending') = InSeq(pending) \cup {e}
    BY <1>1, <1>2, <1>7, InAppend
  <2>2. Known' \subseteq Known
    BY <1>2, <1>5, <2>1, KnownHas, KnownWithin
  <2>3. Numbered'
    BY <2>2, NumberedFewer
  <2>4. e.ordered => \A d \in InSeq(pending) : d.seq < e.seq
    BY <1>2, <1>7 DEF Sorted
  <2>5. InOrder(pending')
    BY <1>1, <1>2, <1>7, <2>4, OrderAppend DEF Sorted
  <2>6. \A d \in InSeq(pending'), f \in InSeq(channel'[p]) : f.ordered => d.seq < f.seq
    BY <1>2, <1>3, <1>4, <1>7, <2>1 DEF Sorted
  <2>7. Sorted'
    BY <1>5, <1>7, <2>5, <2>6 DEF Sorted
  <2> QED
    BY <2>3, <2>7
<1> QED
  BY <1>6, <1>7 DEF e

LEMMA NumberedPublish ==
  ASSUME StreamTypeOK, Numbered, Sorted, NEW p \in Processes, Publish(p)
  PROVE  Numbered' /\ Sorted'
<1>1. PICK e \in Events :
           /\ e.seq = Head(outbox[p]) /\ (e.ordered <=> e.seq > highest)
           /\ buffer' = LastOf(Append(buffer, e), BufferSize)
           /\ channel' = [q \in Pods |-> Append(channel[q], e)]
           /\ e.seq <= highest' /\ highest <= highest' /\ highest' \in Nat
  BY PublishType
<1>2. /\ outbox[p] # <<>> /\ outbox' = [outbox EXCEPT ![p] = Tail(@)]
      /\ UNCHANGED <<counter, pending, missed, current>>
  BY DEF Publish, streamVars
<1>3. /\ Append(buffer, e) \in Seq(Events) /\ InSeq(Append(buffer, e)) = InSeq(buffer) \cup {e}
      /\ InSeq(buffer') \subseteq InSeq(buffer) \cup {e}
  <2>1. buffer \in Seq(Events) /\ BufferSize \in Nat \ {0}
    BY DEF StreamTypeOK
  <2>2. Append(buffer, e) \in Seq(Events) /\ InSeq(Append(buffer, e)) = InSeq(buffer) \cup {e}
    BY <2>1, InAppend
  <2>3. InSeq(LastOf(Append(buffer, e), BufferSize)) \subseteq InSeq(Append(buffer, e))
    BY <2>1, <2>2, InLastOf
  <2> QED
    BY <1>1, <2>2, <2>3
<1>4. ASSUME NEW q \in Pods
      PROVE  /\ channel[q] \in Seq(Events) /\ channel'[q] = Append(channel[q], e)
             /\ InSeq(channel'[q]) = InSeq(channel[q]) \cup {e}
  <2>1. channel[q] \in Seq(Events) /\ channel'[q] = Append(channel[q], e)
    BY <1>1 DEF StreamTypeOK
  <2>2. InSeq(Append(channel[q], e)) = InSeq(channel[q]) \cup {e}
    <3>1. \A w \in Seq(Events) : InSeq(Append(w, e)) = InSeq(w) \cup {e}
      BY InAppend
    <3> QED
      BY <2>1, <3>1
  <2> QED
    BY <2>1, <2>2
<1>5. Known' \subseteq Known \cup {e}
  <2>1. InSeq(buffer') \subseteq Known \cup {e}
    BY <1>3, KnownHas
  <2>2. \A q \in Pods : InSeq(channel'[q]) \subseteq Known \cup {e}
    BY <1>4, KnownHas
  <2>3. InSeq(pending') \subseteq Known \cup {e} /\ InSeq(missed') \subseteq Known \cup {e}
    BY <1>2, KnownHas
  <2> QED
    BY <2>1, <2>2, <2>3, KnownWithin
<1>6. \A d \in Known : d \in Events /\ d.seq \in Nat /\ d.seq <= highest /\ d.seq <= counter
  BY KnownType DEF Numbered, Events
<1>7. highest \in Nat /\ e.seq \in Nat /\ counter \in Nat
  BY DEF StreamTypeOK, Events
<1>8. e.ordered => \A d \in Known : d.seq < e.seq
  BY <1>1, <1>6, <1>7
<1>9. Sorted'
  <2>1. InOrder(buffer')
    <3>1. InOrder(Append(buffer, e))
      BY <1>8, KnownHas, OrderAppend DEF StreamTypeOK, Sorted
    <3> QED
      BY <1>1, <1>3, <3>1, OrderLastOf
  <2>2. ASSUME NEW q \in Pods PROVE InOrder(channel'[q])
    BY <1>4, <1>8, KnownHas, OrderAppend DEF Sorted
  <2>3. ASSUME current # NoConn, NEW d \in InSeq(pending),
               NEW f \in InSeq(channel'[Site[current]]), f.ordered
        PROVE  d.seq < f.seq
    <3>1. Site[current] \in Pods
      BY <2>3 DEF StreamTypeOK
    <3>2. CASE f = e
      BY <1>8, <2>3, <3>2, KnownHas
    <3>3. CASE f \in InSeq(channel[Site[current]])
      BY <2>3, <3>3 DEF Sorted
    <3> QED
      BY <1>4, <2>3, <3>1, <3>2, <3>3
  <2>4. InOrder(pending') /\ InOrder(missed')
    BY <1>2 DEF Sorted
  <2>5. current' # NoConn =>
          \A d \in InSeq(pending'), f \in InSeq(channel'[Site[current']]) : f.ordered => d.seq < f.seq
    BY <1>2, <2>3
  <2> QED
    BY <2>1, <2>2, <2>4, <2>5 DEF Sorted
<1>10. 1 \in 1 .. Len(outbox[p]) /\ outbox[p][1] = e.seq /\ outbox[p] \in Seq(Nat)
  <2>1. outbox[p] \in Seq(Nat)
    BY DEF StreamTypeOK
  <2> QED
    BY <1>1, <1>2, <2>1
<1>11. e.seq <= counter /\ \A d \in Known : d.seq # e.seq
  BY <1>10 DEF Numbered
<1>12. outbox'[p] = Tail(outbox[p]) /\ \A q \in Processes : q # p => outbox'[q] = outbox[q]
  BY <1>2 DEF StreamTypeOK
<1>13. ASSUME NEW q \in Processes, NEW i \in 1 .. Len(outbox'[q])
       PROVE  \E k \in 1 .. Len(outbox[q]) :
                /\ outbox'[q][i] = outbox[q][k]
                /\ k = (IF q = p THEN i + 1 ELSE i)
  <2>1. CASE q = p
    <3>1. i \in 1 .. Len(Tail(outbox[p])) /\ outbox'[q][i] = Tail(outbox[p])[i]
      BY <1>12, <2>1
    <3>2. i + 1 \in 1 .. Len(outbox[p]) /\ Tail(outbox[p])[i] = outbox[p][i + 1]
      BY <1>2, <1>10, <3>1
    <3> QED
      BY <2>1, <3>1, <3>2
  <2>2. CASE q # p
    BY <1>12, <2>2
  <2> QED
    BY <2>1, <2>2
<1>14. ASSUME NEW q \in Processes, NEW i \in 1 .. Len(outbox'[q])
       PROVE  /\ outbox'[q][i] <= counter
              /\ \A d \in Known \cup {e} : d.seq # outbox'[q][i]
  <2>1. PICK k \in 1 .. Len(outbox[q]) :
          outbox'[q][i] = outbox[q][k] /\ k = (IF q = p THEN i + 1 ELSE i)
    BY <1>13
  <2>2. outbox[q][k] <= counter /\ \A d \in Known : d.seq # outbox[q][k]
    BY DEF Numbered
  <2>3. outbox[q][k] # e.seq
    <3> SUFFICES ASSUME outbox[q][k] = outbox[p][1] PROVE FALSE
      BY <1>10
    <3>1. q = p /\ k = 1
      BY <1>10, NumberedOnce
    <3> QED
      BY <2>1, <3>1
  <2> QED
    BY <2>1, <2>2, <2>3
<1>15. ASSUME NEW q \in Processes, NEW i \in 1 .. Len(outbox'[q]),
              NEW r \in Processes, NEW h \in 1 .. Len(outbox'[r]), outbox'[q][i] = outbox'[r][h]
       PROVE  q = r /\ i = h
  <2>1. PICK k \in 1 .. Len(outbox[q]) :
          outbox'[q][i] = outbox[q][k] /\ k = (IF q = p THEN i + 1 ELSE i)
    BY <1>13
  <2>2. PICK l \in 1 .. Len(outbox[r]) :
          outbox'[r][h] = outbox[r][l] /\ l = (IF r = p THEN h + 1 ELSE h)
    BY <1>13
  <2>3. outbox[q][k] = outbox[r][l]
    BY <1>15, <2>1, <2>2
  <2>4. q = r /\ k = l
    BY <2>3, NumberedOnce
  <2> QED
    BY <2>1, <2>2, <2>4
<1>16. \A c, d \in Known' : c.seq = d.seq => c = d
  BY <1>5, <1>11 DEF Numbered
<1>17. \A d \in Known' : d.seq <= counter' /\ d.seq <= highest'
  BY <1>1, <1>2, <1>5, <1>6, <1>7, <1>11
<1>18. \A q \in Processes : \A i \in 1 .. Len(outbox'[q]) :
         /\ outbox'[q][i] <= counter'
         /\ \A d \in Known' : d.seq # outbox'[q][i]
         /\ \A r \in Processes : \A h \in 1 .. Len(outbox'[r]) :
              outbox'[q][i] = outbox'[r][h] => q = r /\ i = h
  <2> TAKE q \in Processes
  <2> TAKE i \in 1 .. Len(outbox'[q])
  <2>1. outbox'[q][i] <= counter' /\ \A d \in Known' : d.seq # outbox'[q][i]
    BY <1>2, <1>5, <1>14
  <2> QED
    BY <1>15, <2>1
<1> QED
  BY <1>9, <1>16, <1>17, <1>18 DEF Numbered

LEMMA NumberedEmit ==
  ASSUME StreamTypeOK, Numbered, Sorted, NEW p \in Processes, Emit(p),
         UNCHANGED <<highest, buffer, channel, streamVars>>
  PROVE  Numbered' /\ Sorted'
<1>1. counter' = counter + 1 /\ counter \in Nat /\ outbox[p] \in Seq(Nat)
  BY DEF Emit, StreamTypeOK
<1>2. /\ outbox'[p] = Append(outbox[p], counter + 1)
      /\ \A q \in Processes : q # p => outbox'[q] = outbox[q]
  BY <1>1 DEF Emit, StreamTypeOK
<1>3. Known' = Known
  BY DEF Known, InSeq, streamVars
<1>4. Sorted'
  BY DEF Sorted, streamVars, InOrder, InSeq
<1>5. \A e \in Known : e.seq \in Nat /\ e.seq <= counter /\ e.seq <= highest
  BY KnownType DEF Numbered, Events
<1>6. ASSUME NEW q \in Processes, NEW i \in 1 .. Len(outbox'[q])
      PROVE  \/ q = p /\ i = Len(outbox[p]) + 1 /\ outbox'[q][i] = counter + 1
             \/ i \in 1 .. Len(outbox[q]) /\ outbox'[q][i] = outbox[q][i] /\ outbox[q][i] <= counter
  <2>1. CASE q # p
    BY <1>2, <2>1 DEF Numbered
  <2>2. CASE q = p
    <3>1. /\ Len(Append(outbox[p], counter + 1)) = Len(outbox[p]) + 1
          /\ Append(outbox[p], counter + 1)[Len(outbox[p]) + 1] = counter + 1
          /\ \A k \in 1 .. Len(outbox[p]) : Append(outbox[p], counter + 1)[k] = outbox[p][k]
          /\ Len(outbox[p]) \in Nat
      BY <1>1
    <3>2. CASE i = Len(outbox[p]) + 1
      BY <1>2, <2>2, <3>1, <3>2
    <3>3. CASE i # Len(outbox[p]) + 1
      <4>1. i \in 1 .. Len(outbox[p])
        BY <1>2, <2>2, <3>1, <3>3
      <4> QED
        BY <1>2, <2>2, <3>1, <4>1 DEF Numbered
    <3> QED
      BY <3>2, <3>3
  <2> QED
    BY <2>1, <2>2
<1>7. \A q \in Processes : outbox[q] \in Seq(Nat)
  BY DEF StreamTypeOK
<1>8. ASSUME NEW q \in Processes, NEW i \in 1 .. Len(outbox[q]) PROVE outbox[q][i] \in Nat
  BY <1>7
<1>9. ASSUME NEW q \in Processes, NEW i \in 1 .. Len(outbox'[q])
      PROVE  /\ outbox'[q][i] <= counter'
             /\ \A e \in Known : e.seq # outbox'[q][i]
  <2>1. CASE q = p /\ i = Len(outbox[p]) + 1 /\ outbox'[q][i] = counter + 1
    BY <1>1, <1>5, <2>1
  <2>2. CASE i \in 1 .. Len(outbox[q]) /\ outbox'[q][i] = outbox[q][i] /\ outbox[q][i] <= counter
    BY <1>1, <1>8, <2>2 DEF Numbered
  <2> QED
    BY <1>6, <2>1, <2>2
<1>10. ASSUME NEW q \in Processes, NEW i \in 1 .. Len(outbox'[q]),
              NEW r \in Processes, NEW h \in 1 .. Len(outbox'[r]), outbox'[q][i] = outbox'[r][h]
       PROVE  q = r /\ i = h
  <2>1. CASE q = p /\ i = Len(outbox[p]) + 1 /\ outbox'[q][i] = counter + 1
    <3>1. ~ (outbox'[r][h] <= counter)
      BY <1>1, <1>10, <2>1
    <3> QED
      BY <1>6, <2>1, <3>1
  <2>2. CASE i \in 1 .. Len(outbox[q]) /\ outbox'[q][i] = outbox[q][i] /\ outbox[q][i] <= counter
    <3>1. outbox'[r][h] # counter + 1
      BY <1>1, <1>8, <1>10, <2>2
    <3>2. h \in 1 .. Len(outbox[r]) /\ outbox'[r][h] = outbox[r][h]
      BY <1>6, <3>1
    <3>3. outbox[q][i] = outbox[r][h]
      BY <1>10, <2>2, <3>2
    <3> QED
      BY <2>2, <3>2, <3>3, NumberedOnce
  <2> QED
    BY <1>6, <2>1, <2>2
<1>11. \A d, e \in Known' : d.seq = e.seq => d = e
  BY <1>3 DEF Numbered
<1>12. \A e \in Known' : e.seq <= counter' /\ e.seq <= highest'
  BY <1>1, <1>3, <1>5
<1>13. \A q \in Processes : \A i \in 1 .. Len(outbox'[q]) :
         /\ outbox'[q][i] <= counter'
         /\ \A d \in Known' : d.seq # outbox'[q][i]
         /\ \A r \in Processes : \A h \in 1 .. Len(outbox'[r]) :
              outbox'[q][i] = outbox'[r][h] => q = r /\ i = h
  BY <1>3, <1>9, <1>10
<1> QED
  BY <1>4, <1>11, <1>12, <1>13 DEF Numbered

LEMMA QueueStep ==
  ASSUME StreamTypeOK, Numbered, Sorted, StreamStep
  PROVE  Numbered' /\ Sorted'
<1> USE DEF busVars
<1>1. ASSUME NEW p \in Processes, Publish(p) PROVE Numbered' /\ Sorted'
  BY <1>1, NumberedPublish
<1>2. ASSUME NEW p \in Processes, PublishFails(p) PROVE Numbered' /\ Sorted'
  <2>1. /\ outbox[p] # <<>> /\ outbox' = [outbox EXCEPT ![p] = Tail(@)]
        /\ UNCHANGED <<counter, highest, buffer, channel, pending, missed, current>>
    BY <1>2 DEF PublishFails, streamVars
  <2>2. \A q \in Processes : \/ outbox'[q] = outbox[q]
                             \/ outbox[q] # <<>> /\ outbox'[q] = Tail(outbox[q])
    BY <2>1 DEF StreamTypeOK
  <2>3. Known' = Known
    BY <2>1 DEF Known, InSeq
  <2>4. Numbered'
    BY <2>1, <2>2, <2>3, NumberedFewer
  <2>5. Sorted'
    BY <2>1 DEF Sorted, InOrder, InSeq
  <2> QED
    BY <2>4, <2>5
<1>3. CASE Expire
  <2>1. /\ buffer' = <<>> /\ UNCHANGED <<outbox, channel, pending, missed>>
        /\ pending = <<>> /\ missed = <<>>
        /\ \A p \in Processes : outbox[p] = <<>>
        /\ \A p \in Pods : channel[p] = <<>>
    BY <1>3 DEF Expire, Idling, streamVars
  <2>2. Known' \subseteq {}
    BY <2>1, InEmpty, KnownWithin
  <2>3. \A p \in Processes : Len(outbox'[p]) = 0
    BY <2>1
  <2>4. Numbered'
    BY <2>2, <2>3 DEF Numbered
  <2>5. Sorted'
    BY <2>1, InEmpty DEF Sorted
  <2> QED
    BY <2>4, <2>5
<1>4. ASSUME NEW c \in Conns, Connect(c) PROVE Numbered' /\ Sorted'
  BY <1>4, Emptied DEF Connect, Listen
<1>5. ASSUME NEW c \in Conns, Refuse(c) PROVE Numbered' /\ Sorted'
  <2>1. CASE c = current
    BY <1>5, <2>1, Emptied DEF Refuse, Listen
  <2>2. CASE c # current
    BY <1>5, <2>2, Unmoved DEF Refuse, Listening
  <2> QED
    BY <2>1, <2>2
<1>6. ASSUME NEW c \in Conns, Admit(c) \/ Close(c) PROVE Numbered' /\ Sorted'
  BY <1>6, Unmoved DEF Admit, Serve, Close, Listening
<1>7. ASSUME NEW c \in Conns, Missed(c) PROVE Numbered' /\ Sorted'
  <2>1. missed' = buffer /\ UNCHANGED <<counter, highest, outbox, buffer, channel, pending, current>>
    BY <1>7 DEF Missed
  <2>2. Known' \subseteq Known
    BY <2>1, KnownHas, KnownWithin
  <2>3. Numbered'
    BY <2>1, <2>2, NumberedFewer
  <2>4. Sorted'
    BY <2>1 DEF Sorted
  <2> QED
    BY <2>3, <2>4
<1>8. ASSUME NEW c \in Conns, Replay(c) \/ ReplayFails(c) PROVE Numbered' /\ Sorted'
  <2>1. pending' = <<>> /\ missed' = <<>> /\ UNCHANGED busVars
    BY <1>8 DEF Replay, ReplayFails, Play
  <2> QED
    BY <2>1, Emptied
<1>9. ASSUME NEW p \in Pods, Dispatch(p) PROVE Numbered' /\ Sorted'
  <2>1. /\ channel[p] # <<>> /\ channel' = [channel EXCEPT ![p] = Tail(@)]
        /\ UNCHANGED <<counter, highest, outbox, buffer, current, missed>>
        /\ \/ pending' = pending
           \/ /\ current # NoConn /\ Site[current] = p
              /\ pending' = Append(pending, Head(channel[p]))
    BY <1>9 DEF Dispatch
  <2> QED
    BY <2>1, Shortened
<1>10. ASSUME NEW p \in Pods, MessageLost(p) PROVE Numbered' /\ Sorted'
  <2>1. /\ channel[p] # <<>> /\ channel' = [channel EXCEPT ![p] = Tail(@)]
        /\ UNCHANGED <<counter, highest, outbox, buffer, current, missed>> /\ pending' = pending
    BY <1>10 DEF MessageLost, streamVars
  <2> QED
    BY <2>1, Shortened
<1>11. ASSUME NEW e \in wire, Receive(e) PROVE Numbered' /\ Sorted'
  BY <1>11, Unmoved DEF Receive
<1>12. CASE Break
  BY <1>12, Emptied DEF Break, Listen
<1> QED
  BY <1>1, <1>2, <1>3, <1>4, <1>5, <1>6, <1>7, <1>8, <1>9, <1>10, <1>11, <1>12 DEF StreamStep

LEMMA QueueCrash ==
  ASSUME StreamTypeOK, Numbered, Sorted, NEW p \in Processes, StreamsCrash(p)
  PROVE  Numbered' /\ Sorted'
<1>1. /\ outbox' = [outbox EXCEPT ![p] = <<>>]
      /\ channel' = [q \in Pods |-> IF q = p THEN <<>> ELSE channel[q]]
      /\ UNCHANGED <<counter, highest, buffer>>
  BY DEF StreamsCrash
<1>2. \A q \in Processes : outbox'[q] = outbox[q] \/ outbox'[q] = <<>>
  BY <1>1 DEF StreamTypeOK
<1>3. \A q \in Pods : channel'[q] = <<>> \/ channel'[q] = channel[q]
  BY <1>1
<1>4. \A q \in Pods : InSeq(channel'[q]) \subseteq InSeq(channel[q]) /\ InOrder(channel'[q])
  BY <1>3, InEmpty DEF Sorted
<1>5. CASE pending' = <<>> /\ missed' = <<>>
  <2>1. Known' \subseteq Known
    BY <1>1, <1>4, <1>5, InEmpty, KnownHas, KnownWithin
  <2>2. Numbered'
    BY <1>1, <1>2, <2>1, NumberedFewer
  <2>3. Sorted'
    BY <1>1, <1>4, <1>5, InEmpty DEF Sorted
  <2> QED
    BY <2>2, <2>3
<1>6. CASE UNCHANGED Listening
  <2>1. UNCHANGED <<pending, missed, current>>
    BY <1>6 DEF Listening
  <2>2. Known' \subseteq Known
    BY <1>1, <1>4, <2>1, KnownHas, KnownWithin
  <2>3. Numbered'
    BY <1>1, <1>2, <2>2, NumberedFewer
  <2>4. current # NoConn => Site[current] \in Pods
    BY DEF StreamTypeOK
  <2>5. Sorted'
    BY <1>1, <1>4, <2>1, <2>4 DEF Sorted
  <2> QED
    BY <2>3, <2>5
<1> QED
  BY <1>5, <1>6 DEF StreamsCrash, Listen

-----------------------------------------------------------------------------
\* The invariant.

LEMMA InvInit ==
  ASSUME StreamInit PROVE StreamInv
<1>1. StreamTypeOK
  BY DEF StreamInit, StreamTypeOK, Progress
<1>2. CapKept
  <2>1. ASSUME NEW p \in Pods PROVE Served(p) = {} /\ counted[p] = 0
    BY DEF StreamInit, Served, Serving
  <2> QED
    BY <2>1, FS_EmptySet DEF CapKept
<1>3. Written
  BY DEF StreamInit, Written
<1>4. /\ InSeq(buffer) = {} /\ InSeq(pending) = {} /\ InSeq(missed) = {}
      /\ \A p \in Pods : InSeq(channel[p]) = {}
  BY InEmpty DEF StreamInit
<1>5. Known = {} /\ \A p \in Processes : Len(outbox[p]) = 0
  BY <1>4 DEF StreamInit, Known
<1>6. Numbered
  BY <1>5 DEF Numbered
<1>7. Sorted
  BY InEmpty DEF StreamInit, Sorted
<1> QED
  BY <1>1, <1>2, <1>3, <1>6, <1>7 DEF StreamInv

LEMMA InvStep ==
  ASSUME StreamInv, StreamStep PROVE StreamInv'
  BY TypeStep, CapStep, WrittenStep, QueueStep DEF StreamInv

LEMMA InvCrash ==
  ASSUME StreamInv, NEW p \in Processes, StreamsCrash(p) PROVE StreamInv'
  BY TypeCrash, CapStep, WrittenCrash, QueueCrash DEF StreamInv

LEMMA InvEmit ==
  ASSUME StreamInv, NEW p \in Processes, Emit(p),
         UNCHANGED <<highest, buffer, channel, streamVars, faults>>
  PROVE  StreamInv'
<1>1. UNCHANGED <<Listening, lastId, conn, counted>>
  BY DEF streamVars, Listening
<1>2. StreamTypeOK' /\ Numbered' /\ Sorted'
  BY TypeEmit, NumberedEmit DEF StreamInv
<1>3. CapKept'
  BY <1>1, CapStep DEF StreamInv
<1>4. Written'
  BY <1>1, WrittenSame DEF StreamInv
<1> QED
  BY <1>2, <1>3, <1>4 DEF StreamInv

LEMMA InvQuiet ==
  ASSUME StreamInv, UNCHANGED <<busVars, streamVars>>, faults' \in Nat PROVE StreamInv'
<1>1. UNCHANGED <<Listening, lastId, conn, counted, current, pending, missed, busVars>>
  BY DEF streamVars, Listening
<1>2. StreamTypeOK'
  BY DEF StreamInv, StreamTypeOK, busVars, streamVars
<1>3. CapKept'
  BY <1>1, CapStep DEF StreamInv
<1>4. Written'
  BY <1>1, WrittenSame DEF StreamInv
<1>5. Numbered' /\ Sorted'
  BY <1>1, Unmoved DEF StreamInv
<1> QED
  BY <1>2, <1>3, <1>4, <1>5 DEF StreamInv

-----------------------------------------------------------------------------
\* No event is skipped.

\* Where an event on its way is.
LEMMA OnItsWayCases ==
  ASSUME StreamInv, NEW e, OnItsWay(e)
  PROVE  \/ current = NoConn /\ lastId > 0 /\ e.seq > lastId /\ e \in InSeq(buffer)
         \/ current # NoConn /\ e \in wire
         \/ current # NoConn /\ e.seq > last /\ conn[current] = "ticket" /\ last > 0 /\ e \in InSeq(buffer)
         \/ current # NoConn /\ e.seq > last /\ conn[current] = "replay" /\ e \in InSeq(buffer) \cup InSeq(pending)
         \/ current # NoConn /\ e.seq > last /\ conn[current] = "answered" /\ e \in InSeq(missed) \cup InSeq(pending)
         \/ /\ current # NoConn /\ e.seq > last /\ e \in InSeq(channel[Site[current]])
            /\ conn[current] \in {"replay", "answered", "live"}
  BY DEF OnItsWay, StreamInv, Written, Serving

\* Nothing the browser waits for moves, but the buffer perhaps.
LEMMA KeptSame ==
  ASSUME StreamInv, NEW e, OnItsWay(e), UNCHANGED <<Listening, lastId>>,
         current # NoConn => conn'[current] = conn[current],
         current # NoConn => InSeq(channel[Site[current]]) \subseteq InSeq(channel'[Site[current]])
  PROVE  KeptOrLost(e)
<1>1. CASE e \in InSeq(buffer) /\ e \notin InSeq(buffer')
  BY <1>1 DEF KeptOrLost
<1>2. CASE ~ (e \in InSeq(buffer) /\ e \notin InSeq(buffer'))
  <2>1. OnItsWay(e)'
    BY <1>2 DEF OnItsWay, Listening, Serving, InSeq
  <2> QED
    BY <2>1 DEF KeptOrLost
<1> QED
  BY <1>1, <1>2

\* The browser loses its stream.
LEMMA KeptAway ==
  ASSUME StreamInv, NEW e \in Events, OnItsWay(e), current # NoConn,
         Listen(NoConn, 0), UNCHANGED <<buffer, lastId>>
  PROVE  KeptOrLost(e)
<1>1. current' = NoConn
  BY DEF Listen
<1>2. CASE e \notin InSeq(buffer') \/ lastId = 0
  BY <1>1, <1>2 DEF KeptOrLost
<1>3. CASE e \in InSeq(buffer') /\ lastId # 0
  <2>1. lastId \in Nat /\ last \in Nat /\ lastId <= last /\ e.seq \in Nat
    BY DEF StreamInv, StreamTypeOK, Written, Events
  <2>2. e.seq > lastId
    BY <2>1, OnItsWayCases DEF StreamInv, Written
  <2>3. OnItsWay(e)'
    BY <1>1, <1>3, <2>1, <2>2 DEF OnItsWay
  <2> QED
    BY <2>3 DEF KeptOrLost
<1> QED
  BY <1>2, <1>3

\* A replay writes what it should, and passes no message still in the subscription.
LEMMA KeptReplay ==
  ASSUME StreamInv, NEW e \in Events, e.ordered, OnItsWay(e), NEW c \in Conns, Replay(c)
  PROVE  KeptOrLost(e)
<1>1. /\ c = current /\ conn[c] = "answered" /\ c # NoConn
      /\ conn' = [conn EXCEPT ![c] = "live"] /\ Play(c, missed \o pending)
      /\ wire' = wire \cup News(missed \o pending, last)
      /\ last' \in {last} \cup {d.seq : d \in News(missed \o pending, last)}
      /\ UNCHANGED <<busVars, current, lastId>>
  BY DEF Replay, Play, SetConn
<1>2. /\ missed \in Seq(Events) /\ pending \in Seq(Events) /\ missed \o pending \in Seq(Events)
      /\ last \in Nat /\ conn'[c] = "live" /\ e.seq \in Nat /\ Site[c] \in Pods
  <2>1. missed \in Seq(Events) /\ pending \in Seq(Events) /\ last \in Nat /\ conn \in [Conns -> Progress]
    BY DEF StreamInv, StreamTypeOK
  <2>2. e.seq \in Nat
    BY DEF Events
  <2> QED
    BY <1>1, <2>1, <2>2
<1>3. CASE \E d \in InSeq(missed) : e \notin InSeq(missed) /\ d.seq > e.seq
  BY <1>3 DEF KeptOrLost
<1>4. CASE e \in wire \/ e \in News(missed \o pending, last)
  <2>1. OnItsWay(e)'
    BY <1>1, <1>4 DEF OnItsWay
  <2> QED
    BY <2>1 DEF KeptOrLost
<1>5. CASE e \in InSeq(missed) /\ e.seq > last
  BY <1>2, <1>4, <1>5, NewsHasBoth DEF StreamInv, Sorted
\* What the handler missed has other numbers than an event it did not miss.
<1>6. ASSUME e \in Known, e \notin InSeq(missed), NEW d \in InSeq(missed), ~ (d.seq > e.seq)
      PROVE  d.seq < e.seq
  <2>1. d \in Known /\ d.seq \in Nat
    BY KnownHas, KnownType DEF StreamInv, Events
  <2>2. d.seq # e.seq
    BY <1>6, <2>1 DEF StreamInv, Numbered
  <2> QED
    BY <1>2, <1>6, <2>1, <2>2
<1>7. CASE e \in InSeq(pending) /\ e.seq > last
  <2>1. e \in Known
    BY <1>7, KnownHas
  <2>2. CASE e \notin InSeq(missed) /\ \A d \in InSeq(missed) : ~ (d.seq > e.seq)
    <3>1. \A d \in InSeq(missed) : d.seq < e.seq
      BY <1>6, <2>1, <2>2
    <3>2. e \in News(missed \o pending, last)
      BY <1>2, <1>7, <3>1, NewsHasBoth DEF StreamInv, Sorted
    <3> QED
      BY <1>4, <3>2
  <2> QED
    BY <1>3, <1>5, <1>7, <2>2
<1>8. CASE e \in InSeq(channel[Site[current]]) /\ e.seq > last
  <2>1. e \in Known
    BY <1>1, <1>2, <1>8, KnownHas
  <2>2. CASE e \notin InSeq(missed) /\ \A d \in InSeq(missed) : ~ (d.seq > e.seq)
    <3>1. \A d \in InSeq(missed) : d.seq < e.seq
      BY <1>6, <2>1, <2>2
    <3>2. \A d \in InSeq(pending) : d.seq < e.seq
      BY <1>1, <1>8 DEF StreamInv, Sorted
    <3>3. ASSUME NEW d \in News(missed \o pending, last) PROVE d.seq < e.seq
      <4>1. d \in InSeq(missed \o pending)
        BY <1>2, NewsSound
      <4>2. InSeq(missed \o pending) \subseteq InSeq(missed) \cup InSeq(pending)
        <5> SUFFICES ASSUME NEW i \in 1 .. Len(missed \o pending)
                     PROVE  (missed \o pending)[i] \in InSeq(missed) \cup InSeq(pending)
          BY DEF InSeq
        <5>1. CASE i <= Len(missed)
          BY <1>2, <5>1 DEF InSeq
        <5>2. CASE i > Len(missed)
          <6>1. i - Len(missed) \in 1 .. Len(pending) /\ (missed \o pending)[i] = pending[i - Len(missed)]
            BY <1>2, <5>2
          <6> QED
            BY <6>1 DEF InSeq
        <5>3. i \in Nat /\ Len(missed) \in Nat
          BY <1>2
        <5> QED
          BY <5>1, <5>2, <5>3
      <4> QED
        BY <3>1, <3>2, <4>1, <4>2
    <3>4. last' < e.seq
      BY <1>1, <1>8, <3>3, <1>2
    <3>5. /\ current' = c /\ c # NoConn /\ e.seq > last' /\ conn'[c] = "live"
          /\ channel' = channel /\ e \in InSeq(channel[Site[c]])
      BY <1>1, <1>2, <1>8, <3>4, PlayType DEF busVars, StreamInv
    <3>6. OnItsWay(e)'
      BY <3>5 DEF OnItsWay, Serving
    <3> QED
      BY <3>6 DEF KeptOrLost
  <2> QED
    BY <1>3, <1>5, <1>8, <2>2
<1> QED
  BY <1>1, <1>4, <1>5, <1>7, <1>8, OnItsWayCases

\* Without LRANGE, what was held back is written.
LEMMA KeptReplayFails ==
  ASSUME StreamInv, NEW e \in Events, e.ordered, OnItsWay(e), NEW c \in Conns, ReplayFails(c)
  PROVE  KeptOrLost(e)
<1>1. /\ c = current /\ c # NoConn /\ wire' = wire \cup News(pending, last)
      /\ UNCHANGED <<current, lastId>>
  BY DEF ReplayFails, Play
<1>2. CASE e \notin InSeq(pending)
  BY <1>2 DEF KeptOrLost
<1>3. CASE e \in wire \/ e \in News(pending, last)
  <2>1. OnItsWay(e)'
    BY <1>1, <1>3 DEF OnItsWay
  <2> QED
    BY <2>1 DEF KeptOrLost
<1>4. CASE e \in InSeq(pending) /\ e \notin wire
  <2>1. e.seq > last /\ pending \in Seq(Events) /\ last \in Nat /\ InOrder(pending)
    BY <1>1, <1>4, OnItsWayCases DEF StreamInv, StreamTypeOK, Sorted
  <2> QED
    BY <1>3, <1>4, <2>1, NewsHas
<1> QED
  BY <1>2, <1>3, <1>4

LEMMA KeptDispatch ==
  ASSUME StreamInv, NEW e \in Events, e.ordered, OnItsWay(e), NEW p \in Pods, Dispatch(p)
  PROVE  KeptOrLost(e)
<1> DEFINE d == Head(channel[p])
           hears(pcs) == current # NoConn /\ Site[current] = p /\ conn[current] \in pcs
           fresh == hears({"live"}) /\ d.seq > last
<1>1. /\ channel[p] # <<>> /\ channel' = [channel EXCEPT ![p] = Tail(@)]
      /\ pending' = IF hears({"replay", "answered"}) THEN Append(pending, d) ELSE pending
      /\ last' = IF fresh THEN d.seq ELSE last
      /\ wire' = IF fresh THEN wire \cup {d} ELSE wire
      /\ UNCHANGED <<buffer, conn, current, missed, lastId>>
  BY DEF Dispatch
<1>2. /\ channel[p] \in Seq(Events) /\ pending \in Seq(Events) /\ last \in Nat
      /\ e.seq \in Nat
  BY DEF StreamInv, StreamTypeOK, Events
<1>3. /\ d \in Events /\ InSeq(channel[p]) = {d} \cup InSeq(Tail(channel[p]))
      /\ \A f \in InSeq(Tail(channel[p])) : f.ordered => d.seq < f.seq
  BY <1>1, <1>2, InTail, OrderTail DEF StreamInv, Sorted
<1>4. d.seq \in Nat
  BY <1>3 DEF Events
<1>5. channel'[p] = Tail(channel[p]) /\ \A q \in Pods : q # p => channel'[q] = channel[q]
  BY <1>1 DEF StreamInv, StreamTypeOK
<1>6. InSeq(Append(pending, d)) = InSeq(pending) \cup {d}
  BY <1>2, <1>3, InAppend
<1> HIDE DEF d
<1>7. CASE current = NoConn
  BY <1>1, <1>7, KeptSame DEF Listening
<1>8. CASE current # NoConn /\ Site[current] # p
  <2>1. Site[current] \in Pods
    BY <1>8 DEF StreamInv, StreamTypeOK
  <2> QED
    BY <1>1, <1>5, <1>8, <2>1, KeptSame DEF Listening
<1>9. CASE current # NoConn /\ Site[current] = p
  <2>1. CASE e \in wire
    <3>1. OnItsWay(e)'
      BY <1>1, <1>9, <2>1 DEF OnItsWay
    <3> QED
      BY <3>1 DEF KeptOrLost
  <2>2. CASE conn[current] = "ticket"
    BY <1>1, <1>9, <2>2, OnItsWayCases DEF OnItsWay, KeptOrLost
  <2>3. CASE conn[current] \in {"replay", "answered"}
    <3>1. /\ last' = last /\ InSeq(pending') = InSeq(pending) \cup {d}
          /\ UNCHANGED <<buffer, conn, current, missed, wire>>
      BY <1>1, <1>6, <1>9, <2>3
    <3>2. CASE e \in InSeq(channel[p]) /\ e.seq > last
      <4>1. e \in InSeq(pending') \/ e \in InSeq(channel'[p])
        BY <1>3, <1>5, <3>1, <3>2
      <4>2. OnItsWay(e)'
        BY <1>9, <2>3, <3>1, <3>2, <4>1 DEF OnItsWay, Serving
      <4> QED
        BY <4>2 DEF KeptOrLost
    <3>3. CASE e \notin InSeq(channel[p]) /\ e \notin wire
      <4>1. /\ e.seq > last
            /\ \/ conn[current] = "replay" /\ e \in InSeq(buffer) \cup InSeq(pending)
               \/ conn[current] = "answered" /\ e \in InSeq(missed) \cup InSeq(pending)
        BY <1>9, <2>3, <3>3, OnItsWayCases
      <4>2. /\ InSeq(buffer') = InSeq(buffer) /\ InSeq(missed') = InSeq(missed)
            /\ conn'[current'] = conn[current] /\ current' # NoConn
            /\ e.seq > last' /\ InSeq(pending) \subseteq InSeq(pending')
        BY <1>9, <3>1, <4>1
      <4>3. OnItsWay(e)'
        BY <4>1, <4>2 DEF OnItsWay
      <4> QED
        BY <4>3 DEF KeptOrLost
    <3> QED
      BY <1>9, <2>1, <3>2, <3>3, OnItsWayCases
  <2>4. CASE conn[current] = "live" /\ e \notin wire
    <3>1. e \in InSeq(channel[p]) /\ e.seq > last
      BY <1>9, <2>4, OnItsWayCases
    <3>2. CASE e = d
      <4>1. e \in wire'
        BY <1>1, <1>9, <2>4, <3>1, <3>2
      <4>2. OnItsWay(e)'
        BY <1>1, <1>9, <4>1 DEF OnItsWay
      <4> QED
        BY <4>2 DEF KeptOrLost
    <3>3. CASE e # d
      <4>1. e \in InSeq(channel'[p]) /\ d.seq < e.seq
        BY <1>3, <1>5, <3>1, <3>3
      <4>2. e.seq > last'
        BY <1>1, <1>2, <1>4, <3>1, <4>1
      <4>3. OnItsWay(e)'
        BY <1>1, <1>9, <2>4, <4>1, <4>2 DEF OnItsWay, Serving
      <4> QED
        BY <4>3 DEF KeptOrLost
    <3> QED
      BY <3>2, <3>3
  <2> QED
    BY <1>9, <2>1, <2>2, <2>3, <2>4 DEF StreamInv, Written
<1> QED
  BY <1>7, <1>8, <1>9

LEMMA KeptStep ==
  ASSUME StreamInv, NEW e \in Events, e.ordered, OnItsWay(e), StreamStep
  PROVE  KeptOrLost(e)
<1>1. current # NoConn => current \in Conns /\ Site[current] \in Pods
  BY DEF StreamInv, StreamTypeOK
<1>2. ASSUME NEW p \in Processes, Publish(p) PROVE KeptOrLost(e)
  <2>1. PICK d \in Events : channel' = [q \in Pods |-> Append(channel[q], d)]
    BY <1>2, PublishType DEF StreamInv
  <2>2. ASSUME NEW q \in Pods PROVE InSeq(channel[q]) \subseteq InSeq(channel'[q])
    <3>1. channel[q] \in Seq(Events) /\ channel'[q] = Append(channel[q], d)
      BY <2>1 DEF StreamInv, StreamTypeOK
    <3>2. InSeq(Append(channel[q], d)) = InSeq(channel[q]) \cup {d}
      <4>1. \A w \in Seq(Events) : InSeq(Append(w, d)) = InSeq(w) \cup {d}
        BY InAppend
      <4> QED
        BY <3>1, <4>1
    <3> QED
      BY <3>1, <3>2
  <2>3. UNCHANGED <<Listening, lastId, conn>>
    BY <1>2 DEF Publish, streamVars, Listening
  <2> QED
    BY <1>1, <2>2, <2>3, KeptSame
<1>3. ASSUME NEW p \in Processes, PublishFails(p) PROVE KeptOrLost(e)
  <2>1. UNCHANGED <<Listening, lastId, conn, channel>>
    BY <1>3 DEF PublishFails, streamVars, Listening
  <2> QED
    BY <2>1, KeptSame
<1>4. CASE Expire
  <2>1. UNCHANGED <<Listening, lastId, conn, channel>>
    BY <1>4 DEF Expire, streamVars, Listening
  <2> QED
    BY <2>1, KeptSame
<1>5. ASSUME NEW c \in Conns, Connect(c) PROVE KeptOrLost(e)
  <2>1. /\ current = NoConn /\ current' = c /\ c # NoConn /\ conn'[c] = "ticket" /\ last' = lastId
        /\ UNCHANGED buffer
    BY <1>5 DEF Connect, Listen, SetConn, StreamInv, StreamTypeOK, busVars
  <2>2. lastId > 0 /\ e.seq > lastId /\ e \in InSeq(buffer)
    BY <2>1, OnItsWayCases
  <2>3. OnItsWay(e)'
    BY <2>1, <2>2 DEF OnItsWay
  <2> QED
    BY <2>3 DEF KeptOrLost
<1>6. ASSUME NEW c \in Conns, Refuse(c) PROVE KeptOrLost(e)
  <2>1. CASE c = current
    BY <1>6, <2>1, KeptAway DEF Refuse, busVars
  <2>2. CASE c # current
    BY <1>1, <1>6, <2>2, KeptSame DEF Refuse, busVars, SetConn, StreamInv, StreamTypeOK
  <2> QED
    BY <2>1, <2>2
<1>7. ASSUME NEW c \in Conns, Admit(c) PROVE KeptOrLost(e)
  <2>1. /\ UNCHANGED <<Listening, lastId, buffer, channel>>
        /\ UNCHANGED <<current, last, pending, missed, wire>>
    BY <1>7 DEF Admit, Serve, busVars, Listening
  <2>2. CASE c = current
    <3>1. conn[c] = "ticket" /\ c # NoConn
      BY <1>7, <2>2 DEF Admit, Serve, StreamInv, Written
    <3>2. conn'[c] = IF last > 0 THEN "replay" ELSE "live"
      BY <1>7, <2>2, <3>1 DEF Admit, Serve, SetConn, StreamInv, StreamTypeOK
    <3>3. e \in wire \/ (e.seq > last /\ last > 0 /\ e \in InSeq(buffer))
      BY <2>2, <3>1, OnItsWayCases
    <3>4. OnItsWay(e)'
      BY <2>1, <2>2, <3>1, <3>2, <3>3 DEF OnItsWay
    <3> QED
      BY <3>4 DEF KeptOrLost
  <2>3. CASE c # current
    BY <1>1, <1>7, <2>1, <2>3, KeptSame DEF Admit, Serve, SetConn, StreamInv, StreamTypeOK
  <2> QED
    BY <2>2, <2>3
<1>8. ASSUME NEW c \in Conns, Missed(c) PROVE KeptOrLost(e)
  <2>1. /\ c = current /\ c # NoConn /\ conn[c] = "replay" /\ conn'[c] = "answered"
        /\ missed' = buffer /\ UNCHANGED <<channel, current, last, pending, wire>>
    BY <1>8 DEF Missed, SetConn, StreamInv, StreamTypeOK, busVars
  <2>2. \/ e \in wire
        \/ e.seq > last /\ e \in InSeq(buffer) \cup InSeq(pending)
        \/ e.seq > last /\ e \in InSeq(channel[Site[current]])
    BY <2>1, OnItsWayCases
  <2>3. OnItsWay(e)'
    BY <2>1, <2>2 DEF OnItsWay, Serving
  <2> QED
    BY <2>3 DEF KeptOrLost
<1>9. ASSUME NEW c \in Conns, Replay(c) \/ ReplayFails(c) PROVE KeptOrLost(e)
  BY <1>9, KeptReplay, KeptReplayFails
<1>10. ASSUME NEW c \in Conns, Close(c) PROVE KeptOrLost(e)
  BY <1>1, <1>10, KeptSame DEF Close, busVars, SetConn, StreamInv, StreamTypeOK
<1>11. ASSUME NEW p \in Pods, Dispatch(p) PROVE KeptOrLost(e)
  BY <1>11, KeptDispatch
<1>12. ASSUME NEW p \in Pods, MessageLost(p) PROVE KeptOrLost(e)
  <2>1. /\ channel[p] # <<>> /\ channel' = [channel EXCEPT ![p] = Tail(@)]
        /\ UNCHANGED <<Listening, lastId, conn, buffer>>
    BY <1>12 DEF MessageLost, streamVars, Listening
  <2>2. CASE e = Head(channel[p])
    BY <1>12, <2>2 DEF KeptOrLost
  <2>3. CASE e # Head(channel[p])
    <3>1. channel[p] \in Seq(Events)
      BY DEF StreamInv, StreamTypeOK
    <3>2. InSeq(channel[p]) = {Head(channel[p])} \cup InSeq(Tail(channel[p]))
      BY <2>1, <3>1, InTail
    <3>3. channel'[p] = Tail(channel[p]) /\ \A q \in Pods : q # p => channel'[q] = channel[q]
      BY <2>1 DEF StreamInv, StreamTypeOK
    <3>4. \A q \in Pods : e \in InSeq(channel[q]) => e \in InSeq(channel'[q])
      BY <2>3, <3>2, <3>3
    <3>5. UNCHANGED <<current, last, pending, missed, wire, conn, lastId, buffer>>
      BY <2>1 DEF Listening
    <3>6. OnItsWay(e)'
      <4>1. CASE current # NoConn /\ e \in InSeq(channel[Site[current]])
        <5>1. e \in InSeq(channel'[Site[current]])
          BY <1>1, <3>4, <4>1
        <5> QED
          BY <3>5, <4>1, <5>1 DEF OnItsWay, Serving
      <4>2. CASE ~ (current # NoConn /\ e \in InSeq(channel[Site[current]]))
        <5>1. InSeq(buffer') = InSeq(buffer) /\ InSeq(pending') = InSeq(pending) /\ InSeq(missed') = InSeq(missed)
          BY <3>5
        <5> QED
          BY <3>5, <4>2, <5>1 DEF OnItsWay, Serving
      <4> QED
        BY <4>1, <4>2
    <3> QED
      BY <3>6 DEF KeptOrLost
  <2> QED
    BY <2>2, <2>3
<1>13. ASSUME NEW d \in wire, Receive(d) PROVE KeptOrLost(e)
  <2>1. /\ wire' = wire \ {d} /\ current # NoConn
        /\ UNCHANGED <<buffer, channel, conn, current, last, pending, missed>>
    BY <1>13 DEF Receive, busVars, StreamInv, Written
  <2>2. CASE e = d
    BY <1>13, <2>2 DEF KeptOrLost
  <2>3. CASE e # d
    <3>1. /\ InSeq(buffer') = InSeq(buffer) /\ InSeq(pending') = InSeq(pending)
          /\ InSeq(missed') = InSeq(missed) /\ channel' = channel
      BY <2>1
    <3>2. OnItsWay(e)'
      BY <2>1, <2>3, <3>1 DEF OnItsWay, Serving
    <3> QED
      BY <3>2 DEF KeptOrLost
  <2> QED
    BY <2>2, <2>3
<1>14. CASE Break
  BY <1>14, KeptAway DEF Break, busVars
<1> QED
  BY <1>2, <1>3, <1>4, <1>5, <1>6, <1>7, <1>8, <1>9, <1>10, <1>11, <1>12, <1>13, <1>14
     DEF StreamStep

LEMMA KeptCrash ==
  ASSUME StreamInv, NEW e \in Events, e.ordered, OnItsWay(e), NEW p \in Processes, StreamsCrash(p)
  PROVE  KeptOrLost(e)
<1>1. CASE current # NoConn /\ Site[current] = p
  BY <1>1, KeptAway DEF StreamsCrash
<1>2. CASE ~ (current # NoConn /\ Site[current] = p)
  <2>1. UNCHANGED <<Listening, lastId>>
    BY <1>2 DEF StreamsCrash
  <2>2. current # NoConn => /\ conn'[current] = conn[current]
                            /\ channel'[Site[current]] = channel[Site[current]]
    BY <1>2 DEF StreamsCrash, StreamInv, StreamTypeOK
  <2> QED
    BY <2>1, <2>2, KeptSame
<1> QED
  BY <1>1, <1>2
=============================================================================
