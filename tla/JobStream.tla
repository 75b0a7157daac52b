------------------------------ MODULE JobStream ------------------------------
(***************************************************************************)
(* The progress events of one user's jobs, from the process that emits     *)
(* them to the browser: backend/src/lib/eventBus.ts (numbers, replay       *)
(* buffer and pub/sub in Redis) and the /realtime/stream handler of        *)
(* backend/src/routes/realtime.ts.  The module that extends this one emits *)
(* the events.                                                             *)
(*                                                                         *)
(* A stream writes events in the order of their numbers, so its wire is a  *)
(* set and the browser reads the lowest number first.                      *)
(***************************************************************************)
EXTENDS Naturals, Sequences, FiniteSets

CONSTANTS
  Processes,  \* server processes, each with a connection to Redis
  Pods,       \* those that subscribe and serve streams
  Conns,      \* requests for a stream, numbered in the order the browser makes them
  Site,       \* Site[x]: the process where a stream, a job or a cancellation runs
  NoConn,
  BufferSize, \* REPLAY_BUFFER_SIZE
  MaxStreams, \* MAX_STREAMS_PER_USER
  MaxQueue,   \* bound: messages of the subscription that wait in a pod
  MaxFaults   \* bound: how often something fails, expires or crashes

ASSUME StreamAssumption ==
  /\ Pods \subseteq Processes
  /\ \A c \in Conns : Site[c] \in Pods
  /\ Conns \subseteq Nat /\ NoConn \notin Conns
  /\ BufferSize \in Nat \ {0} /\ MaxStreams \in Nat
  /\ IsFiniteSet(Conns)

VARIABLES
  counter, \* the last number Redis gave out
  highest, \* ghost: the highest number appended to the buffer so far
  outbox,  \* outbox[p]: the numbers of the events that p emitted and has yet to append
  buffer,  \* the replay buffer
  channel, \* channel[p]: published and not yet dispatched in pod p
  conn,    \* conn[c]: how far request c is
  counted, \* counted[p]: the user's streams, as pod p counts them
  current, \* the request the browser listens to
  last,    \* its handler's lastSent
  pending, \* what its handler holds back until the replay
  missed,  \* what LRANGE answers it
  wire,    \* what it has written and the browser has yet to receive
  lastId,  \* the id of the last event the browser received; 0: none
  faults

busVars == <<counter, highest, outbox, buffer, channel>>
streamVars == <<conn, counted, current, last, pending, missed, wire, lastId>>

\* An event is its number: no property is about what it says of its job.
\* ordered (ghost): the number is above all those appended before it.
Events == [seq : Nat, ordered : BOOLEAN]

\* A request is "aborted" when its connection closed while the ticket was awaited;
\* a stream whose browser is gone is "left", or "leaked" if nothing will close it.
Progress == {"off", "ticket", "aborted", "replay", "answered", "live", "left", "leaked", "gone"}

StreamTypeOK ==
  /\ counter \in Nat /\ highest \in Nat /\ lastId \in Nat /\ last \in Nat /\ faults \in Nat
  /\ outbox \in [Processes -> Seq(Nat)]
  /\ buffer \in Seq(Events)
  /\ channel \in [Pods -> Seq(Events)]
  /\ conn \in [Conns -> Progress]
  /\ counted \in [Pods -> Nat]
  /\ current \in Conns \cup {NoConn}
  /\ pending \in Seq(Events) /\ missed \in Seq(Events) /\ wire \subseteq Events

StreamInit ==
  /\ counter = 0 /\ highest = 0 /\ lastId = 0 /\ last = 0 /\ faults = 0
  /\ outbox = [p \in Processes |-> <<>>]
  /\ buffer = <<>> /\ pending = <<>> /\ missed = <<>> /\ wire = {}
  /\ channel = [p \in Pods |-> <<>>]
  /\ conn = [c \in Conns |-> "off"]
  /\ counted = [p \in Pods |-> 0]
  /\ current = NoConn

Fault == faults < MaxFaults /\ faults' = faults + 1
Healthy == UNCHANGED faults

InSeq(q) == {q[i] : i \in 1 .. Len(q)}
LastOf(q, n) == IF Len(q) <= n THEN q ELSE SubSeq(q, Len(q) - n + 1, Len(q))
Serving(c) == conn[c] \in {"replay", "answered", "live", "left", "leaked"}
SetConn(c, pc) == conn' = [conn EXCEPT ![c] = pc]
\* The browser listens to c, which starts after event id.
Listen(c, id) ==
  current' = c /\ last' = id /\ pending' = <<>> /\ missed' = <<>> /\ wire' = {}
Listening == <<current, last, pending, missed, wire>>

\* Mutant: the last event received is written again.
NewsFrom(q, from) ==
  {q[i] : i \in {j \in 1 .. Len(q) : /\ q[j].seq >= from
                                     /\ \A h \in 1 .. j - 1 : q[h].seq < q[j].seq}}

\* What deliver writes of the events of q, one after the other.
News(q, from) ==
  {q[i] : i \in {j \in 1 .. Len(q) : /\ q[j].seq > from
                                     /\ \A h \in 1 .. j - 1 : q[h].seq < q[j].seq}}

-----------------------------------------------------------------------------
\* emitJobProgress returns at once.  INCR is part of the call: no one can tell how
\* long Redis takes to run it.
Emit(p) ==
  /\ counter' = counter + 1
  /\ outbox' = [outbox EXCEPT ![p] = Append(@, counter')]

\* MULTI: the event is appended, the buffer trimmed, and the event published.
Publish(p) ==
  /\ \A q \in Pods : Len(channel[q]) < MaxQueue
  /\ outbox[p] # <<>>
  /\ LET e == [seq |-> Head(outbox[p]), ordered |-> Head(outbox[p]) > highest]
     IN  /\ highest' = IF e.ordered THEN e.seq ELSE highest
         /\ buffer' = LastOf(Append(buffer, e), BufferSize)
         /\ channel' = [q \in Pods |-> Append(channel[q], e)]
  /\ outbox' = [outbox EXCEPT ![p] = Tail(@)]
  /\ UNCHANGED <<counter, streamVars>> /\ Healthy

\* INCR or MULTI throws: the error is logged.
PublishFails(p) ==
  /\ Fault
  /\ outbox[p] # <<>>
  /\ outbox' = [outbox EXCEPT ![p] = Tail(@)]
  /\ UNCHANGED <<counter, highest, buffer, channel, streamVars>>

\* Nothing has been emitted for long: all that was has been heard, and no replay is
\* under way.
Idling ==
  /\ \A p \in Processes : outbox[p] = <<>>
  /\ \A p \in Pods : channel[p] = <<>>
  /\ pending = <<>> /\ missed = <<>>

\* The buffer expires five minutes after the last event, the counter after an hour.
Expire ==
  /\ Fault
  /\ counter # 0 /\ Idling
  /\ buffer' = <<>> /\ counter' \in {counter, 0}
  /\ UNCHANGED <<highest, outbox, channel, streamVars>>

-----------------------------------------------------------------------------
\* The browser asks for a stream, with the id of the last event it received if
\* there was one; the handler awaits the ticket.
Connect(c) ==
  /\ current = NoConn /\ conn[c] = "off" /\ \A b \in Conns : b < c => conn[b] # "off"
  /\ SetConn(c, "ticket") /\ Listen(c, lastId)
  /\ UNCHANGED <<busVars, counted, lastId>> /\ Healthy

\* 401, or 429 for too many streams.
Refuse(c) ==
  /\ conn[c] \in {"ticket", "aborted"}
  /\ SetConn(c, "gone")
  /\ IF c = current THEN Listen(NoConn, 0) ELSE UNCHANGED Listening
  /\ UNCHANGED <<busVars, counted, lastId>> /\ Healthy

\* The handler takes a slot and listens to the bus; with a last event id it holds
\* back what it hears until the replay.
Serve(c) ==
  /\ conn[c] \in {"ticket", "aborted"}
  /\ counted' = [counted EXCEPT ![Site[c]] = @ + 1]
  /\ SetConn(c, IF conn[c] = "aborted" THEN "leaked" ELSE IF c # current THEN "left"
                ELSE IF last > 0 THEN "replay" ELSE "live")
  /\ UNCHANGED <<busVars, Listening, lastId>> /\ Healthy

\* Mutant: one stream too many is served.
AdmitOneMore(c) == counted[Site[c]] <= MaxStreams /\ Serve(c)

\* The ticket is good, and the user has a stream left.
Admit(c) == counted[Site[c]] < MaxStreams /\ Serve(c)

\* Redis runs LRANGE; the answer is on its way to the handler.
Missed(c) ==
  /\ c = current /\ conn[c] = "replay"
  /\ SetConn(c, "answered") /\ missed' = buffer
  /\ UNCHANGED <<busVars, counted, current, last, pending, wire, lastId>> /\ Healthy

\* The events of q are written to stream c, which is then live.
Play(c, q) ==
  /\ SetConn(c, "live")
  /\ last' \in {last} \cup {e.seq : e \in News(q, last)}
  /\ \A e \in News(q, last) : e.seq <= last'
  /\ wire' = wire \cup News(q, last) /\ pending' = <<>> /\ missed' = <<>>
  /\ UNCHANGED <<busVars, counted, current, lastId>>

\* Mutant: what was held back is written first.
ReplayAfter(c) ==
  c = current /\ conn[c] = "answered" /\ Play(c, pending \o missed) /\ Healthy

\* The answer arrives: what was missed is written, then what was held back.
Replay(c) ==
  c = current /\ conn[c] = "answered" /\ Play(c, missed \o pending) /\ Healthy

\* LRANGE throws.
ReplayFails(c) == c = current /\ conn[c] = "replay" /\ Play(c, pending) /\ Fault

\* A message of the subscription reaches pod p.  A stream the browser has left
\* writes to nobody.
Dispatch(p) ==
  /\ channel[p] # <<>>
  /\ channel' = [channel EXCEPT ![p] = Tail(@)]
  /\ LET e == Head(channel[p])
         hears(pcs) == current # NoConn /\ Site[current] = p /\ conn[current] \in pcs
         fresh == hears({"live"}) /\ e.seq > last
     IN  /\ pending' = IF hears({"replay", "answered"}) THEN Append(pending, e) ELSE pending
         /\ last' = IF fresh THEN e.seq ELSE last
         /\ wire' = IF fresh THEN wire \cup {e} ELSE wire
  /\ UNCHANGED <<counter, highest, outbox, buffer, conn, counted, current, missed, lastId>> /\ Healthy

\* Pub/sub delivers at most once.
MessageLost(p) ==
  /\ Fault
  /\ channel[p] # <<>>
  /\ channel' = [channel EXCEPT ![p] = Tail(@)]
  /\ UNCHANGED <<counter, highest, outbox, buffer, streamVars>>

\* The browser receives the next event of its stream.
Receive(e) ==
  /\ e \in wire
  /\ \A d \in wire : e.seq <= d.seq
  /\ wire' = wire \ {e}
  /\ lastId' = e.seq
  /\ UNCHANGED <<busVars, conn, counted, current, last, pending, missed>> /\ Healthy

\* The connection breaks: what is on the wire is gone.
Break ==
  /\ current # NoConn
  /\ Listen(NoConn, 0)
  /\ conn' = IF Serving(current) THEN [conn EXCEPT ![current] = "left"] ELSE conn
  /\ UNCHANGED <<busVars, counted, lastId>> /\ Healthy

\* Mutant: a request that ended before it was admitted gives back a slot, too.
CloseUncounted(c) ==
  /\ c # current /\ conn[c] \in {"ticket", "left"}
  /\ SetConn(c, IF conn[c] = "left" THEN "gone" ELSE "aborted")
  /\ counted' = [counted EXCEPT ![Site[c]] = @ - 1]
  /\ UNCHANGED <<busVars, Listening, lastId>> /\ Healthy

\* The server notices.  The handler of 'close' is registered after the ticket: an
\* event before that finds no one to give the slot back.
Close(c) ==
  /\ c # current /\ conn[c] \in {"ticket", "left"}
  /\ SetConn(c, IF conn[c] = "left" THEN "gone" ELSE "aborted")
  /\ counted' = IF conn[c] = "left" THEN [counted EXCEPT ![Site[c]] = @ - 1] ELSE counted
  /\ UNCHANGED <<busVars, Listening, lastId>> /\ Healthy

StreamStep ==
  \/ \E p \in Processes : Publish(p) \/ PublishFails(p)
  \/ Expire
  \/ \E c \in Conns : Connect(c) \/ Refuse(c) \/ Admit(c) \/ Close(c)
                      \/ Missed(c) \/ Replay(c) \/ ReplayFails(c)
  \/ \E p \in Pods : Dispatch(p) \/ MessageLost(p)
  \/ \E e \in wire : Receive(e)
  \/ Break

\* The streams of process p end with it, and so does what it had yet to publish.
StreamsCrash(p) ==
  /\ Fault
  /\ outbox' = [outbox EXCEPT ![p] = <<>>]
  /\ channel' = [q \in Pods |-> IF q = p THEN <<>> ELSE channel[q]]
  /\ counted' = [q \in Pods |-> IF q = p THEN 0 ELSE counted[q]]
  /\ conn' = [c \in Conns |-> IF Site[c] = p /\ conn[c] # "off" THEN "gone" ELSE conn[c]]
  /\ IF current # NoConn /\ Site[current] = p THEN Listen(NoConn, 0) ELSE UNCHANGED Listening
  /\ UNCHANGED <<counter, highest, buffer, lastId>>

-----------------------------------------------------------------------------
\* The events in Redis, and those a handler has yet to write.
Known ==
  InSeq(buffer) \cup (UNION {InSeq(channel[p]) : p \in Pods}) \cup InSeq(pending) \cup InSeq(missed)

\* e is on its way to the browser: on the wire of its stream, or held back,
\* published or buffered where the stream will find it.
OnItsWay(e) ==
  IF current = NoConn
  THEN lastId > 0 /\ e.seq > lastId /\ e \in InSeq(buffer)
  ELSE \/ e \in wire
       \/ /\ e.seq > last
          /\ \/ conn[current] = "ticket" /\ last > 0 /\ e \in InSeq(buffer)
             \/ conn[current] = "replay" /\ e \in InSeq(buffer) \cup InSeq(pending)
             \/ conn[current] = "answered" /\ e \in InSeq(missed) \cup InSeq(pending)
             \/ Serving(current) /\ e \in InSeq(channel[Site[current]])

\* e stays on its way or arrives, unless Redis dropped it while only the buffer had
\* it, the connection ended and there is nothing to replay it from or nothing to
\* replay it after, it was trimmed before LRANGE, the subscription lost it, or
\* LRANGE failed.
KeptOrLost(e) ==
  \/ OnItsWay(e)' \/ Receive(e)
  \/ e \in InSeq(buffer) /\ e \notin InSeq(buffer')
  \/ current' = NoConn /\ (e \notin InSeq(buffer') \/ lastId = 0)
  \/ \E c \in Conns : Replay(c) /\ e \notin InSeq(missed) /\ \E d \in InSeq(missed) : d.seq > e.seq
  \/ \E p \in Pods : MessageLost(p) /\ e = Head(channel[p])
  \/ \E c \in Conns : ReplayFails(c) /\ e \notin InSeq(pending)

\* A browser never receives an event it has already passed (routes/realtime.ts:118-122),
\* over any number of connections.
NoRepeat == \A e \in wire : e.seq > lastId

\* The streams of the user that pod p serves.
Served(p) == {c \in Conns : Site[c] = p /\ Serving(c)}

\* The cap of routes/realtime.ts:77-86: no pod serves more than MaxStreams streams
\* of a user, and it counts those it serves.
CapKept ==
  \A p \in Pods : Cardinality(Served(p)) <= MaxStreams /\ counted[p] = Cardinality(Served(p))
=============================================================================
