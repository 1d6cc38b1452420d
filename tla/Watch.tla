------------------------------- MODULE Watch -------------------------------
(***************************************************************************)
(* A watch, from the apply loop of a server to the reader of the events:   *)
(* HandleApplych, notifierLoop, WatcherManager and the Watch handler of    *)
(* kvraft/server.go, manageWatchStream of client/client.go, and the watch  *)
(* handler of gateway/handlers.go, which is the reader.                    *)
(*                                                                         *)
(* Every hop is a channel with a bound. Towards the notifier and towards a *)
(* watcher an event is dropped when the channel is full; the stream and    *)
(* the channel of the client make the sender wait. The initial state is    *)
(* sent while the handler holds kv.mu, the lock of the apply loop.         *)
(***************************************************************************)
EXTENDS Store

CONSTANTS None,
          Stored,        \* the sets of keys the database may begin with
          Operations,    \* the operations that may be applied
          Requests,      \* the watches a client may ask for
          NotifierCap,   \* eventNotifier: 1024 in the code
          WatcherCap,    \* clientEventChan: 10 in the code
          StreamCap,     \* what gRPC takes before Send waits
          MaxOps,        \* bound: operations that are applied
          MaxStreams,    \* bound: streams the client opens
          MaxFaults      \* bound: kinds of faults in one behaviour, each once

ASSUME WatchBounds ==
  /\ {MaxOps, MaxStreams, MaxFaults} \subseteq Nat
  /\ {NotifierCap, WatcherCap, StreamCap} \subseteq Nat \ {0}

Streams == 1..MaxStreams

ASSUME NoneAssumption == None \notin Streams

VARIABLES
  db, ops,        \* the database, and how many operations it has seen
  emitting,       \* events HandleApplych has still to hand over
  notifier,       \* eventNotifier
  locked,         \* the stream whose handler holds kv.mu, or None
  req,            \* the request of the watch
  handler,        \* of each stream: where its handler is
  toSend,         \* of each stream: what is left of the initial state
  watchers,       \* the streams that are registered
  chan,           \* of each stream: clientEventChan
  closed,         \* the streams whose clientEventChan is closed
  net,            \* of each stream: what is on its way to the client
  broken,         \* the streams whose connection is lost
  cur,            \* the latest stream, 0 before the first
  client,         \* where manageWatchStream is
  inHand,         \* the event it delivers, or None
  cancelled,      \* the reader has gone: cancelWatch
  view,           \* what the reader has been told
  missed,         \* "lost" if an event was dropped or never made, "gap" if a stream was lost
  panicked,       \* an event was sent on a closed channel
  faults

serverVars == <<db, ops, emitting, notifier>>
streamVars == <<locked, handler, toSend, watchers, chan, closed, net, broken>>
clientVars == <<cur, client, inHand>>
readerVars == <<cancelled, view>>
vars == <<serverVars, streamVars, clientVars, readerVars, req, missed, panicked, faults>>

Fault(f) ==
  /\ f \notin faults /\ Cardinality(faults) < MaxFaults
  /\ faults' = faults \cup {f}

PutEvent(k, v) == [type |-> "PUT", key |-> k, value |-> v]
DeleteEvent(k) == [type |-> "DELETE", key |-> k, value |-> 0]
FailedPrecondition == [type |-> "ERROR", key |-> <<>>, value |-> 0]

\* Mutant of Room: one too many
RoomForMore(q, cap) == Len(q) <= cap

Room(q, cap) == Len(q) < cap

\* What a reader knows after an event, as the gateway writes it out
Told(v, e) == IF e.type = "PUT" THEN PutEntry(v, e.key, e.value) ELSE Del(v, e.key)

Matches(k) == IF req.isPrefix THEN IsPrefix(req.key, k) ELSE req.key = k

-----------------------------------------------------------------------------
(* The apply loop and the notifier. *)

\* The operations of a pipeline, and its Exec
PipePut(k) == [type |-> "Put", key |-> k]
PipeDelete(k) == [type |-> "Del", key |-> k]
PipeDeleteWithPrefix(k) == [type |-> "DelWithPrefix", key |-> k]
Exec(steps) == [type |-> "Batch", steps |-> steps]

\* One operation of a batch, after others have left the database and events r. An
\* Append is a Put here: its value is as new
BatchStep(r, op) ==
  CASE op.type = "Put" -> [db |-> PutEntry(r.db, op.key, ops + 1),
                           out |-> Append(r.out, PutEvent(op.key, ops + 1))]
    [] op.type = "Del" -> [db |-> Del(r.db, op.key), out |-> Append(r.out, DeleteEvent(op.key))]
    [] op.type = "DelWithPrefix" -> [db |-> DelWithPrefix(r.db, op.key),
                                     out |-> Append(r.out, DeleteEvent(op.key))]

\* HandleApplychCommand: the database and the events after an operation. Alone, a
\* delete of a key that is not there is not told. A CAS that succeeds is a batch
\* of one, one that fails changes and tells nothing
Applied(d, op) ==
  LET steps == IF op.type = "Batch" THEN op.steps ELSE <<op>> IN
  IF op.type = "Del" /\ ~ GetEntry(d, op.key) THEN [db |-> d, out |-> <<>>]
  ELSE FoldLeft(BatchStep, [db |-> d, out |-> <<>>], steps)

\* Some key of the watch is there without its events, or not there
Untold(d, r) ==
  \E k \in Key : Matches(k) /\ GetEntry(FoldLeft(Told, d, r.out), k) # GetEntry(r.db, k)

\* A watcher, or one that comes before the events on their way, misses something
Missed(happens) ==
  missed' = IF happens /\ (watchers # {} \/ notifier # <<>>) THEN missed \cup {"lost"} ELSE missed

\* HandleApplych, up to kv.mu.Unlock
HandleApplych(op) ==
  LET r == Applied(db, op) IN
  /\ locked = None /\ emitting = <<>> /\ ops < MaxOps
  /\ db' = r.db /\ ops' = ops + 1
  /\ emitting' = r.out
  /\ Missed(Untold(db, r))
  /\ UNCHANGED <<notifier, streamVars, clientVars, readerVars, req, panicked, faults>>

\* HandleApplychSnapshot: another database, and no event
HandleApplychSnapshot(k) ==
  /\ locked = None /\ emitting = <<>> /\ ops < MaxOps /\ Fault("snapshot")
  /\ db' = IF k \in DOMAIN db THEN Del(db, k) ELSE PutEntry(db, k, ops + 1)
  /\ ops' = ops + 1
  /\ Missed(Matches(k))
  /\ UNCHANGED <<emitting, notifier, streamVars, clientVars, readerVars, req, panicked>>

\* The next event goes to eventNotifier, if it has room
Emit ==
  LET full == ~ Room(notifier, NotifierCap) IN
  /\ emitting # <<>>
  /\ emitting' = Tail(emitting)
  /\ notifier' = IF full THEN notifier ELSE Append(notifier, Head(emitting))
  /\ Missed(full /\ Matches(Head(emitting).key))
  /\ UNCHANGED <<db, ops, streamVars, clientVars, readerVars, req, panicked, faults>>

\* notifierLoop, Notify
Notify ==
  LET e == Head(notifier)
      told == IF Matches(e.key) THEN watchers ELSE {}
      room(i) == Room(chan[i], WatcherCap)
  IN
  /\ notifier # <<>>
  /\ notifier' = Tail(notifier)
  /\ chan' = [i \in Streams |-> IF i \in told /\ room(i) THEN Append(chan[i], e) ELSE chan[i]]
  /\ panicked' = (panicked \/ told \cap closed # {})
  /\ Missed(\E i \in told : ~ room(i))
  /\ UNCHANGED <<db, ops, emitting, locked, handler, toSend, watchers, closed, net,
                 broken, clientVars, readerVars, req, faults>>

-----------------------------------------------------------------------------
(* The handler of Watch for stream i. *)

Handler(i, from, to) == handler[i] = from /\ handler' = [handler EXCEPT ![i] = to]

\* A server that does not lead, or is not back, refuses; else it registers the
\* watcher. It may lead at one call and not at the next
WatchBegins(i) ==
  /\ \/ /\ Handler(i, "called", "ended")
        /\ net' = [net EXCEPT ![i] = <<FailedPrecondition>>]
        /\ UNCHANGED watchers
     \/ /\ Handler(i, "called", "registered")
        /\ watchers' = watchers \cup {i}
        /\ UNCHANGED net
  /\ UNCHANGED <<serverVars, locked, toSend, chan, closed, broken, clientVars, readerVars,
                 req, missed, panicked, faults>>

InitialState ==
  LET ks == SelectSeq(GetPairsWithPrefix(db, req.key), Matches) IN
  [j \in 1..Len(ks) |-> PutEvent(ks[j], db[ks[j]])]

\* Mutant of ReadInitial: the watcher is registered after the database is read
ReadInitialFirst(i) ==
  /\ \/ /\ Handler(i, "called", "read")
        /\ toSend' = [toSend EXCEPT ![i] = InitialState]
        /\ UNCHANGED <<locked, watchers>>
     \/ /\ Handler(i, "read", "initial") /\ locked = None /\ locked' = i
        /\ watchers' = watchers \cup {i} /\ UNCHANGED toSend
  /\ UNCHANGED <<serverVars, chan, closed, net, broken, clientVars, readerVars, req, missed,
                 panicked, faults>>

\* The initial state is read under kv.mu
ReadInitial(i) ==
  /\ req.initial /\ Handler(i, "registered", "initial")
  /\ locked = None /\ locked' = i
  /\ toSend' = [toSend EXCEPT ![i] = InitialState]
  /\ UNCHANGED <<serverVars, watchers, chan, closed, net, broken, clientVars, readerVars,
                 req, missed, panicked, faults>>

NoInitial(i) ==
  /\ ~ req.initial /\ Handler(i, "registered", "loop")
  /\ UNCHANGED <<serverVars, locked, toSend, watchers, chan, closed, net, broken, clientVars,
                 readerVars, req, missed, panicked, faults>>

\* A Send of the initial state; it waits for room
SendInitial(i) ==
  /\ handler[i] = "initial" /\ toSend[i] # <<>> /\ Room(net[i], StreamCap)
  /\ net' = [net EXCEPT ![i] = Append(@, Head(toSend[i]))]
  /\ toSend' = [toSend EXCEPT ![i] = Tail(@)]
  /\ UNCHANGED <<serverVars, locked, handler, watchers, chan, closed, broken, clientVars,
                 readerVars, req, missed, panicked, faults>>

InitialSent(i) ==
  /\ Handler(i, "initial", "loop") /\ toSend[i] = <<>>
  /\ locked' = None
  /\ UNCHANGED <<serverVars, toSend, watchers, chan, closed, net, broken, clientVars,
                 readerVars, req, missed, panicked, faults>>

\* An event goes from the channel to the stream
SendEvent(i) ==
  /\ handler[i] = "loop" /\ chan[i] # <<>> /\ Room(net[i], StreamCap)
  /\ net' = [net EXCEPT ![i] = Append(@, Head(chan[i]))]
  /\ chan' = [chan EXCEPT ![i] = Tail(@)]
  /\ UNCHANGED <<serverVars, locked, handler, toSend, watchers, closed, broken, clientVars,
                 readerVars, req, missed, panicked, faults>>


Unlocked(i) == IF locked = i THEN None ELSE locked

\* Mutant of Done: only a lost connection ends the stream
DoneIfBroken(i) == i \in broken

\* The context of the stream is done
Done(i) == i \in broken \/ (cancelled /\ i = cur)

\* Send fails, or the loop sees that the context is done
StreamDone(i) ==
  /\ handler[i] \in {"initial", "loop"} /\ Done(i)
  /\ handler' = [handler EXCEPT ![i] = "leaving"]
  /\ locked' = Unlocked(i)
  /\ toSend' = [toSend EXCEPT ![i] = <<>>]
  /\ UNCHANGED <<serverVars, watchers, chan, closed, net, broken, clientVars, readerVars,
                 req, missed, panicked, faults>>

\* Mutant of Leave: the channel is closed first
LeaveClosed(i) ==
  \/ /\ Handler(i, "leaving", "deregistered")
     /\ closed' = closed \cup {i} /\ UNCHANGED watchers
  \/ /\ Handler(i, "deregistered", "ended")
     /\ watchers' = watchers \ {i} /\ UNCHANGED closed

\* The deferred function: Deregister, and then close
Leave(i) ==
  \/ /\ Handler(i, "leaving", "deregistered")
     /\ watchers' = watchers \ {i} /\ UNCHANGED closed
  \/ /\ Handler(i, "deregistered", "ended")
     /\ closed' = closed \cup {i} /\ UNCHANGED watchers

HandlerLeaves(i) ==
  /\ Leave(i)
  /\ chan' = [chan EXCEPT ![i] = <<>>]
  /\ UNCHANGED <<serverVars, locked, toSend, net, broken, clientVars, readerVars, req,
                 missed, panicked, faults>>

-----------------------------------------------------------------------------
(* manageWatchStream and the reader. *)

\* A new stream; the call does not wait for the handler
Connect ==
  /\ client = "connect" /\ ~ cancelled /\ cur < MaxStreams
  /\ cur' = cur + 1 /\ client' = "receive"
  /\ handler' = [handler EXCEPT ![cur'] = "called"]
  /\ UNCHANGED <<serverVars, locked, toSend, watchers, chan, closed, net, broken, inHand,
                 readerVars, req, missed, panicked, faults>>

\* Recv returns an event
Receive ==
  /\ client = "receive" /\ cur \notin broken
  /\ net[cur] # <<>> /\ Head(net[cur]) # FailedPrecondition
  /\ client' = "deliver" /\ inHand' = Head(net[cur])
  /\ net' = [net EXCEPT ![cur] = Tail(@)]
  /\ UNCHANGED <<serverVars, locked, handler, toSend, watchers, chan, closed, broken, cur,
                 readerVars, req, missed, panicked, faults>>

\* Recv returns an error: of a server that refused, or of a lost connection. A
\* refusal does not move the client; a lost connection may move it to another
\* server, which refuses
ReceiveFails ==
  /\ client = "receive"
  /\ cur \in broken \/ net[cur] = <<FailedPrecondition>>
  /\ client' = "connect"
  /\ net' = [net EXCEPT ![cur] = <<>>]
  /\ missed' = IF cur \in broken THEN missed \cup {"gap"} ELSE missed
  /\ UNCHANGED <<serverVars, locked, handler, toSend, watchers, chan, closed, broken, cur,
                 inHand, readerVars, req, panicked, faults>>

\* The event goes through eventChan to the reader. The channel makes the
\* goroutine wait when it is full; of its 100 places the model has none
Deliver ==
  /\ client = "deliver" /\ ~ cancelled
  /\ client' = "receive" /\ inHand' = None
  /\ view' = Told(view, inHand)
  /\ UNCHANGED <<serverVars, streamVars, cur, cancelled, req, missed, panicked, faults>>

\* The context is done: eventChan is closed
ClientEnds ==
  /\ client # "done" /\ cancelled
  /\ client' = "done" /\ inHand' = None
  /\ UNCHANGED <<serverVars, streamVars, cur, readerVars, req, missed, panicked, faults>>

\* The reader is gone; the handler of the gateway returns and cancels the watch
CancelWatch ==
  /\ ~ cancelled /\ cancelled' = TRUE /\ view' = NoData
  /\ UNCHANGED <<serverVars, streamVars, clientVars, req, missed, panicked, faults>>

-----------------------------------------------------------------------------

\* The connection of the latest stream is lost; of the others it is already
BreakStream ==
  /\ cur # 0 /\ cur \notin broken /\ Fault("break")
  /\ broken' = broken \cup {cur}
  /\ UNCHANGED <<serverVars, locked, handler, toSend, watchers, chan, closed, net,
                 clientVars, readerVars, req, missed, panicked>>

Init ==
  /\ db \in {[k \in ks |-> 0] : ks \in Stored} /\ ops = 0 /\ emitting = <<>> /\ notifier = <<>>
  /\ locked = None /\ req \in Requests
  /\ handler = [i \in Streams |-> "none"] /\ toSend = [i \in Streams |-> <<>>]
  /\ watchers = {} /\ chan = [i \in Streams |-> <<>>] /\ closed = {}
  /\ net = [i \in Streams |-> <<>>] /\ broken = {}
  /\ cur = 0 /\ client = "connect" /\ inHand = None
  /\ cancelled = FALSE /\ view = NoData
  /\ missed = {} /\ panicked = FALSE /\ faults = {}

HandlerStep(i) ==
  WatchBegins(i) \/ ReadInitial(i) \/ NoInitial(i) \/ SendInitial(i) \/ InitialSent(i)
  \/ SendEvent(i) \/ StreamDone(i) \/ HandlerLeaves(i)

ClientStep == Connect \/ Receive \/ ReceiveFails \/ Deliver \/ ClientEnds

Next ==
  \/ \E op \in Operations : HandleApplych(op)
  \/ \E k \in Key : HandleApplychSnapshot(k)
  \/ \E i \in Streams : HandlerStep(i)
  \/ Emit \/ Notify \/ ClientStep \/ CancelWatch \/ BreakStream

\* The goroutines go on, and the reader reads
Fairness ==
  /\ WF_vars(Emit) /\ WF_vars(Notify) /\ WF_vars(ClientStep)
  /\ \A i \in Streams : WF_vars(HandlerStep(i))

Spec == Init /\ [][Next]_vars /\ Fairness

-----------------------------------------------------------------------------

Event == [type : {"PUT", "DELETE"}, key : Key, value : Nat] \cup {FailedPrecondition}
Database(d) == DOMAIN d \subseteq Key /\ \A k \in DOMAIN d : d[k] \in 0..ops

\* Every variable has its type, and no channel holds more than its capacity.
TypeOK ==
  /\ Database(db) /\ Database(view)
  /\ notifier \in Seq(Event) /\ Len(notifier) <= NotifierCap
  /\ locked \in Streams \cup {None} /\ watchers \cup closed \cup broken \subseteq Streams
  /\ \A i \in Streams : /\ chan[i] \in Seq(Event) /\ Len(chan[i]) <= WatcherCap
                        /\ net[i] \in Seq(Event) /\ Len(net[i]) <= StreamCap
  /\ cur \in 0..MaxStreams /\ client \in {"connect", "receive", "deliver", "done"}
  /\ inHand \in Event \cup {None}

\* Nothing is on its way
Quiet ==
  /\ emitting = <<>> /\ notifier = <<>>
  /\ client = "receive" /\ cur \notin broken /\ ~ cancelled
  /\ handler[cur] = "loop" /\ chan[cur] = <<>> /\ net[cur] = <<>>

\* When nothing is on its way a reader that asked for the initial state knows
\* every key of its watch that is there, with its value, even if it had to
\* connect again; and no other key, if it did not. Events of operations the
\* initial state has already seen come after it, and take the view back for a
\* while. Excused is a drop on a full channel, a snapshot, and a prefix delete,
\* which is told as the delete of one key (Watch, Notify, HandleApplych).
ViewFollows ==
  LET there == {k \in DOMAIN db : Matches(k)} IN
  Quiet /\ req.initial /\ missed \subseteq {"gap"} =>
    /\ \A k \in there : k \in DOMAIN view /\ view[k] = db[k]
    /\ missed = {} => DOMAIN view = there

\* Notify never sends on a channel that is closed: Watch deregisters before it
\* closes, under the lock Notify takes.
NeverPanics == ~ panicked

Exact(d) ==
  /\ \A p \in Key \cup {<<>>} :
       LET ks == GetPairsWithPrefix(d, p)
           vs == GetEntryWithPrefix(d, p)
       IN
       /\ {ks[i] : i \in 1..Len(ks)} = HasPrefix(d, p)
       /\ \A i \in 1..(Len(ks) - 1) : Less(ks[i], ks[i + 1])
       /\ {vs[i] : i \in 1..Len(vs)} = {d[k] : k \in HasPrefix(d, p)}
       /\ Len(vs) = Cardinality(HasPrefix(d, p))
  /\ \A size \in 1..(Cardinality(Key) + 1) :
       LET pairs == Pages(d, size) IN
       /\ {pairs[i] : i \in 1..Len(pairs)} = {<<k, d[k]>> : k \in DOMAIN d}
       /\ Len(pairs) = Cardinality(DOMAIN d)
       /\ \A i \in 1..(Len(pairs) - 1) : Less(pairs[i][1], pairs[i + 1][1])

\* Of every database an operation or a snapshot leaves, a scan returns the keys
\* with its prefix and no other, in order, and the pages of each size from 1 on
\* hold every key once, with its value (GetPairsWithPrefix, GetEntryWithPrefix,
\* Keys, KVs).
ScansAreExact == [][db' # db => Exact(db')]_vars

\* A watch that is cancelled leaves nothing behind: manageWatchStream ends, and
\* every handler deregisters and returns.
CancelCleansUp ==
  cancelled ~> /\ client = "done" /\ watchers = {}
               /\ \A i \in Streams : handler[i] \in {"none", "ended"}


=============================================================================
