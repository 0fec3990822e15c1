---------------------------- MODULE OfflineQueue ----------------------------
(***************************************************************************)
(* web/src/lib/offline-queue.ts: progress writes (video positions, "mark   *)
(* complete") that could not be sent wait in localStorage and are replayed *)
(* when the connection returns.  localStorage is shared by the tabs; each  *)
(* tab replays a list it has read, with one request at a time.             *)
(***************************************************************************)
EXTENDS Naturals, Sequences, SequencesExt

CONSTANTS
  Tabs,
  Writes,    \* writes in the order they are made, 1 .. n
  PathOf,    \* the path of a write; a later write to a path replaces an earlier one
  MaxItems,  \* MAX_ITEMS
  MaxFailures \* bound: requests of a replay that meet no network

QueueAssumption == MaxItems \in Nat \ {0} /\ Writes \subseteq Nat /\ MaxFailures \in Nat

VARIABLES
  queue,     \* localStorage
  made,      \* writes made so far
  flushing,  \* per tab: not flushing, or the items it holds
  flight,    \* per tab: the replay's request is on its way
  server,    \* writes the server has taken
  dropped,   \* writes refused for good, replaced by a later one or pushed out
  failures,
  overlapped \* a write was queued while a replay held its list (history)

vars == <<queue, made, flushing, flight, server, dropped, failures, overlapped>>

\* The filter of enqueue leaves one write of a path, in every list.
OnePerPath(items) == \A i, j \in DOMAIN items : PathOf[items[i]] = PathOf[items[j]] => i = j

NotFlushing == [on |-> FALSE, items |-> <<>>]

TypeOK ==
  /\ queue \in Seq(Writes) /\ Len(queue) <= MaxItems /\ OnePerPath(queue)
  /\ made \subseteq Writes
  /\ flushing \in [Tabs -> [on : BOOLEAN, items : Seq(Writes)]]
  /\ flight \in [Tabs -> BOOLEAN]
  /\ server \subseteq made
  /\ dropped \subseteq made
  /\ failures \in 0 .. MaxFailures
  /\ overlapped \in BOOLEAN

Init ==
  /\ queue = <<>>
  /\ made = {}
  /\ flushing = [t \in Tabs |-> NotFlushing]
  /\ flight = [t \in Tabs |-> FALSE]
  /\ server = {}
  /\ dropped = {}
  /\ failures = 0 /\ overlapped = FALSE

MNewest(items) == items
Newest(items) == IF Len(items) <= MaxItems THEN items ELSE SubSeq(items, Len(items) - MaxItems + 1, Len(items))
\* The filter takes away one write at most (OnePerPath).
Queued(items, path) == {i \in DOMAIN items : PathOf[items[i]] = path}
Without(items, path) ==
  IF Queued(items, path) = {} THEN items ELSE RemoveAt(items, CHOOSE i \in Queued(items, path) : TRUE)
Forgets(before, after) == ToSet(before) \ ToSet(after)

NextWrite(w) == w \notin made /\ \A v \in Writes : v < w => v \in made

\* queuedApi while there is a network: straight to the server.
Sent(w) ==
  /\ NextWrite(w)
  /\ made' = made \cup {w}
  /\ server' = server \cup {w}
  /\ UNCHANGED <<queue, flushing, flight, dropped, failures, overlapped>>

\* queuedApi without: the write replaces those queued for its path.
Enqueue(w) ==
  /\ NextWrite(w)
  /\ made' = made \cup {w}
  /\ queue' = Newest(Append(Without(queue, PathOf[w]), w))
  /\ dropped' = dropped \cup Forgets(queue, queue')
  /\ overlapped' = (overlapped \/ \E t \in Tabs : flushing[t].on)
  /\ UNCHANGED <<flushing, flight, server, failures>>

\* flushOutbox: one replay per tab, over the items read when it starts.
Flush(t) ==
  /\ ~flushing[t].on /\ queue # <<>>
  /\ flushing' = [flushing EXCEPT ![t] = [on |-> TRUE, items |-> queue]]
  /\ UNCHANGED <<queue, made, flight, server, dropped, failures, overlapped>>

Request(t) ==
  /\ flushing[t].on /\ ~flight[t] /\ flushing[t].items # <<>>
  /\ flight' = [flight EXCEPT ![t] = TRUE]
  /\ UNCHANGED <<queue, made, flushing, server, dropped, failures, overlapped>>

\* What the tab stores when its first item is done with: the rest of its own
\* list, whatever the storage holds by now.
Rest(t) == Tail(flushing[t].items)
Done(t) ==
  /\ flight[t]
  /\ flight' = [flight EXCEPT ![t] = FALSE]
  /\ flushing' = [flushing EXCEPT ![t].items = Rest(t)]
  /\ queue' = Newest(Rest(t))
  /\ UNCHANGED <<made, failures, overlapped>>

Answered(t) == Done(t) /\ server' = server \cup {Head(flushing[t].items)} /\ UNCHANGED dropped
Refused(t) == Done(t) /\ dropped' = dropped \cup {Head(flushing[t].items)} /\ UNCHANGED server

\* Still offline, or the answer is lost after the server took the write: the
\* replay stops, and the storage keeps what it has.
MStays(t) == Rest(t)
Stays(t) == queue
Offline(t) ==
  /\ flight[t] /\ failures < MaxFailures
  /\ flight' = [flight EXCEPT ![t] = FALSE]
  /\ flushing' = [flushing EXCEPT ![t] = NotFlushing]
  /\ \/ UNCHANGED server
     \/ server' = server \cup {Head(flushing[t].items)}
  /\ queue' = Stays(t)
  /\ failures' = failures + 1
  /\ UNCHANGED <<made, dropped, overlapped>>

Flushed(t) ==
  /\ flushing[t].on /\ flushing[t].items = <<>>
  /\ flushing' = [flushing EXCEPT ![t] = NotFlushing]
  /\ UNCHANGED <<queue, made, flight, server, dropped, failures, overlapped>>

Next ==
  \/ \E w \in Writes : Sent(w) \/ Enqueue(w)
  \/ \E t \in Tabs : Flush(t) \/ Request(t) \/ Answered(t) \/ Refused(t) \/ Offline(t) \/ Flushed(t)

Spec == Init /\ [][Next]_vars

-----------------------------------------------------------------------------
(* Properties                                                              *)

\* A write that could not be sent is not lost: it reaches the server, waits in
\* the storage, or was replaced by a later one, refused, or pushed out of a full
\* outbox, even when two tabs replay it at once (flushOutbox).  Not claimed of
\* writes queued during a replay, which overwrites the storage with its own list.
NothingLost == overlapped \/ made \subseteq server \cup dropped \cup ToSet(queue)
=============================================================================
