------------------------------- MODULE Watch -------------------------------
(***************************************************************************)
(* enrollment.service.ts: the heartbeats of one learner on one video       *)
(* lesson.  A heartbeat reads the video_progress row, raises it and saves  *)
(* the whole row; a lesson counts as watched once 90% was reached and 45%  *)
(* of its length has passed since the row's started_at.  Heartbeats of two *)
(* tabs, of the offline queue and of /complete overlap, and a revision     *)
(* that replaces the video resets the row.                                 *)
(***************************************************************************)
EXTENDS Naturals

CONSTANTS
  Requests,
  Percents,   \* positions reported, in percent of the required length
  Need,       \* 0.45 of the required length, in ticks
  MaxClock,   \* bound on time
  MaxReplaced \* bound on replaced videos

WatchAssumption == Percents \subseteq Nat /\ Need \in Nat /\ MaxClock \in Nat /\ MaxReplaced \in Nat

Goal == 90
Never == MaxClock + 1   \* started_at is null

VARIABLES
  row,        \* video_progress: whether it exists, percent_watched, started_at
  request,    \* heartbeats and /complete calls in flight
  clock,
  replaced,   \* videos replaced so far
  recorded,   \* lesson_progress has the lesson
  overlapped, \* a request was in flight at the last reset (history)
  first,      \* when the first heartbeat since the last reset was applied (history)
  reached     \* a heartbeat since the last reset reached 90% (history)

vars == <<row, request, clock, replaced, recorded, overlapped, first, reached>>

RowType == [exists : BOOLEAN, percent : Percents \cup {0}, started : 0 .. Never]
NoRow == [exists |-> FALSE, percent |-> 0, started |-> Never]
RequestType == [at : {"idle", "read", "save", "again", "check", "record"}, percent : Percents \cup {0}, entity : RowType]
Idle == [at |-> "idle", percent |-> 0, entity |-> NoRow]

TypeOK ==
  /\ row \in RowType
  /\ request \in [Requests -> RequestType]
  /\ clock \in 0 .. MaxClock
  /\ replaced \in 0 .. MaxReplaced
  /\ recorded \in BOOLEAN /\ overlapped \in BOOLEAN /\ reached \in BOOLEAN
  /\ first \in 0 .. Never

Init ==
  /\ row = NoRow
  /\ request = [r \in Requests |-> Idle]
  /\ clock = 0 /\ replaced = 0
  /\ recorded = FALSE /\ overlapped = FALSE
  /\ first = Never /\ reached = FALSE

\* saveVideoProgress, or completeLesson with a position.
Beat(r, p) ==
  /\ request[r].at = "idle"
  /\ request' = [request EXCEPT ![r] = [at |-> "read", percent |-> p, entity |-> NoRow]]
  /\ UNCHANGED <<row, clock, replaced, recorded, overlapped, first, reached>>

\* completeLesson without one: the row as it stands is checked.
Complete(r) ==
  /\ request[r].at = "idle"
  /\ request' = [request EXCEPT ![r] = [at |-> "check", percent |-> 0, entity |-> row]]
  /\ UNCHANGED <<row, clock, replaced, recorded, overlapped, first, reached>>

\* applyHeartbeat's apply(): the entity read, raised.
Higher(p, q) == IF p > q THEN p ELSE q
Start(e) == IF e.started = Never THEN clock ELSE e.started
Raised(e, p) == [exists |-> e.exists, percent |-> Higher(e.percent, p), started |-> Start(e)]

Read(r) ==
  /\ request[r].at \in {"read", "again"}
  /\ request' = [request EXCEPT ![r].at = "save", ![r].entity = Raised(row, request[r].percent)]
  /\ first' = IF first = Never THEN clock ELSE first
  /\ reached' = (reached \/ request[r].percent >= Goal)
  /\ UNCHANGED <<row, clock, replaced, recorded, overlapped>>

\* save(): the insert, refused by the unique constraint when the row exists by
\* now; or an UPDATE of every column that differs.
Save(r) ==
  /\ request[r].at = "save"
  /\ LET e == request[r].entity IN
     \/ /\ ~e.exists /\ row.exists
        /\ request' = [request EXCEPT ![r].at = "again"]
        /\ UNCHANGED row
     \/ /\ e.exists \/ ~row.exists
        /\ row' = [e EXCEPT !.exists = TRUE]
        /\ request' = [request EXCEPT ![r].at = "check", ![r].entity = row']
  /\ UNCHANGED <<clock, replaced, recorded, overlapped, first, reached>>

\* completeIfWatched on the entity the request holds.
Watched(e) == e.percent >= Goal /\ e.started # Never /\ clock >= e.started + Need
Check(r) ==
  /\ request[r].at = "check"
  /\ request' = [request EXCEPT ![r] = IF Watched(request[r].entity) THEN [@ EXCEPT !.at = "record"] ELSE Idle]
  /\ UNCHANGED <<row, clock, replaced, recorded, overlapped, first, reached>>

\* recordCompletion's insert; the rest of it is Enrollment's.
Record(r) ==
  /\ request[r].at = "record"
  /\ recorded' = TRUE
  /\ request' = [request EXCEPT ![r] = Idle]
  /\ UNCHANGED <<row, clock, replaced, overlapped, first, reached>>

\* onRevisionApplied for a replaced video: one UPDATE.
MReset(e) == [e EXCEPT !.percent = 0]
Reset(e) == [e EXCEPT !.percent = 0, !.started = Never]
Replace ==
  /\ replaced < MaxReplaced
  /\ replaced' = replaced + 1
  /\ row' = IF row.exists THEN Reset(row) ELSE row
  /\ overlapped' = \E r \in Requests : request[r].at # "idle"
  /\ first' = Never /\ reached' = FALSE
  /\ UNCHANGED <<request, clock, recorded>>

Tick ==
  /\ clock < MaxClock
  /\ clock' = clock + 1
  /\ UNCHANGED <<row, request, replaced, recorded, overlapped, first, reached>>

Next ==
  \/ \E r \in Requests :
       \/ \E p \in Percents : Beat(r, p)
       \/ Complete(r) \/ Read(r) \/ Save(r) \/ Check(r) \/ Record(r)
  \/ Replace \/ Tick

Spec == Init /\ [][Next]_vars

-----------------------------------------------------------------------------
(* Properties                                                              *)

\* A lesson is recorded as watched only if, since its video was last replaced,
\* somebody reached 90% of it and 45% of its length has gone by after the first
\* heartbeat, however heartbeats overlap; unless one was in flight at the
\* replacement (completeIfWatched, onRevisionApplied).
RecordsWatched ==
  recorded' # recorded => overlapped \/ (reached /\ first # Never /\ clock >= first + Need)
WatchedInTime == [][RecordsWatched]_vars
=============================================================================
