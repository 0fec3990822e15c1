----------------------------- MODULE Enrollment -----------------------------
(***************************************************************************)
(* One enrollment of one learner in one course (enrollment.service.ts):    *)
(* lessons are completed, milestones and the completion are announced, a   *)
(* revision removes lessons and its handler checks again who has finished, *)
(* a refund revokes access, and several writers save the whole row as they *)
(* read it some calls ago.                                                 *)
(*                                                                         *)
(* A TypeORM save() of a loaded entity writes every column whose value     *)
(* differs from the database: the row becomes the entity.                  *)
(***************************************************************************)
EXTENDS Naturals, FiniteSets

CONSTANTS
  FirstVersion, \* the lessons of the course as first published
  Versions,     \* the sets of lessons that revisions publish
  Requests,     \* learner requests, and nudge jobs, in flight at once
  Milestones,   \* percentages announced once
  None

\* Every lesson the course ever has.
Lessons == FirstVersion \cup UNION Versions

ASSUME NoneAssumption == None \notin Lessons
ASSUME MilestoneAssumption == Milestones \subseteq Nat

VARIABLES
  live,         \* the course's live lessons (course service)
  wasLive,      \* the sets of lessons that have been live (history)
  revision,     \* the last applied revision and its event's handler
  row,          \* the enrollments row
  done,         \* lesson_progress rows
  cache,        \* heartbeatCache: the course's lesson ids
  request,      \* requests in flight, with the entity each loaded
  announced,    \* CourseCompleted events in the outbox, counted up to 2
  refund        \* the RefundApproved that ends access: "due" or "handled"

vars == <<live, wasLive, revision, row, done, cache, request, announced, refund>>

-----------------------------------------------------------------------------
(* Types                                                                   *)

Row == [access : {"active", "refunded"}, completed : BOOLEAN, sent : SUBSET Milestones]
NewRow == [access |-> "active", completed |-> FALSE, sent |-> {}]

\* copy: the entity.  fresh: this request inserted the lesson's progress row.
\* ids: the lesson list it goes by.
RequestType ==
  [at : {"idle", "record", "list", "store", "milestone", "detect", "complete", "save"},
   lesson : Lessons \cup {None}, copy : Row, fresh : BOOLEAN, ids : SUBSET Lessons]
Idle == [at |-> "idle", lesson |-> None, copy |-> NewRow, fresh |-> FALSE, ids |-> {}]

RevisionType == [at : {"none", "applied", "cleared", "listed", "complete"}, removes : BOOLEAN, ids : SUBSET Lessons]
NoRevision == [at |-> "none", removes |-> FALSE, ids |-> {}]

TypeOK ==
  /\ live \subseteq Lessons
  /\ wasLive \subseteq SUBSET Lessons
  /\ revision \in RevisionType
  /\ row \in Row
  /\ done \subseteq Lessons
  /\ cache \in {None} \cup SUBSET Lessons
  /\ request \in [Requests -> RequestType]
  /\ \A t \in Requests : request[t].at = "record" => request[t].lesson \in Lessons
  /\ announced \in 0 .. 2
  /\ refund \in {"due", "handled"}

Init ==
  /\ live = FirstVersion
  /\ wasLive = {FirstVersion}
  /\ revision = NoRevision
  /\ row = NewRow
  /\ done = {}
  /\ cache = None
  /\ request = [t \in Requests |-> Idle]
  /\ announced = 0
  /\ refund = "due"

-----------------------------------------------------------------------------
(* Completing a lesson: POST /complete, or a heartbeat that meets the      *)
(* watch rule                                                              *)

Set(t, r) == request' = [request EXCEPT ![t] = r]

\* Request t goes on to this step of recordCompletion with these values.
Continue(t, step, copy, fresh, ids) ==
  Set(t, [at |-> step, lesson |-> None, copy |-> copy, fresh |-> fresh, ids |-> ids])

\* The lesson is live, or was and is cached (an answer fetched before a
\* revision can be stored after its handler cleared the cache); the enrollment,
\* as loaded here, is active.
BeginLesson(t, l) ==
  /\ request[t].at = "idle"
  /\ l \in UNION wasLive
  /\ row.access = "active"
  /\ Set(t, [at |-> "record", lesson |-> l, copy |-> row, fresh |-> FALSE, ids |-> {}])
  /\ UNCHANGED <<live, wasLive, revision, row, done, cache, announced, refund>>

\* recordCompletion: the progress row, once (of two that find none the unique
\* key fails the second, see Fail); nothing more when the entity says completed.
Record(t) ==
  LET r == request[t] IN
  /\ r.at = "record"
  /\ done' = done \cup {r.lesson}
  /\ IF r.copy.completed THEN Set(t, Idle) ELSE Continue(t, "list", r.copy, r.lesson \notin done, {})
  /\ UNCHANGED <<live, wasLive, revision, row, cache, announced, refund>>

Hit == cache # None

\* cachedLessonIds: a hit,
ReadCache(t) ==
  LET r == request[t] IN
  /\ r.at = "list"
  /\ Hit
  /\ Continue(t, "milestone", r.copy, r.fresh, cache)
  /\ UNCHANGED <<live, wasLive, revision, row, done, cache, announced, refund>>

\* or a miss: the course answers, and its answer is stored a step later.
FetchList(t) ==
  LET r == request[t] IN
  /\ r.at = "list"
  /\ ~Hit
  /\ Continue(t, "store", r.copy, r.fresh, live)
  /\ UNCHANGED <<live, wasLive, revision, row, done, cache, announced, refund>>

StoreList(t) ==
  LET r == request[t] IN
  /\ r.at = "store"
  /\ cache' = r.ids
  /\ Continue(t, "milestone", r.copy, r.fresh, r.ids)
  /\ UNCHANGED <<live, wasLive, revision, row, done, announced, refund>>

\* Rounded to the nearest.
Percent(ids) ==
  IF ids = {} THEN 0 ELSE (200 * Cardinality(done \cap ids) + Cardinality(ids)) \div (2 * Cardinality(ids))

\* announceMilestone: only for a new lesson, and only what the entity says is
\* not sent yet; the entity is saved.
MDue(r) == {Percent(r.ids)}
Due(r) == {m \in Milestones : r.fresh /\ Percent(r.ids) >= m /\ m \notin r.copy.sent}
Sent(r) == [access |-> r.copy.access, completed |-> r.copy.completed, sent |-> r.copy.sent \cup Due(r)]
Milestone(t) ==
  LET r == request[t] IN
  /\ r.at = "milestone"
  /\ row' = IF Due(r) = {} THEN row ELSE Sent(r)
  /\ Continue(t, "detect", Sent(r), r.fresh, r.ids)
  /\ UNCHANGED <<live, wasLive, revision, done, cache, announced, refund>>

MFinished(ids) == ids # {} /\ Cardinality(done) >= Cardinality(ids)
Finished(ids) == ids # {} /\ ids \subseteq done

\* detectCompletion, on every call, up to its lookups of names.
MDetects(r) == r.fresh /\ Finished(r.ids)
Detects(r) == Finished(r.ids)
Detect(t) ==
  LET r == request[t] IN
  /\ r.at = "detect"
  /\ IF Detects(r) THEN Continue(t, "complete", r.copy, r.fresh, r.ids) ELSE Set(t, Idle)
  /\ UNCHANGED <<live, wasLive, revision, row, done, cache, announced, refund>>

\* ... and its conditional UPDATE, with CourseCompleted in the same transaction.
CompleteRow ==
  /\ row' = [access |-> row.access, completed |-> TRUE, sent |-> row.sent]
  /\ announced' = IF row.completed \/ announced = 2 THEN announced ELSE announced + 1

Complete(t) ==
  /\ request[t].at = "complete"
  /\ CompleteRow
  /\ Set(t, Idle)
  /\ UNCHANGED <<live, wasLive, revision, done, cache, refund>>

\* The request dies, or a service or database it asks fails.
Fail(t) ==
  /\ request[t].at # "idle"
  /\ Set(t, Idle)
  /\ UNCHANGED <<live, wasLive, revision, row, done, cache, announced, refund>>

-----------------------------------------------------------------------------
(* The other writers of the row                                            *)

\* markChangelogSeen, or a nudge of the inactivity job (it loads only active
\* unfinished rows): loads the entity ...
BeginSave(t) ==
  /\ request[t].at = "idle"
  /\ Set(t, [at |-> "save", lesson |-> None, copy |-> row, fresh |-> FALSE, ids |-> {}])
  /\ UNCHANGED <<live, wasLive, revision, row, done, cache, announced, refund>>

\* ... and saves it, with a column of its own that nothing here reads.
Save(t) ==
  /\ request[t].at = "save"
  /\ row' = request[t].copy
  /\ Set(t, Idle)
  /\ UNCHANGED <<live, wasLive, revision, done, cache, announced, refund>>

\* revokeFromRefund, one conditional UPDATE.
Revoke ==
  /\ refund = "due"
  /\ refund' = "handled"
  /\ row' = [access |-> "refunded", completed |-> row.completed, sent |-> row.sent]
  /\ UNCHANGED <<live, wasLive, revision, done, cache, request, announced>>

CacheExpires ==
  /\ cache # None
  /\ cache' = None
  /\ UNCHANGED <<live, wasLive, revision, row, done, request, announced, refund>>

-----------------------------------------------------------------------------
(* A revision adds and removes lessons                                     *)

\* The course applies it; bounds: each version is published once, and no
\* revision is applied while the handler of the one before is at work.
ApplyRevision ==
  /\ revision.at = "none"
  /\ \E ids \in Versions \ wasLive :
       /\ live' = ids
       /\ wasLive' = wasLive \cup {ids}
       /\ revision' = [at |-> "applied", removes |-> ~(live \subseteq ids), ids |-> {}]
  /\ UNCHANGED <<row, done, cache, request, announced, refund>>

Handle(step, ids) == revision' = [at |-> step, removes |-> revision.removes, ids |-> ids]

\* onRevisionApplied: the cache first; nothing to check again unless it removed lessons.
ClearCache ==
  /\ revision.at = "applied"
  /\ cache' = None
  /\ IF revision.removes THEN Handle("cleared", {}) ELSE revision' = NoRevision
  /\ UNCHANGED <<live, wasLive, row, done, request, announced, refund>>

\* recheckCompletions: the list as the course has it now,
RecheckList ==
  /\ revision.at = "cleared"
  /\ Handle("listed", live)
  /\ UNCHANGED <<live, wasLive, row, done, cache, request, announced, refund>>

\* the enrollment if it is active and unfinished, and what it has done,
RecheckDetect ==
  /\ revision.at = "listed"
  /\ IF row.access = "active" /\ ~row.completed /\ Finished(revision.ids)
     THEN Handle("complete", revision.ids)
     ELSE revision' = NoRevision
  /\ UNCHANGED <<live, wasLive, row, done, cache, request, announced, refund>>

\* and the same conditional UPDATE.
RecheckComplete ==
  /\ revision.at = "complete"
  /\ revision' = NoRevision
  /\ CompleteRow
  /\ UNCHANGED <<live, wasLive, done, cache, request, refund>>

\* The handler throws or dies and the bus delivers the event again, or it
\* skips this enrollment after an error, or the event's attempts run out.
RecheckFails ==
  /\ revision.at \in {"cleared", "listed", "complete"}
  /\ Handle("applied", {}) \/ revision' = NoRevision
  /\ UNCHANGED <<live, wasLive, row, done, cache, request, announced, refund>>

-----------------------------------------------------------------------------
LessonStep(t) ==
  Record(t) \/ ReadCache(t) \/ FetchList(t) \/ StoreList(t) \/ Milestone(t) \/ Detect(t) \/ Complete(t)

RevisionStep == ApplyRevision \/ ClearCache \/ RecheckList \/ RecheckDetect \/ RecheckComplete \/ RecheckFails

Next ==
  \/ \E t \in Requests :
       \/ \E l \in Lessons : BeginLesson(t, l)
       \/ LessonStep(t) \/ Fail(t) \/ BeginSave(t) \/ Save(t)
  \/ Revoke \/ CacheExpires \/ RevisionStep

Spec == Init /\ [][Next]_vars

\* The learner keeps playing some live lesson, cached lists expire, requests
\* end, and from some time on they end without failing (a Fail step that is
\* not also the way the code ends).  Nothing is assumed of the handler of revisions.
GetsOn(t) == LessonStep(t) \/ Save(t)
Fairness ==
  /\ SF_vars(\E t \in Requests, l \in live : BeginLesson(t, l))
  /\ \A t \in Requests : WF_vars(GetsOn(t)) /\ <>[][Fail(t) => GetsOn(t)]_vars
  /\ WF_vars(CacheExpires)

FairSpec == Spec /\ Fairness

-----------------------------------------------------------------------------
(* Properties                                                              *)

\* Nobody is completed, and no completion announced, who has not done every
\* lesson of a version that was once live: a stale list may be used, a list
\* mixed of two versions or lessons of no version never (detectCompletion counts
\* the lessons of the list it holds, which is fetched, cached and cleared while
\* others read it).
Earned == \E ids \in wasLive : ids # {} /\ ids \subseteq done
CompletionIsEarned == row.completed \/ announced > 0 => Earned

\* A check that failed, or that went by a stale list, heals on a later call: a
\* learner who did every live lesson and still has access ends up completed
\* (recordCompletion detects on every call, not only on a new lesson).
FinishedIsCompleted ==
  (live # {} /\ live \subseteq done /\ row.access = "active")
    ~> (row.completed \/ row.access = "refunded" \/ ~(live \subseteq done))

\* The learner's own last lesson and the re-check after a revision can race, and
\* only one of them may emit CourseCompleted.  The code does not keep this: a
\* milestone saves the entity it loaded before the other one completed the row.
CompletedOnce == announced <= 1

\* A refunded payment ends access.  The code does not keep this: an entity
\* loaded before the revoke and saved after it puts the access back.
RevokedStaysOut == refund = "handled" => row.access = "refunded"
=============================================================================
