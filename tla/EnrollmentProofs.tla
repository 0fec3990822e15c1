-------------------------- MODULE EnrollmentProofs --------------------------
(***************************************************************************)
(* Proofs about Enrollment, for any versions of the course, any requests   *)
(* in flight and any milestones: types, and that a completion is earned.   *)
(***************************************************************************)
EXTENDS Enrollment, TLAPS

LEMMA TypeInit == Init => TypeOK
  BY DEF Init, TypeOK, Row, NewRow, RequestType, Idle, RevisionType, NoRevision, Lessons

\* Every entity a request goes on with is a row.
LEMMA SentIsRow ==
  ASSUME NEW r \in RequestType PROVE Sent(r) \in Row
  BY DEF Sent, Due, Row, RequestType

\* What the handler of a revision goes on with.
Handled(step, ids) == [at |-> step, removes |-> revision.removes, ids |-> ids]

LEMMA HandledIsRevision ==
  ASSUME revision \in RevisionType,
         NEW step \in {"applied", "cleared", "listed", "complete"}, NEW ids \in SUBSET Lessons
  PROVE  Handled(step, ids) \in RevisionType /\ NoRevision \in RevisionType
  BY DEF Handled, RevisionType, NoRevision

LEMMA TypeKept ==
  ASSUME TypeOK, [Next]_vars PROVE TypeOK'
<1> USE DEF TypeOK, Set
<1>1. ASSUME NEW t \in Requests, NEW l \in Lessons, BeginLesson(t, l) PROVE TypeOK'
  BY <1>1 DEF BeginLesson, RequestType
<1>2. ASSUME NEW t \in Requests, LessonStep(t) PROVE TypeOK'
  <2>1. CASE Record(t)
    <3>1. request'[t] \in RequestType /\ request'[t].at # "record"
      <4> DEFINE r == request[t]
      <4>1. r \in RequestType /\ r.copy \in Row /\ (r.lesson \notin done) \in BOOLEAN
        BY DEF RequestType
      <4>2. CASE request'[t] = Idle
        BY <4>2 DEF Idle, RequestType, Row, NewRow
      <4>3. CASE request'[t] = [at |-> "list", lesson |-> None, copy |-> r.copy, fresh |-> r.lesson \notin done, ids |-> {}]
        BY <4>1, <4>3 DEF RequestType
      <4>4. QED
        BY <2>1, <4>2, <4>3 DEF Record, Continue
    <3>2. request' = [request EXCEPT ![t] = request'[t]]
      BY <2>1 DEF Record, Continue
    <3>3. QED
      BY <2>1, <3>1, <3>2 DEF Record
  <2>2. CASE ReadCache(t)
    BY <2>2 DEF ReadCache, Hit, Continue, RequestType
  <2>3. CASE FetchList(t)
    BY <2>3 DEF FetchList, Continue, RequestType
  <2>4. CASE StoreList(t)
    BY <2>4 DEF StoreList, Continue, RequestType
  <2>5. CASE Milestone(t)
    <3>1. Sent(request[t]) \in Row
      BY SentIsRow
    <3>2. QED
      BY <2>5, <3>1 DEF Milestone, Continue, RequestType
  <2>6. CASE Detect(t)
    <3>1. CASE Detects(request[t])
      <4>1. request[t] \in RequestType
        OBVIOUS
      <4> DEFINE on == [at |-> "complete", lesson |-> None, copy |-> request[t].copy,
                        fresh |-> request[t].fresh, ids |-> request[t].ids]
      <4>2. on \in RequestType /\ on.at = "complete"
        BY <4>1 DEF RequestType
      <4>3. request' = [request EXCEPT ![t] = on]
        BY <2>6, <3>1 DEF Detect, Continue
      <4> HIDE DEF on
      <4>4. QED
        BY <2>6, <4>2, <4>3 DEF Detect
    <3>2. CASE ~Detects(request[t])
      <4>1. request' = [request EXCEPT ![t] = Idle]
        BY <2>6, <3>2 DEF Detect
      <4>2. Idle \in RequestType /\ Idle.at = "idle"
        BY DEF RequestType, Idle, Row, NewRow
      <4>3. QED
        BY <2>6, <4>1, <4>2 DEF Detect
    <3>3. QED
      BY <3>1, <3>2
  <2>7. CASE Complete(t)
    BY <2>7 DEF Complete, CompleteRow, RequestType, Idle, Row, NewRow
  <2>8. QED
    BY <1>2, <2>1, <2>2, <2>3, <2>4, <2>5, <2>6, <2>7 DEF LessonStep
<1>3. ASSUME NEW t \in Requests, Fail(t) PROVE TypeOK'
  BY <1>3 DEF Fail, RequestType, Idle, Row, NewRow
<1>4. ASSUME NEW t \in Requests, BeginSave(t) PROVE TypeOK'
  BY <1>4 DEF BeginSave, RequestType
<1>5. ASSUME NEW t \in Requests, Save(t) PROVE TypeOK'
  BY <1>5 DEF Save, RequestType, Idle, Row, NewRow
<1>6. CASE Revoke
  BY <1>6 DEF Revoke, Row
<1>7. CASE CacheExpires
  BY <1>7 DEF CacheExpires
<1>8. CASE RevisionStep
  <2>1. CASE ApplyRevision
    <3>1. PICK ids \in Versions \ wasLive :
            /\ live' = ids
            /\ wasLive' = wasLive \cup {ids}
            /\ revision' = [at |-> "applied", removes |-> ~(live \subseteq ids), ids |-> {}]
      BY <2>1 DEF ApplyRevision
    <3>2. ids \subseteq Lessons
      BY DEF Lessons
    <3>3. revision' \in RevisionType
      BY <3>1 DEF RevisionType
    <3>4. QED
      BY <2>1, <3>1, <3>2, <3>3 DEF ApplyRevision
  <2>2. CASE ClearCache
    <3>1. revision' = Handled("cleared", {}) \/ revision' = NoRevision
      BY <2>2 DEF ClearCache, Handle, Handled
    <3>2. revision' \in RevisionType
      BY <3>1, HandledIsRevision
    <3>3. QED
      BY <2>2, <3>2 DEF ClearCache
  <2>3. CASE RecheckList
    BY <2>3 DEF RecheckList, Handle, RevisionType
  <2>4. CASE RecheckDetect
    <3>1. revision' = Handled("complete", revision.ids) \/ revision' = NoRevision
      BY <2>4 DEF RecheckDetect, Handle, Handled
    <3>2. revision' \in RevisionType
      <4>1. revision.ids \in SUBSET Lessons
        BY DEF RevisionType
      <4>2. QED
        BY <3>1, <4>1, HandledIsRevision
    <3>3. QED
      BY <2>4, <3>2 DEF RecheckDetect
  <2>5. CASE RecheckComplete
    BY <2>5 DEF RecheckComplete, CompleteRow, RevisionType, NoRevision, Row
  <2>6. CASE RecheckFails
    <3>1. revision' = Handled("applied", {}) \/ revision' = NoRevision
      BY <2>6 DEF RecheckFails, Handle, Handled
    <3>2. revision' \in RevisionType
      BY <3>1, HandledIsRevision
    <3>3. QED
      BY <2>6, <3>2 DEF RecheckFails
  <2>7. QED
    BY <1>8, <2>1, <2>2, <2>3, <2>4, <2>5, <2>6 DEF RevisionStep
<1>9. CASE UNCHANGED vars
  BY <1>9 DEF vars
<1>10. QED
  BY <1>1, <1>2, <1>3, <1>4, <1>5, <1>6, <1>7, <1>8, <1>9 DEF Next

\* Every step of every caller leaves values of the columns' types.
THEOREM TypeCorrect == Spec => []TypeOK
<1>1. TypeOK /\ [Next]_vars => TypeOK'
  BY TypeKept
<1>2. QED
  BY <1>1, TypeInit, PTL DEF Spec

-----------------------------------------------------------------------------
(* The strengthening: whoever holds a list holds a version that was live,  *)
(* whoever is about to complete the row has seen it done, and no entity is *)
(* completed that was not earned.                                          *)

HoldsList == {"store", "milestone", "detect", "complete"}
ListsWereLive ==
  /\ live \in wasLive
  /\ cache # None => cache \in wasLive
  /\ \A t \in Requests : request[t].at \in HoldsList => request[t].ids \in wasLive
  /\ revision.at \in {"listed", "complete"} => revision.ids \in wasLive

ChecksHold ==
  /\ \A t \in Requests : request[t].at = "complete" => Finished(request[t].ids)
  /\ revision.at = "complete" => Finished(revision.ids)

EntitiesAreEarned == \A t \in Requests : request[t].copy.completed => Earned

Inv == TypeOK /\ ListsWereLive /\ ChecksHold /\ EntitiesAreEarned /\ CompletionIsEarned

LEMMA InitAgrees == Init => ListsWereLive /\ ChecksHold /\ EntitiesAreEarned /\ CompletionIsEarned
  BY DEF Init, ListsWereLive, ChecksHold, EntitiesAreEarned, CompletionIsEarned,
         HoldsList, NewRow, Idle, NoRevision

\* No version is forgotten and no lesson is undone.
LEMMA HistoryGrows ==
  ASSUME [Next]_vars
  PROVE  /\ wasLive \subseteq wasLive' /\ done \subseteq done'
         /\ Earned => Earned'
<1>1. wasLive \subseteq wasLive'
  BY DEF Next, vars, LessonStep, RevisionStep, BeginLesson, Record, ReadCache, FetchList, StoreList,
         Milestone, Detect, Complete, Fail, BeginSave, Save, Revoke, CacheExpires, ApplyRevision,
         ClearCache, RecheckList, RecheckDetect, RecheckComplete, RecheckFails
<1>2. done \subseteq done'
  BY DEF Next, vars, LessonStep, RevisionStep, BeginLesson, Record, ReadCache, FetchList, StoreList,
         Milestone, Detect, Complete, Fail, BeginSave, Save, Revoke, CacheExpires, ApplyRevision,
         ClearCache, RecheckList, RecheckDetect, RecheckComplete, RecheckFails
<1>3. QED
  BY <1>1, <1>2 DEF Earned

\* What a step does to the requests: one is replaced, or none.
LEMMA Replaced ==
  ASSUME TypeOK, NEW t \in Requests, NEW r, Set(t, r)
  PROVE  /\ request'[t] = r
         /\ \A u \in Requests \ {t} : request'[u] = request[u]
  BY DEF TypeOK, Set

\* A list is fetched live, cached as fetched, and read as cached.
LEMMA ListsKept ==
  ASSUME TypeOK, ListsWereLive, [Next]_vars PROVE ListsWereLive'
<1> USE HistoryGrows DEF ListsWereLive, HoldsList
<1>1. ASSUME NEW t \in Requests, NEW l \in Lessons, BeginLesson(t, l) PROVE ListsWereLive'
  BY <1>1, Replaced DEF BeginLesson
<1>2. ASSUME NEW t \in Requests, LessonStep(t) PROVE ListsWereLive'
  <2>1. CASE Record(t)
    BY <2>1, Replaced DEF Record, Continue, Idle
  <2>2. CASE ReadCache(t)
    BY <2>2, Replaced DEF ReadCache, Hit, Continue
  <2>3. CASE FetchList(t)
    BY <2>3, Replaced DEF FetchList, Continue
  <2>4. CASE StoreList(t)
    BY <2>4, Replaced DEF StoreList, Continue
  <2>5. CASE Milestone(t)
    BY <2>5, Replaced DEF Milestone, Continue
  <2>6. CASE Detect(t)
    BY <2>6, Replaced DEF Detect, Continue, Idle
  <2>7. CASE Complete(t)
    BY <2>7, Replaced DEF Complete, Idle
  <2>8. QED
    BY <1>2, <2>1, <2>2, <2>3, <2>4, <2>5, <2>6, <2>7 DEF LessonStep
<1>3. ASSUME NEW t \in Requests, Fail(t) \/ BeginSave(t) \/ Save(t) PROVE ListsWereLive'
  BY <1>3, Replaced DEF Fail, BeginSave, Save, Idle
<1>4. CASE Revoke \/ CacheExpires
  BY <1>4 DEF Revoke, CacheExpires
<1>5. CASE RevisionStep
  <2>1. CASE ApplyRevision
    BY <2>1 DEF ApplyRevision
  <2>2. CASE ClearCache
    BY <2>2 DEF ClearCache, Handle, NoRevision
  <2>3. CASE RecheckList
    BY <2>3 DEF RecheckList, Handle
  <2>4. CASE RecheckDetect
    BY <2>4 DEF RecheckDetect, Handle, NoRevision
  <2>5. CASE RecheckComplete
    BY <2>5 DEF RecheckComplete, NoRevision
  <2>6. CASE RecheckFails
    BY <2>6 DEF RecheckFails, Handle, NoRevision
  <2>7. QED
    BY <1>5, <2>1, <2>2, <2>3, <2>4, <2>5, <2>6 DEF RevisionStep
<1>6. CASE UNCHANGED vars
  BY <1>6 DEF vars
<1>7. QED
  BY <1>1, <1>2, <1>3, <1>4, <1>5, <1>6 DEF Next

\* A check that found every lesson done stays right: no lesson is undone.
LEMMA ChecksKept ==
  ASSUME TypeOK, ChecksHold, [Next]_vars PROVE ChecksHold'
<1> USE HistoryGrows DEF ChecksHold, Finished
<1>1. ASSUME NEW t \in Requests, NEW l \in Lessons, BeginLesson(t, l) PROVE ChecksHold'
  BY <1>1, Replaced DEF BeginLesson
<1>2. ASSUME NEW t \in Requests, LessonStep(t) PROVE ChecksHold'
  <2>1. CASE Record(t)
    BY <2>1, Replaced DEF Record, Continue, Idle
  <2>2. CASE ReadCache(t)
    BY <2>2, Replaced DEF ReadCache, Continue
  <2>3. CASE FetchList(t)
    BY <2>3, Replaced DEF FetchList, Continue
  <2>4. CASE StoreList(t)
    BY <2>4, Replaced DEF StoreList, Continue
  <2>5. CASE Milestone(t)
    BY <2>5, Replaced DEF Milestone, Continue
  <2>6. CASE Detect(t)
    BY <2>6, Replaced DEF Detect, Detects, Continue, Idle
  <2>7. CASE Complete(t)
    BY <2>7, Replaced DEF Complete, Idle
  <2>8. QED
    BY <1>2, <2>1, <2>2, <2>3, <2>4, <2>5, <2>6, <2>7 DEF LessonStep
<1>3. ASSUME NEW t \in Requests, Fail(t) \/ BeginSave(t) \/ Save(t) PROVE ChecksHold'
  BY <1>3, Replaced DEF Fail, BeginSave, Save, Idle
<1>4. CASE Revoke \/ CacheExpires
  BY <1>4 DEF Revoke, CacheExpires
<1>5. CASE RevisionStep
  BY <1>5 DEF RevisionStep, ApplyRevision, ClearCache, RecheckList, RecheckDetect, RecheckComplete,
              RecheckFails, Handle, NoRevision
<1>6. CASE UNCHANGED vars
  BY <1>6 DEF vars
<1>7. QED
  BY <1>1, <1>2, <1>3, <1>4, <1>5, <1>6 DEF Next

\* Only the conditional UPDATE completes the row, after a check; every other
\* writer puts back what it loaded.
LEMMA EarnedKept ==
  ASSUME Inv, [Next]_vars PROVE EntitiesAreEarned' /\ CompletionIsEarned'
<1> USE HistoryGrows DEF Inv, EntitiesAreEarned, CompletionIsEarned
<1>1. ASSUME NEW t \in Requests, NEW l \in Lessons, BeginLesson(t, l) PROVE EntitiesAreEarned' /\ CompletionIsEarned'
  BY <1>1, Replaced DEF BeginLesson
<1>2. ASSUME NEW t \in Requests, LessonStep(t) PROVE EntitiesAreEarned' /\ CompletionIsEarned'
  <2>1. CASE Record(t)
    BY <2>1, Replaced DEF Record, Continue, Idle, NewRow
  <2>2. CASE ReadCache(t) \/ FetchList(t) \/ StoreList(t)
    BY <2>2, Replaced DEF ReadCache, FetchList, StoreList, Continue
  <2>3. CASE Milestone(t)
    BY <2>3, Replaced DEF Milestone, Sent, Continue
  <2>4. CASE Detect(t)
    BY <2>4, Replaced DEF Detect, Continue, Idle, NewRow
  <2>5. CASE Complete(t)
    <3>1. Earned
      BY <2>5 DEF Complete, ListsWereLive, HoldsList, ChecksHold, Finished, Earned
    <3>2. QED
      BY <2>5, <3>1, Replaced DEF Complete, Idle, NewRow
  <2>6. QED
    BY <1>2, <2>1, <2>2, <2>3, <2>4, <2>5 DEF LessonStep
<1>3. ASSUME NEW t \in Requests, Fail(t) \/ BeginSave(t) \/ Save(t) PROVE EntitiesAreEarned' /\ CompletionIsEarned'
  BY <1>3, Replaced DEF Fail, BeginSave, Save, Idle, NewRow
<1>4. CASE Revoke \/ CacheExpires
  BY <1>4 DEF Revoke, CacheExpires
<1>5. CASE RecheckComplete
  <2>1. Earned
    BY <1>5 DEF RecheckComplete, ListsWereLive, ChecksHold, Finished, Earned
  <2>2. QED
    BY <1>5, <2>1 DEF RecheckComplete
<1>6. CASE RevisionStep /\ ~RecheckComplete
  BY <1>6 DEF RevisionStep, ApplyRevision, ClearCache, RecheckList, RecheckDetect, RecheckFails
<1>7. CASE UNCHANGED vars
  BY <1>7 DEF vars
<1>8. QED
  BY <1>1, <1>2, <1>3, <1>4, <1>5, <1>6, <1>7 DEF Next, RevisionStep

\* The inductive invariant.
THEOREM InvariantHolds == Spec => []Inv
<1>1. Init => Inv
  BY TypeInit, InitAgrees DEF Inv
<1>2. Inv /\ [Next]_vars => Inv'
  BY TypeKept, ListsKept, ChecksKept, EarnedKept DEF Inv
<1>3. QED
  BY <1>1, <1>2, PTL DEF Spec

\* Whatever versions of the course were published and whichever lists the
\* cache served meanwhile, nobody is completed, and no CourseCompleted is in the
\* outbox, without every lesson of one version done.
THEOREM CompletionsAreEarned == Spec => []CompletionIsEarned
<1>1. Inv => CompletionIsEarned
  BY DEF Inv
<1>2. QED
  BY <1>1, InvariantHolds, PTL
=============================================================================
