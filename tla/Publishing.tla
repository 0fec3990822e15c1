----------------------------- MODULE Publishing -----------------------------
(***************************************************************************)
(* One course on its way to the learners.  course.service.ts has the       *)
(* status of the course and the edits, which are direct on a draft and     *)
(* staged on a live course; revision.service.ts and staging.ts the staged  *)
(* change set; quality.service.ts the queue of the quality officers.       *)
(*                                                                         *)
(* Content is a set of changes.  A change is made once, on a row of its    *)
(* own; contentHash tells sets of staged changes apart.  "live" stands for *)
(* published and unlisted.  Events to quality are sent in order and come   *)
(* at least once, in that order as long as no handler fails (inCourseOrder; *)
(* outbox and bus are Delivery's), or are parked; a decision comes at any  *)
(* time and may come again.                                                *)
(***************************************************************************)
EXTENDS Naturals, Sequences, SequencesExt

CONSTANTS
  Changes,
  Submissions,   \* review items: 1 .. n
  MaxRevisions,  \* bound on rows in course_revisions
  MaxEvents,     \* bound on events under way to quality
  MaxFaults,     \* bound on handlers of these events that fail, and on acks that are lost
  Starts         \* courses to begin with: status, whether an institution's, rows still staged
                 \* since a flag or an archive closed their revision, and faults met before

PublishingAssumption ==
  /\ MaxRevisions \in Nat /\ MaxEvents \in Nat /\ MaxFaults \in Nat /\ Submissions \subseteq Nat \ {0}
  /\ Starts \subseteq {"draft", "live"} \X BOOLEAN \X (SUBSET Changes) \X (0 .. MaxFaults)

VARIABLES
  status,     \* courses.status
  institutional, \* courses.institution_id
  live,       \* what the live columns and rows hold
  staged,     \* pending columns, markers and notes
  revision,   \* the last row of course_revisions: number, status, content_hash
  edit,       \* a write that passed editGate: none, direct, staged
  submitting, \* a revision submit that read the staged state, or none
  applying,   \* an apply transaction: the item decided, the staged state it loaded
  closing,    \* archive and flag go on to close the open revision
  toQuality,  \* events for quality
  item,       \* qa_review_items: asked for by an event, then a row, unless the event is parked
  handled,    \* items whose decision the course has acted on (history)
  faults      \* handlers of these events that failed, and acks lost (history)

courseVars == <<status, institutional, live, staged, edit, closing>>
vars == <<status, institutional, live, staged, revision, edit, submitting, applying, closing, toQuality, item, handled, faults>>

InReview == {"institution_review", "submitted"}
OpenStatuses == {"draft"} \cup InReview
Actions == {"approve", "coach", "flag", "reject"}
RevisionType == [number : 0 .. MaxRevisions, status : OpenStatuses \cup {"none", "applied", "closed"}, hash : SUBSET Changes]
\* A row that is WITHDRAWN is "withdrawn", or "overtaken" when what closed it was
\* sent before the item was asked for.
ItemType == [status : {"none", "asked", "parked", "open", "withdrawn", "overtaken"} \cup Actions,
             kind : {"course", "revision", "recheck"}, number : 0 .. MaxRevisions, content : SUBSET Changes]
Nothing == [status |-> "none", kind |-> "course", number |-> 0, content |-> {}]
\* "before" is what was asked for before it, which the event does not say (history).
EventType == [kind : {"course", "appeal", "revision", "withdrawn"}, item : Submissions \cup {0},
              number : 0 .. MaxRevisions, before : SUBSET Submissions]

TypeOK ==
  /\ status \in {"draft", "live", "flagged", "archived"} \cup InReview
  /\ institutional \in BOOLEAN
  /\ live \subseteq Changes /\ staged \subseteq Changes
  /\ revision \in RevisionType
  /\ edit \in {"none", "direct", "staged"}
  /\ submitting \in [on : BOOLEAN, number : 0 .. MaxRevisions, hash : SUBSET Changes]
  /\ applying \in [item : Submissions \cup {0}, loaded : SUBSET Changes]
  /\ closing \in BOOLEAN
  /\ toQuality \in Seq(EventType)
  /\ item \in [Submissions -> ItemType]
  /\ handled \subseteq Submissions
  /\ faults \in 0 .. MaxFaults

NotSubmitting == [on |-> FALSE, number |-> 0, hash |-> {}]
NotApplying == [item |-> 0, loaded |-> {}]

\* A new course, or one published long ago.
Init ==
  /\ \E start \in Starts : status = start[1] /\ institutional = start[2] /\ staged = start[3] /\ faults = start[4]
  /\ live = {}
  /\ revision = [number |-> 0, status |-> "none", hash |-> {}]
  /\ edit = "none"
  /\ submitting = NotSubmitting
  /\ applying = NotApplying
  /\ closing = FALSE
  /\ toQuality = <<>>
  /\ item = [s \in Submissions |-> Nothing]
  /\ handled = {}

-----------------------------------------------------------------------------
(* Helpers                                                                 *)

Used == {s \in Submissions : item[s].status # "none"}
Fresh(s) == \A r \in Submissions : r \in Used <=> r < s
Sends(kind, s, n) ==
  /\ Len(toQuality) < MaxEvents
  /\ toQuality' = Append(toQuality, [kind |-> kind, item |-> s, number |-> n, before |-> Used])
\* An event that asks for an item, and one that takes a submission back.
Asks(kind, s, n, content) ==
  /\ Fresh(s) /\ Sends(kind, s, n)
  /\ item' = [item EXCEPT ![s] = [status |-> "asked", kind |-> IF kind = "revision" THEN kind ELSE "course",
                                  number |-> n, content |-> content]]
Pulls(n) == Sends("withdrawn", 0, n) /\ UNCHANGED item

\* A running apply holds the locks of the revision's and the course's row.
Unlocked == applying = NotApplying
OpenRevision == revision.status \in OpenStatuses
NewRevision ==
  /\ ~OpenRevision /\ revision.number < MaxRevisions
  /\ revision' = [number |-> revision.number + 1, status |-> "draft", hash |-> {}]
RevisionBecomes(s) == revision' = [revision EXCEPT !.status = s]
\* moveToDraft: the status and the fold of staged rows.
ToDraft == status' = "draft" /\ live' = live \cup staged /\ staged' = {}

-----------------------------------------------------------------------------
(* Editing: editGate, then a write of a section, a lesson or a note, which  *)
(* does not look at the status again.                                       *)

GateDirect ==
  /\ edit = "none" /\ status = "draft" /\ Unlocked
  /\ edit' = "direct"
  /\ live' = live \cup staged /\ staged' = {}
  /\ UNCHANGED <<status, institutional, revision, submitting, applying, closing, toQuality, item, handled, faults>>

GateStaged ==
  /\ edit = "none" /\ status = "live"
  /\ edit' = "staged"
  /\ \/ revision.status = "draft" /\ UNCHANGED revision
     \/ NewRevision
  /\ UNCHANGED <<status, institutional, live, staged, submitting, applying, closing, toQuality, item, handled, faults>>

Write(c) ==
  /\ edit # "none" /\ c \notin live \cup staged \cup applying.loaded
  /\ edit' = "none"
  /\ live' = IF edit = "direct" THEN live \cup {c} ELSE live
  /\ staged' = IF edit = "staged" THEN staged \cup {c} ELSE staged
  /\ UNCHANGED <<status, institutional, revision, submitting, applying, closing, toQuality, item, handled, faults>>

\* A write of the course's own columns finds that its status has changed.
WriteRefused ==
  /\ edit # "none"
  /\ edit' = "none"
  /\ UNCHANGED <<status, institutional, live, staged, revision, submitting, applying, closing, toQuality, item, handled, faults>>

-----------------------------------------------------------------------------
(* The course's own review                                                 *)

\* submit; an institution's course goes to its admin first.
Submit(s) ==
  /\ status = "draft" /\ Unlocked
  /\ live' = live \cup staged /\ staged' = {}
  /\ status' = IF institutional THEN "institution_review" ELSE "submitted"
  /\ IF institutional THEN UNCHANGED <<toQuality, item>> ELSE Asks("course", s, 0, live')
  /\ UNCHANGED <<institutional, revision, edit, submitting, applying, closing, handled, faults>>

\* institutionDecide.
InstitutionPasses(s) ==
  /\ status = "institution_review" /\ Unlocked
  /\ status' = "submitted"
  /\ Asks("course", s, 0, live)
  /\ UNCHANGED <<institutional, live, staged, revision, edit, submitting, applying, closing, handled, faults>>

InstitutionReturns ==
  /\ status = "institution_review" /\ Unlocked
  /\ ToDraft
  /\ UNCHANGED <<institutional, revision, edit, submitting, applying, closing, toQuality, item, handled, faults>>

Withdraw ==
  /\ status \in InReview /\ Unlocked
  /\ ToDraft
  /\ Pulls(0)
  /\ UNCHANGED <<institutional, revision, edit, submitting, applying, closing, handled, faults>>

\* archiveOwn and adminTransition; the revision is closed in a second
\* transaction.
Archive ==
  /\ status # "archived" /\ Unlocked /\ ~closing
  /\ status' = "archived"
  /\ IF status \in InReview THEN Pulls(0) ELSE UNCHANGED <<toQuality, item>>
  /\ closing' = TRUE
  /\ UNCHANGED <<institutional, live, staged, revision, edit, submitting, applying, handled, faults>>

\* closeOpenRevision, unless the process dies first.
CloseRevision ==
  /\ closing /\ Unlocked
  /\ closing' = FALSE
  /\ \/ /\ OpenRevision
        /\ RevisionBecomes("closed")
        /\ Pulls(revision.number)
     \/ UNCHANGED <<revision, toQuality, item>>
  /\ UNCHANGED <<status, institutional, live, staged, edit, submitting, applying, handled, faults>>

Restore ==
  /\ status = "archived" /\ Unlocked
  /\ ToDraft
  /\ UNCHANGED <<institutional, revision, edit, submitting, applying, closing, toQuality, item, handled, faults>>

\* adminTransition on a flagged course.
AdminRestore ==
  /\ status = "flagged" /\ Unlocked
  /\ status' = "live"
  /\ UNCHANGED <<institutional, live, staged, revision, edit, submitting, applying, closing, toQuality, item, handled, faults>>

Appeal(s) ==
  /\ status = "flagged" /\ Unlocked
  /\ status' = "submitted"
  /\ Asks("appeal", s, 0, live)
  /\ UNCHANGED <<institutional, live, staged, revision, edit, submitting, applying, closing, handled, faults>>

\* onCourseReviewed, with the status it read in the condition of the update.
Reviewed(s, action) ==
  /\ item[s].status = action /\ item[s].kind # "revision" /\ Unlocked
  /\ handled' = handled \cup {s}
  /\ \/ /\ action = "approve" /\ status \in {"submitted", "flagged"}
        /\ status' = "live"
        /\ UNCHANGED <<live, staged, closing>>
     \/ /\ action = "coach" /\ status = "submitted"
        /\ ToDraft
        /\ UNCHANGED closing
     \/ /\ action = "flag" /\ status \in {"submitted", "live"} /\ ~closing
        /\ status' = "flagged"
        /\ closing' = TRUE
        /\ UNCHANGED <<live, staged>>
     \/ /\ action = "approve" => status \notin {"submitted", "flagged"}
        /\ action = "coach" => status # "submitted"
        /\ action = "flag" => status \notin {"submitted", "live"}
        /\ UNCHANGED <<status, institutional, live, staged, closing>>
  /\ UNCHANGED <<institutional, revision, edit, submitting, applying, toQuality, item, faults>>

-----------------------------------------------------------------------------
(* Revisions: the educator                                                 *)

\* submit reads the staged rows without a lock; rows that outlived their
\* revision get a new one.
BeginSubmit ==
  /\ status = "live" /\ ~submitting.on /\ staged # {}
  /\ \/ revision.status = "draft" /\ UNCHANGED revision
     \/ NewRevision
  /\ submitting' = [on |-> TRUE, number |-> revision'.number, hash |-> staged]
  /\ UNCHANGED <<courseVars, applying, toQuality, item, handled, faults>>

EndSubmit(s) ==
  /\ submitting.on /\ Unlocked
  /\ submitting' = NotSubmitting
  /\ \/ /\ revision.number = submitting.number /\ revision.status = "draft"
        /\ revision' = [revision EXCEPT !.status = IF institutional THEN "institution_review" ELSE "submitted",
                                        !.hash = submitting.hash]
        /\ IF institutional THEN UNCHANGED <<toQuality, item>> ELSE Asks("revision", s, revision.number, submitting.hash)
     \/ /\ ~(revision.number = submitting.number /\ revision.status = "draft")
        /\ UNCHANGED <<revision, toQuality, item>>
  /\ UNCHANGED <<courseVars, applying, handled, faults>>

\* institutionDecideRevision.
InstitutionPassesRevision(s) ==
  /\ revision.status = "institution_review"
  /\ RevisionBecomes("submitted")
  /\ Asks("revision", s, revision.number, revision.hash)
  /\ UNCHANGED <<courseVars, submitting, applying, handled, faults>>

InstitutionReturnsRevision ==
  /\ revision.status = "institution_review"
  /\ RevisionBecomes("draft")
  /\ UNCHANGED <<courseVars, submitting, applying, toQuality, item, handled, faults>>

WithdrawRevision ==
  /\ revision.status \in InReview /\ Unlocked
  /\ RevisionBecomes("draft")
  /\ Pulls(revision.number)
  /\ UNCHANGED <<courseVars, submitting, applying, handled, faults>>

\* discard; staged rows that outlived their revision get a new one first.
BeginDiscard ==
  /\ status = "live" /\ staged # {} /\ NewRevision
  /\ UNCHANGED <<courseVars, submitting, applying, toQuality, item, handled, faults>>

Discard ==
  /\ revision.status = "draft" /\ Unlocked
  /\ RevisionBecomes("closed")
  /\ staged' = {}
  /\ UNCHANGED <<status, institutional, live, edit, closing, submitting, applying, toQuality, item, handled, faults>>

-----------------------------------------------------------------------------
(* Revisions: onRevisionReviewed                                           *)

MDecidable(s) == revision.number = item[s].number /\ revision.status = "submitted"
Decidable(s) ==
  /\ revision.number = item[s].number /\ revision.status = "submitted"
  /\ revision.hash = item[s].content
ForRevision(s, action) == item[s].status = action /\ item[s].kind = "revision" /\ Unlocked

Stale(s) ==
  /\ \E action \in Actions : ForRevision(s, action)
  /\ ~Decidable(s)
  /\ handled' = handled \cup {s}
  /\ UNCHANGED <<courseVars, revision, submitting, applying, toQuality, item, faults>>

\* applyInTransaction: claim the row, lock the course, load what is staged and
\* compare.
BeginApply(s) ==
  /\ ForRevision(s, "approve") /\ Decidable(s)
  /\ \/ /\ staged = revision.hash
        /\ applying' = [item |-> s, loaded |-> staged]
        /\ UNCHANGED <<revision, handled>>
     \/ /\ staged # revision.hash
        /\ RevisionBecomes("draft")
        /\ handled' = handled \cup {s}
        /\ UNCHANGED applying
  /\ UNCHANGED <<courseVars, submitting, toQuality, item, faults>>

\* applyStagedState: what was loaded goes live; a change written meanwhile
\* stays staged, or is overwritten with its row.
AppliedContent == applying.loaded
Apply ==
  /\ ~Unlocked
  /\ live' = live \cup AppliedContent
  /\ \E kept \in SUBSET (staged \ applying.loaded) : staged' = kept
  /\ RevisionBecomes("applied")
  /\ handled' = handled \cup {applying.item}
  /\ applying' = NotApplying
  /\ UNCHANGED <<status, institutional, edit, closing, submitting, toQuality, item, faults>>

\* Rolled back: tried again, or returnUnapplied after the last attempt.
MReturned == revision.status
Returned == "draft"
ApplyFails ==
  /\ ~Unlocked
  /\ applying' = NotApplying
  /\ \/ UNCHANGED <<revision, handled>>
     \/ RevisionBecomes(Returned) /\ handled' = handled \cup {applying.item}
  /\ UNCHANGED <<courseVars, submitting, toQuality, item, faults>>

Coach(s) ==
  /\ ForRevision(s, "coach") /\ Decidable(s)
  /\ RevisionBecomes("draft")
  /\ handled' = handled \cup {s}
  /\ UNCHANGED <<courseVars, submitting, applying, toQuality, item, faults>>

Reject(s) ==
  /\ ForRevision(s, "reject") /\ Decidable(s)
  /\ RevisionBecomes("closed")
  /\ staged' = {}
  /\ handled' = handled \cup {s}
  /\ UNCHANGED <<status, institutional, live, edit, closing, submitting, applying, toQuality, item, faults>>

-----------------------------------------------------------------------------
(* Quality                                                                 *)

ClosedBy(e, s) ==
  /\ item[s].status = "open" /\ s # e.item
  /\ \/ e.kind = "course" /\ item[s].kind = "course"
     \/ e.kind = "revision" /\ item[s].kind = "revision"
     \/ e.kind = "withdrawn" /\ e.number = 0 /\ item[s].kind = "course"
     \/ e.kind = "withdrawn" /\ e.number # 0 /\ item[s].kind = "revision" /\ item[s].number = e.number

\* runOnce: the item is asked for until its event has run or is parked.  A
\* withdrawal runs every time it comes.
RunsOnce(e) == e.kind = "withdrawn" \/ item[e.item].status = "asked"

\* enqueueSubmission, enqueueAppeal, enqueueRevision, withdrawItems.
Handles(e) ==
  IF RunsOnce(e)
  THEN item' = [s \in Submissions |->
         IF s = e.item THEN [item[s] EXCEPT !.status = "open"]
         ELSE IF ClosedBy(e, s) THEN [item[s] EXCEPT !.status = IF s \in e.before THEN "withdrawn" ELSE "overtaken"]
         ELSE item[s]]
  ELSE UNCHANGED item

Fault == faults < MaxFaults /\ faults' = faults + 1

\* An event comes in its turn, or those before it have failed and wait to be
\* retried.  It comes again when its ack is lost, or its handler fails after
\* the commit (screenText).
Receive(i) ==
  /\ Handles(toQuality[i])
  /\ \/ /\ toQuality' = RemoveAt(toQuality, i)
        /\ IF i = 1 THEN UNCHANGED faults ELSE Fault
     \/ UNCHANGED toQuality /\ Fault
  /\ UNCHANGED <<courseVars, revision, submitting, applying, handled>>

\* The last attempt has failed: the event goes to the parked queue.
Park(i) ==
  /\ item' = [s \in Submissions |->
       IF s = toQuality[i].item /\ item[s].status = "asked" THEN [item[s] EXCEPT !.status = "parked"] ELSE item[s]]
  /\ toQuality' = RemoveAt(toQuality, i)
  /\ Fault
  /\ UNCHANGED <<courseVars, revision, submitting, applying, handled>>

\* reopenForReview: ratings or refunds call for a second look at a course that
\* has been submitted before, whatever its status is now.
Recheck(s) ==
  /\ Fresh(s)
  /\ ~\E r \in Submissions : item[r].status = "open" /\ item[r].kind # "revision"
  /\ \E r \in Submissions : item[r].status \notin {"none", "asked", "parked"}
  /\ item' = [item EXCEPT ![s] = [status |-> "open", kind |-> "recheck", number |-> 0, content |-> live]]
  /\ UNCHANGED <<courseVars, revision, submitting, applying, toQuality, handled, faults>>

\* decideLoaded: one officer's conditional UPDATE wins.
Decide(s, action) ==
  /\ item[s].status = "open"
  /\ action \in IF item[s].kind = "revision" THEN {"approve", "coach", "reject"} ELSE {"approve", "coach", "flag"}
  /\ item' = [item EXCEPT ![s].status = action]
  /\ UNCHANGED <<courseVars, revision, submitting, applying, toQuality, handled, faults>>

-----------------------------------------------------------------------------
CourseNext ==
  \/ GateDirect \/ GateStaged \/ WriteRefused \/ \E c \in Changes : Write(c)
  \/ InstitutionReturns \/ Withdraw \/ Archive \/ CloseRevision \/ Restore \/ AdminRestore
  \/ \E s \in Submissions :
       \/ Submit(s) \/ InstitutionPasses(s) \/ Appeal(s)
       \/ \E action \in Actions : Reviewed(s, action)

RevisionNext ==
  \/ BeginSubmit \/ InstitutionReturnsRevision \/ WithdrawRevision \/ BeginDiscard \/ Discard \/ Apply \/ ApplyFails
  \/ \E s \in Submissions :
       \/ EndSubmit(s) \/ InstitutionPassesRevision(s)
       \/ Stale(s) \/ BeginApply(s) \/ Coach(s) \/ Reject(s)

QualityNext ==
  \/ \E i \in DOMAIN toQuality : Receive(i) \/ Park(i)
  \/ \E s \in Submissions : Recheck(s) \/ \E action \in Actions : Decide(s, action)

Next == CourseNext \/ RevisionNext \/ QualityNext

Spec == Init /\ [][Next]_vars

-----------------------------------------------------------------------------
(* Properties                                                              *)

\* What an update puts in front of learners is what an officer approved, all of
\* it and nothing else, however edits, withdrawals, resubmissions and late or
\* repeated decisions interleave (decidable, contentHash, applyStagedState).
AppliesApproved ==
  revision'.status = "applied" /\ revision.status # "applied" =>
    \E s \in Submissions : /\ item[s].status = "approve" /\ item[s].kind = "revision"
                           /\ item[s].number = revision.number
                           /\ live' = live \cup item[s].content
AppliedWasApproved == [][AppliesApproved]_vars

\* Nobody is locked out by a review that nobody does.  What put a course or an
\* update in review is what quality was last asked for: its event is under way,
\* or its item waits for a decision or for the decision to be acted on.  But an
\* event may be parked, and one sent earlier, retried too late, may close the
\* item; as long as no handler has failed neither happens (withdrawItems,
\* closeOpenItems, runOnce, inCourseOrder, returnUnapplied).
Awaits(s) == item[s].status = "open" \/ (item[s].status \in Actions /\ s \notin handled)
Newest(s) == \A r \in Used : item[r].kind = item[s].kind => r <= s
Attended(s) ==
  \/ item[s].status = "asked" /\ \E i \in DOMAIN toQuality : toQuality[i].item = s
  \/ Awaits(s)
  \/ item[s].status \in {"overtaken", "parked"}
InReviewIsQueued ==
  /\ status = "submitted" => \E s \in Submissions : item[s].kind = "course" /\ Newest(s) /\ Attended(s)
  /\ revision.status = "submitted" =>
       \E s \in Submissions : /\ item[s].kind = "revision" /\ Newest(s) /\ Attended(s)
                              /\ item[s].number = revision.number /\ item[s].content = revision.hash
  /\ faults = 0 => \A s \in Submissions : item[s].status \notin {"overtaken", "parked"}

\* course.service.ts, withdraw: "CourseReviewWithdrawn closes the QA item, so a
\* late decision on the withdrawn version is never applied".
Resubmitted(s) == \E r \in Used : r > s /\ item[r].kind = "course"
LateDecisionIgnored ==
  [][\A s \in Submissions \ handled, action \in Actions :
       Reviewed(s, action) /\ item[s].kind = "course" /\ Resubmitted(s) => UNCHANGED status]_vars
=============================================================================
