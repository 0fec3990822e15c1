----------------------------- MODULE Certificates -----------------------------
(***************************************************************************)
(* outcomes/certificate.service.ts: one enrollment.  A certificate is due  *)
(* when the lessons are done and every required assessment is passed; two  *)
(* services know a half each, and whichever event comes last must issue    *)
(* it.  Both events leave through outboxes (Delivery) with the change they *)
(* announce, and can come again.  A revision may add a required            *)
(* assessment; passing is Attempts'.                                       *)
(***************************************************************************)
EXTENDS Naturals

CONSTANTS
  Assessments,
  Later,      \* those among them that are pending until a revision is applied
  Handlers,   \* deliveries at work at once
  None,
  MaxFaults   \* bound: lost acks, failed lookups, crashes

CertificateAssumption == Later \subseteq Assessments /\ None \notin Assessments /\ MaxFaults \in Nat

VARIABLES
  done,       \* enrollments.completed_at is set
  state,      \* assessments.state of the required assessments
  passed,     \* assessments with a passed attempt
  queue,      \* CourseCompleted, as None, and AssessmentPassed events not acked
  handler,    \* each delivery: the step, the event, the required assessments it listed
  cert,       \* the row of certificates
  issued,     \* CertificateIssued events published, 0 to 2
  faults

vars == <<done, state, passed, queue, handler, cert, issued, faults>>

Events == Assessments \cup {None}
Idle == [at |-> "idle", event |-> None, listed |-> {}]

TypeOK ==
  /\ done \in BOOLEAN /\ cert \in BOOLEAN
  /\ state \in [Assessments -> {"pending", "live", "deleted"}]
  /\ passed \subseteq Assessments
  /\ queue \subseteq Events
  /\ handler \in [Handlers -> [at : {"idle", "list", "check", "find", "insert", "publish"}, event : Events, listed : SUBSET Assessments]]
  /\ issued \in 0 .. 2
  /\ faults \in 0 .. MaxFaults

Init ==
  /\ done = FALSE /\ cert = FALSE
  /\ state = [a \in Assessments |-> IF a \in Later THEN "pending" ELSE "live"]
  /\ passed = {} /\ queue = {}
  /\ handler = [h \in Handlers |-> Idle]
  /\ issued = 0 /\ faults = 0

Required == {a \in Assessments : state[a] = "live"}

\* Enrollment completes the course; outcomes grades an attempt.
Complete ==
  /\ ~done
  /\ done' = TRUE
  /\ queue' = queue \cup {None}
  /\ UNCHANGED <<state, passed, handler, cert, issued, faults>>

Pass(a) ==
  /\ a \in Required \ passed
  /\ passed' = passed \cup {a}
  /\ queue' = queue \cup {a}
  /\ UNCHANGED <<done, state, handler, cert, issued, faults>>

\* onRevisionClosed: the reviewed assessments, if still pending, go live or are
\* deleted.
CloseRevision(S, to) ==
  /\ S # {} /\ \A a \in S : state[a] = "pending"
  /\ state' = [a \in Assessments |-> IF a \in S THEN to ELSE state[a]]
  /\ UNCHANGED <<done, passed, queue, handler, cert, issued, faults>>

-----------------------------------------------------------------------------
(* The two handlers                                                        *)

To(h, step) == handler' = [handler EXCEPT ![h].at = step]
Acks(h) ==
  /\ handler' = [handler EXCEPT ![h] = Idle]
  /\ \/ queue' = queue \ {handler[h].event} /\ UNCHANGED faults
     \/ faults < MaxFaults /\ faults' = faults + 1 /\ UNCHANGED queue

\* AssessmentPassed asks enrollment whether the lessons are done.  An event comes
\* again while it is being handled when the channel under it has closed.
MLessonsDone(e) == TRUE
MOnlyPasses(e) == e # None /\ done
LessonsDone(e) == e = None \/ done
Deliver(h, e) ==
  /\ handler[h].at = "idle" /\ e \in queue
  /\ \/ (\A g \in Handlers : handler[g].at = "idle" \/ handler[g].event # e) /\ UNCHANGED faults
     \/ faults < MaxFaults /\ faults' = faults + 1
  /\ IF LessonsDone(e)
       THEN /\ handler' = [handler EXCEPT ![h] = [at |-> "list", event |-> e, listed |-> {}]]
            /\ UNCHANGED queue
       ELSE queue' = queue \ {e} /\ UNCHANGED handler
  /\ UNCHANGED <<done, state, passed, cert, issued>>

\* allRequiredAssessmentsPassed: the list, then the attempts.
List(h) ==
  /\ handler[h].at = "list"
  /\ handler' = [handler EXCEPT ![h].at = "check", ![h].listed = Required]
  /\ UNCHANGED <<done, state, passed, queue, cert, issued, faults>>

AllPassed(h) == handler[h].listed \subseteq passed
Check(h) ==
  /\ handler[h].at = "check"
  /\ \/ AllPassed(h) /\ To(h, "find") /\ UNCHANGED <<queue, faults>>
     \/ ~AllPassed(h) /\ Acks(h)
  /\ UNCHANGED <<done, state, passed, cert, issued>>

\* issue: is there one already; names, PDF and storage; the insert, and the
\* unique enrollment_id.
Find(h) ==
  /\ handler[h].at = "find"
  /\ \/ cert /\ Acks(h)
     \/ ~cert /\ To(h, "insert") /\ UNCHANGED <<queue, faults>>
  /\ UNCHANGED <<done, state, passed, cert, issued>>

Inserts == ~cert
Insert(h) ==
  /\ handler[h].at = "insert"
  /\ \/ Inserts /\ cert' = TRUE /\ To(h, "publish") /\ UNCHANGED <<queue, faults>>
     \/ ~Inserts /\ Acks(h) /\ UNCHANGED cert
  /\ UNCHANGED <<done, state, passed, issued>>

\* publish() may not reach the broker.
Publish(h) ==
  /\ handler[h].at = "publish"
  /\ Acks(h)
  /\ issued' \in {issued, issued + 1}
  /\ UNCHANGED <<done, state, passed, cert>>

\* A lookup throws or the process dies; the event comes again.
Fail(h) ==
  /\ handler[h].at # "idle" /\ faults < MaxFaults
  /\ faults' = faults + 1
  /\ handler' = [handler EXCEPT ![h] = Idle]
  /\ UNCHANGED <<done, state, passed, queue, cert, issued>>

Next ==
  \/ Complete
  \/ \E a \in Assessments : Pass(a)
  \/ \E S \in SUBSET Assessments, to \in {"live", "deleted"} : CloseRevision(S, to)
  \/ \E h \in Handlers :
       \/ \E e \in Events : Deliver(h, e)
       \/ List(h) \/ Check(h) \/ Find(h) \/ Insert(h) \/ Publish(h) \/ Fail(h)

Spec == Init /\ [][Next]_vars

-----------------------------------------------------------------------------
(* Properties                                                              *)

\* Whoever has done the lessons and passed what was required from the start and
\* what a revision added has a certificate once the events are handled, in
\* whatever order and on whatever handlers they were (decision 9b, and the two
\* subscriptions of onModuleInit).
CertificateIsIssued ==
  done /\ Required \subseteq passed /\ queue = {} /\ (\A h \in Handlers : handler[h].at = "idle") => cert

\* A certificate is of a learner who has done the lessons and passed all that
\* was required before any revision, and is announced at most once.
CertificateIsEarned ==
  /\ cert => done /\ Assessments \ Later \subseteq passed
  /\ issued <= 1
=============================================================================
