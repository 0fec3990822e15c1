------------------------------ MODULE Attempts ------------------------------
(***************************************************************************)
(* outcomes/assessment.service.ts: the attempts of one learner at one      *)
(* assessment.  A start is one transaction under an advisory lock and      *)
(* reads twice; a submit takes no lock, grades for as long as the AI       *)
(* takes, and claims the row with one UPDATE; project attempts are graded  *)
(* by reviewers.  Cooldown, proctoring and papers are left out.            *)
(***************************************************************************)
EXTENDS Naturals, FiniteSets

CONSTANTS
  Attempts,     \* rows in the order of created_at, 1 .. n
  Starts,       \* start requests at a time
  Submits,      \* submit requests at a time
  Reviewers,
  MaxAttempts,  \* config.max_attempts
  Kinds         \* of assessment

AttemptAssumption == Attempts \subseteq Nat \ {0} /\ MaxAttempts \in Nat \ {0}

VARIABLES
  kind,       \* assessments.type
  attempt,    \* assessment_attempts
  start,      \* start requests: the step, the finished rows and the open row read
  submit,     \* submit requests: the step, the row, and whether it was in time
  review,     \* reviewers: the row, what it said when loaded, the verdict
  announced,  \* the last AssessmentPassed or AssessmentFailed of each attempt
  crossed     \* a submit committed while a start was between its reads and its write (history)

vars == <<kind, attempt, start, submit, review, announced, crossed>>

Results == {"unknown", "yes", "no"}
AttemptType == [at : {"none", "open", "finished"}, passed : Results, late : BOOLEAN]
NoRow == [at |-> "none", passed |-> "unknown", late |-> FALSE]
StartIdle == [at |-> "idle", finished |-> {}, open |-> 0]
SubmitIdle == [at |-> "idle", of |-> 0, late |-> FALSE]
ReviewIdle == [of |-> 0, loaded |-> "unknown", verdict |-> "no"]

TypeOK ==
  /\ kind \in Kinds
  /\ attempt \in [Attempts -> AttemptType]
  /\ start \in [Starts -> [at : {"idle", "finished", "open"}, finished : SUBSET Attempts, open : Attempts \cup {0}]]
  /\ submit \in [Submits -> [at : {"idle", "read", "grade"}, of : Attempts \cup {0}, late : BOOLEAN]]
  /\ review \in [Reviewers -> [of : Attempts \cup {0}, loaded : Results, verdict : {"yes", "no"}]]
  /\ announced \in [Attempts -> Results]
  /\ crossed \in BOOLEAN

Init ==
  /\ kind \in Kinds
  /\ attempt = [a \in Attempts |-> NoRow]
  /\ start = [r \in Starts |-> StartIdle]
  /\ submit = [s \in Submits |-> SubmitIdle]
  /\ review = [v \in Reviewers |-> ReviewIdle]
  /\ announced = [a \in Attempts |-> "unknown"]
  /\ crossed = FALSE

Finished == {a \in Attempts : attempt[a].at = "finished"}
Open == {a \in Attempts : attempt[a].at = "open"}
Passed(S) == \E a \in S : attempt[a].passed = "yes"
Newest(S) == IF S = {} THEN 0 ELSE CHOOSE a \in S : \A b \in S : b <= a
Closes(a, passed) == attempt' = [attempt EXCEPT ![a].at = "finished", ![a].passed = passed]

\* The time limit of a quiz and its grace run out.
Expire(a) ==
  /\ kind = "quiz" /\ attempt[a].at = "open" /\ ~attempt[a].late
  /\ attempt' = [attempt EXCEPT ![a].late = TRUE]
  /\ UNCHANGED <<kind, start, submit, review, announced, crossed>>

-----------------------------------------------------------------------------
(* startAttempt                                                            *)

\* pg_advisory_xact_lock, then the finished rows.
MLockFree == TRUE
LockFree == \A r \in Starts : start[r].at = "idle"
StartReads(r) ==
  /\ start[r].at = "idle" /\ LockFree
  /\ start' = [start EXCEPT ![r] = [at |-> "finished", finished |-> Finished, open |-> 0]]
  /\ UNCHANGED <<kind, attempt, submit, review, announced, crossed>>

\* The newest open row, unless a finished one is as new.
StartFinds(r) ==
  /\ start[r].at = "finished"
  /\ start' = [start EXCEPT ![r].at = "open",
                            ![r].open = IF Newest(Open) > Newest(start[r].finished) THEN Newest(Open) ELSE 0]
  /\ UNCHANGED <<kind, attempt, submit, review, announced, crossed>>

\* Resume the open row; or close an expired quiz, refuse, or insert.
Ends(r) == start' = [start EXCEPT ![r] = StartIdle]
StartActs(r) ==
  LET open == start[r].open
      expires == open # 0 /\ attempt[open].late
      counted == start[r].finished \cup (IF expires THEN {open} ELSE {})
      closed == IF expires THEN [attempt EXCEPT ![open].at = "finished", ![open].passed = "no"] ELSE attempt
      new == Newest({a \in Attempts : attempt[a].at # "none"}) + 1
      starts == ~Passed(start[r].finished) /\ Cardinality(counted) < MaxAttempts IN
  /\ start[r].at = "open"
  /\ Ends(r)
  /\ \/ open # 0 /\ ~expires /\ UNCHANGED attempt
     \/ (open = 0 \/ expires) /\ ~starts /\ attempt' = closed
     \/ (open = 0 \/ expires) /\ starts /\ new \in Attempts /\ attempt' = [closed EXCEPT ![new].at = "open"]
  /\ UNCHANGED <<kind, submit, review, announced, crossed>>

StartFails(r) ==
  /\ start[r].at # "idle"
  /\ Ends(r)
  /\ UNCHANGED <<kind, attempt, submit, review, announced, crossed>>

-----------------------------------------------------------------------------
(* submitAttempt                                                           *)

SubmitReads(s, a) ==
  /\ submit[s].at = "idle" /\ attempt[a].at = "open"
  /\ submit' = [submit EXCEPT ![s] = [at |-> "read", of |-> a, late |-> FALSE]]
  /\ UNCHANGED <<kind, attempt, start, review, announced, crossed>>

\* A row is stale when one at least as new is finished, or any passed.  Then
\* the clock is read, and the answers are graded.
Stale(a) == Newest(Finished) >= a \/ Passed(Finished)
SubmitChecks(s) ==
  /\ submit[s].at = "read"
  /\ submit' = [submit EXCEPT ![s] = IF Stale(submit[s].of) THEN SubmitIdle
                                     ELSE [@ EXCEPT !.at = "grade", !.late = attempt[submit[s].of].late]]
  /\ UNCHANGED <<kind, attempt, start, review, announced, crossed>>

\* The UPDATE, conditional on the row being open, commits with its event.
MClaims(a) == TRUE
Claims(a) == attempt[a].at = "open"
\* A paper that came late, or that proctoring ended, is graded but not passed.
Graded(late) == IF late THEN {"no"} ELSE {"yes", "no"}
Grades(s) == IF kind = "project" THEN {"unknown"} ELSE Graded(submit[s].late)
SubmitCommits(s, passed) ==
  LET a == submit[s].of IN
  /\ submit[s].at = "grade" /\ passed \in Grades(s)
  /\ submit' = [submit EXCEPT ![s] = SubmitIdle]
  /\ \/ /\ Claims(a)
        /\ Closes(a, passed)
        /\ announced' = [announced EXCEPT ![a] = passed]
        /\ crossed' = (crossed \/ ~LockFree)
     \/ ~Claims(a) /\ UNCHANGED <<attempt, announced, crossed>>
  /\ UNCHANGED <<kind, start, review>>

SubmitFails(s) ==
  /\ submit[s].at # "idle"
  /\ submit' = [submit EXCEPT ![s] = SubmitIdle]
  /\ UNCHANGED <<kind, attempt, start, review, announced, crossed>>

-----------------------------------------------------------------------------
(* reviewAttempt, from the list of pendingProjects                         *)

ReviewLoads(v, a, verdict) ==
  /\ kind = "project" /\ review[v].of = 0 /\ attempt[a].at = "finished"
  /\ review' = [review EXCEPT ![v] = [of |-> a, loaded |-> attempt[a].passed, verdict |-> verdict]]
  /\ UNCHANGED <<kind, attempt, start, submit, announced, crossed>>

\* save() writes the columns that differ from what it has loaded.
ReviewSaves(v) ==
  LET a == review[v].of IN
  /\ a # 0
  /\ attempt' = [attempt EXCEPT ![a].passed = IF review[v].verdict = review[v].loaded THEN @ ELSE review[v].verdict]
  /\ announced' = [announced EXCEPT ![a] = review[v].verdict]
  /\ review' = [review EXCEPT ![v] = ReviewIdle]
  /\ UNCHANGED <<kind, start, submit, crossed>>

Next ==
  \/ \E a \in Attempts : Expire(a)
  \/ \E r \in Starts : StartReads(r) \/ StartFinds(r) \/ StartActs(r) \/ StartFails(r)
  \/ \E s \in Submits :
       \/ \E a \in Attempts : SubmitReads(s, a)
       \/ SubmitChecks(s) \/ SubmitFails(s) \/ \E passed \in Results : SubmitCommits(s, passed)
  \/ \E v \in Reviewers : ReviewSaves(v) \/ \E a \in Attempts, verdict \in {"yes", "no"} : ReviewLoads(v, a, verdict)

Spec == Init /\ [][Next]_vars

-----------------------------------------------------------------------------
(* Properties                                                              *)

\* "Restarting to fish for an easier paper is not possible": there is one open
\* attempt, never more than max_attempts, and none after a pass, however starts
\* and submits overlap; unless a submit commits between the two reads of a start
\* or before its write, which startAttempt does not keep out.
AttemptsBounded ==
  ~crossed => /\ Cardinality(Open) <= 1
              /\ Cardinality(Open \cup Finished) <= MaxAttempts
              /\ kind # "project" => \A a \in Finished : attempt[a].passed = "yes" => \A b \in Open \cup Finished : b <= a

\* A result that was announced stands, in the row and for the other services:
\* no second submit, start or expiry changes it (the claim of submitAttempt,
\* with its event in one transaction), with the same exception, and except for
\* projects, whose reviews are only the last one's.
ResultStands ==
  ~crossed' /\ kind # "project" =>
    \A a \in Attempts : announced[a] # "unknown" => announced'[a] = announced[a] /\ attempt'[a].passed = announced[a]
AnnouncedStands == [][ResultStands]_vars
=============================================================================
