------------------------------ MODULE JobLease ------------------------------
(***************************************************************************)
(* common/jobs/job-lease.ts: one row per scheduled job keeps the runs of   *)
(* two instances, or of a cron and the scheduler's call, from overlapping. *)
(* A run that dies keeps its lease until it expires, and a run may outlive *)
(* its lease.                                                              *)
(***************************************************************************)
CONSTANTS
  Runs,   \* runs of the job; each takes a holder id nobody has
  NoRun

LeaseAssumption == NoRun \notin Runs

VARIABLES
  locked,    \* locked_until: null, in the future, or past
  holder,    \* the run that took the lease last
  working,   \* runs inside fn
  outlived,  \* working runs whose lease expired under them
  recorded   \* the run whose result is in the row

vars == <<locked, holder, working, outlived, recorded>>

TypeOK ==
  /\ locked \in {"free", "held", "expired"}
  /\ holder \in Runs \cup {NoRun}
  /\ working \subseteq Runs
  /\ outlived \subseteq working
  /\ recorded \in Runs \cup {NoRun}

Init ==
  /\ locked = "free"
  /\ holder = NoRun
  /\ working = {}
  /\ outlived = {}
  /\ recorded = NoRun

MAvailable == TRUE
MDieAvailable == locked = "free"
Available == locked # "held"

\* startJob: the upsert, one statement.
Take(r) ==
  /\ Available
  /\ r \notin working /\ r # holder /\ r # recorded
  /\ locked' = "held"
  /\ holder' = r
  /\ UNCHANGED <<outlived, recorded>>

Start(r) == Take(r) /\ working' = working \cup {r}

\* The answer of the upsert is lost: the row is held and nobody works.
StartLost(r) == Take(r) /\ UNCHANGED working

Expire ==
  /\ locked = "held"
  /\ locked' = "expired"
  /\ outlived' = outlived \cup ({holder} \cap working)
  /\ UNCHANGED <<holder, working, recorded>>

Releases(r) == holder = r

Leaves(r) ==
  /\ r \in working
  /\ working' = working \ {r}
  /\ outlived' = outlived \ {r}

\* fn returned or threw; the conditional UPDATE.
Finish(r) ==
  /\ Leaves(r)
  /\ \/ /\ Releases(r)
        /\ locked' = "free"
        /\ recorded' = r
     \/ /\ ~Releases(r)
        /\ UNCHANGED <<locked, recorded>>
  /\ UNCHANGED holder

\* The process dies, or the release fails.
Die(r) == Leaves(r) /\ UNCHANGED <<locked, holder, recorded>>

Next ==
  \/ Expire
  \/ \E r \in Runs : Start(r) \/ StartLost(r) \/ Finish(r) \/ Die(r)

Spec == Init /\ [][Next]_vars

\* Crons tick and some tick gets through, a run ends, a lease expires.
Fairness ==
  /\ SF_vars(\E r \in Runs : Start(r))
  /\ WF_vars(Expire)
  /\ \A r \in Runs : WF_vars(Finish(r))

-----------------------------------------------------------------------------
(* Properties                                                              *)

\* No two runs work at once, unless one has worked for longer than its lease
\* (startJob's single upsert, and the holder condition of the release).
OneRunAtATime == \A r, s \in working \ outlived : r = s

\* Whatever runs crash and whatever answers are lost, the job goes on being
\* run, each time under a lease of its own (decision 5: a crashed run's lease
\* simply expires).
Running == locked = "held" /\ holder \in working
JobKeepsRunning == []<>Running
=============================================================================
