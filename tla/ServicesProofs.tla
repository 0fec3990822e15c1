--------------------------- MODULE ServicesProofs ---------------------------
(***************************************************************************)
(* Proofs of the properties of Services, for every value of its constants  *)
(* that its assumptions allow.  PartsProofs, PublishingProofs and          *)
(* FinancialProofs prove the parts; here the proofs are read on the        *)
(* registers: a behaviour of Services is one of the part it began as.      *)
(***************************************************************************)
EXTENDS Services, TLAPS

Parts == INSTANCE PartsProofs WITH
  locked <- v1, holder <- v2, working <- v3, outlived <- v4, recorded <- v5,
  live <- v1, grace <- v2, issued <- v3, cookie <- v4, tab <- v5, told <- v6,
  signedIn <- v7, mail <- v8, request <- v9, excused <- v10, out <- v11,
  queue <- v1, made <- v2, flushing <- v3, flight <- v4, server <- v5, dropped <- v6,
  failures <- v7, overlapped <- v8,
  videoRow <- v1, videoRequest <- v2, clock <- v3, replaced <- v4, videoRecorded <- v5,
  videoOverlapped <- v6, first <- v7, reached <- v8,
  payment <- v1, effects <- v2, publishing <- v3, outbox <- v4, bus <- v5, handler <- v6,
  row <- v7, faults <- v8, log <- v9, handled <- v10, ordered <- v11,
  kind <- v1, attempt <- v2, start <- v3, submit <- v4, review <- v5, announced <- v6,
  crossed <- v7,
  done <- v1, state <- v2, passed <- v3, certQueue <- v4, certHandler <- v5, cert <- v6,
  certIssued <- v7, certFaults <- v8,
  engine <- v1, record <- v2, uploadRow <- v3, multipart <- v4, parts <- v5, objects <- v6,
  attached <- v7, uploadRequest <- v8, uploadFaults <- v9, answered <- v10, uploadExcused <- v11

Published == INSTANCE PublishingProofs WITH
  Starts <- Beginnings, MaxFaults <- CourseFaults,
  status <- v1, institutional <- v2, live <- v3, staged <- v4, revision <- v5, edit <- v6,
  submitting <- v7, applying <- v8, closing <- v9, toQuality <- v10, item <- v11, handled <- v12,
  faults <- v13

Money == INSTANCE FinancialProofs WITH
  balance <- v1, credit <- v2, topped <- v3, spent <- v4, tx <- v5,
  kind <- v1, row <- v2, call <- v3, payment <- v4, effect <- v5, done <- v6,
  told <- v7, account <- v8, seat <- v9, assign <- v10, crossed <- v11

-----------------------------------------------------------------------------
(* Lease: JobLease                                                         *)

LEMMA LeaseAssumed == Parts!Lease!LeaseAssumption
BY LeaseValues DEF Lease!LeaseAssumption, Parts!Lease!LeaseAssumption

\* The part of the proofs is the part of the specification, definition by definition.
LEMMA LeaseIsPart ==
  /\ Lease!Init => Parts!Lease!Init
  /\ Lease!Next => Parts!Lease!Next
<1>1. Lease!Init => Parts!Lease!Init
  BY DEF
   Lease!Init, Parts!Lease!Init
<1>2. Lease!Next => Parts!Lease!Next
  BY DEF
   Lease!Available, Parts!Lease!Available, Lease!Take, Parts!Lease!Take, Lease!Start,
   Parts!Lease!Start, Lease!StartLost, Parts!Lease!StartLost, Lease!Expire, Parts!Lease!Expire,
   Lease!Releases, Parts!Lease!Releases, Lease!Leaves, Parts!Lease!Leaves, Lease!Finish,
   Parts!Lease!Finish, Lease!Die, Parts!Lease!Die, Lease!Next, Parts!Lease!Next
<1> QED BY <1>1, <1>2

\* A behaviour of Services never runs this part, or is one of it.
LEMMA LeaseRuns == Spec => []~(which = "Lease") \/ Parts!Lease!Spec
<1>1. Init /\ which = "Lease" => Parts!Lease!Init
  BY LeaseIsPart DEF Init, LeaseInit, BrowserInit, QueueInit, VideoInit, GrantsInit, CourseInit,
     ExamInit, CertificateInit, TransferInit, PurseInit, GiftInit
<1>2. [Next]_vars /\ which = "Lease" => (which = "Lease")' /\ [Parts!Lease!Next]_(Parts!Lease!vars)
  BY LeaseIsPart DEF Next, vars, Parts!Lease!vars, LeaseStep, BrowserStep, QueueStep, VideoStep, GrantsStep,
     CourseStep, ExamStep, CertificateStep, TransferStep, PurseStep, GiftStep
<1>3. [Next]_vars /\ ~(which = "Lease") => ~(which = "Lease")'
  BY DEF Next, vars, LeaseStep, BrowserStep, QueueStep, VideoStep, GrantsStep, CourseStep, ExamStep,
     CertificateStep, TransferStep, PurseStep, GiftStep
<1> QED BY <1>1, <1>2, <1>3, PTL DEF Spec, Parts!Lease!Spec

LEMMA LeaseTyped == Spec => [](which = "Lease" => Lease!TypeOK)
<1>1. Parts!Lease!TypeOK => Lease!TypeOK
  BY DEF
   Lease!TypeOK, Parts!Lease!TypeOK
<1> QED BY <1>1, LeaseRuns, LeaseAssumed, Parts!LeaseTypeCorrect, PTL

\* Two runs of a job overlap only when one outlives its lease (startJob, release).
THEOREM OneRun == Spec => []OneRunAtATime
<1>1. Parts!Lease!OneRunAtATime => OneRunAtATime
  BY DEF OneRunAtATime,
   Lease!OneRunAtATime, Parts!Lease!OneRunAtATime
<1>2. ~(which = "Lease") => OneRunAtATime
  BY DEF OneRunAtATime
<1> QED BY <1>1, <1>2, LeaseRuns, LeaseAssumed, Parts!NeverTwoRuns, PTL

-----------------------------------------------------------------------------
(* Browser: Sessions                                                       *)

LEMMA BrowserAssumed == Parts!Browser!SessionAssumption
BY BrowserValues DEF Browser!SessionAssumption, Parts!Browser!SessionAssumption

\* The part of the proofs is the part of the specification, definition by definition.
LEMMA BrowserIsPart ==
  /\ Browser!Init => Parts!Browser!Init
  /\ Browser!Next => Parts!Browser!Next
<1>1. Browser!Init => Parts!Browser!Init
  BY DEF
   Browser!NoRequest, Parts!Browser!NoRequest, Browser!Init, Parts!Browser!Init
<1>2. Browser!Next => Parts!Browser!Next
  BY DEF
   Browser!server, Parts!Browser!server, Browser!NoRequest, Parts!Browser!NoRequest, Browser!Fresh,
   Parts!Browser!Fresh, Browser!Broadcasts, Parts!Browser!Broadcasts, Browser!RoomInMail,
   Parts!Browser!RoomInMail, Browser!LockFree, Parts!Browser!LockFree, Browser!Login,
   Parts!Browser!Login, Browser!Want, Parts!Browser!Want, Browser!UseDelivered,
   Parts!Browser!UseDelivered, Browser!Send, Parts!Browser!Send, Browser!NoCookie,
   Parts!Browser!NoCookie, Browser!Arrives, Parts!Browser!Arrives, Browser!GivesUp,
   Parts!Browser!GivesUp, Browser!Read, Parts!Browser!Read, Browser!StartSignOut,
   Parts!Browser!StartSignOut, Browser!Reached, Parts!Browser!Reached, Browser!SignOut,
   Parts!Browser!SignOut, Browser!Get, Parts!Browser!Get, Browser!Answers, Parts!Browser!Answers,
   Browser!Pointed, Parts!Browser!Pointed, Browser!Rotate, Parts!Browser!Rotate,
   Browser!WithinGrace, Parts!Browser!WithinGrace, Browser!Lapse, Parts!Browser!Lapse, Browser!Next,
   Parts!Browser!Next
<1> QED BY <1>1, <1>2

\* A behaviour of Services never runs this part, or is one of it.
LEMMA BrowserRuns == Spec => []~(which = "Browser") \/ Parts!Browser!Spec
<1>1. Init /\ which = "Browser" => Parts!Browser!Init
  BY BrowserIsPart DEF Init, LeaseInit, BrowserInit, QueueInit, VideoInit, GrantsInit, CourseInit,
     ExamInit, CertificateInit, TransferInit, PurseInit, GiftInit
<1>2. [Next]_vars /\ which = "Browser" => (which = "Browser")' /\ [Parts!Browser!Next]_(Parts!Browser!vars)
  BY BrowserIsPart DEF Next, vars, Parts!Browser!vars, LeaseStep, BrowserStep, QueueStep, VideoStep, GrantsStep,
     CourseStep, ExamStep, CertificateStep, TransferStep, PurseStep, GiftStep
<1>3. [Next]_vars /\ ~(which = "Browser") => ~(which = "Browser")'
  BY DEF Next, vars, LeaseStep, BrowserStep, QueueStep, VideoStep, GrantsStep, CourseStep, ExamStep,
     CertificateStep, TransferStep, PurseStep, GiftStep
<1> QED BY <1>1, <1>2, <1>3, PTL DEF Spec, Parts!Browser!Spec

LEMMA BrowserTyped == Spec => [](which = "Browser" => Browser!TypeOK)
<1>1. Parts!Browser!TypeOK => Browser!TypeOK
  BY DEF
   Browser!NoRequest, Parts!Browser!NoRequest, Browser!RequestType, Parts!Browser!RequestType,
   Browser!TypeOK, Parts!Browser!TypeOK
<1> QED BY <1>1, BrowserRuns, BrowserAssumed, Parts!BrowserTypeCorrect, PTL

\* The browser's refresh cookie can be used, for any number of tabs, tokens and
\* requests (refresh, refreshWithinGrace, lockedRefresh).
THEOREM CookieKeepsWorking == Spec => []CookieWorks
<1>1. Parts!Browser!CookieWorks => CookieWorks
  BY DEF CookieWorks,
   Browser!CookieWorks, Parts!Browser!CookieWorks
<1>2. ~(which = "Browser") => CookieWorks
  BY DEF CookieWorks
<1> QED BY <1>1, <1>2, BrowserRuns, BrowserAssumed, Parts!SessionLasts, PTL

\* After a sign-out nothing at auth answers the cookie and no tab is signed in,
\* for any number of tabs and messages (logout, signOut).
THEOREM SignOutHolds == Spec => []SignedOutEverywhere
<1>1. Parts!Browser!SignedOutEverywhere => SignedOutEverywhere
  BY DEF SignedOutEverywhere,
   Browser!SignedOutEverywhere, Parts!Browser!SignedOutEverywhere
<1>2. ~(which = "Browser") => SignedOutEverywhere
  BY DEF SignedOutEverywhere
<1> QED BY <1>1, <1>2, BrowserRuns, BrowserAssumed, Parts!OutIsOut, PTL

-----------------------------------------------------------------------------
(* Queue: OfflineQueue                                                     *)

LEMMA QueueAssumed == Parts!Queue!QueueAssumption
BY QueueValues DEF Queue!QueueAssumption, Parts!Queue!QueueAssumption

\* The part of the proofs is the part of the specification, definition by definition.
LEMMA QueueIsPart ==
  /\ Queue!Init => Parts!Queue!Init
  /\ Queue!Next => Parts!Queue!Next
<1>1. Queue!Init => Parts!Queue!Init
  BY DEF
   Queue!NotFlushing, Parts!Queue!NotFlushing, Queue!Init, Parts!Queue!Init
<1>2. Queue!Next => Parts!Queue!Next
  BY DEF
   Queue!NotFlushing, Parts!Queue!NotFlushing, Queue!Newest, Parts!Queue!Newest, Queue!Queued,
   Parts!Queue!Queued, Queue!Without, Parts!Queue!Without, Queue!Forgets, Parts!Queue!Forgets,
   Queue!NextWrite, Parts!Queue!NextWrite, Queue!Sent, Parts!Queue!Sent, Queue!Enqueue,
   Parts!Queue!Enqueue, Queue!Flush, Parts!Queue!Flush, Queue!Request, Parts!Queue!Request,
   Queue!Rest, Parts!Queue!Rest, Queue!Done, Parts!Queue!Done, Queue!Answered, Parts!Queue!Answered,
   Queue!Refused, Parts!Queue!Refused, Queue!Stays, Parts!Queue!Stays, Queue!Offline,
   Parts!Queue!Offline, Queue!Flushed, Parts!Queue!Flushed, Queue!Next, Parts!Queue!Next,
   Queue!RemoveAt, Parts!Queue!RemoveAt, Queue!ToSet, Parts!Queue!ToSet
<1> QED BY <1>1, <1>2

\* A behaviour of Services never runs this part, or is one of it.
LEMMA QueueRuns == Spec => []~(which = "Queue") \/ Parts!Queue!Spec
<1>1. Init /\ which = "Queue" => Parts!Queue!Init
  BY QueueIsPart DEF Init, LeaseInit, BrowserInit, QueueInit, VideoInit, GrantsInit, CourseInit,
     ExamInit, CertificateInit, TransferInit, PurseInit, GiftInit
<1>2. [Next]_vars /\ which = "Queue" => (which = "Queue")' /\ [Parts!Queue!Next]_(Parts!Queue!vars)
  BY QueueIsPart DEF Next, vars, Parts!Queue!vars, LeaseStep, BrowserStep, QueueStep, VideoStep, GrantsStep,
     CourseStep, ExamStep, CertificateStep, TransferStep, PurseStep, GiftStep
<1>3. [Next]_vars /\ ~(which = "Queue") => ~(which = "Queue")'
  BY DEF Next, vars, LeaseStep, BrowserStep, QueueStep, VideoStep, GrantsStep, CourseStep, ExamStep,
     CertificateStep, TransferStep, PurseStep, GiftStep
<1> QED BY <1>1, <1>2, <1>3, PTL DEF Spec, Parts!Queue!Spec

LEMMA QueueTyped == Spec => [](which = "Queue" => Queue!TypeOK)
<1>1. Parts!Queue!TypeOK => Queue!TypeOK
  BY DEF
   Queue!OnePerPath, Parts!Queue!OnePerPath, Queue!TypeOK, Parts!Queue!TypeOK
<1> QED BY <1>1, QueueRuns, QueueAssumed, Parts!QueueTypeCorrect, PTL

\* Progress written offline is not lost, for any number of tabs and writes and any
\* size of the outbox (queuedApi, flushOutbox).
THEOREM ProgressIsKept == Spec => []NothingLost
<1>1. Parts!Queue!NothingLost => NothingLost
  BY DEF NothingLost,
   Queue!NothingLost, Parts!Queue!NothingLost, Queue!ToSet, Parts!Queue!ToSet
<1>2. ~(which = "Queue") => NothingLost
  BY DEF NothingLost
<1> QED BY <1>1, <1>2, QueueRuns, QueueAssumed, Parts!NothingIsLost, PTL

-----------------------------------------------------------------------------
(* Video: Watch                                                            *)

LEMMA VideoAssumed == Parts!Video!WatchAssumption
BY VideoValues DEF Video!WatchAssumption, Parts!Video!WatchAssumption

\* The part of the proofs is the part of the specification, definition by definition.
LEMMA VideoIsPart ==
  /\ Video!Init => Parts!Video!Init
  /\ Video!Next => Parts!Video!Next
<1>1. Video!Init => Parts!Video!Init
  BY DEF
   Video!Never, Parts!Video!Never, Video!NoRow, Parts!Video!NoRow, Video!Idle, Parts!Video!Idle,
   Video!Init, Parts!Video!Init
<1>2. Video!Next => Parts!Video!Next
  BY DEF
   Video!Goal, Parts!Video!Goal, Video!Never, Parts!Video!Never, Video!NoRow, Parts!Video!NoRow,
   Video!Idle, Parts!Video!Idle, Video!Beat, Parts!Video!Beat, Video!Complete, Parts!Video!Complete,
   Video!Higher, Parts!Video!Higher, Video!Start, Parts!Video!Start, Video!Raised,
   Parts!Video!Raised, Video!Read, Parts!Video!Read, Video!Save, Parts!Video!Save, Video!Watched,
   Parts!Video!Watched, Video!Check, Parts!Video!Check, Video!Record, Parts!Video!Record,
   Video!Reset, Parts!Video!Reset, Video!Replace, Parts!Video!Replace, Video!Tick, Parts!Video!Tick,
   Video!Next, Parts!Video!Next
<1> QED BY <1>1, <1>2

\* A behaviour of Services never runs this part, or is one of it.
LEMMA VideoRuns == Spec => []~(which = "Video") \/ Parts!Video!Spec
<1>1. Init /\ which = "Video" => Parts!Video!Init
  BY VideoIsPart DEF Init, LeaseInit, BrowserInit, QueueInit, VideoInit, GrantsInit, CourseInit,
     ExamInit, CertificateInit, TransferInit, PurseInit, GiftInit
<1>2. [Next]_vars /\ which = "Video" => (which = "Video")' /\ [Parts!Video!Next]_(Parts!Video!vars)
  BY VideoIsPart DEF Next, vars, Parts!Video!vars, LeaseStep, BrowserStep, QueueStep, VideoStep, GrantsStep,
     CourseStep, ExamStep, CertificateStep, TransferStep, PurseStep, GiftStep
<1>3. [Next]_vars /\ ~(which = "Video") => ~(which = "Video")'
  BY DEF Next, vars, LeaseStep, BrowserStep, QueueStep, VideoStep, GrantsStep, CourseStep, ExamStep,
     CertificateStep, TransferStep, PurseStep, GiftStep
<1> QED BY <1>1, <1>2, <1>3, PTL DEF Spec, Parts!Video!Spec

LEMMA VideoTyped == Spec => [](which = "Video" => Video!TypeOK)
<1>1. Parts!Video!TypeOK => Video!TypeOK
  BY DEF
   Video!Never, Parts!Video!Never, Video!RowType, Parts!Video!RowType, Video!RequestType,
   Parts!Video!RequestType, Video!TypeOK, Parts!Video!TypeOK
<1> QED BY <1>1, VideoRuns, VideoAssumed, Parts!VideoTypeCorrect, PTL

\* A lesson is recorded as watched when it has been watched (completeIfWatched).
THEOREM WatchingTakesTime == Spec => WatchedInTime
<1>1. [Parts!Video!RecordsWatched]_(Parts!Video!vars) /\ [Next]_vars => [which = "Video" => Video!RecordsWatched]_vars
  <2>1. Parts!Video!RecordsWatched => Video!RecordsWatched
    BY DEF
     Video!Never, Parts!Video!Never, Video!RecordsWatched, Parts!Video!RecordsWatched
  <2>2. [Next]_vars /\ which = "Video" /\ UNCHANGED Parts!Video!vars => UNCHANGED vars
    BY DEF Next, vars, Parts!Video!vars, Same9, Same10, Same11, Same12, Same13, LeaseStep, BrowserStep, QueueStep, VideoStep, GrantsStep,
       CourseStep, ExamStep, CertificateStep, TransferStep, PurseStep, GiftStep
  <2> QED BY <2>1, <2>2
<1>2. ~(which = "Video") => [which = "Video" => Video!RecordsWatched]_vars
  OBVIOUS
<1> QED BY <1>1, <1>2, VideoRuns, VideoAssumed, Parts!RecordedIsWatched, PTL DEF Spec, WatchedInTime, Parts!Video!WatchedInTime

-----------------------------------------------------------------------------
(* Grants: Access                                                          *)

LEMMA GrantsAssumed == Parts!Grants!AccessAssumption
BY GrantsValues DEF Grants!AccessAssumption, Parts!Grants!AccessAssumption

\* The part of the proofs is the part of the specification, definition by definition.
LEMMA GrantsIsPart ==
  /\ Grants!Init => Parts!Grants!Init
  /\ Grants!Next => Parts!Grants!Next
<1>1. Grants!Init => Parts!Grants!Init
  BY DEF
   Grants!Free, Parts!Grants!Free, Grants!Init, Parts!Grants!Init
<1>2. Grants!Next => Parts!Grants!Next
  BY DEF
   Grants!financial, Parts!Grants!financial, Grants!Granting, Parts!Grants!Granting,
   Grants!Revoking, Parts!Grants!Revoking, Grants!Free, Parts!Grants!Free, Grants!Fault,
   Parts!Grants!Fault, Grants!Confirm, Parts!Grants!Confirm, Grants!Pending, Parts!Grants!Pending,
   Grants!Reload, Parts!Grants!Reload, Grants!Publish, Parts!Grants!Publish, Grants!MarkedAnyway,
   Parts!Grants!MarkedAnyway, Grants!PublishFails, Parts!Grants!PublishFails, Grants!Kept,
   Parts!Grants!Kept, Grants!Refund, Parts!Grants!Refund, Grants!Relay, Parts!Grants!Relay,
   Grants!Position, Parts!Grants!Position, Grants!InTurn, Parts!Grants!InTurn, Grants!TakesEffect,
   Parts!Grants!TakesEffect, Grants!ReadGrant, Parts!Grants!ReadGrant, Grants!Saves,
   Parts!Grants!Saves, Grants!SaveGrant, Parts!Grants!SaveGrant, Grants!HandlerDies,
   Parts!Grants!HandlerDies, Grants!Revoke, Parts!Grants!Revoke, Grants!Next, Parts!Grants!Next,
   Grants!ToSet, Parts!Grants!ToSet
<1> QED BY <1>1, <1>2

\* A behaviour of Services never runs this part, or is one of it.
LEMMA GrantsRuns == Spec => []~(which = "Grants") \/ Parts!Grants!Spec
<1>1. Init /\ which = "Grants" => Parts!Grants!Init
  BY GrantsIsPart DEF Init, LeaseInit, BrowserInit, QueueInit, VideoInit, GrantsInit, CourseInit,
     ExamInit, CertificateInit, TransferInit, PurseInit, GiftInit
<1>2. [Next]_vars /\ which = "Grants" => (which = "Grants")' /\ [Parts!Grants!Next]_(Parts!Grants!vars)
  BY GrantsIsPart DEF Next, vars, Parts!Grants!vars, LeaseStep, BrowserStep, QueueStep, VideoStep, GrantsStep,
     CourseStep, ExamStep, CertificateStep, TransferStep, PurseStep, GiftStep
<1>3. [Next]_vars /\ ~(which = "Grants") => ~(which = "Grants")'
  BY DEF Next, vars, LeaseStep, BrowserStep, QueueStep, VideoStep, GrantsStep, CourseStep, ExamStep,
     CertificateStep, TransferStep, PurseStep, GiftStep
<1> QED BY <1>1, <1>2, <1>3, PTL DEF Spec, Parts!Grants!Spec

LEMMA GrantsTyped == Spec => [](which = "Grants" => Grants!TypeOK)
<1>1. Parts!Grants!TypeOK => Grants!TypeOK
  BY DEF
   Grants!Events, Parts!Grants!Events, Grants!Rows, Parts!Grants!Rows, Grants!TypeOK,
   Parts!Grants!TypeOK
<1> QED BY <1>1, GrantsRuns, GrantsAssumed, Parts!GrantsTypeCorrect, PTL

\* Access is what the payments say, for any number of payments, handlers and
\* redeliveries (approveWith, grantFromPayment, revokeFromRefund).
THEOREM AccessIsPaidFor == Spec => []AccessFollowsPayments
<1>1. Parts!Grants!AccessFollowsPayments => AccessFollowsPayments
  BY DEF AccessFollowsPayments,
   Grants!Free, Parts!Grants!Free, Grants!Quiet, Parts!Grants!Quiet, Grants!AccessFollowsPayments,
   Parts!Grants!AccessFollowsPayments, Grants!ToSet, Parts!Grants!ToSet
<1>2. ~(which = "Grants") => AccessFollowsPayments
  BY DEF AccessFollowsPayments
<1> QED BY <1>1, <1>2, GrantsRuns, GrantsAssumed, Parts!PaidHasAccess, PTL

-----------------------------------------------------------------------------
(* Course: Publishing                                                      *)

LEMMA CourseAssumed == Published!PublishingAssumption
BY CourseValues DEF Course!PublishingAssumption, Published!PublishingAssumption

\* The part of the proofs is the part of the specification, definition by definition.
LEMMA CourseIsPart ==
  /\ Course!Init => Published!Init
  /\ Course!Next => Published!Next
<1>1. Course!Init => Published!Init
  BY DEF
   Course!Nothing, Published!Nothing, Course!NotSubmitting, Published!NotSubmitting,
   Course!NotApplying, Published!NotApplying, Course!Init, Published!Init
<1>2. Course!Next => Published!Next
  BY DEF
   Course!courseVars, Published!courseVars, Course!InReview, Published!InReview,
   Course!OpenStatuses, Published!OpenStatuses, Course!Actions, Published!Actions,
   Course!NotSubmitting, Published!NotSubmitting, Course!NotApplying, Published!NotApplying,
   Course!Asks, Published!Asks, Course!Pulls, Published!Pulls, Course!Fault, Published!Fault, Course!RunsOnce, Published!RunsOnce,
   Course!Handles, Published!Handles, Course!RemoveAt, Published!RemoveAt, Course!Park, Published!Park,
   Course!Sends, Published!Sends, Course!Used, Published!Used, Course!Fresh, Published!Fresh,
   Course!Unlocked, Published!Unlocked, Course!OpenRevision, Published!OpenRevision,
   Course!NewRevision, Published!NewRevision, Course!RevisionBecomes, Published!RevisionBecomes,
   Course!ToDraft, Published!ToDraft, Course!GateDirect, Published!GateDirect, Course!GateStaged,
   Published!GateStaged, Course!Write, Published!Write, Course!WriteRefused, Published!WriteRefused,
   Course!Submit, Published!Submit, Course!InstitutionPasses, Published!InstitutionPasses,
   Course!InstitutionReturns, Published!InstitutionReturns, Course!Withdraw, Published!Withdraw,
   Course!Archive, Published!Archive, Course!CloseRevision, Published!CloseRevision, Course!Restore,
   Published!Restore, Course!AdminRestore, Published!AdminRestore, Course!Appeal, Published!Appeal,
   Course!Reviewed, Published!Reviewed, Course!BeginSubmit, Published!BeginSubmit, Course!EndSubmit,
   Published!EndSubmit, Course!InstitutionPassesRevision, Published!InstitutionPassesRevision,
   Course!InstitutionReturnsRevision, Published!InstitutionReturnsRevision, Course!WithdrawRevision,
   Published!WithdrawRevision, Course!BeginDiscard, Published!BeginDiscard, Course!Discard,
   Published!Discard, Course!Decidable, Published!Decidable, Course!ForRevision,
   Published!ForRevision, Course!Stale, Published!Stale, Course!BeginApply, Published!BeginApply,
   Course!AppliedContent, Published!AppliedContent, Course!Apply, Published!Apply, Course!Returned,
   Published!Returned, Course!ApplyFails, Published!ApplyFails, Course!Coach, Published!Coach,
   Course!Reject, Published!Reject, Course!ClosedBy, Published!ClosedBy, Course!Receive,
   Published!Receive, Course!Recheck, Published!Recheck, Course!Decide, Published!Decide,
   Course!CourseNext, Published!CourseNext, Course!RevisionNext, Published!RevisionNext,
   Course!QualityNext, Published!QualityNext, Course!Next, Published!Next
<1> QED BY <1>1, <1>2

\* A behaviour of Services never runs this part, or is one of it.
LEMMA CourseRuns == Spec => []~(which = "Course") \/ Published!Spec
<1>1. Init /\ which = "Course" => Published!Init
  BY CourseIsPart DEF Init, LeaseInit, BrowserInit, QueueInit, VideoInit, GrantsInit, CourseInit,
     ExamInit, CertificateInit, TransferInit, PurseInit, GiftInit
<1>2. [Next]_vars /\ which = "Course" => (which = "Course")' /\ [Published!Next]_(Published!vars)
  BY CourseIsPart DEF Next, vars, Published!vars, LeaseStep, BrowserStep, QueueStep, VideoStep, GrantsStep,
     CourseStep, ExamStep, CertificateStep, TransferStep, PurseStep, GiftStep
<1>3. [Next]_vars /\ ~(which = "Course") => ~(which = "Course")'
  BY DEF Next, vars, LeaseStep, BrowserStep, QueueStep, VideoStep, GrantsStep, CourseStep, ExamStep,
     CertificateStep, TransferStep, PurseStep, GiftStep
<1> QED BY <1>1, <1>2, <1>3, PTL DEF Spec, Published!Spec

LEMMA CourseTyped == Spec => [](which = "Course" => Course!TypeOK)
<1>1. Published!TypeOK => Course!TypeOK
  BY DEF
   Course!InReview, Published!InReview, Course!OpenStatuses, Published!OpenStatuses, Course!Actions,
   Published!Actions, Course!RevisionType, Published!RevisionType, Course!ItemType,
   Published!ItemType, Course!EventType, Published!EventType, Course!TypeOK, Published!TypeOK
<1> QED BY <1>1, CourseRuns, CourseAssumed, Published!TypeCorrect, PTL

\* What is in review waits for somebody, unless an event to quality was parked or
\* came too late (withdrawItems, closeOpenItems, returnUnapplied).
THEOREM ReviewHasAnItem == Spec => []InReviewIsQueued
<1>1. Published!InReviewIsQueued => InReviewIsQueued
  BY DEF InReviewIsQueued,
   Course!Actions, Published!Actions, Course!Awaits, Published!Awaits, Course!Used, Published!Used,
   Course!Newest, Published!Newest, Course!Attended, Published!Attended, Course!InReviewIsQueued, Published!InReviewIsQueued
<1>2. ~(which = "Course") => InReviewIsQueued
  BY DEF InReviewIsQueued
<1> QED BY <1>1, <1>2, CourseRuns, CourseAssumed, Published!ReviewIsQueued, PTL

\* What goes live was approved (apply, applyStagedState).
THEOREM ApprovalGoesLive == Spec => AppliedWasApproved
<1>1. [Published!AppliesApproved]_(Published!vars) /\ [Next]_vars => [which = "Course" => Course!AppliesApproved]_vars
  <2>1. Published!AppliesApproved => Course!AppliesApproved
    BY DEF
     Course!AppliesApproved, Published!AppliesApproved
  <2>2. [Next]_vars /\ which = "Course" /\ UNCHANGED Published!vars => UNCHANGED vars
    BY DEF Next, vars, Published!vars, LeaseStep, BrowserStep, QueueStep, VideoStep, GrantsStep,
       CourseStep, ExamStep, CertificateStep, TransferStep, PurseStep, GiftStep
  <2> QED BY <2>1, <2>2
<1>2. ~(which = "Course") => [which = "Course" => Course!AppliesApproved]_vars
  OBVIOUS
<1> QED BY <1>1, <1>2, CourseRuns, CourseAssumed, Published!LearnersSeeApproved, PTL DEF Spec, AppliedWasApproved, Published!AppliedWasApproved

-----------------------------------------------------------------------------
(* Exam: Attempts                                                          *)

LEMMA ExamAssumed == Parts!Exam!AttemptAssumption
BY ExamValues DEF Exam!AttemptAssumption, Parts!Exam!AttemptAssumption

\* The part of the proofs is the part of the specification, definition by definition.
LEMMA ExamIsPart ==
  /\ Exam!Init => Parts!Exam!Init
  /\ Exam!Next => Parts!Exam!Next
<1>1. Exam!Init => Parts!Exam!Init
  BY DEF
   Exam!NoRow, Parts!Exam!NoRow, Exam!StartIdle, Parts!Exam!StartIdle, Exam!SubmitIdle,
   Parts!Exam!SubmitIdle, Exam!ReviewIdle, Parts!Exam!ReviewIdle, Exam!Init, Parts!Exam!Init
<1>2. Exam!Next => Parts!Exam!Next
  BY DEF
   Exam!Results, Parts!Exam!Results, Exam!StartIdle, Parts!Exam!StartIdle, Exam!SubmitIdle,
   Parts!Exam!SubmitIdle, Exam!ReviewIdle, Parts!Exam!ReviewIdle, Exam!Finished,
   Parts!Exam!Finished, Exam!Open, Parts!Exam!Open, Exam!Passed, Parts!Exam!Passed, Exam!Newest,
   Parts!Exam!Newest, Exam!Closes, Parts!Exam!Closes, Exam!Expire, Parts!Exam!Expire, Exam!LockFree,
   Parts!Exam!LockFree, Exam!StartReads, Parts!Exam!StartReads, Exam!StartFinds,
   Parts!Exam!StartFinds, Exam!Ends, Parts!Exam!Ends, Exam!StartActs, Parts!Exam!StartActs,
   Exam!StartFails, Parts!Exam!StartFails, Exam!SubmitReads, Parts!Exam!SubmitReads, Exam!Stale,
   Parts!Exam!Stale, Exam!SubmitChecks, Parts!Exam!SubmitChecks, Exam!Claims, Parts!Exam!Claims,
   Exam!Graded, Parts!Exam!Graded, Exam!Grades, Parts!Exam!Grades, Exam!SubmitCommits,
   Parts!Exam!SubmitCommits, Exam!SubmitFails, Parts!Exam!SubmitFails, Exam!ReviewLoads,
   Parts!Exam!ReviewLoads, Exam!ReviewSaves, Parts!Exam!ReviewSaves, Exam!Next, Parts!Exam!Next,
   Exam!Cardinality, Parts!Exam!Cardinality, Exam!IsFiniteSet, Parts!Exam!IsFiniteSet
<1> QED BY <1>1, <1>2

\* A behaviour of Services never runs this part, or is one of it.
LEMMA ExamRuns == Spec => []~(which = "Exam") \/ Parts!Exam!Spec
<1>1. Init /\ which = "Exam" => Parts!Exam!Init
  BY ExamIsPart DEF Init, LeaseInit, BrowserInit, QueueInit, VideoInit, GrantsInit, CourseInit,
     ExamInit, CertificateInit, TransferInit, PurseInit, GiftInit
<1>2. [Next]_vars /\ which = "Exam" => (which = "Exam")' /\ [Parts!Exam!Next]_(Parts!Exam!vars)
  BY ExamIsPart DEF Next, vars, Parts!Exam!vars, LeaseStep, BrowserStep, QueueStep, VideoStep, GrantsStep,
     CourseStep, ExamStep, CertificateStep, TransferStep, PurseStep, GiftStep
<1>3. [Next]_vars /\ ~(which = "Exam") => ~(which = "Exam")'
  BY DEF Next, vars, LeaseStep, BrowserStep, QueueStep, VideoStep, GrantsStep, CourseStep, ExamStep,
     CertificateStep, TransferStep, PurseStep, GiftStep
<1> QED BY <1>1, <1>2, <1>3, PTL DEF Spec, Parts!Exam!Spec

LEMMA ExamTyped == Spec => [](which = "Exam" => Exam!TypeOK)
<1>1. Parts!Exam!TypeOK => Exam!TypeOK
  BY DEF
   Exam!Results, Parts!Exam!Results, Exam!AttemptType, Parts!Exam!AttemptType, Exam!TypeOK,
   Parts!Exam!TypeOK
<1> QED BY <1>1, ExamRuns, ExamAssumed, Parts!ExamTypeCorrect, PTL

\* No more attempts than max_attempts, for any number of requests at once
\* (startAttempt's lock).
THEOREM AttemptsStayBounded == Spec => []AttemptsBounded
<1>1. Parts!Exam!AttemptsBounded => AttemptsBounded
  BY DEF AttemptsBounded,
   Exam!Finished, Parts!Exam!Finished, Exam!Open, Parts!Exam!Open, Exam!AttemptsBounded,
   Parts!Exam!AttemptsBounded, Exam!Cardinality, Parts!Exam!Cardinality, Exam!IsFiniteSet,
   Parts!Exam!IsFiniteSet
<1>2. ~(which = "Exam") => AttemptsBounded
  BY DEF AttemptsBounded
<1> QED BY <1>1, <1>2, ExamRuns, ExamAssumed, Parts!BoundedAttempts, PTL

\* The result announced is the result stored (submitAttempt's claim).
THEOREM AnnouncementsHold == Spec => AnnouncedStands
<1>1. [Parts!Exam!ResultStands]_(Parts!Exam!vars) /\ [Next]_vars => [which = "Exam" => Exam!ResultStands]_vars
  <2>1. Parts!Exam!ResultStands => Exam!ResultStands
    BY DEF
     Exam!ResultStands, Parts!Exam!ResultStands
  <2>2. [Next]_vars /\ which = "Exam" /\ UNCHANGED Parts!Exam!vars => UNCHANGED vars
    BY DEF Next, vars, Parts!Exam!vars, Same8, Same9, Same10, Same11, Same12, Same13, LeaseStep, BrowserStep, QueueStep, VideoStep, GrantsStep,
       CourseStep, ExamStep, CertificateStep, TransferStep, PurseStep, GiftStep
  <2> QED BY <2>1, <2>2
<1>2. ~(which = "Exam") => [which = "Exam" => Exam!ResultStands]_vars
  OBVIOUS
<1> QED BY <1>1, <1>2, ExamRuns, ExamAssumed, Parts!ResultsStand, PTL DEF Spec, AnnouncedStands, Parts!Exam!AnnouncedStands

-----------------------------------------------------------------------------
(* Certificate: Certificates                                               *)

LEMMA CertificateAssumed == Parts!Certificate!CertificateAssumption
BY CertificateValues DEF Certificate!CertificateAssumption, Parts!Certificate!CertificateAssumption

\* The part of the proofs is the part of the specification, definition by definition.
LEMMA CertificateIsPart ==
  /\ Certificate!Init => Parts!Certificate!Init
  /\ Certificate!Next => Parts!Certificate!Next
<1>1. Certificate!Init => Parts!Certificate!Init
  BY DEF
   Certificate!Idle, Parts!Certificate!Idle, Certificate!Init, Parts!Certificate!Init
<1>2. Certificate!Next => Parts!Certificate!Next
  BY DEF
   Certificate!Events, Parts!Certificate!Events, Certificate!Idle, Parts!Certificate!Idle,
   Certificate!Required, Parts!Certificate!Required, Certificate!Complete,
   Parts!Certificate!Complete, Certificate!Pass, Parts!Certificate!Pass, Certificate!CloseRevision,
   Parts!Certificate!CloseRevision, Certificate!To, Parts!Certificate!To, Certificate!Acks,
   Parts!Certificate!Acks, Certificate!LessonsDone, Parts!Certificate!LessonsDone,
   Certificate!Deliver, Parts!Certificate!Deliver, Certificate!List, Parts!Certificate!List,
   Certificate!AllPassed, Parts!Certificate!AllPassed, Certificate!Check, Parts!Certificate!Check,
   Certificate!Find, Parts!Certificate!Find, Certificate!Inserts, Parts!Certificate!Inserts,
   Certificate!Insert, Parts!Certificate!Insert, Certificate!Publish, Parts!Certificate!Publish,
   Certificate!Fail, Parts!Certificate!Fail, Certificate!Next, Parts!Certificate!Next
<1> QED BY <1>1, <1>2

\* A behaviour of Services never runs this part, or is one of it.
LEMMA CertificateRuns == Spec => []~(which = "Certificate") \/ Parts!Certificate!Spec
<1>1. Init /\ which = "Certificate" => Parts!Certificate!Init
  BY CertificateIsPart DEF Init, LeaseInit, BrowserInit, QueueInit, VideoInit, GrantsInit, CourseInit,
     ExamInit, CertificateInit, TransferInit, PurseInit, GiftInit
<1>2. [Next]_vars /\ which = "Certificate" => (which = "Certificate")' /\ [Parts!Certificate!Next]_(Parts!Certificate!vars)
  BY CertificateIsPart DEF Next, vars, Parts!Certificate!vars, LeaseStep, BrowserStep, QueueStep, VideoStep, GrantsStep,
     CourseStep, ExamStep, CertificateStep, TransferStep, PurseStep, GiftStep
<1>3. [Next]_vars /\ ~(which = "Certificate") => ~(which = "Certificate")'
  BY DEF Next, vars, LeaseStep, BrowserStep, QueueStep, VideoStep, GrantsStep, CourseStep, ExamStep,
     CertificateStep, TransferStep, PurseStep, GiftStep
<1> QED BY <1>1, <1>2, <1>3, PTL DEF Spec, Parts!Certificate!Spec

LEMMA CertificateTyped == Spec => [](which = "Certificate" => Certificate!TypeOK)
<1>1. Parts!Certificate!TypeOK => Certificate!TypeOK
  BY DEF
   Certificate!Events, Parts!Certificate!Events, Certificate!TypeOK, Parts!Certificate!TypeOK
<1> QED BY <1>1, CertificateRuns, CertificateAssumed, Parts!CertificateTypeCorrect, PTL

\* A certificate that is due is issued, whichever of the two events comes last
\* and however often (the two subscriptions).
THEOREM CertificateComes == Spec => []CertificateIsIssued
<1>1. Parts!Certificate!CertificateIsIssued => CertificateIsIssued
  BY DEF CertificateIsIssued,
   Certificate!Required, Parts!Certificate!Required, Certificate!CertificateIsIssued,
   Parts!Certificate!CertificateIsIssued
<1>2. ~(which = "Certificate") => CertificateIsIssued
  BY DEF CertificateIsIssued
<1> QED BY <1>1, <1>2, CertificateRuns, CertificateAssumed, Parts!DueIsIssued, PTL

\* A certificate that is issued was due, and is announced once (issue).
THEOREM CertificateStands == Spec => []CertificateIsEarned
<1>1. Parts!Certificate!CertificateIsEarned => CertificateIsEarned
  BY DEF CertificateIsEarned,
   Certificate!CertificateIsEarned, Parts!Certificate!CertificateIsEarned
<1>2. ~(which = "Certificate") => CertificateIsEarned
  BY DEF CertificateIsEarned
<1> QED BY <1>1, <1>2, CertificateRuns, CertificateAssumed, Parts!IssuedIsEarned, PTL

-----------------------------------------------------------------------------
(* Transfer: Upload                                                        *)

LEMMA TransferAssumed == Parts!Transfer!UploadAssumption
BY TransferValues DEF Transfer!UploadAssumption, Parts!Transfer!UploadAssumption

\* The part of the proofs is the part of the specification, definition by definition.
LEMMA TransferIsPart ==
  /\ Transfer!Init => Parts!Transfer!Init
  /\ Transfer!Next => Parts!Transfer!Next
<1>1. Transfer!Init => Parts!Transfer!Init
  BY DEF
   Transfer!Off, Parts!Transfer!Off, Transfer!Idle, Parts!Transfer!Idle, Transfer!Init,
   Parts!Transfer!Init
<1>2. Transfer!Next => Parts!Transfer!Next
  BY DEF
   Transfer!storage, Parts!Transfer!storage, Transfer!Running, Parts!Transfer!Running, Transfer!Off,
   Parts!Transfer!Off, Transfer!Idle, Parts!Transfer!Idle, Transfer!Fault, Parts!Transfer!Fault,
   Transfer!Goes, Parts!Transfer!Goes, Transfer!Fresh, Parts!Transfer!Fresh, Transfer!Aborted,
   Parts!Transfer!Aborted, Transfer!Completing, Parts!Transfer!Completing, Transfer!InFlight,
   Parts!Transfer!InFlight, Transfer!Start, Parts!Transfer!Start, Transfer!Create,
   Parts!Transfer!Create, Transfer!AskStatus, Parts!Transfer!AskStatus, Transfer!Lost,
   Parts!Transfer!Lost, Transfer!Status, Parts!Transfer!Status, Transfer!Put, Parts!Transfer!Put,
   Transfer!Send, Parts!Transfer!Send, Transfer!Answer, Parts!Transfer!Answer, Transfer!Breaks,
   Parts!Transfer!Breaks, Transfer!Pause, Parts!Transfer!Pause, Transfer!Reload,
   Parts!Transfer!Reload, Transfer!Deletes, Parts!Transfer!Deletes, Transfer!MayCancel,
   Parts!Transfer!MayCancel, Transfer!Cancel, Parts!Transfer!Cancel, Transfer!Discard,
   Parts!Transfer!Discard, Transfer!At, Parts!Transfer!At, Transfer!To, Parts!Transfer!To,
   Transfer!Says, Parts!Transfer!Says, Transfer!CompleteReads, Parts!Transfer!CompleteReads,
   Transfer!CompleteLists, Parts!Transfer!CompleteLists, Transfer!Assemble, Parts!Transfer!Assemble,
   Transfer!Stored, Parts!Transfer!Stored, Transfer!Head, Parts!Transfer!Head, Transfer!Update,
   Parts!Transfer!Update, Transfer!Attach, Parts!Transfer!Attach, Transfer!RequestFails,
   Parts!Transfer!RequestFails, Transfer!AbortReads, Parts!Transfer!AbortReads,
   Transfer!AbortStorage, Parts!Transfer!AbortStorage, Transfer!TooLate, Parts!Transfer!TooLate,
   Transfer!AbortChecks, Parts!Transfer!AbortChecks, Transfer!Reap, Parts!Transfer!Reap,
   Transfer!Next, Parts!Transfer!Next
<1> QED BY <1>1, <1>2

\* A behaviour of Services never runs this part, or is one of it.
LEMMA TransferRuns == Spec => []~(which = "Transfer") \/ Parts!Transfer!Spec
<1>1. Init /\ which = "Transfer" => Parts!Transfer!Init
  BY TransferIsPart DEF Init, LeaseInit, BrowserInit, QueueInit, VideoInit, GrantsInit, CourseInit,
     ExamInit, CertificateInit, TransferInit, PurseInit, GiftInit
<1>2. [Next]_vars /\ which = "Transfer" => (which = "Transfer")' /\ [Parts!Transfer!Next]_(Parts!Transfer!vars)
  BY TransferIsPart DEF Next, vars, Parts!Transfer!vars, LeaseStep, BrowserStep, QueueStep, VideoStep, GrantsStep,
     CourseStep, ExamStep, CertificateStep, TransferStep, PurseStep, GiftStep
<1>3. [Next]_vars /\ ~(which = "Transfer") => ~(which = "Transfer")'
  BY DEF Next, vars, LeaseStep, BrowserStep, QueueStep, VideoStep, GrantsStep, CourseStep, ExamStep,
     CertificateStep, TransferStep, PurseStep, GiftStep
<1> QED BY <1>1, <1>2, <1>3, PTL DEF Spec, Parts!Transfer!Spec

LEMMA TransferTyped == Spec => [](which = "Transfer" => Transfer!TypeOK)
<1>1. Parts!Transfer!TypeOK => Transfer!TypeOK
  BY DEF
   Transfer!Running, Parts!Transfer!Running, Transfer!EngineType, Parts!Transfer!EngineType,
   Transfer!Steps, Parts!Transfer!Steps, Transfer!RequestType, Parts!Transfer!RequestType,
   Transfer!TypeOK, Parts!Transfer!TypeOK
<1> QED BY <1>1, TransferRuns, TransferAssumed, Parts!TransferTypeCorrect, PTL

\* A lesson's video is in the storage, for any number of requests in flight
\* (completeMultipart, upload.ts).
THEOREM VideoIsStored == Spec => []AttachedIsStored
<1>1. Parts!Transfer!AttachedIsStored => AttachedIsStored
  BY DEF AttachedIsStored,
   Transfer!AttachedIsStored, Parts!Transfer!AttachedIsStored
<1>2. ~(which = "Transfer") => AttachedIsStored
  BY DEF AttachedIsStored
<1> QED BY <1>1, <1>2, TransferRuns, TransferAssumed, Parts!LessonHasItsVideo, PTL

\* A cancelled upload does not come back (abort, cancel).
THEOREM CancelHolds == Spec => []CancelledStays
<1>1. Parts!Transfer!CancelledStays => CancelledStays
  BY DEF CancelledStays,
   Transfer!CancelledStays, Parts!Transfer!CancelledStays
<1>2. ~(which = "Transfer") => CancelledStays
  BY DEF CancelledStays
<1> QED BY <1>1, <1>2, TransferRuns, TransferAssumed, Parts!CancelledStaysAway, PTL

-----------------------------------------------------------------------------
(* Purse: Wallet                                                           *)

LEMMA PurseAssumed == Money!Purse!WalletAssumption
BY PurseValues DEF Purse!WalletAssumption, Money!Purse!WalletAssumption, Purse!IsFiniteSet, Money!Purse!IsFiniteSet

\* The part of the proofs is the part of the specification, definition by definition.
LEMMA PurseIsPart ==
  /\ Purse!Init => Money!Purse!Init
  /\ Purse!Next => Money!Purse!Next
<1>1. Purse!Init => Money!Purse!Init
  BY DEF
   Purse!NoTx, Money!Purse!NoTx, Purse!Init, Money!Purse!Init
<1>2. Purse!Next => Money!Purse!Next
  BY DEF
   Purse!NoTx, Money!Purse!NoTx, Purse!rows, Money!Purse!rows, Purse!Others, Money!Purse!Others,
   Purse!Earn, Money!Purse!Earn, Purse!Mature, Money!Purse!Mature, Purse!Begin, Money!Purse!Begin,
   Purse!Conflicts, Money!Purse!Conflicts, Purse!Insert, Money!Purse!Insert, Purse!Matured,
   Money!Purse!Matured, Purse!Unlocked, Money!Purse!Unlocked, Purse!AfterRelease,
   Money!Purse!AfterRelease, Purse!Release, Money!Purse!Release, Purse!WalletFree,
   Money!Purse!WalletFree, Purse!Written, Money!Purse!Written, Purse!Add, Money!Purse!Add,
   Purse!Credit, Money!Purse!Credit, Purse!Covers, Money!Purse!Covers, Purse!Debit,
   Money!Purse!Debit, Purse!Commit, Money!Purse!Commit, Purse!Rollback, Money!Purse!Rollback,
   Purse!Next, Money!Purse!Next, Purse!Cardinality, Money!Purse!Cardinality, Purse!IsFiniteSet,
   Money!Purse!IsFiniteSet
<1> QED BY <1>1, <1>2

\* A behaviour of Services never runs this part, or is one of it.
LEMMA PurseRuns == Spec => []~(which = "Purse") \/ Money!Purse!Spec
<1>1. Init /\ which = "Purse" => Money!Purse!Init
  BY PurseIsPart DEF Init, LeaseInit, BrowserInit, QueueInit, VideoInit, GrantsInit, CourseInit,
     ExamInit, CertificateInit, TransferInit, PurseInit, GiftInit
<1>2. [Next]_vars /\ which = "Purse" => (which = "Purse")' /\ [Money!Purse!Next]_(Money!Purse!vars)
  BY PurseIsPart DEF Next, vars, Money!Purse!vars, LeaseStep, BrowserStep, QueueStep, VideoStep, GrantsStep,
     CourseStep, ExamStep, CertificateStep, TransferStep, PurseStep, GiftStep
<1>3. [Next]_vars /\ ~(which = "Purse") => ~(which = "Purse")'
  BY DEF Next, vars, LeaseStep, BrowserStep, QueueStep, VideoStep, GrantsStep, CourseStep, ExamStep,
     CertificateStep, TransferStep, PurseStep, GiftStep
<1> QED BY <1>1, <1>2, <1>3, PTL DEF Spec, Money!Purse!Spec

LEMMA PurseTyped == Spec => [](which = "Purse" => Purse!TypeOK)
<1>1. Money!Purse!TypeOK => Purse!TypeOK
  BY DEF
   Purse!Steps, Money!Purse!Steps, Purse!TypeOK, Money!Purse!TypeOK
<1> QED BY <1>1, PurseRuns, PurseAssumed, Money!PurseTypeCorrect, PTL

\* The balance is the sum of the wallet's rows, for any number of overlapping
\* transactions (debitWith, releaseMatured).
THEOREM WalletBalances == Spec => []WalletAddsUp
<1>1. Money!Purse!WalletAddsUp => WalletAddsUp
  BY DEF WalletAddsUp,
   Purse!Released, Money!Purse!Released, Purse!WalletAddsUp, Money!Purse!WalletAddsUp,
   Purse!Cardinality, Money!Purse!Cardinality, Purse!IsFiniteSet, Money!Purse!IsFiniteSet
<1>2. ~(which = "Purse") => WalletAddsUp
  BY DEF WalletAddsUp
<1> QED BY <1>1, <1>2, PurseRuns, PurseAssumed, Money!BalanceAddsUp, PTL

-----------------------------------------------------------------------------
(* Gift: Sponsorship                                                       *)

LEMMA GiftAssumed == Money!Gift!SponsorshipAssumption
BY GiftValues DEF Gift!SponsorshipAssumption, Money!Gift!SponsorshipAssumption

\* The part of the proofs is the part of the specification, definition by definition.
LEMMA GiftIsPart ==
  /\ Gift!Init => Money!Gift!Init
  /\ Gift!Next => Money!Gift!Next
<1>1. Gift!Init => Money!Gift!Init
  BY DEF
   Gift!NoCall, Money!Gift!NoCall, Gift!NoEffect, Money!Gift!NoEffect, Gift!Init, Money!Gift!Init
<1>2. Gift!Next => Money!Gift!Next
  BY DEF
   Gift!request, Money!Gift!request, Gift!handling, Money!Gift!handling, Gift!bulk, Money!Gift!bulk,
   Gift!Open, Money!Gift!Open, Gift!Settled, Money!Gift!Settled, Gift!NoCall, Money!Gift!NoCall,
   Gift!NoEffect, Money!Gift!NoEffect, Gift!To, Money!Gift!To, Gift!Crosses, Money!Gift!Crosses,
   Gift!CreateGift, Money!Gift!CreateGift, Gift!OpenRequest, Money!Gift!OpenRequest,
   Gift!CancelRequest, Money!Gift!CancelRequest, Gift!TakeRequest, Money!Gift!TakeRequest,
   Gift!OpenSession, Money!Gift!OpenSession, Gift!Undoable, Money!Gift!Undoable, Gift!Undo,
   Money!Gift!Undo, Gift!Attachable, Money!Gift!Attachable, Gift!Attach, Money!Gift!Attach,
   Gift!Paid, Money!Gift!Paid, Gift!Goes, Money!Gift!Goes, Gift!ReadRow, Money!Gift!ReadRow,
   Gift!LookUp, Money!Gift!LookUp, Gift!SponsorOf, Money!Gift!SponsorOf, Gift!Settle,
   Money!Gift!Settle, Gift!Reread, Money!Gift!Reread, Gift!Publish, Money!Gift!Publish,
   Gift!EffectFails, Money!Gift!EffectFails, Gift!Register, Money!Gift!Register, Gift!Claim,
   Money!Gift!Claim, Gift!Taken, Money!Gift!Taken, Gift!AssignSeats, Money!Gift!AssignSeats,
   Gift!LookUpSeats, Money!Gift!LookUpSeats, Gift!Fits, Money!Gift!Fits, Gift!InsertSeats,
   Money!Gift!InsertSeats, Gift!Next, Money!Gift!Next, Gift!Cardinality, Money!Gift!Cardinality,
   Gift!IsFiniteSet, Money!Gift!IsFiniteSet
<1> QED BY <1>1, <1>2

\* A behaviour of Services never runs this part, or is one of it.
LEMMA GiftRuns == Spec => []~(which = "Gift") \/ Money!Gift!Spec
<1>1. Init /\ which = "Gift" => Money!Gift!Init
  BY GiftIsPart DEF Init, LeaseInit, BrowserInit, QueueInit, VideoInit, GrantsInit, CourseInit,
     ExamInit, CertificateInit, TransferInit, PurseInit, GiftInit
<1>2. [Next]_vars /\ which = "Gift" => (which = "Gift")' /\ [Money!Gift!Next]_(Money!Gift!vars)
  BY GiftIsPart DEF Next, vars, Money!Gift!vars, LeaseStep, BrowserStep, QueueStep, VideoStep, GrantsStep,
     CourseStep, ExamStep, CertificateStep, TransferStep, PurseStep, GiftStep
<1>3. [Next]_vars /\ ~(which = "Gift") => ~(which = "Gift")'
  BY DEF Next, vars, LeaseStep, BrowserStep, QueueStep, VideoStep, GrantsStep, CourseStep, ExamStep,
     CertificateStep, TransferStep, PurseStep, GiftStep
<1> QED BY <1>1, <1>2, <1>3, PTL DEF Spec, Money!Gift!Spec

LEMMA GiftTyped == Spec => [](which = "Gift" => Gift!TypeOK)
<1>1. Money!Gift!TypeOK => Gift!TypeOK
  BY DEF
   Gift!Open, Money!Gift!Open, Gift!Settled, Money!Gift!Settled, Gift!Statuses, Money!Gift!Statuses,
   Gift!TypeOK, Money!Gift!TypeOK
<1> QED BY <1>1, GiftRuns, GiftAssumed, Money!GiftTypeCorrect, PTL

\* The sponsor named is one who paid (onSponsoredPaymentConfirmed).
THEOREM SponsorIsAPayer == Spec => []SponsorPaid
<1>1. Money!Gift!SponsorPaid => SponsorPaid
  BY DEF SponsorPaid,
   Gift!Settled, Money!Gift!Settled, Gift!SponsorPaid, Money!Gift!SponsorPaid
<1>2. ~(which = "Gift") => SponsorPaid
  BY DEF SponsorPaid
<1> QED BY <1>1, <1>2, GiftRuns, GiftAssumed, Money!SponsorHasPaid, PTL

\* Who paid has sponsored, and the recipient knows (payRequest).
THEOREM PaymentSettles == Spec => []PaidIsSettled
<1>1. Money!Gift!PaidIsSettled => PaidIsSettled
  BY DEF PaidIsSettled,
   Gift!Settled, Money!Gift!Settled, Gift!PaidIsSettled, Money!Gift!PaidIsSettled
<1>2. ~(which = "Gift") => PaidIsSettled
  BY DEF PaidIsSettled
<1> QED BY <1>1, <1>2, GiftRuns, GiftAssumed, Money!PaidHasSponsored, PTL

\* No more seats are assigned than were bought (assignSeats).
THEOREM SeatsHold == Spec => []SeatsBounded
<1>1. Money!Gift!SeatsBounded => SeatsBounded
  BY DEF SeatsBounded,
   Gift!Taken, Money!Gift!Taken, Gift!SeatsBounded, Money!Gift!SeatsBounded, Gift!Cardinality,
   Money!Gift!Cardinality, Gift!IsFiniteSet, Money!Gift!IsFiniteSet
<1>2. ~(which = "Gift") => SeatsBounded
  BY DEF SeatsBounded
<1> QED BY <1>1, <1>2, GiftRuns, GiftAssumed, Money!SeatsNeverOversold, PTL

-----------------------------------------------------------------------------
\* Whichever part runs, its state keeps its type.
THEOREM TypeCorrect == Spec => []TypeOK
<1>1. (which = "Lease" => Lease!TypeOK) /\ (which = "Browser" => Browser!TypeOK) /\ (which = "Queue" => Queue!TypeOK) /\ (which = "Video" => Video!TypeOK)
      /\ (which = "Grants" => Grants!TypeOK) /\ (which = "Course" => Course!TypeOK) /\ (which = "Exam" => Exam!TypeOK) /\ (which = "Certificate" => Certificate!TypeOK)
      /\ (which = "Transfer" => Transfer!TypeOK) /\ (which = "Purse" => Purse!TypeOK) /\ (which = "Gift" => Gift!TypeOK)
      => TypeOK
  BY DEF TypeOK
<1> QED BY <1>1, LeaseTyped, BrowserTyped, QueueTyped, VideoTyped, GrantsTyped, CourseTyped,
       ExamTyped, CertificateTyped, TransferTyped, PurseTyped, GiftTyped, PTL
=============================================================================
