------------------------------ MODULE Services ------------------------------
(***************************************************************************)
(* The parts that take no step together, in one specification: a behaviour *)
(* is one of the part which names, on the registers v1, v2 and so on.      *)
(***************************************************************************)
EXTENDS Naturals

CONSTANTS
  None,
  Runs,                                             \* Lease
  Tokens, MaxMail,                                  \* Browser
  Tabs,                                             \* Browser and Queue
  Writes, PathOf, MaxItems, MaxFailures,            \* Queue
  Percents, Need, MaxClock, MaxReplaced,            \* Video
  Payments, GrantFaults,                            \* Grants
  Changes, Submissions, MaxRevisions, MaxEvents,    \* Course
  Beginnings, CourseFaults,
  Attempts, Starts, Submits, Reviewers,             \* Exam
  MaxAttempts, Kinds,
  Assessments, Later,                               \* Certificate
  Handlers,                                         \* Grants and Certificate
  MaxFaults,                                        \* Certificate and Transfer
  Requests,                                         \* Browser, Video and Transfer
  Sessions,                                         \* Transfer and Purse
  Credits, Topups, Purchases, Price,                \* Purse
  Payers, Emails, Recipient, Seats                  \* Gift

VARIABLES which, v1, v2, v3, v4, v5, v6, v7, v8, v9, v10, v11, v12, v13

vars == <<which, v1, v2, v3, v4, v5, v6, v7, v8, v9, v10, v11, v12, v13>>

Lease == INSTANCE JobLease WITH
  NoRun <- None,
  locked <- v1, holder <- v2, working <- v3, outlived <- v4, recorded <- v5
Browser == INSTANCE Sessions WITH
  NoToken <- None,
  live <- v1, grace <- v2, issued <- v3, cookie <- v4, tab <- v5, told <- v6,
  signedIn <- v7, mail <- v8, request <- v9, excused <- v10, out <- v11
Queue == INSTANCE OfflineQueue WITH
  queue <- v1, made <- v2, flushing <- v3, flight <- v4, server <- v5, dropped <- v6,
  failures <- v7, overlapped <- v8
Video == INSTANCE Watch WITH
  row <- v1, request <- v2, clock <- v3, replaced <- v4, recorded <- v5, overlapped <- v6,
  first <- v7, reached <- v8
Grants == INSTANCE Access WITH
  NoEvent <- None, MaxFaults <- GrantFaults,
  payment <- v1, effects <- v2, publishing <- v3, outbox <- v4, bus <- v5, handler <- v6,
  row <- v7, faults <- v8, log <- v9, handled <- v10, ordered <- v11
Course == INSTANCE Publishing WITH
  Starts <- Beginnings, MaxFaults <- CourseFaults,
  status <- v1, institutional <- v2, live <- v3, staged <- v4, revision <- v5, edit <- v6,
  submitting <- v7, applying <- v8, closing <- v9, toQuality <- v10, item <- v11, handled <- v12,
  faults <- v13
Exam == INSTANCE Attempts WITH
  kind <- v1, attempt <- v2, start <- v3, submit <- v4, review <- v5, announced <- v6,
  crossed <- v7
Certificate == INSTANCE Certificates WITH
  done <- v1, state <- v2, passed <- v3, queue <- v4, handler <- v5, cert <- v6,
  issued <- v7, faults <- v8
Transfer == INSTANCE Upload WITH
  engine <- v1, record <- v2, row <- v3, multipart <- v4, parts <- v5, objects <- v6,
  attached <- v7, request <- v8, faults <- v9, answered <- v10, excused <- v11
Purse == INSTANCE Wallet WITH
  balance <- v1, credit <- v2, topped <- v3, spent <- v4, tx <- v5
Gift == INSTANCE Sponsorship WITH
  kind <- v1, row <- v2, call <- v3, payment <- v4, effect <- v5, done <- v6,
  told <- v7, account <- v8, seat <- v9, assign <- v10, crossed <- v11

ASSUME LeaseValues == Lease!LeaseAssumption
ASSUME BrowserValues == Browser!SessionAssumption
ASSUME QueueValues == Queue!QueueAssumption
ASSUME VideoValues == Video!WatchAssumption
ASSUME GrantsValues == Grants!AccessAssumption
ASSUME CourseValues == Course!PublishingAssumption
ASSUME ExamValues == Exam!AttemptAssumption
ASSUME CertificateValues == Certificate!CertificateAssumption
ASSUME TransferValues == Transfer!UploadAssumption
ASSUME PurseValues == Purse!WalletAssumption
ASSUME GiftValues == Gift!SponsorshipAssumption

\* The registers from the n-th on are not used, and stay as they are.
Off13 == v13 = None
Off12 == v12 = None /\ Off13
Off11 == v11 = None /\ Off12
Off10 == v10 = None /\ Off11
Off9 == v9 = None /\ Off10
Off8 == v8 = None /\ Off9
Off7 == v7 = None /\ Off8
Off6 == v6 = None /\ Off7
Same13 == UNCHANGED v13
Same12 == UNCHANGED v12 /\ Same13
Same11 == UNCHANGED v11 /\ Same12
Same10 == UNCHANGED v10 /\ Same11
Same9 == UNCHANGED v9 /\ Same10
Same8 == UNCHANGED v8 /\ Same9
Same7 == UNCHANGED v7 /\ Same8
Same6 == UNCHANGED v6 /\ Same7

LeaseInit == which = "Lease" /\ Lease!Init /\ Off6
LeaseStep == which = "Lease" /\ Lease!Next /\ Same6 /\ UNCHANGED which
BrowserInit == which = "Browser" /\ Browser!Init /\ Off12
BrowserStep == which = "Browser" /\ Browser!Next /\ Same12 /\ UNCHANGED which
QueueInit == which = "Queue" /\ Queue!Init /\ Off9
QueueStep == which = "Queue" /\ Queue!Next /\ Same9 /\ UNCHANGED which
VideoInit == which = "Video" /\ Video!Init /\ Off9
VideoStep == which = "Video" /\ Video!Next /\ Same9 /\ UNCHANGED which
GrantsInit == which = "Grants" /\ Grants!Init /\ Off12
GrantsStep == which = "Grants" /\ Grants!Next /\ Same12 /\ UNCHANGED which
CourseInit == which = "Course" /\ Course!Init
CourseStep == which = "Course" /\ Course!Next /\ UNCHANGED which
ExamInit == which = "Exam" /\ Exam!Init /\ Off8
ExamStep == which = "Exam" /\ Exam!Next /\ Same8 /\ UNCHANGED which
CertificateInit == which = "Certificate" /\ Certificate!Init /\ Off9
CertificateStep == which = "Certificate" /\ Certificate!Next /\ Same9 /\ UNCHANGED which
TransferInit == which = "Transfer" /\ Transfer!Init /\ Off12
TransferStep == which = "Transfer" /\ Transfer!Next /\ Same12 /\ UNCHANGED which
PurseInit == which = "Purse" /\ Purse!Init /\ Off6
PurseStep == which = "Purse" /\ Purse!Next /\ Same6 /\ UNCHANGED which
GiftInit == which = "Gift" /\ Gift!Init /\ Off12
GiftStep == which = "Gift" /\ Gift!Next /\ Same12 /\ UNCHANGED which

Init ==
  \/ LeaseInit \/ BrowserInit \/ QueueInit \/ VideoInit
  \/ GrantsInit \/ CourseInit \/ ExamInit \/ CertificateInit
  \/ TransferInit \/ PurseInit \/ GiftInit

Next ==
  \/ LeaseStep \/ BrowserStep \/ QueueStep \/ VideoStep
  \/ GrantsStep \/ CourseStep \/ ExamStep \/ CertificateStep
  \/ TransferStep \/ PurseStep \/ GiftStep

Spec == Init /\ [][Next]_vars

\* The properties of the parts, stated and explained in their modules.
TypeOK ==
  /\ which = "Lease" => Lease!TypeOK
  /\ which = "Browser" => Browser!TypeOK
  /\ which = "Queue" => Queue!TypeOK
  /\ which = "Video" => Video!TypeOK
  /\ which = "Grants" => Grants!TypeOK
  /\ which = "Course" => Course!TypeOK
  /\ which = "Exam" => Exam!TypeOK
  /\ which = "Certificate" => Certificate!TypeOK
  /\ which = "Transfer" => Transfer!TypeOK
  /\ which = "Purse" => Purse!TypeOK
  /\ which = "Gift" => Gift!TypeOK

\* Two runs of a job overlap only when one outlives its lease (startJob, release).
OneRunAtATime == which = "Lease" => Lease!OneRunAtATime

\* The browser's refresh cookie can be used (refresh, api.ts).
CookieWorks == which = "Browser" => Browser!CookieWorks

\* After a sign-out no tab is signed in and no token works (logout, signOut).
SignedOutEverywhere == which = "Browser" => Browser!SignedOutEverywhere

\* Progress written offline is not lost (queuedApi, flushOutbox).
NothingLost == which = "Queue" => Queue!NothingLost

\* Access is what the payments say (approveWith, grantFromPayment).
AccessFollowsPayments == which = "Grants" => Grants!AccessFollowsPayments

\* What is in review waits for somebody, unless an event to quality was parked or
\* came too late (withdrawItems, closeOpenItems, returnUnapplied).
InReviewIsQueued == which = "Course" => Course!InReviewIsQueued

\* No more attempts than max_attempts (startAttempt's lock).
AttemptsBounded == which = "Exam" => Exam!AttemptsBounded

\* A certificate that is due is issued (the two subscriptions).
CertificateIsIssued == which = "Certificate" => Certificate!CertificateIsIssued

\* A certificate that is issued was due, and is announced once (issue).
CertificateIsEarned == which = "Certificate" => Certificate!CertificateIsEarned

\* A lesson's video is in the storage (completeMultipart, upload.ts).
AttachedIsStored == which = "Transfer" => Transfer!AttachedIsStored

\* A cancelled upload does not come back (abort, cancel).
CancelledStays == which = "Transfer" => Transfer!CancelledStays

\* The balance is the sum of the wallet's rows (debitWith, releaseMatured).
WalletAddsUp == which = "Purse" => Purse!WalletAddsUp

\* The sponsor named is one who paid (onSponsoredPaymentConfirmed).
SponsorPaid == which = "Gift" => Gift!SponsorPaid

\* Who paid has sponsored, and the recipient knows (payRequest).
PaidIsSettled == which = "Gift" => Gift!PaidIsSettled

\* No more seats are assigned than were bought (assignSeats).
SeatsBounded == which = "Gift" => Gift!SeatsBounded

\* The result announced is the result stored (submitAttempt's claim).
AnnouncedStands == [][which = "Exam" => Exam!ResultStands]_vars

\* A lesson is watched when it has been watched (completeIfWatched).
WatchedInTime == [][which = "Video" => Video!RecordsWatched]_vars

\* What goes live was approved (apply, applyStagedState).
AppliedWasApproved == [][which = "Course" => Course!AppliesApproved]_vars
=============================================================================
