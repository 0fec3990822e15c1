SPECIFICATION Spec
CONSTANTS
  None = None
  Runs = {1, 2, 3}
  Tokens = {1, 2}
  MaxMail = 2
  Tabs = {1, 2}
  Writes = {1, 2, 3, 4}
  PathOf <- Paths
  MaxItems = 2
  MaxFailures = 2
  Percents = {40, 95}
  Need = 2
  MaxClock = 3
  MaxReplaced = 1
  Payments = {1, 2}
  GrantFaults = 1
  Changes = {1, 2}
  Submissions = {1, 2}
  MaxRevisions = 1
  MaxEvents = 2
  Beginnings <- Starting
  CourseFaults = 1
  Attempts = {1, 2, 3}
  Starts = {1, 2}
  Submits = {1, 2}
  Reviewers = {2}
  MaxAttempts = 2
  Kinds = {"quiz", "viva", "project"}
  Assessments = {1, 2}
  Later = {2}
  Handlers = {1, 2}
  MaxFaults = 2
  Requests = {1, 2}
  Sessions = {1, 2}
  Credits = {3, 4}
  Topups = {5}
  Purchases = {1, 2}
  Price = 2
  Payers = {1, 2}
  Emails = {1, 2}
  Recipient = 1
  Seats = 1
INVARIANTS
  TypeOK
  OneRunAtATime
  CookieWorks
  SignedOutEverywhere
  NothingLost
  AccessFollowsPayments
  InReviewIsQueued
  AttemptsBounded
  CertificateIsIssued
  CertificateIsEarned
  AttachedIsStored
  CancelledStays
  WalletAddsUp
  SponsorPaid
  PaidIsSettled
  SeatsBounded
PROPERTIES
  AnnouncedStands
  WatchedInTime
  AppliedWasApproved
CHECK_DEADLOCK FALSE
