---------------------------- MODULE PartsProofs ----------------------------
(***************************************************************************)
(* Proofs about the parts of the system that take no step together: job    *)
(* leases, sessions, the offline queue, watching a lesson, access,         *)
(* attempts, certificates and uploads, each for any values of its          *)
(* constants that its module assumes.  One section per part, in the order  *)
(* of the instances; a name used by several modules carries the name of    *)
(* the instance.                                                           *)
(***************************************************************************)
EXTENDS Integers, Sequences, FiniteSetTheorems, SequenceTheorems, TLAPS

CONSTANTS
  None,
  Runs,
  Tokens, MaxMail,
  Tabs, Writes, PathOf, MaxItems, MaxFailures,
  Percents, Need, MaxClock, MaxReplaced,
  Payments, GrantFaults,
  Attempts, Starts, Submits, Reviewers, MaxAttempts, Kinds,
  Assessments, Later, Handlers, MaxFaults, Requests, Sessions

VARIABLES
  locked, holder, working, outlived, recorded,
  live, grace, issued, cookie, tab, told, signedIn, mail, request, excused, out,
  queue, made, flushing, flight, server, dropped, failures, overlapped,
  videoRow, videoRequest, clock, replaced, videoRecorded, videoOverlapped, first, reached,
  payment, effects, publishing, outbox, bus, handler, row, faults, log, handled, ordered,
  kind, attempt, start, submit, review, announced, crossed,
  done, state, passed, certQueue, certHandler, cert, certIssued, certFaults,
  engine, record, uploadRow, multipart, parts, objects, attached, uploadRequest, uploadFaults,
  answered, uploadExcused

Lease == INSTANCE JobLease WITH NoRun <- None
Browser == INSTANCE Sessions WITH NoToken <- None
Queue == INSTANCE OfflineQueue
Video == INSTANCE Watch WITH
  row <- videoRow, request <- videoRequest, recorded <- videoRecorded, overlapped <- videoOverlapped
Grants == INSTANCE Access WITH NoEvent <- None, MaxFaults <- GrantFaults
Exam == INSTANCE Attempts
Certificate == INSTANCE Certificates WITH
  issued <- certIssued, queue <- certQueue, handler <- certHandler, faults <- certFaults
Transfer == INSTANCE Upload WITH
  row <- uploadRow, request <- uploadRequest, faults <- uploadFaults, excused <- uploadExcused


-----------------------------------------------------------------------------
(* Job leases: JobLease                                                  *)

\* Whoever works within its lease is the holder of a lease that is held: this
\* is what startJob's upsert and the condition of the release keep up.
HolderWorks ==
  \A r \in working \ outlived : locked = "held" /\ holder = r

LeaseInv == Lease!TypeOK /\ HolderWorks

LEMMA LeaseInitInv ==
  ASSUME Lease!Init PROVE LeaseInv
BY DEF Lease!Init, LeaseInv, Lease!TypeOK, HolderWorks

LEMMA LeaseNextInv ==
  ASSUME LeaseInv, [Lease!Next]_Lease!vars PROVE LeaseInv'
<1> USE DEF LeaseInv, Lease!TypeOK, HolderWorks
<1>1. CASE Lease!Expire
  \* The one run that worked within the lease is the holder, and outlives it.
  <2>1. \A r \in working : r \in outlived'
    BY <1>1 DEF Lease!Expire
  <2> QED BY <1>1, <2>1 DEF Lease!Expire
<1>2. ASSUME NEW r \in Runs, Lease!Start(r) PROVE LeaseInv'
  \* The lease was not held, so everybody at work had outlived it.
  <2>1. working \ outlived = {}
    BY <1>2 DEF Lease!Start, Lease!Take, Lease!Available
  <2>2. working' \ outlived' = {r}
    BY <1>2, <2>1 DEF Lease!Start, Lease!Take
  <2> QED BY <1>2, <2>2 DEF Lease!Start, Lease!Take
<1>3. ASSUME NEW r \in Runs, Lease!StartLost(r) PROVE LeaseInv'
  <2>1. working \ outlived = {}
    BY <1>3 DEF Lease!StartLost, Lease!Take, Lease!Available
  <2> QED BY <1>3, <2>1 DEF Lease!StartLost, Lease!Take
<1>4. ASSUME NEW r \in Runs, Lease!Finish(r) PROVE LeaseInv'
  \* Only the holder releases; nobody else works within the lease.
  <2>1. working' \ outlived' \subseteq (working \ outlived) \ {r}
    BY <1>4 DEF Lease!Finish, Lease!Leaves
  <2>2. CASE holder = r
    BY <1>4, <2>1, <2>2 DEF Lease!Finish, Lease!Leaves, Lease!Releases
  <2>3. CASE holder # r
    BY <1>4, <2>1, <2>3 DEF Lease!Finish, Lease!Leaves, Lease!Releases
  <2> QED BY <2>2, <2>3
<1>5. ASSUME NEW r \in Runs, Lease!Die(r) PROVE LeaseInv'
  BY <1>5 DEF Lease!Die, Lease!Leaves
<1>6. CASE UNCHANGED Lease!vars
  BY <1>6 DEF Lease!vars
<1> QED BY <1>1, <1>2, <1>3, <1>4, <1>5, <1>6 DEF Lease!Next

\* The lease and the runs keep their types.
THEOREM LeaseTypeCorrect == Lease!Spec => []Lease!TypeOK
<1>1. LeaseInv => Lease!TypeOK
  BY DEF LeaseInv
<1> QED BY <1>1, LeaseInitInv, LeaseNextInv, PTL DEF Lease!Spec

\* Two runs work at once only when one has worked for longer than its lease,
\* however many processes tick, crash and lose answers (startJob's upsert, the
\* holder condition of the release).
THEOREM NeverTwoRuns == Lease!Spec => []Lease!OneRunAtATime
<1>1. LeaseInv => Lease!OneRunAtATime
  BY DEF LeaseInv, HolderWorks, Lease!OneRunAtATime
<1> QED BY <1>1, LeaseInitInv, LeaseNextInv, PTL DEF Lease!Spec

-----------------------------------------------------------------------------
(* Sessions: Sessions                                                    *)

Holds(t) == tab[t] \in {"refresh", "leave"}
Waiting(r) == request[r].waits
Reach(t) == t \in live \/ grace[t] \in live
Asked(c) == \E r \in Requests : request[r].of = c

\* The lock of lockedRefresh: one tab is under it, and a request whose answer is
\* waited for has a tab there.
OneHolder == \A t, u \in Tabs : Holds(t) /\ Holds(u) => t = u
HasCookie == \A t \in Tabs : tab[t] = "refresh" => cookie # None
OneWaits == \A r, s \in Requests : Waiting(r) /\ Waiting(s) => r = s
WaitsOn(r) == Waiting(r) => \E t \in Tabs : tab[t] = "refresh"
Lock == OneHolder /\ HasCookie /\ OneWaits /\ \A r \in Requests : WaitsOn(r)

\* The pointers of the 30 seconds: they go from a token that was rotated, from the
\* cookie and from the token of a request that is waited for to one nobody has
\* sent yet, and such a request answers a live token nobody has sent yet.
Known(r) == request[r].of \in issued \cup {None} /\ request[r].next \in issued \cup {None}
Old(t) == grace[t] # None => t \in issued \ live /\ grace[t] # t
Followed(c) == c # None /\ grace[c] # None => ~Asked(grace[c])
Unasked == Followed(cookie) /\ \A r \in Requests : Waiting(r) => Followed(request[r].of)
Fine(r) == Waiting(r) /\ request[r].at = "answer" /\ request[r].next # None =>
             request[r].next \in live /\ ~Asked(request[r].next)
Pointers == (\A r \in Requests : Known(r) /\ Fine(r)) /\ (\A t \in Tokens : Old(t)) /\ Unasked

\* The strengthening of CookieWorks: as long as the session was not ended, there
\* is a cookie that auth would answer.
Session == ~excused => cookie # None /\ Reach(cookie)

\* After a sign-out no request can make the cookie good again, no answer on its
\* way carries a token or will, and a tab that is signed in has a logout to read, last.
LastIsLogout(m) == m # <<>> /\ m[Len(m)] = "logout"
CookieDead == cookie # None => /\ cookie \notin live /\ grace[cookie] = None
                                  /\ \A r \in Requests : request[r].at = "rotate" => request[r].of # cookie
NothingComes == \A r \in Requests : Waiting(r) => request[r].next = None /\ request[r].of = cookie
Leaves(t) == LastIsLogout(mail[t]) \/ (mail[t] = <<>> /\ t \notin signedIn)
StaysOut == out => CookieDead /\ NothingComes /\ \A t \in Tabs : Leaves(t)

BrowserInv == Browser!TypeOK /\ Lock /\ Pointers /\ Session /\ StaysOut

Registers == [Requests -> Browser!RequestType \cup {Browser!NoRequest}]
Mails == [Tabs -> Seq({"session", "logout"})]

-----------------------------------------------------------------------------
LEMMA Last ==
  ASSUME NEW s \in Seq({"session", "logout"})
  PROVE  /\ LastIsLogout(Append(s, "logout")) /\ \A m \in {"session", "logout"} : Append(s, m) \in Seq({"session", "logout"})
         /\ s # <<>> => /\ Tail(s) \in Seq({"session", "logout"})
                        /\ LastIsLogout(s) => LastIsLogout(Tail(s)) \/ (Tail(s) = <<>> /\ Head(s) = "logout")
<1>1. Append(s, "logout") # <<>> /\ Len(Append(s, "logout")) = Len(s) + 1 /\ Append(s, "logout")[Len(s) + 1] = "logout"
      /\ \A m \in {"session", "logout"} : Append(s, m) \in Seq({"session", "logout"})
  BY AppendProperties
<1>2. ASSUME s # <<>>
      PROVE  Tail(s) \in Seq({"session", "logout"}) /\ (LastIsLogout(s) => LastIsLogout(Tail(s)) \/ (Tail(s) = <<>> /\ Head(s) = "logout"))
  <2>1. /\ Tail(s) \in Seq({"session", "logout"}) /\ Len(Tail(s)) = Len(s) - 1
        /\ \A i \in 1 .. Len(Tail(s)) : Tail(s)[i] = s[i + 1]
        /\ Head(s) = s[1] /\ Len(s) \in Nat \ {0}
    BY <1>2, HeadTailProperties, EmptySeq
  <2>2. CASE Len(s) = 1
    <3>1. Len(Tail(s)) = 0
      BY <2>1, <2>2
    <3>2. Tail(s) = <<>>
      BY <2>1, <3>1, EmptySeq, Zenon
    <3> QED BY <2>1, <2>2, <3>2 DEF LastIsLogout
  <2>3. CASE Len(s) # 1
    <3>1. Len(Tail(s)) \in 1 .. Len(Tail(s)) /\ Len(Tail(s)) + 1 = Len(s) /\ Len(Tail(s)) # 0
      BY <2>1, <2>3
    <3>2. Tail(s)[Len(Tail(s))] = s[Len(s)]
      BY <2>1, <3>1
    <3> QED BY <2>1, <3>1, <3>2, EmptySeq DEF LastIsLogout
  <2> QED BY <2>2, <2>3, <2>1
<1> QED BY <1>1, <1>2 DEF LastIsLogout

LEMMA BrowserInitInv == ASSUME Browser!SessionAssumption, Browser!Init PROVE BrowserInv
<1>1. Browser!TypeOK
  <2>1. <<>> \in Seq({"session", "logout"})
    OBVIOUS
  <2>2. mail \in [Tabs -> Seq({"session", "logout"})]
    BY <2>1 DEF Browser!Init
  <2> QED BY <2>2, Zenon DEF Browser!TypeOK, Browser!Init
<1>2. Lock /\ Pointers
  BY DEF Browser!Init, Lock, Pointers, OneHolder, Holds, HasCookie, OneWaits, Waiting, WaitsOn, Browser!NoRequest, Known, Old, Unasked, Followed, Fine
<1>3. Session /\ StaysOut
  BY DEF Browser!Init, Session, StaysOut
<1> QED BY <1>1, <1>2, <1>3 DEF BrowserInv

\* What the type says of a request.
LEMMA RequestOf ==
  ASSUME BrowserInv, NEW r \in Requests
  PROVE  /\ request[r] \in Browser!RequestType \cup {Browser!NoRequest}
         /\ request[r].at # "none" => request[r] \in Browser!RequestType
         /\ request[r].waits \in BOOLEAN
         /\ request[r].waits => request[r] # Browser!NoRequest
         /\ Known(r) /\ Fine(r) /\ WaitsOn(r)
<1>1. request[r] \in Browser!RequestType \cup {Browser!NoRequest}
  BY DEF BrowserInv, Browser!TypeOK
<1>2. Known(r) /\ Fine(r) /\ WaitsOn(r)
  BY DEF BrowserInv, Pointers, Lock
<1>3. CASE request[r] = Browser!NoRequest
  <2>1. request[r].at = "none" /\ request[r].waits = FALSE
    BY <1>3 DEF Browser!NoRequest
  <2> QED BY <1>1, <1>2, <2>1, Zenon
<1>4. CASE request[r] \in Browser!RequestType
  <2>1. request[r].waits \in BOOLEAN
    BY <1>4 DEF Browser!RequestType
  <2> QED BY <1>2, <1>4, <2>1 DEF Browser!NoRequest
<1> QED BY <1>1, <1>3, <1>4

\* Steps that leave the tokens, the cookie and the requests alone.
LEMMA QuietTokens ==
  ASSUME BrowserInv, UNCHANGED <<live, grace, issued, cookie, request>>
  PROVE  Pointers' /\ (CookieDead => CookieDead') /\ (NothingComes => NothingComes')
         /\ (UNCHANGED excused => Session')
<1>1. Pointers'
  BY DEF BrowserInv, Pointers, Known, Old, Unasked, Followed, Fine, Waiting, Asked
<1>2. CookieDead => CookieDead'
  BY DEF CookieDead
<1>3. NothingComes => NothingComes'
  BY DEF NothingComes, Waiting
<1> QED BY <1>1, <1>2, <1>3 DEF BrowserInv, Session, Reach

\* Steps in which a tab takes or lets go of the lock.
LEMMA LockOf ==
  ASSUME BrowserInv, NEW t \in Tabs, UNCHANGED <<cookie, request>>,
         NEW s, tab' = [tab EXCEPT ![t] = s], s # "refresh", s = "leave" => Browser!LockFree, tab[t] # "refresh" \/ ~\E r \in Requests : Waiting(r)
  PROVE  Lock'
<1>1. tab \in [Tabs -> {"idle", "wait", "refresh", "leave"}]
  BY DEF BrowserInv, Browser!TypeOK
<1>2. /\ tab'[t] = s /\ \A u \in Tabs : u # t => tab'[u] = tab[u]
  BY <1>1
<1>3. OneHolder'
  BY <1>1, <1>2 DEF BrowserInv, Lock, OneHolder, Holds, Browser!LockFree
<1>4. HasCookie'
  BY <1>1, <1>2 DEF BrowserInv, Lock, HasCookie
<1>5. OneWaits'
  BY DEF BrowserInv, Lock, OneWaits, Waiting
<1>6. ASSUME NEW r \in Requests PROVE WaitsOn(r)'
  BY <1>2 DEF BrowserInv, Lock, WaitsOn, Waiting
<1> QED BY <1>3, <1>4, <1>5, <1>6 DEF Lock

-----------------------------------------------------------------------------
\* The tabs.

LEMMA LoginInv == ASSUME Browser!SessionAssumption, BrowserInv, NEW t \in Tabs, NEW n \in Tokens, Browser!Login(t, n) PROVE BrowserInv'
<1>1. /\ n \notin issued
      /\ live' = live \cup {n} /\ issued' = issued \cup {n} /\ cookie' = n
      /\ signedIn' = signedIn \cup {t} /\ mail' = [u \in Tabs |-> IF u = t THEN mail[u] ELSE Append(mail[u], "session")]
      /\ excused' = FALSE /\ out' = FALSE /\ UNCHANGED <<grace, tab, told, request>>
  BY DEF Browser!Login, Browser!Fresh, Browser!Broadcasts
<1>2. /\ live \subseteq issued /\ issued \subseteq Tokens /\ grace \in [Tokens -> issued \cup {None}]
      /\ mail \in Mails /\ n # None
  BY DEF BrowserInv, Browser!TypeOK, Browser!SessionAssumption, Mails
<1>3. Browser!TypeOK'
  <2>1. mail' \in Mails
    BY <1>1, <1>2, Last DEF Mails
  <2>2. grace' \in [Tokens -> issued' \cup {None}]
    BY <1>1, <1>2
  <2> QED BY <1>1, <1>2, <2>1, <2>2, Zenon DEF BrowserInv, Browser!TypeOK, Mails
<1>4. Lock'
  BY <1>1, <1>2 DEF BrowserInv, Lock, OneHolder, Holds, HasCookie, OneWaits, WaitsOn, Waiting
<1>5. Pointers'
  <2>1. \A r \in Requests : Known(r)' /\ Fine(r)'
    BY <1>1 DEF BrowserInv, Pointers, Known, Fine, Waiting, Asked
  <2>2. \A u \in Tokens : Old(u)'
    BY <1>1, <1>2 DEF BrowserInv, Pointers, Old
  <2>3. grace[n] = None
    BY <1>1 DEF BrowserInv, Pointers, Old
  <2>4. Unasked'
    BY <1>1, <2>3 DEF BrowserInv, Pointers, Unasked, Followed, Waiting, Asked
  <2> QED BY <2>1, <2>2, <2>4 DEF Pointers
<1>6. Session' /\ StaysOut'
  BY <1>1, <1>2 DEF Session, Reach, StaysOut
<1> QED BY <1>3, <1>4, <1>5, <1>6 DEF BrowserInv

LEMMA WantInv == ASSUME BrowserInv, NEW t \in Tabs, Browser!Want(t) PROVE BrowserInv'
<1>1. /\ tab[t] = "idle" /\ tab' = [tab EXCEPT ![t] = "wait"] /\ told' = told \ {t}
      /\ UNCHANGED <<live, grace, issued, request, cookie, signedIn, mail, excused, out>>
  BY DEF Browser!Want, Browser!server
<1>2. Browser!TypeOK'
  BY <1>1 DEF BrowserInv, Browser!TypeOK
<1>3. Lock'
  BY <1>1, LockOf, Zenon
<1>4. Pointers' /\ Session' /\ StaysOut'
  <2>1. StaysOut'
    BY <1>1, QuietTokens DEF BrowserInv, StaysOut, Leaves
  <2> QED BY <1>1, <2>1, QuietTokens
<1> QED BY <1>2, <1>3, <1>4 DEF BrowserInv

LEMMA UseDeliveredInv == ASSUME BrowserInv, NEW t \in Tabs, Browser!UseDelivered(t) PROVE BrowserInv'
<1>1. /\ tab[t] = "wait" /\ tab' = [tab EXCEPT ![t] = "idle"]
      /\ UNCHANGED <<live, grace, issued, request, cookie, told, signedIn, mail, excused, out>>
  BY DEF Browser!UseDelivered, Browser!server
<1>2. Browser!TypeOK'
  BY <1>1 DEF BrowserInv, Browser!TypeOK
<1>3. Lock'
  BY <1>1, LockOf, Zenon
<1>4. Pointers' /\ Session' /\ StaysOut'
  <2>1. StaysOut'
    BY <1>1, QuietTokens DEF BrowserInv, StaysOut, Leaves
  <2> QED BY <1>1, <2>1, QuietTokens
<1> QED BY <1>2, <1>3, <1>4 DEF BrowserInv

LEMMA NoCookieInv == ASSUME BrowserInv, NEW t \in Tabs, Browser!NoCookie(t) PROVE BrowserInv'
<1>1. /\ tab[t] = "wait" /\ tab' = [tab EXCEPT ![t] = "idle"] /\ signedIn' = signedIn \ {t}
      /\ UNCHANGED <<live, grace, issued, request, cookie, told, mail, excused, out>>
  BY DEF Browser!NoCookie, Browser!server
<1>2. Browser!TypeOK'
  BY <1>1 DEF BrowserInv, Browser!TypeOK
<1>3. Lock'
  BY <1>1, LockOf, Zenon
<1>4. Pointers' /\ Session' /\ StaysOut'
  <2>1. StaysOut'
    BY <1>1, QuietTokens DEF BrowserInv, StaysOut, Leaves
  <2> QED BY <1>1, <2>1, QuietTokens
<1> QED BY <1>2, <1>3, <1>4 DEF BrowserInv

LEMMA StartSignOutInv == ASSUME BrowserInv, NEW t \in Tabs, Browser!StartSignOut(t) PROVE BrowserInv'
<1>1. /\ tab[t] = "idle" /\ Browser!LockFree /\ tab' = [tab EXCEPT ![t] = "leave"]
      /\ UNCHANGED <<live, grace, issued, request, cookie, told, signedIn, mail, excused, out>>
  BY DEF Browser!StartSignOut, Browser!server
<1>2. Browser!TypeOK'
  BY <1>1 DEF BrowserInv, Browser!TypeOK
<1>3. Lock'
  BY <1>1, LockOf, Zenon
<1>4. Pointers' /\ Session' /\ StaysOut'
  <2>1. StaysOut'
    BY <1>1, QuietTokens DEF BrowserInv, StaysOut, Leaves
  <2> QED BY <1>1, <2>1, QuietTokens
<1> QED BY <1>2, <1>3, <1>4 DEF BrowserInv

LEMMA ReadInv == ASSUME BrowserInv, NEW t \in Tabs, Browser!Read(t) PROVE BrowserInv'
<1>1. /\ mail[t] # <<>> /\ mail' = [mail EXCEPT ![t] = Tail(mail[t])]
      /\ signedIn' = IF Head(mail[t]) = "session" THEN signedIn \cup {t} ELSE signedIn \ {t}
      /\ told' = IF Head(mail[t]) = "session" /\ tab[t] = "wait" THEN told \cup {t} ELSE told
      /\ UNCHANGED <<live, grace, issued, request, cookie, tab, excused, out>>
  <2>1. mail \in Mails
    BY DEF BrowserInv, Browser!TypeOK, Mails
  <2> QED BY <2>1 DEF Browser!Read, Browser!server, Mails
<1>2. mail \in Mails /\ mail[t] \in Seq({"session", "logout"})
  BY DEF BrowserInv, Browser!TypeOK, Mails
<1>3. mail' \in Mails
  BY <1>1, <1>2, Last DEF Mails
<1>4. Browser!TypeOK'
  BY <1>1, <1>3 DEF BrowserInv, Browser!TypeOK, Mails
<1>5. Lock'
  BY <1>1 DEF BrowserInv, Lock, OneHolder, Holds, HasCookie, OneWaits, WaitsOn, Waiting
<1>6. StaysOut'
  <2>1. ASSUME out, NEW u \in Tabs PROVE Leaves(u)'
    <3>1. Leaves(u)
      BY <2>1 DEF BrowserInv, StaysOut
    <3>2. CASE u = t
      <4>1. LastIsLogout(mail[t]) /\ mail'[t] = Tail(mail[t])
        BY <1>1, <1>2, <3>1, <3>2 DEF Leaves, Mails
      <4>2. LastIsLogout(Tail(mail[t])) \/ (Tail(mail[t]) = <<>> /\ Head(mail[t]) = "logout")
        BY <1>1, <1>2, <4>1, Last
      <4>3. Head(mail[t]) = "logout" => t \notin signedIn'
        BY <1>1
      <4> QED BY <3>2, <4>1, <4>2, <4>3 DEF Leaves
    <3>3. CASE u # t
      <4>1. mail'[u] = mail[u] /\ (u \in signedIn' <=> u \in signedIn)
        BY <1>1, <1>2, <3>3 DEF Mails
      <4> QED BY <3>1, <4>1 DEF Leaves
    <3> QED BY <3>2, <3>3
  <2> QED BY <1>1, <2>1, QuietTokens DEF BrowserInv, StaysOut
<1> QED BY <1>1, <1>4, <1>5, <1>6, QuietTokens DEF BrowserInv

LEMMA SendInv == ASSUME Browser!SessionAssumption, BrowserInv, NEW t \in Tabs, NEW r \in Requests, Browser!Send(t, r) PROVE BrowserInv'
<1> DEFINE sent == [at |-> "get", of |-> cookie, next |-> None, waits |-> TRUE]
<1>1. /\ tab[t] = "wait" /\ Browser!LockFree /\ cookie # None
      /\ tab' = [tab EXCEPT ![t] = "refresh"] /\ request' = [request EXCEPT ![r] = sent]
      /\ UNCHANGED <<live, grace, issued, cookie, told, signedIn, mail, excused, out>>
  BY DEF Browser!Send
<1>2. tab \in [Tabs -> {"idle", "wait", "refresh", "leave"}] /\ request \in Registers /\ cookie \in issued /\ issued \subseteq Tokens
      /\ live \subseteq issued /\ grace \in [Tokens -> issued \cup {None}]
  BY <1>1 DEF BrowserInv, Browser!TypeOK, Registers
<1>3. sent \in Browser!RequestType /\ sent.of = cookie /\ sent.next = None /\ sent.waits /\ sent.at = "get"
  BY <1>2 DEF Browser!RequestType
<1>4. request' \in Registers /\ request'[r] = sent /\ \A s \in Requests : s # r => request'[s] = request[s]
  BY <1>1, <1>2, <1>3 DEF Registers
<1>5. tab'[t] = "refresh" /\ \A u \in Tabs : u # t => tab'[u] = tab[u]
  BY <1>1, <1>2
<1> HIDE DEF sent
<1>6. \A s \in Requests : ~Waiting(s)
  BY <1>1 DEF BrowserInv, Lock, WaitsOn, Browser!LockFree
<1>7. Browser!TypeOK'
  BY <1>1, <1>2, <1>4 DEF BrowserInv, Browser!TypeOK, Registers
<1>8. Lock'
  <2>1. OneHolder'
    BY <1>1, <1>5 DEF OneHolder, Holds, Browser!LockFree
  <2>2. HasCookie'
    BY <1>1 DEF HasCookie
  <2>3. OneWaits' /\ \A s \in Requests : WaitsOn(s)'
    BY <1>1, <1>3, <1>4, <1>5, <1>6 DEF OneWaits, WaitsOn, Waiting
  <2> QED BY <2>1, <2>2, <2>3 DEF Lock
<1>9. Pointers'
  <2>1. ASSUME NEW s \in Requests PROVE Known(s)' /\ Fine(s)'
    <3>1. CASE s = r
      BY <1>1, <1>2, <1>3, <1>4, <3>1 DEF Known, Fine
    <3>2. CASE s # r
      BY <1>1, <1>4, <1>6, <3>2 DEF BrowserInv, Pointers, Known, Fine, Waiting
    <3> QED BY <3>1, <3>2
  <2>2. \A u \in Tokens : Old(u)'
    BY <1>1 DEF BrowserInv, Pointers, Old
  <2>3. Unasked'
    <3>1. ASSUME grace[cookie] # None PROVE ~Asked(grace[cookie])'
      <4>1. ~Asked(grace[cookie]) /\ grace[cookie] # cookie
        <5>1. ~Asked(grace[cookie])
          BY <1>1, <3>1 DEF BrowserInv, Pointers, Unasked, Followed
        <5>2. grace[cookie] # cookie
          BY <1>1, <1>2, <3>1 DEF BrowserInv, Pointers, Old
        <5> QED BY <5>1, <5>2
      <4> QED BY <1>1, <1>3, <1>4, <4>1 DEF Asked
    <3>2. \A s \in Requests : Waiting(s)' => request'[s].of = cookie
      BY <1>3, <1>4, <1>6 DEF Waiting
    <3> QED BY <1>1, <3>1, <3>2 DEF Unasked, Followed, Asked
  <2> QED BY <2>1, <2>2, <2>3 DEF Pointers
<1>10. Session'
  BY <1>1 DEF BrowserInv, Session, Reach
<1>11. StaysOut'
  <2>1. ASSUME out PROVE CookieDead' /\ NothingComes' /\ \A u \in Tabs : Leaves(u)'
    <3>1. CookieDead /\ NothingComes /\ \A u \in Tabs : Leaves(u)
      BY <2>1 DEF BrowserInv, StaysOut
    <3>2. CookieDead'
      BY <1>1, <1>3, <1>4, <3>1 DEF CookieDead
    <3>3. NothingComes'
      BY <1>1, <1>3, <1>4, <3>1 DEF NothingComes, Waiting
    <3> QED BY <1>1, <3>1, <3>2, <3>3 DEF Leaves
  <2> QED BY <1>1, <2>1 DEF StaysOut
<1> QED BY <1>7, <1>8, <1>9, <1>10, <1>11 DEF BrowserInv

LEMMA ArrivesInv == ASSUME Browser!SessionAssumption, BrowserInv, NEW t \in Tabs, NEW r \in Requests, Browser!Arrives(t, r) PROVE BrowserInv'
<1>1. /\ tab[t] = "refresh" /\ request[r].at = "answer" /\ Waiting(r)
      /\ tab' = [tab EXCEPT ![t] = "idle"] /\ request' = [request EXCEPT ![r] = Browser!NoRequest]
      /\ UNCHANGED <<live, grace, issued, told, excused, out>>
  BY DEF Browser!Arrives, Waiting
<1>2. tab \in [Tabs -> {"idle", "wait", "refresh", "leave"}] /\ request \in Registers /\ cookie \in issued /\ issued \subseteq Tokens
      /\ live \subseteq issued /\ grace \in [Tokens -> issued \cup {None}] /\ mail \in Mails /\ signedIn \subseteq Tabs
  BY <1>1 DEF BrowserInv, Browser!TypeOK, Registers, Mails, Lock, HasCookie
<1>3. \A u \in Tabs : u # t => tab[u] \in {"idle", "wait"}
  BY <1>1, <1>2 DEF BrowserInv, Lock, OneHolder, Holds
<1>4. \A u \in Tabs : tab'[u] \in {"idle", "wait"}
  BY <1>1, <1>2, <1>3
<1>5. \A s \in Requests : s # r => ~Waiting(s) /\ request'[s] = request[s]
  BY <1>1, <1>2 DEF BrowserInv, Lock, OneWaits, Registers
<1>6. request' \in Registers /\ request'[r] = Browser!NoRequest
  BY <1>1, <1>2 DEF Registers
<1>7. Browser!NoRequest.of = None /\ Browser!NoRequest.next = None /\ Browser!NoRequest.waits = FALSE /\ Browser!NoRequest.at = "none"
  BY DEF Browser!NoRequest
<1>8. \A s \in Requests : ~Waiting(s)'
  BY <1>5, <1>6, <1>7 DEF Waiting
<1>9. Lock'
  BY <1>4, <1>8 DEF Lock, OneHolder, Holds, HasCookie, OneWaits, WaitsOn
<1>10. \A s \in Requests : Known(s)' /\ Fine(s)'
  BY <1>1, <1>5, <1>6, <1>7, <1>8 DEF BrowserInv, Pointers, Known, Fine
<1>11. \A u \in Tokens : Old(u)'
  BY <1>1 DEF BrowserInv, Pointers, Old
<1>12. CASE request[r].next # None
  <2> DEFINE k == request[r].next
  <2>1. /\ cookie' = k /\ signedIn' = signedIn \cup {t}
        /\ mail' = [u \in Tabs |-> IF u = t THEN mail[u] ELSE Append(mail[u], "session")]
    BY <1>12 DEF Browser!Arrives, Browser!Broadcasts
  <2>2. k \in live /\ k \in issued /\ k \in Tokens /\ k # None /\ grace[k] = None
    <3>1. Fine(r)
      BY DEF BrowserInv, Pointers
    <3>2. k \in live
      BY <1>1, <1>12, <3>1 DEF Fine
    <3>3. Old(k)
      BY <1>2, <3>2 DEF BrowserInv, Pointers
    <3> QED BY <1>2, <1>12, <3>2, <3>3 DEF Old
  <2> HIDE DEF k
  <2>3. Browser!TypeOK'
    <3>1. mail' \in Mails
      BY <1>2, <2>1, Last DEF Mails
    <3>2. tab' \in [Tabs -> {"idle", "wait", "refresh", "leave"}]
      BY <1>1, <1>2
    <3> QED BY <1>1, <1>2, <1>6, <2>1, <2>2, <3>1, <3>2 DEF BrowserInv, Browser!TypeOK, Registers, Mails
  <2>4. Unasked'
    BY <1>1, <1>8, <2>1, <2>2 DEF Unasked, Followed
  <2>5. Session'
    BY <1>1, <2>1, <2>2 DEF Session, Reach
  <2>6. ~out
    BY <1>1, <1>12 DEF BrowserInv, StaysOut, NothingComes
  <2>7. StaysOut'
    BY <1>1, <2>6 DEF StaysOut
  <2> QED BY <1>9, <1>10, <1>11, <2>3, <2>4, <2>5, <2>7 DEF BrowserInv, Pointers
<1>13. CASE request[r].next = None
  <2>1. cookie' = cookie /\ signedIn' = signedIn \ {t} /\ mail' = mail
    BY <1>13 DEF Browser!Arrives
  <2>2. Browser!TypeOK'
    <3>1. tab' \in [Tabs -> {"idle", "wait", "refresh", "leave"}]
      BY <1>1, <1>2
    <3> QED BY <1>1, <1>6, <2>1, <3>1 DEF BrowserInv, Browser!TypeOK, Registers
  <2>3. Unasked'
    <3>1. ASSUME grace[cookie] # None PROVE ~Asked(grace[cookie])'
      <4>1. ~Asked(grace[cookie])
        BY <1>2, <3>1 DEF BrowserInv, Pointers, Unasked, Followed, Browser!SessionAssumption
      <4> QED BY <1>1, <1>5, <1>6, <1>7, <2>1, <3>1, <4>1 DEF Asked
    <3> QED BY <1>1, <1>8, <2>1, <3>1 DEF Unasked, Followed, Asked
  <2>4. Session'
    BY <1>1, <2>1 DEF BrowserInv, Session, Reach
  <2>5. StaysOut'
    <3>1. ASSUME out PROVE CookieDead' /\ NothingComes' /\ \A u \in Tabs : Leaves(u)'
      <4>1. CookieDead /\ \A u \in Tabs : Leaves(u)
        BY <3>1 DEF BrowserInv, StaysOut
      <4> QED BY <1>1, <1>5, <1>6, <1>7, <1>8, <2>1, <4>1 DEF CookieDead, NothingComes, Leaves
    <3> QED BY <1>1, <3>1 DEF StaysOut
  <2> QED BY <1>9, <1>10, <1>11, <2>2, <2>3, <2>4, <2>5 DEF BrowserInv, Pointers
<1> QED BY <1>12, <1>13

LEMMA GivesUpInv == ASSUME Browser!SessionAssumption, BrowserInv, NEW t \in Tabs, NEW r \in Requests, Browser!GivesUp(t, r) PROVE BrowserInv'
<1> DEFINE left == [request[r] EXCEPT !.waits = FALSE]
<1>1. /\ tab[t] = "refresh" /\ Waiting(r)
      /\ tab' = [tab EXCEPT ![t] = "idle"] /\ request' = [request EXCEPT ![r] = left]
      /\ UNCHANGED <<live, grace, issued, cookie, told, signedIn, mail, excused, out>>
  BY DEF Browser!GivesUp, Waiting
<1>2. tab \in [Tabs -> {"idle", "wait", "refresh", "leave"}] /\ request \in Registers
  BY DEF BrowserInv, Browser!TypeOK, Registers
<1>3. /\ left \in Browser!RequestType /\ left.of = request[r].of /\ left.next = request[r].next
      /\ left.waits = FALSE /\ left.at = request[r].at
  <2>1. request[r] \in Browser!RequestType
    BY <1>1, RequestOf DEF Waiting
  <2> QED BY <2>1, Zenon DEF Browser!RequestType
<1>4. request' \in Registers /\ request'[r] = left /\ \A s \in Requests : s # r => request'[s] = request[s]
  BY <1>1, <1>2, <1>3 DEF Registers
<1> HIDE DEF left
<1>5. \A u \in Tabs : tab'[u] \in {"idle", "wait"}
  BY <1>1, <1>2 DEF BrowserInv, Lock, OneHolder, Holds
<1>6. \A s \in Requests : ~Waiting(s)'
  BY <1>1, <1>3, <1>4 DEF BrowserInv, Lock, OneWaits, Waiting
<1>7. \A s \in Requests : request'[s].of = request[s].of /\ request'[s].next = request[s].next /\ request'[s].at = request[s].at
  BY <1>3, <1>4
<1>8. Browser!TypeOK'
  BY <1>1, <1>2, <1>4 DEF BrowserInv, Browser!TypeOK, Registers
<1>9. Lock'
  BY <1>5, <1>6 DEF Lock, OneHolder, Holds, HasCookie, OneWaits, WaitsOn
<1>10. Pointers'
  BY <1>1, <1>6, <1>7 DEF BrowserInv, Pointers, Known, Fine, Old, Unasked, Followed, Asked
<1>11. Session'
  BY <1>1 DEF BrowserInv, Session, Reach
<1>12. StaysOut'
  BY <1>1, <1>6, <1>7 DEF BrowserInv, StaysOut, CookieDead, NothingComes, Leaves
<1> QED BY <1>8, <1>9, <1>10, <1>11, <1>12 DEF BrowserInv

LEMMA SignOutInv == ASSUME Browser!SessionAssumption, BrowserInv, NEW t \in Tabs, Browser!SignOut(t) PROVE BrowserInv'
<1>1. /\ tab[t] = "leave" /\ tab' = [tab EXCEPT ![t] = "idle"] /\ signedIn' = signedIn \ {t}
      /\ mail' = [u \in Tabs |-> IF u = t THEN mail[u] ELSE Append(mail[u], "logout")]
      /\ UNCHANGED <<issued, told, request>>
  BY DEF Browser!SignOut, Browser!Broadcasts
<1>2. tab \in [Tabs -> {"idle", "wait", "refresh", "leave"}] /\ issued \subseteq Tokens
      /\ live \subseteq issued /\ grace \in [Tokens -> issued \cup {None}] /\ mail \in Mails /\ signedIn \subseteq Tabs
      /\ cookie \in issued \cup {None}
  BY DEF BrowserInv, Browser!TypeOK, Mails
<1>3. \A u \in Tabs : tab[u] # "refresh" /\ tab'[u] \in {"idle", "wait"}
  BY <1>1, <1>2 DEF BrowserInv, Lock, OneHolder, Holds
<1>4. \A r \in Requests : ~Waiting(r)
  BY <1>3 DEF BrowserInv, Lock, WaitsOn
<1>5. mail' \in Mails /\ tab' \in [Tabs -> {"idle", "wait", "refresh", "leave"}]
  BY <1>1, <1>2, Last DEF Mails
<1>6. Lock' /\ NothingComes' /\ \A r \in Requests : Known(r)' /\ Fine(r)'
  BY <1>1, <1>3, <1>4 DEF BrowserInv, Pointers, Lock, OneHolder, Holds, HasCookie, OneWaits, WaitsOn, Waiting, NothingComes, Known, Fine
<1>7. \A u \in Tabs : u # t => LastIsLogout(mail'[u])
  BY <1>1, <1>2, Last DEF Mails
<1>8. t \notin signedIn' /\ mail'[t] = mail[t]
  BY <1>1
<1>9. CASE UNCHANGED <<live, grace, cookie, excused, out>>
  <2>1. Browser!TypeOK'
    BY <1>1, <1>2, <1>5, <1>9 DEF BrowserInv, Browser!TypeOK, Mails
  <2>2. Pointers' /\ Session' /\ (CookieDead => CookieDead')
    BY <1>1, <1>9, QuietTokens
  <2>3. StaysOut'
    <3>1. ASSUME out PROVE CookieDead' /\ \A u \in Tabs : Leaves(u)'
      <4>1. Leaves(t) /\ CookieDead
        BY <3>1 DEF BrowserInv, StaysOut
      <4> QED BY <1>7, <1>8, <2>2, <4>1 DEF Leaves
    <3> QED BY <1>6, <1>9, <3>1 DEF StaysOut
  <2> QED BY <1>6, <2>1, <2>2, <2>3 DEF BrowserInv
<1>10. CASE /\ cookie # None /\ live' = live \ Browser!Reached(cookie) /\ grace' = [grace EXCEPT ![cookie] = None]
            /\ cookie' \in {cookie, None} /\ excused' = TRUE
            /\ out' = (mail[t] = <<>> /\ (cookie' = None \/ \A r \in Requests : request[r].at # "rotate"))
  <2>1. cookie \in Tokens /\ cookie \notin live' /\ grace'[cookie] = None /\ live' \subseteq live
        /\ (\A u \in Tokens : grace'[u] \in {grace[u], None}) /\ grace' \in [Tokens -> issued' \cup {None}]
    BY <1>1, <1>2, <1>10 DEF Browser!Reached
  <2>2. Browser!TypeOK'
    BY <1>1, <1>2, <1>5, <1>10, <2>1 DEF BrowserInv, Browser!TypeOK, Mails
  <2>3. \A u \in Tokens : Old(u)'
    BY <1>1, <2>1 DEF BrowserInv, Pointers, Old
  <2>4. Unasked'
    BY <1>1, <1>4, <1>10, <2>1 DEF Unasked, Followed, Waiting
  <2>5. Session'
    BY <1>10 DEF Session
  <2>6. StaysOut'
    <3>1. ASSUME out' PROVE CookieDead' /\ \A u \in Tabs : Leaves(u)'
      <4>1. mail[t] = <<>> /\ (cookie' = None \/ \A r \in Requests : request[r].at # "rotate")
        BY <1>10, <3>1, Zenon
      <4>2. CookieDead'
        BY <1>1, <1>10, <2>1, <4>1 DEF CookieDead
      <4> QED BY <1>7, <1>8, <4>1, <4>2 DEF Leaves
    <3> QED BY <1>6, <3>1 DEF StaysOut
  <2> QED BY <1>6, <2>2, <2>3, <2>4, <2>5, <2>6 DEF BrowserInv, Pointers
<1> QED BY <1>9, <1>10, Zenon DEF Browser!SignOut

-----------------------------------------------------------------------------
\* The requests at auth.

LEMMA GetInv == ASSUME Browser!SessionAssumption, BrowserInv, NEW r \in Requests, Browser!Get(r) PROVE BrowserInv'
<1> DEFINE next == IF request[r].of \in live THEN "rotate" ELSE "grace"
           got == [request[r] EXCEPT !.at = next]
<1>1. /\ request[r].at = "get" /\ request' = [request EXCEPT ![r] = got]
      /\ UNCHANGED <<live, grace, issued, cookie, tab, told, signedIn, mail, excused, out>>
  BY DEF Browser!Get
<1>2. /\ got \in Browser!RequestType /\ got.of = request[r].of /\ got.next = request[r].next
      /\ got.waits = request[r].waits /\ got.at = next /\ next \in {"rotate", "grace"}
  <2>1. request[r] \in Browser!RequestType
    BY <1>1, RequestOf
  <2> QED BY <2>1 DEF Browser!RequestType
<1>3. request \in Registers
  BY DEF BrowserInv, Browser!TypeOK, Registers
<1>4. request' \in Registers /\ request'[r] = got /\ \A s \in Requests : s # r => request'[s] = request[s]
  BY <1>1, <1>2, <1>3 DEF Registers
<1> HIDE DEF got
<1>5. \A s \in Requests : /\ request'[s].of = request[s].of /\ request'[s].next = request[s].next
                          /\ request'[s].waits = request[s].waits /\ (request'[s].at = "answer" => request[s].at = "answer")
  BY <1>2, <1>4
<1>6. Browser!TypeOK'
  BY <1>1, <1>4 DEF BrowserInv, Browser!TypeOK, Registers
<1>7. Lock'
  BY <1>1, <1>5 DEF BrowserInv, Lock, OneHolder, Holds, HasCookie, OneWaits, WaitsOn, Waiting
<1>8. Pointers'
  <2>1. \A s \in Requests : Known(s)' /\ Fine(s)'
    BY <1>1, <1>5 DEF BrowserInv, Pointers, Known, Fine, Waiting, Asked
  <2> QED BY <1>1, <1>5, <2>1 DEF BrowserInv, Pointers, Old, Unasked, Followed, Waiting, Asked
<1>9. Session'
  BY <1>1 DEF BrowserInv, Session, Reach
<1>10. StaysOut'
  <2>1. ASSUME out PROVE CookieDead' /\ NothingComes' /\ \A u \in Tabs : Leaves(u)'
    <3>1. CookieDead /\ NothingComes /\ \A u \in Tabs : Leaves(u)
      BY <2>1 DEF BrowserInv, StaysOut
    <3>2. ASSUME cookie # None, NEW s \in Requests, request'[s].at = "rotate" PROVE request'[s].of # cookie
      BY <1>2, <1>4, <3>1, <3>2 DEF CookieDead
    <3>3. CookieDead'
      BY <1>1, <3>1, <3>2 DEF CookieDead
    <3> QED BY <1>1, <1>5, <3>1, <3>3 DEF NothingComes, Leaves, Waiting
  <2> QED BY <1>1, <2>1 DEF StaysOut
<1> QED BY <1>6, <1>7, <1>8, <1>9, <1>10 DEF BrowserInv

\* What an answer makes of the registers.
LEMMA AnswersOf ==
  ASSUME BrowserInv, NEW r \in Requests, request[r] \in Browser!RequestType, NEW n \in Tokens \cup {None}, Browser!Answers(r, n)
  PROVE  /\ request' \in Registers /\ \A s \in Requests : s # r => request'[s] = request[s]
         /\ request'[r].waits = request[r].waits /\ request'[r].of \in {request[r].of, None}
         /\ request'[r].next \in {n, None} /\ request'[r].at \in {"answer", "none"}
         /\ Waiting(r) => request'[r].of = request[r].of /\ request'[r].next = n
<1> DEFINE replied == IF Waiting(r) THEN [request[r] EXCEPT !.at = "answer", !.next = n] ELSE Browser!NoRequest
<1>1. /\ replied \in Browser!RequestType \cup {Browser!NoRequest} /\ replied.waits = request[r].waits
      /\ replied.of \in {request[r].of, None} /\ replied.next \in {n, None} /\ replied.at \in {"answer", "none"}
      /\ Waiting(r) => replied.of = request[r].of /\ replied.next = n
  <2>1. CASE Waiting(r)
    <3>1. [request[r] EXCEPT !.at = "answer", !.next = n] \in Browser!RequestType
      BY Zenon DEF Browser!RequestType
    <3> QED BY <2>1, <3>1, Zenon DEF Browser!RequestType, Waiting
  <2>2. CASE ~Waiting(r)
    <3>1. request[r].waits = FALSE
      BY <2>2 DEF Waiting, Browser!RequestType
    <3> QED BY <2>2, <3>1, Zenon DEF Browser!NoRequest
  <2> QED BY <2>1, <2>2
<1>2. request \in Registers /\ request' = [request EXCEPT ![r] = replied]
  BY DEF BrowserInv, Browser!TypeOK, Registers, Browser!Answers, Waiting
<1> HIDE DEF replied
<1>3. request'[r] = replied /\ request' \in Registers /\ \A s \in Requests : s # r => request'[s] = request[s]
  BY <1>1, <1>2 DEF Registers
<1> QED BY <1>1, <1>3

LEMMA RotateInv == ASSUME Browser!SessionAssumption, BrowserInv, NEW r \in Requests, NEW n \in Tokens, Browser!Rotate(r, n) PROVE BrowserInv'
<1> DEFINE x == request[r].of
<1>1. /\ request[r].at = "rotate" /\ n \notin issued /\ live' = (live \ {x}) \cup {n}
      /\ grace' = [grace EXCEPT ![x] = n] /\ issued' = issued \cup {n} /\ Browser!Answers(r, n)
      /\ UNCHANGED <<cookie, tab, told, signedIn, mail, excused, out>>
  BY DEF Browser!Rotate, Browser!Pointed, Browser!Fresh
<1>2. request[r] \in Browser!RequestType /\ x \in Tokens /\ x \in issued /\ n # None /\ n # x
  <2>1. request[r] \in Browser!RequestType /\ Known(r)
    BY <1>1, RequestOf
  <2> QED BY <1>1, <2>1 DEF Browser!RequestType, Known, Browser!SessionAssumption
<1>3. /\ issued \subseteq Tokens /\ live \subseteq issued /\ grace \in [Tokens -> issued \cup {None}]
      /\ cookie \in issued \cup {None}
  BY DEF BrowserInv, Browser!TypeOK
<1>4. /\ request' \in Registers /\ \A s \in Requests : s # r => request'[s] = request[s]
      /\ request'[r].waits = request[r].waits /\ request'[r].of \in {x, None}
      /\ request'[r].next \in {n, None} /\ request'[r].at \in {"answer", "none"}
      /\ Waiting(r) => request'[r].of = x /\ request'[r].next = n
  BY <1>1, <1>2, AnswersOf
<1> HIDE DEF x
<1>5. /\ grace' \in [Tokens -> issued' \cup {None}] /\ grace'[x] = n
      /\ \A u \in Tokens : u # x => grace'[u] = grace[u]
  BY <1>1, <1>2, <1>3
<1>6. Browser!TypeOK'
  BY <1>1, <1>2, <1>3, <1>4, <1>5 DEF BrowserInv, Browser!TypeOK, Registers
<1>7. \A s \in Requests : request'[s].waits = request[s].waits /\ (Waiting(s) => request'[s].of = request[s].of)
  BY <1>4 DEF x
<1>8. Lock'
  BY <1>1, <1>7 DEF BrowserInv, Lock, OneHolder, Holds, HasCookie, OneWaits, WaitsOn, Waiting
<1>9. ASSUME NEW c, c # None, ~Asked(c) PROVE ~Asked(c)'
  BY <1>4, <1>9 DEF Asked, x
<1>10. ~Asked(n)'
  <2>1. ~Asked(n)
    BY <1>1, <1>2 DEF Asked, BrowserInv, Pointers, Known
  <2> QED BY <1>2, <1>9, <2>1
<1>11. ASSUME NEW s \in Requests PROVE Known(s)' /\ Fine(s)'
  <2>1. Known(s) /\ Fine(s) /\ WaitsOn(s)
    BY RequestOf
  <2>2. CASE s = r
    BY <1>1, <1>2, <1>4, <1>10, <2>2 DEF Known, Fine
  <2>3. CASE s # r
    <3>1. Known(s)'
      BY <1>1, <1>4, <2>1, <2>3 DEF Known
    <3>2. ASSUME Waiting(s), request[s].at = "answer", request[s].next # None
          PROVE  request[s].next \in live' /\ \A q \in Requests : request'[q].of # request[s].next
      <4>1. request[s].next \in live /\ ~Asked(request[s].next)
        BY <2>1, <3>2 DEF Fine
      <4>2. request[s].next # x
        BY <4>1 DEF Asked, x
      <4>3. \A q \in Requests : request'[q].of \in {request[q].of, None}
        BY <1>4 DEF x
      <4> QED BY <1>1, <3>2, <4>1, <4>2, <4>3 DEF Asked
    <3>3. Fine(s)'
      BY <1>4, <2>3, <3>2 DEF Fine, Waiting, Asked
    <3> QED BY <3>1, <3>3
  <2> QED BY <2>2, <2>3
<1>12. ASSUME NEW u \in Tokens PROVE Old(u)'
  <2>1. Old(u)
    BY DEF BrowserInv, Pointers
  <2>2. CASE u = x
    BY <1>1, <1>2, <1>5, <2>2 DEF Old
  <2>3. CASE u # x
    BY <1>1, <1>5, <2>1, <2>3 DEF Old
  <2> QED BY <2>2, <2>3
<1>13. Unasked'
  <2>1. ASSUME NEW c \in Tokens \cup {None}, Followed(c), c # None, grace'[c] # None
        PROVE  \A q \in Requests : request'[q].of # grace'[c]
    <3>1. CASE c = x
      BY <1>5, <1>10, <3>1 DEF Asked
    <3>2. CASE c # x
      <4>1. grace'[c] = grace[c]
        BY <1>5, <2>1, <3>2
      <4>2. \A q \in Requests : request'[q].of \in {request[q].of, None}
        BY <1>4 DEF x
      <4> QED BY <2>1, <4>1, <4>2 DEF Followed, Asked
    <3> QED BY <3>1, <3>2
  <2>2. Followed(cookie) /\ cookie \in Tokens \cup {None} /\ cookie' = cookie
    BY <1>1, <1>3 DEF BrowserInv, Pointers, Unasked
  <2>3. ASSUME NEW s \in Requests, Waiting(s)'
        PROVE  Followed(request[s].of) /\ request[s].of \in Tokens \cup {None} /\ request'[s].of = request[s].of
    <3>1. Waiting(s) /\ Known(s)
      BY <1>7, <2>3, RequestOf DEF Waiting
    <3> QED BY <1>3, <1>7, <3>1 DEF BrowserInv, Pointers, Unasked, Known
  <2>4. (cookie' # None /\ grace'[cookie'] # None) => \A q \in Requests : request'[q].of # grace'[cookie']
    BY <2>1, <2>2
  <2>5. \A s \in Requests : Waiting(s)' =>
          (request'[s].of # None /\ grace'[request'[s].of] # None => \A q \in Requests : request'[q].of # grace'[request'[s].of])
    BY <2>1, <2>3
  <2> QED BY <2>4, <2>5 DEF Unasked, Followed, Asked
<1>14. Session'
  <2>1. ASSUME ~excused PROVE cookie # None /\ Reach(cookie)'
    <3>1. cookie # None /\ Reach(cookie) /\ cookie \in Tokens
      BY <1>3, <2>1 DEF BrowserInv, Session
    <3>2. CASE cookie = x
      BY <1>1, <1>5, <3>1, <3>2 DEF Reach
    <3>3. CASE cookie # x
      <4>1. CASE cookie \in live
        BY <1>1, <3>1, <3>3, <4>1 DEF Reach
      <4>2. CASE grace[cookie] \in live
        <5>1. grace[cookie] # None
          BY <1>3, <4>2 DEF Browser!SessionAssumption
        <5>2. ~Asked(grace[cookie])
          BY <3>1, <5>1 DEF BrowserInv, Pointers, Unasked, Followed
        <5>3. grace[cookie] # x
          BY <5>2 DEF Asked, x
        <5> QED BY <1>1, <1>5, <3>1, <3>3, <4>2, <5>3 DEF Reach
      <4> QED BY <3>1, <4>1, <4>2 DEF Reach
    <3> QED BY <3>1, <3>2, <3>3
  <2> QED BY <1>1, <2>1 DEF Session, Reach
<1>15. StaysOut'
  <2>1. ASSUME out PROVE CookieDead' /\ NothingComes' /\ \A u \in Tabs : Leaves(u)'
    <3>1. CookieDead /\ NothingComes /\ \A u \in Tabs : Leaves(u)
      BY <2>1 DEF BrowserInv, StaysOut
    <3>2. cookie # None => x # cookie
      BY <1>1, <3>1 DEF CookieDead, x
    <3>3. ~Waiting(r)
      <4>1. Waiting(r) => cookie # None /\ x = cookie
        BY <1>2, <3>1 DEF BrowserInv, Lock, WaitsOn, HasCookie, NothingComes, x
      <4> QED BY <3>2, <4>1
    <3>4. CookieDead'
      BY <1>1, <1>3, <1>4, <1>5, <3>1, <3>2 DEF CookieDead
    <3>5. NothingComes'
      BY <1>1, <1>4, <3>1, <3>3 DEF NothingComes, Waiting
    <3> QED BY <1>1, <3>1, <3>4, <3>5 DEF Leaves
  <2> QED BY <1>1, <2>1 DEF StaysOut
<1> QED BY <1>6, <1>8, <1>11, <1>12, <1>13, <1>14, <1>15 DEF BrowserInv, Pointers

LEMMA WithinGraceInv == ASSUME Browser!SessionAssumption, BrowserInv, NEW r \in Requests, Browser!WithinGrace(r) PROVE BrowserInv'
<1> DEFINE x == request[r].of
           n == IF grace[x] \in live THEN grace[x] ELSE None
<1>1. /\ request[r].at = "grace" /\ Browser!Answers(r, n)
      /\ UNCHANGED <<live, grace, issued, cookie, tab, told, signedIn, mail, excused, out>>
  BY DEF Browser!WithinGrace
<1>2. request[r] \in Browser!RequestType /\ x \in Tokens
  <2>1. request[r] \in Browser!RequestType
    BY <1>1, RequestOf
  <2> QED BY <2>1 DEF Browser!RequestType
<1>3. /\ issued \subseteq Tokens /\ live \subseteq issued /\ grace \in [Tokens -> issued \cup {None}]
      /\ cookie \in issued \cup {None}
  BY DEF BrowserInv, Browser!TypeOK
<1>4. n \in issued \cup {None} /\ n \in Tokens \cup {None} /\ (n # None => n \in live /\ grace[x] = n)
  BY <1>2, <1>3
<1> HIDE DEF n
<1>5. /\ request' \in Registers /\ \A s \in Requests : s # r => request'[s] = request[s]
      /\ request'[r].waits = request[r].waits /\ request'[r].of \in {x, None}
      /\ request'[r].next \in {n, None} /\ request'[r].at \in {"answer", "none"}
      /\ Waiting(r) => request'[r].of = x /\ request'[r].next = n
  BY <1>1, <1>2, <1>4, AnswersOf
<1> HIDE DEF x
<1>6. Browser!TypeOK'
  BY <1>1, <1>5 DEF BrowserInv, Browser!TypeOK, Registers
<1>7. \A s \in Requests : request'[s].waits = request[s].waits /\ (Waiting(s) => request'[s].of = request[s].of)
  BY <1>5 DEF x
<1>8. Lock'
  BY <1>1, <1>7 DEF BrowserInv, Lock, OneHolder, Holds, HasCookie, OneWaits, WaitsOn, Waiting
<1>9. \A s \in Requests : request'[s].of \in {request[s].of, None}
  BY <1>5 DEF x
<1>10. ASSUME Waiting(r), n # None PROVE ~Asked(n)
  <2>1. Followed(x) /\ x # None
    BY <1>2, <1>10 DEF BrowserInv, Pointers, Unasked, Browser!SessionAssumption, x
  <2> QED BY <1>4, <1>10, <2>1 DEF Followed
<1>11. ASSUME NEW s \in Requests PROVE Known(s)' /\ Fine(s)'
  <2>1. Known(s) /\ Fine(s)
    BY RequestOf
  <2>2. CASE s = r
    <3>1. Known(s)'
      BY <1>1, <1>4, <1>5, <2>1, <2>2 DEF Known, x
    <3>2. ASSUME Waiting(r), n # None PROVE n \in live /\ \A q \in Requests : request'[q].of # n
      BY <1>4, <1>9, <1>10, <3>2 DEF Asked
    <3>3. Fine(s)'
      BY <1>1, <1>5, <2>2, <3>2 DEF Fine, Waiting, Asked
    <3> QED BY <3>1, <3>3
  <2>3. CASE s # r
    BY <1>1, <1>5, <1>9, <2>1, <2>3 DEF Known, Fine, Waiting, Asked
  <2> QED BY <2>2, <2>3
<1>12. (\A u \in Tokens : Old(u)') /\ Unasked'
  BY <1>1, <1>7, <1>9 DEF BrowserInv, Pointers, Old, Unasked, Followed, Waiting, Asked
<1>13. Session'
  BY <1>1 DEF BrowserInv, Session, Reach
<1>14. StaysOut'
  <2>1. ASSUME out PROVE CookieDead' /\ NothingComes' /\ \A u \in Tabs : Leaves(u)'
    <3>1. CookieDead /\ NothingComes /\ \A u \in Tabs : Leaves(u)
      BY <2>1 DEF BrowserInv, StaysOut
    <3>2. Waiting(r) => n = None
      <4>1. Waiting(r) => x = cookie /\ x # None
        BY <1>2, <3>1 DEF NothingComes, Browser!SessionAssumption, x
      <4> QED BY <1>4, <3>1, <4>1 DEF CookieDead
    <3>3. CookieDead'
      BY <1>1, <1>5, <3>1 DEF CookieDead
    <3>4. NothingComes'
      BY <1>1, <1>5, <1>7, <3>1, <3>2 DEF NothingComes, Waiting
    <3> QED BY <1>1, <3>1, <3>3, <3>4 DEF Leaves
  <2> QED BY <1>1, <2>1 DEF StaysOut
<1> QED BY <1>6, <1>8, <1>11, <1>12, <1>13, <1>14 DEF BrowserInv, Pointers

LEMMA LapseInv == ASSUME Browser!SessionAssumption, BrowserInv, NEW t \in Tokens, Browser!Lapse(t) PROVE BrowserInv'
<1>1. /\ grace' = [grace EXCEPT ![t] = None] /\ excused' = (excused \/ cookie = t)
      /\ UNCHANGED <<live, issued, cookie, tab, told, signedIn, mail, request, out>>
  BY DEF Browser!Lapse
<1>2. grace \in [Tokens -> issued \cup {None}] /\ cookie \in issued \cup {None} /\ issued \subseteq Tokens
  BY DEF BrowserInv, Browser!TypeOK
<1>3. grace' \in [Tokens -> issued \cup {None}] /\ \A u \in Tokens : grace'[u] \in {grace[u], None} /\ (u # t => grace'[u] = grace[u])
  BY <1>1, <1>2
<1>4. Browser!TypeOK'
  BY <1>1, <1>3 DEF BrowserInv, Browser!TypeOK
<1>5. Lock'
  BY <1>1 DEF BrowserInv, Lock, OneHolder, Holds, HasCookie, OneWaits, WaitsOn, Waiting
<1>6. Pointers'
  <2>1. \A u \in Tokens : Old(u)'
    BY <1>1, <1>3 DEF BrowserInv, Pointers, Old
  <2>2. Unasked'
    <3>1. ASSUME NEW c \in Tokens \cup {None}, Followed(c) PROVE c # None /\ grace'[c] # None => \A q \in Requests : request[q].of # grace'[c]
      BY <1>3, <3>1 DEF Followed, Asked
    <3>2. Followed(cookie) /\ cookie \in Tokens \cup {None}
      BY <1>2 DEF BrowserInv, Pointers, Unasked
    <3>3. \A s \in Requests : Waiting(s) => Followed(request[s].of) /\ request[s].of \in Tokens \cup {None}
      BY <1>2 DEF BrowserInv, Pointers, Unasked, Known
    <3> QED BY <1>1, <3>1, <3>2, <3>3 DEF Unasked, Followed, Waiting, Asked
  <2> QED BY <1>1, <2>1, <2>2 DEF BrowserInv, Pointers, Known, Fine, Waiting, Asked
<1>7. Session'
  BY <1>1, <1>2, <1>3, Zenon DEF BrowserInv, Session, Reach
<1>8. StaysOut'
  BY <1>1, <1>2, <1>3 DEF BrowserInv, StaysOut, CookieDead, NothingComes, Leaves, Waiting
<1> QED BY <1>4, <1>5, <1>6, <1>7, <1>8 DEF BrowserInv

LEMMA BrowserNextInv == ASSUME Browser!SessionAssumption, BrowserInv, [Browser!Next]_Browser!vars PROVE BrowserInv'
<1>1. CASE UNCHANGED Browser!vars
  <2>1. UNCHANGED <<live, grace, issued, request, cookie, tab, told, signedIn, mail, excused, out>>
    BY <1>1 DEF Browser!vars
  <2>2. Browser!TypeOK' /\ Lock'
    BY <2>1 DEF BrowserInv, Browser!TypeOK, Lock, OneHolder, Holds, HasCookie, OneWaits, WaitsOn, Waiting
  <2> QED BY <2>1, <2>2, QuietTokens DEF BrowserInv, StaysOut, Leaves
<1>2. CASE \E t \in Tabs : \/ \E n \in Tokens : Browser!Login(t, n)
                           \/ Browser!Want(t) \/ Browser!UseDelivered(t) \/ Browser!NoCookie(t) \/ Browser!Read(t) \/ Browser!StartSignOut(t) \/ Browser!SignOut(t)
  BY <1>2, LoginInv, WantInv, UseDeliveredInv, NoCookieInv, ReadInv, StartSignOutInv, SignOutInv
<1>3. CASE \E t \in Tabs, r \in Requests : Browser!Send(t, r) \/ Browser!Arrives(t, r) \/ Browser!GivesUp(t, r)
  BY <1>3, SendInv, ArrivesInv, GivesUpInv
<1>4. CASE \E r \in Requests : Browser!Get(r) \/ Browser!WithinGrace(r) \/ \E n \in Tokens : Browser!Rotate(r, n)
  BY <1>4, GetInv, WithinGraceInv, RotateInv
<1>5. CASE \E t \in Tokens : Browser!Lapse(t)
  BY <1>5, LapseInv
<1> QED BY <1>1, <1>2, <1>3, <1>4, <1>5 DEF Browser!Next

LEMMA BrowserInvariant == ASSUME Browser!SessionAssumption PROVE Browser!Spec => []BrowserInv
<1>1. Browser!Init => BrowserInv
  BY BrowserInitInv
<1>2. BrowserInv /\ [Browser!Next]_Browser!vars => BrowserInv'
  BY BrowserNextInv
<1> QED BY <1>1, <1>2, PTL DEF Browser!Spec

\* Tokens, tabs, messages and requests keep their types (auth.service.ts,
\* auth-store.ts).
THEOREM BrowserTypeCorrect == ASSUME Browser!SessionAssumption PROVE Browser!Spec => []Browser!TypeOK
<1>1. BrowserInv => Browser!TypeOK
  BY DEF BrowserInv
<1> QED BY <1>1, BrowserInvariant, PTL

\* Who has not signed out keeps a cookie that auth answers, whichever answers of
\* refreshes are lost and whichever tabs ask (refresh, refreshWithinGrace).
THEOREM SessionLasts == ASSUME Browser!SessionAssumption PROVE Browser!Spec => []Browser!CookieWorks
<1>1. BrowserInv => Browser!CookieWorks
  BY DEF BrowserInv, Session, Browser!CookieWorks, Reach
<1> QED BY <1>1, BrowserInvariant, PTL

\* After a sign-out that arrived no tab stays signed in and no refresh in flight
\* revives the cookie (signOut, logout).
THEOREM OutIsOut == ASSUME Browser!SessionAssumption PROVE Browser!Spec => []Browser!SignedOutEverywhere
<1>1. ASSUME BrowserInv, out PROVE cookie = None \/ ~(cookie \in live \/ grace[cookie] \in live)
  BY <1>1 DEF BrowserInv, StaysOut, CookieDead, Browser!TypeOK, Browser!SessionAssumption
<1>2. ASSUME BrowserInv, out, \A t \in Tabs : mail[t] = <<>> PROVE signedIn = {}
  BY <1>2 DEF BrowserInv, StaysOut, Leaves, LastIsLogout, Browser!TypeOK
<1>3. BrowserInv => Browser!SignedOutEverywhere
  BY <1>1, <1>2 DEF Browser!SignedOutEverywhere
<1> QED BY <1>3, BrowserInvariant, PTL

-----------------------------------------------------------------------------
(* The offline queue: OfflineQueue                                       *)

\* Until a write is queued during a replay, the items a replay holds are those of
\* the storage, up to what another replay has settled; each list holds one write
\* of a path, so the filter of enqueue takes out one item at most.
Settled == server \cup dropped
InHand(t) == Queue!ToSet(flushing[t].items)

ListOk(items) == Len(items) <= MaxItems /\ Queue!OnePerPath(items) /\ Queue!ToSet(items) \subseteq made
FlushOk(t) ==
  /\ ListOk(flushing[t].items)
  /\ flight[t] => flushing[t].on /\ flushing[t].items # <<>>
  /\ ~overlapped /\ flushing[t].on => InHand(t) \cup Settled = Queue!ToSet(queue) \cup Settled

QueueInv ==
  /\ Queue!TypeOK
  /\ ListOk(queue)
  /\ \A t \in Tabs : FlushOk(t)
  /\ Queue!NothingLost

-----------------------------------------------------------------------------
\* The lists.

LEMMA Elements == ASSUME NEW s \in Seq(Writes) PROVE Queue!ToSet(s) = {s[i] : i \in 1 .. Len(s)} /\ Len(s) \in Nat /\ DOMAIN s = 1 .. Len(s)
BY LenProperties DEF Queue!ToSet

LEMMA TailOf ==
  ASSUME NEW s \in Seq(Writes), s # <<>>
  PROVE  /\ Head(s) \in Writes /\ Head(s) \in Queue!ToSet(s)
         /\ Tail(s) \in Seq(Writes) /\ Len(Tail(s)) = Len(s) - 1
         /\ Queue!ToSet(s) = Queue!ToSet(Tail(s)) \cup {Head(s)}
         /\ Queue!OnePerPath(s) => Queue!OnePerPath(Tail(s))
<1>1. /\ Head(s) \in Writes /\ Tail(s) \in Seq(Writes) /\ Len(Tail(s)) = Len(s) - 1
      /\ \A i \in 1 .. Len(Tail(s)) : Tail(s)[i] = s[i + 1]
      /\ Head(s) = s[1] /\ Len(s) \in Nat \ {0}
  BY HeadTailProperties, EmptySeq
<1>2. /\ DOMAIN s = 1 .. Len(s) /\ DOMAIN Tail(s) = 1 .. (Len(s) - 1)
      /\ Queue!ToSet(s) = {s[i] : i \in 1 .. Len(s)} /\ Queue!ToSet(Tail(s)) = {Tail(s)[i] : i \in 1 .. (Len(s) - 1)}
  BY <1>1, Elements, Zenon
<1>3. Head(s) \in Queue!ToSet(s)
  BY <1>1, <1>2
<1>4. ASSUME NEW x \in Queue!ToSet(Tail(s)) PROVE x \in Queue!ToSet(s)
  <2>1. PICK i \in 1 .. (Len(s) - 1) : x = Tail(s)[i]
    BY <1>2
  <2>2. i + 1 \in 1 .. Len(s) /\ x = s[i + 1]
    BY <1>1, <2>1
  <2> QED BY <1>2, <2>2
<1>5. ASSUME NEW x \in Queue!ToSet(s), x # Head(s) PROVE x \in Queue!ToSet(Tail(s))
  <2>1. PICK i \in 1 .. Len(s) : x = s[i]
    BY <1>2
  <2>2. i # 1 /\ i - 1 \in 1 .. (Len(s) - 1)
    BY <1>1, <1>5, <2>1
  <2>3. Tail(s)[i - 1] = s[(i - 1) + 1] /\ (i - 1) + 1 = i
    BY <1>1, <2>2
  <2> QED BY <1>2, <2>1, <2>2, <2>3, Zenon
<1>6. Queue!OnePerPath(s) => Queue!OnePerPath(Tail(s))
  <2>1. \A i \in DOMAIN Tail(s) : i + 1 \in DOMAIN s /\ Tail(s)[i] = s[i + 1] /\ i \in Nat
    BY <1>1, <1>2
  <2>2. ASSUME Queue!OnePerPath(s), NEW i \in DOMAIN Tail(s), NEW j \in DOMAIN Tail(s), PathOf[Tail(s)[i]] = PathOf[Tail(s)[j]] PROVE i = j
    <3>1. i + 1 = j + 1
      BY <2>1, <2>2 DEF Queue!OnePerPath
    <3> QED BY <2>1, <3>1
  <2> QED BY <2>2 DEF Queue!OnePerPath
<1> QED BY <1>1, <1>3, <1>4, <1>5, <1>6

LEMMA QueueNewestOf ==
  ASSUME Queue!QueueAssumption, NEW s \in Seq(Writes)
  PROVE  /\ Queue!Newest(s) \in Seq(Writes) /\ Len(Queue!Newest(s)) <= MaxItems
         /\ Queue!ToSet(Queue!Newest(s)) \subseteq Queue!ToSet(s)
         /\ Len(s) <= MaxItems => Queue!Newest(s) = s
         /\ s # <<>> => s[Len(s)] \in Queue!ToSet(Queue!Newest(s))
         /\ Queue!OnePerPath(s) => Queue!OnePerPath(Queue!Newest(s))
<1>1. Len(s) \in Nat /\ DOMAIN s = 1 .. Len(s) /\ Queue!ToSet(s) = {s[i] : i \in 1 .. Len(s)} /\ (s # <<>> => Len(s) # 0)
  BY Elements, EmptySeq
<1>2. MaxItems \in Nat /\ MaxItems # 0
  BY DEF Queue!QueueAssumption
<1>3. CASE Len(s) <= MaxItems
  BY <1>1, <1>3 DEF Queue!Newest
<1>4. CASE ~(Len(s) <= MaxItems)
  <2> DEFINE n == Queue!Newest(s)
             k == Len(s) - MaxItems
  <2>1. n = SubSeq(s, k + 1, Len(s)) /\ k \in Nat
    BY <1>1, <1>2, <1>4 DEF Queue!Newest
  <2>2. \A i \in (k + 1) .. Len(s) : s[i] \in Writes
    BY <1>1, <2>1, ElementOfSeq
  <2>3. n \in Seq(Writes) /\ Len(n) = MaxItems /\ \A i \in 1 .. MaxItems : n[i] = s[k + i]
    <3>1. /\ SubSeq(s, k + 1, Len(s)) \in Seq(Writes)
          /\ Len(SubSeq(s, k + 1, Len(s))) = IF k + 1 <= Len(s) THEN Len(s) - (k + 1) + 1 ELSE 0
          /\ \A i \in 1 .. (Len(s) - (k + 1) + 1) : SubSeq(s, k + 1, Len(s))[i] = s[(k + 1) + i - 1]
      <4>1. k + 1 \in Int /\ Len(s) \in Int
        BY <1>1, <2>1
      <4> HIDE DEF k
      <4> QED BY <2>2, <4>1, SubSeqProperties
    <3>2. Len(s) - (k + 1) + 1 = MaxItems /\ k + 1 <= Len(s) /\ \A i \in 1 .. MaxItems : (k + 1) + i - 1 = k + i
      BY <1>1, <1>2, <1>4
    <3> QED BY <2>1, <3>1, <3>2, Zenon
  <2>4. DOMAIN n = 1 .. MaxItems /\ Queue!ToSet(n) = {n[i] : i \in 1 .. MaxItems}
    BY <2>3, Elements
  <2>5. \A i \in 1 .. MaxItems : k + i \in 1 .. Len(s) /\ i \in Nat
    BY <1>1, <1>2, <1>4
  <2>6. Queue!ToSet(n) \subseteq Queue!ToSet(s)
    BY <1>1, <2>3, <2>4, <2>5
  <2>7. s[Len(s)] \in Queue!ToSet(n)
    <3>1. MaxItems \in 1 .. MaxItems /\ k + MaxItems = Len(s)
      BY <1>1, <1>2
    <3> QED BY <2>3, <2>4, <3>1
  <2>8. ASSUME Queue!OnePerPath(s), NEW i \in DOMAIN n, NEW j \in DOMAIN n, PathOf[n[i]] = PathOf[n[j]] PROVE i = j
    <3>1. k + i = k + j
      BY <1>1, <2>3, <2>4, <2>5, <2>8 DEF Queue!OnePerPath
    <3> QED BY <2>1, <2>4, <2>5, <3>1
  <2> QED BY <1>2, <1>4, <2>3, <2>6, <2>7, <2>8 DEF Queue!OnePerPath
<1> QED BY <1>3, <1>4

LEMMA WithoutOf ==
  ASSUME NEW s \in Seq(Writes), NEW p
  PROVE  /\ Queue!Without(s, p) \in Seq(Writes)
         /\ Queue!ToSet(Queue!Without(s, p)) \subseteq Queue!ToSet(s)
         /\ Queue!OnePerPath(s) => Queue!OnePerPath(Queue!Without(s, p)) /\ \A i \in DOMAIN Queue!Without(s, p) : PathOf[Queue!Without(s, p)[i]] # p
<1>1. Len(s) \in Nat /\ DOMAIN s = 1 .. Len(s) /\ Queue!ToSet(s) = {s[i] : i \in 1 .. Len(s)}
  BY Elements
<1>2. CASE Queue!Queued(s, p) = {}
  <2>1. Queue!Without(s, p) = s
    BY <1>2 DEF Queue!Without
  <2> QED BY <1>2, <2>1 DEF Queue!Queued
<1>3. CASE Queue!Queued(s, p) # {}
  <2>1. PICK i \in Queue!Queued(s, p) : Queue!Without(s, p) = Queue!RemoveAt(s, i)
    BY <1>3, Zenon DEF Queue!Without
  <2>2. i \in 1 .. Len(s) /\ PathOf[s[i]] = p
    BY <1>1 DEF Queue!Queued
  <2> DEFINE r == Queue!RemoveAt(s, i)
             a == SubSeq(s, 1, i - 1)
             b == SubSeq(s, i + 1, Len(s))
  <2>3. a \in Seq(Writes) /\ Len(a) = i - 1 /\ \A j \in 1 .. (i - 1) : a[j] = s[j]
    <3>1. /\ a \in Seq(Writes) /\ Len(a) = (IF 1 <= i - 1 THEN i - 1 - 1 + 1 ELSE 0)
          /\ \A j \in 1 .. (i - 1 - 1 + 1) : a[j] = s[1 + j - 1]
      <4>1. 1 \in Int /\ i - 1 \in Int /\ \A j \in 1 .. (i - 1) : s[j] \in Writes
        BY <1>1, <2>2, ElementOfSeq
      <4> QED BY <4>1, SubSeqProperties
    <3>2. (IF 1 <= i - 1 THEN i - 1 - 1 + 1 ELSE 0) = i - 1 /\ i - 1 - 1 + 1 = i - 1 /\ \A j \in 1 .. (i - 1) : 1 + j - 1 = j
      BY <2>2
    <3> QED BY <3>1, <3>2
  <2>4. b \in Seq(Writes) /\ Len(b) = Len(s) - i /\ \A j \in 1 .. (Len(s) - i) : b[j] = s[i + j]
    <3>1. /\ b \in Seq(Writes) /\ Len(b) = (IF i + 1 <= Len(s) THEN Len(s) - (i + 1) + 1 ELSE 0)
          /\ \A j \in 1 .. (Len(s) - (i + 1) + 1) : b[j] = s[(i + 1) + j - 1]
      <4>1. i + 1 \in Int /\ Len(s) \in Int /\ \A j \in (i + 1) .. Len(s) : s[j] \in Writes
        BY <1>1, <2>2, ElementOfSeq
      <4> QED BY <4>1, SubSeqProperties
    <3>2. (IF i + 1 <= Len(s) THEN Len(s) - (i + 1) + 1 ELSE 0) = Len(s) - i /\ Len(s) - (i + 1) + 1 = Len(s) - i
          /\ \A j \in 1 .. (Len(s) - i) : (i + 1) + j - 1 = i + j
      <4>1. \A n \in Nat : \A k \in 1 .. n : /\ (IF k + 1 <= n THEN n - (k + 1) + 1 ELSE 0) = n - k
                                            /\ n - (k + 1) + 1 = n - k
                                            /\ \A j \in 1 .. (n - k) : (k + 1) + j - 1 = k + j
        OBVIOUS
      <4> QED BY <1>1, <2>2, <4>1, Zenon
    <3> QED BY <3>1, <3>2
  <2>5. r = a \o b
    BY DEF Queue!RemoveAt
  <2> HIDE DEF r, a, b
  <2>6. r \in Seq(Writes) /\ Len(r) = Len(s) - 1 /\ \A j \in 1 .. (Len(s) - 1) : r[j] = IF j < i THEN s[j] ELSE s[j + 1]
    <3>1. /\ r \in Seq(Writes) /\ Len(r) = Len(a) + Len(b)
          /\ \A j \in 1 .. (Len(a) + Len(b)) : r[j] = IF j <= Len(a) THEN a[j] ELSE b[j - Len(a)]
      BY <2>3, <2>4, <2>5, ConcatProperties, Zenon
    <3>2. Len(a) + Len(b) = Len(s) - 1
      BY <1>1, <2>2, <2>3, <2>4
    <3>3. ASSUME NEW j \in 1 .. (Len(s) - 1) PROVE r[j] = IF j < i THEN s[j] ELSE s[j + 1]
      <4>1. CASE j < i
        BY <1>1, <2>2, <2>3, <3>1, <3>2, <4>1
      <4>2. CASE ~(j < i)
        <5>1. j - (i - 1) \in 1 .. (Len(s) - i) /\ i + (j - (i - 1)) = j + 1 /\ ~(j <= Len(a))
          BY <1>1, <2>2, <2>3, <4>2
        <5> QED BY <2>3, <2>4, <3>1, <3>2, <4>2, <5>1
      <4> QED BY <4>1, <4>2
    <3> QED BY <3>1, <3>2, <3>3
  <2>7. DOMAIN r = 1 .. (Len(s) - 1) /\ Queue!ToSet(r) = {r[j] : j \in 1 .. (Len(s) - 1)}
    BY <2>6, Elements
  <2> DEFINE from(j) == IF j < i THEN j ELSE j + 1
  <2>8. \A j \in 1 .. (Len(s) - 1) : from(j) \in 1 .. Len(s) /\ from(j) # i /\ r[j] = s[from(j)]
    BY <1>1, <2>2, <2>6
  <2>9. \A j, l \in 1 .. (Len(s) - 1) : from(j) = from(l) => j = l
    BY <1>1, <2>2
  <2> HIDE DEF from
  <2>10. Queue!ToSet(r) \subseteq Queue!ToSet(s)
    BY <1>1, <2>7, <2>8
  <2>11. ASSUME Queue!OnePerPath(s), NEW j \in DOMAIN r PROVE PathOf[r[j]] # p
    BY <1>1, <2>2, <2>7, <2>8, <2>11 DEF Queue!OnePerPath
  <2>12. ASSUME Queue!OnePerPath(s), NEW j \in DOMAIN r, NEW l \in DOMAIN r, PathOf[r[j]] = PathOf[r[l]] PROVE j = l
    BY <1>1, <2>7, <2>8, <2>9, <2>12 DEF Queue!OnePerPath
  <2>13. Queue!Without(s, p) = r
    BY <2>1 DEF r
  <2> QED BY <2>6, <2>10, <2>11, <2>12, <2>13 DEF Queue!OnePerPath
<1> QED BY <1>2, <1>3

LEMMA AppendOf ==
  ASSUME NEW s \in Seq(Writes), NEW w \in Writes
  PROVE  /\ Append(s, w) \in Seq(Writes) /\ Append(s, w) # <<>>
         /\ Queue!ToSet(Append(s, w)) = Queue!ToSet(s) \cup {w} /\ Append(s, w)[Len(Append(s, w))] = w
         /\ Queue!OnePerPath(s) /\ (\A i \in DOMAIN s : PathOf[s[i]] # PathOf[w]) => Queue!OnePerPath(Append(s, w))
<1> DEFINE a == Append(s, w)
<1>1. Len(s) \in Nat /\ DOMAIN s = 1 .. Len(s) /\ Queue!ToSet(s) = {s[i] : i \in 1 .. Len(s)}
  BY Elements
<1>2. a \in Seq(Writes) /\ a # <<>> /\ Len(a) = Len(s) + 1 /\ a[Len(s) + 1] = w /\ \A i \in 1 .. Len(s) : a[i] = s[i]
  BY AppendProperties
<1> HIDE DEF a
<1>3. DOMAIN a = 1 .. (Len(s) + 1) /\ Queue!ToSet(a) = {a[i] : i \in 1 .. (Len(s) + 1)}
  BY <1>2, Elements
<1>4. Queue!ToSet(a) = Queue!ToSet(s) \cup {w}
  <2>1. \A i \in 1 .. (Len(s) + 1) : i \in 1 .. Len(s) \/ i = Len(s) + 1
    BY <1>1
  <2>2. (\A i \in 1 .. Len(s) : i \in 1 .. (Len(s) + 1)) /\ Len(s) + 1 \in 1 .. (Len(s) + 1)
    BY <1>1
  <2> QED BY <1>1, <1>2, <1>3, <2>1, <2>2
<1>5. ASSUME Queue!OnePerPath(s), \A i \in DOMAIN s : PathOf[s[i]] # PathOf[w],
             NEW i \in DOMAIN a, NEW j \in DOMAIN a, PathOf[a[i]] = PathOf[a[j]]
      PROVE  i = j
  <2>1. (i \in 1 .. Len(s) \/ i = Len(s) + 1) /\ (j \in 1 .. Len(s) \/ j = Len(s) + 1)
    BY <1>1, <1>3
  <2> QED BY <1>1, <1>2, <1>5, <2>1 DEF Queue!OnePerPath
<1> QED BY <1>2, <1>4, <1>5 DEF Queue!OnePerPath, a

-----------------------------------------------------------------------------
\* The steps.

LEMMA QueueInitInv == ASSUME Queue!QueueAssumption, Queue!Init PROVE QueueInv
<1>1. Queue!ToSet(<<>>) = {} /\ <<>> \in Seq(Writes) /\ Len(<<>>) = 0 /\ Queue!OnePerPath(<<>>)
  BY DEF Queue!ToSet, Queue!OnePerPath
<1>2. ListOk(<<>>)
  BY <1>1 DEF ListOk, Queue!QueueAssumption
<1>3. Queue!TypeOK
  <2>1. Queue!NotFlushing \in [on : BOOLEAN, items : Seq(Writes)]
    BY <1>1 DEF Queue!NotFlushing
  <2>2. failures \in 0 .. MaxFailures /\ Len(<<>>) <= MaxItems
    BY <1>1 DEF Queue!Init, Queue!QueueAssumption
  <2> QED BY <1>1, <2>1, <2>2, Zenon DEF Queue!TypeOK, Queue!Init
<1>4. \A t \in Tabs : FlushOk(t)
  BY <1>2 DEF Queue!Init, Queue!NotFlushing, FlushOk
<1> QED BY <1>2, <1>3, <1>4 DEF QueueInv, Queue!Init, Queue!NothingLost

\* What a tab holds, and the first write of it.
LEMMA HandOf ==
  ASSUME QueueInv, NEW t \in Tabs
  PROVE  /\ flushing[t].on \in BOOLEAN /\ flushing[t].items \in Seq(Writes)
         /\ flight[t] \in BOOLEAN
         /\ flight[t] => /\ flushing[t].on /\ flushing[t].items # <<>>
                        /\ Head(flushing[t].items) \in InHand(t) /\ Head(flushing[t].items) \in made
<1>1. flushing[t] \in [on : BOOLEAN, items : Seq(Writes)] /\ flight[t] \in BOOLEAN /\ FlushOk(t)
  BY DEF QueueInv, Queue!TypeOK
<1>2. ASSUME flight[t] PROVE Head(flushing[t].items) \in InHand(t)
  BY <1>1, <1>2, TailOf DEF FlushOk, InHand
<1> QED BY <1>1, <1>2 DEF FlushOk, ListOk, InHand

LEMMA QueueSentInv == ASSUME QueueInv, NEW w \in Writes, Queue!Sent(w) PROVE QueueInv'
<1>1. Queue!TypeOK'
  BY DEF QueueInv, Queue!TypeOK, Queue!Sent
<1>2. ListOk(queue)'
  BY DEF QueueInv, Queue!Sent, ListOk
<1>3. ASSUME NEW t \in Tabs PROVE FlushOk(t)'
  <2>1. FlushOk(t)
    BY DEF QueueInv
  <2> QED BY <2>1 DEF FlushOk, Queue!Sent, ListOk, InHand, Settled
<1>4. Queue!NothingLost'
  BY DEF QueueInv, Queue!NothingLost, Queue!Sent
<1> QED BY <1>1, <1>2, <1>3, <1>4 DEF QueueInv

LEMMA EnqueueInv == ASSUME Queue!QueueAssumption, QueueInv, NEW w \in Writes, Queue!Enqueue(w) PROVE QueueInv'
<1> DEFINE without == Queue!Without(queue, PathOf[w])
           appended == Append(without, w)
<1>1. queue \in Seq(Writes) /\ ListOk(queue)
  BY DEF QueueInv, Queue!TypeOK
<1>2. /\ without \in Seq(Writes) /\ Queue!ToSet(without) \subseteq Queue!ToSet(queue)
      /\ Queue!OnePerPath(without) /\ \A i \in DOMAIN without : PathOf[without[i]] # PathOf[w]
  BY <1>1, WithoutOf DEF ListOk
<1> HIDE DEF without
<1>3. /\ appended \in Seq(Writes) /\ appended # <<>> /\ appended[Len(appended)] = w
      /\ Queue!ToSet(appended) = Queue!ToSet(without) \cup {w} /\ Queue!OnePerPath(appended)
  BY <1>2, AppendOf
<1>4. queue' = Queue!Newest(appended)
  BY DEF Queue!Enqueue, without
<1> HIDE DEF appended
<1>5. /\ queue' \in Seq(Writes) /\ Len(queue') <= MaxItems /\ Queue!OnePerPath(queue)'
      /\ Queue!ToSet(queue') \subseteq Queue!ToSet(queue) \cup {w} /\ w \in Queue!ToSet(queue')
  <2>1. Queue!OnePerPath(Queue!Newest(appended))
    BY <1>3, QueueNewestOf
  <2>2. Queue!OnePerPath(queue)'
    BY <1>4, <2>1 DEF Queue!OnePerPath
  <2> QED BY <1>2, <1>3, <1>4, <2>2, QueueNewestOf
<1>6. /\ made' = made \cup {w} /\ dropped' = dropped \cup (Queue!ToSet(queue) \ Queue!ToSet(queue'))
      /\ overlapped' = (overlapped \/ \E t \in Tabs : flushing[t].on)
      /\ UNCHANGED <<flushing, flight, server, failures>>
  BY DEF Queue!Enqueue, Queue!Forgets
<1>7. Queue!TypeOK'
  <2>1. dropped' \subseteq made'
    BY <1>1, <1>6 DEF ListOk, QueueInv, Queue!TypeOK
  <2> QED BY <1>5, <1>6, <2>1 DEF QueueInv, Queue!TypeOK
<1>8. ListOk(queue)'
  BY <1>1, <1>5, <1>6 DEF ListOk
<1>9. ASSUME NEW t \in Tabs PROVE FlushOk(t)'
  <2>1. FlushOk(t)
    BY DEF QueueInv
  <2> QED BY <1>6, <2>1, Zenon DEF FlushOk, ListOk
<1>10. Queue!NothingLost'
  BY <1>5, <1>6, Zenon DEF QueueInv, Queue!NothingLost
<1> QED BY <1>7, <1>8, <1>9, <1>10 DEF QueueInv

LEMMA FlushInv == ASSUME QueueInv, NEW t \in Tabs, Queue!Flush(t) PROVE QueueInv'
<1>1. /\ flushing' = [flushing EXCEPT ![t] = [on |-> TRUE, items |-> queue]] /\ ~flushing[t].on
      /\ flushing \in [Tabs -> [on : BOOLEAN, items : Seq(Writes)]] /\ ListOk(queue) /\ queue \in Seq(Writes)
      /\ UNCHANGED <<queue, made, flight, server, dropped, failures, overlapped>>
  BY DEF Queue!Flush, QueueInv, Queue!TypeOK
<1>2. Queue!TypeOK'
  BY <1>1 DEF QueueInv, Queue!TypeOK
<1>3. ASSUME NEW u \in Tabs PROVE FlushOk(u)'
  <2>1. FlushOk(u)
    BY DEF QueueInv
  <2>2. CASE u = t
    <3>1. flushing'[u].on /\ flushing'[u].items = queue /\ ~flight[u]
      BY <1>1, <2>1, <2>2 DEF FlushOk
    <3> QED BY <1>1, <3>1 DEF FlushOk, ListOk, InHand, Queue!OnePerPath
  <2>3. CASE u # t
    <3>1. flushing'[u] = flushing[u]
      BY <1>1, <2>3
    <3> QED BY <1>1, <2>1, <3>1 DEF FlushOk, ListOk, InHand, Settled, Queue!OnePerPath
  <2> QED BY <2>2, <2>3
<1>4. ListOk(queue)' /\ Queue!NothingLost'
  BY <1>1 DEF QueueInv, Queue!NothingLost, ListOk, Queue!OnePerPath
<1> QED BY <1>2, <1>3, <1>4 DEF QueueInv

LEMMA QueueRequestInv == ASSUME QueueInv, NEW t \in Tabs, Queue!Request(t) PROVE QueueInv'
<1>1. Queue!TypeOK'
  BY DEF QueueInv, Queue!TypeOK, Queue!Request
<1>2. ASSUME NEW u \in Tabs PROVE FlushOk(u)'
  <2>1. FlushOk(u) /\ flight \in [Tabs -> BOOLEAN]
    BY DEF QueueInv, Queue!TypeOK
  <2>2. flight'[u] => flight[u] \/ u = t
    BY <2>1 DEF Queue!Request
  <2> QED BY <2>1, <2>2 DEF FlushOk, Queue!Request, ListOk, InHand, Settled, Queue!OnePerPath
<1>3. ListOk(queue)' /\ Queue!NothingLost'
  BY DEF QueueInv, Queue!NothingLost, ListOk, Queue!Request, Queue!OnePerPath
<1> QED BY <1>1, <1>2, <1>3 DEF QueueInv

\* The server's answer, either way: the first write is settled, and the storage
\* becomes the rest of the tab's list.
LEMMA DoneInv ==
  ASSUME Queue!QueueAssumption, QueueInv, NEW t \in Tabs, Queue!Done(t), server' \subseteq made, dropped' \subseteq made,
         Settled' = Settled \cup {Head(flushing[t].items)}
  PROVE  QueueInv'
<1> DEFINE h == Head(flushing[t].items)
           rest == Tail(flushing[t].items)
<1>1. FlushOk(t) /\ flight[t] /\ flushing[t].on /\ flushing[t].items # <<>> /\ flushing[t].items \in Seq(Writes)
  BY HandOf DEF QueueInv, Queue!Done
<1>2. /\ h \in Writes /\ rest \in Seq(Writes) /\ Len(rest) = Len(flushing[t].items) - 1
      /\ InHand(t) = Queue!ToSet(rest) \cup {h} /\ Queue!OnePerPath(rest)
  BY <1>1, TailOf DEF FlushOk, ListOk, InHand
<1>3. Len(rest) <= MaxItems /\ Queue!Newest(rest) = rest
  <2>1. Len(rest) \in Nat /\ Len(flushing[t].items) \in Nat /\ Len(flushing[t].items) <= MaxItems /\ MaxItems \in Nat
    BY <1>1, <1>2, LenProperties DEF FlushOk, ListOk, Queue!QueueAssumption
  <2>2. Len(rest) <= MaxItems
    BY <1>2, <2>1
  <2> QED BY <1>2, <2>2, QueueNewestOf, Zenon
<1>4. /\ flushing \in [Tabs -> [on : BOOLEAN, items : Seq(Writes)]] /\ flight \in [Tabs -> BOOLEAN]
      /\ flight' = [flight EXCEPT ![t] = FALSE]
      /\ flushing' = [flushing EXCEPT ![t] = [flushing[t] EXCEPT !.items = rest]]
      /\ queue' = rest /\ UNCHANGED <<made, failures, overlapped>>
  BY <1>3 DEF Queue!Done, Queue!Rest, QueueInv, Queue!TypeOK
<1> HIDE DEF h, rest
<1>5. Settled' = Settled \cup {h}
  BY DEF h
<1>6. ListOk(queue)'
  BY <1>1, <1>2, <1>3, <1>4 DEF ListOk, InHand, FlushOk, Queue!OnePerPath
<1>7. Queue!TypeOK'
  <2>1. [flushing[t] EXCEPT !.items = rest] \in [on : BOOLEAN, items : Seq(Writes)]
    BY <1>2, <1>4, Zenon
  <2>2. flushing' \in [Tabs -> [on : BOOLEAN, items : Seq(Writes)]] /\ flight' \in [Tabs -> BOOLEAN]
    BY <1>4, <2>1
  <2> QED BY <1>2, <1>3, <1>4, <1>6, <2>2 DEF QueueInv, Queue!TypeOK, ListOk
<1>8. ASSUME ~overlapped PROVE InHand(t) \cup Settled = Queue!ToSet(queue) \cup Settled
  BY <1>1, <1>8 DEF FlushOk
<1>9. ASSUME NEW u \in Tabs PROVE FlushOk(u)'
  <2>1. FlushOk(u)
    BY DEF QueueInv
  <2>2. CASE u = t
    <3>1. flushing'[u].on = flushing[t].on /\ flushing'[u].items = rest /\ ~flight'[u]
      <4>1. flushing'[u] = [flushing[t] EXCEPT !.items = rest] /\ flight'[u] = FALSE
        BY <1>4, <2>2
      <4> QED BY <1>4, <4>1
    <3> QED BY <1>4, <1>6, <3>1 DEF FlushOk, ListOk, InHand, Queue!OnePerPath
  <2>3. CASE u # t
    <3>1. flushing'[u] = flushing[u] /\ flight'[u] = flight[u]
      BY <1>4, <2>3
    <3>2. ListOk(flushing[u].items)' /\ (flight'[u] => flushing'[u].on /\ flushing'[u].items # <<>>)
      BY <1>4, <2>1, <3>1 DEF FlushOk, ListOk, Queue!OnePerPath
    <3>3. ASSUME ~overlapped', flushing'[u].on PROVE InHand(u)' \cup Settled' = Queue!ToSet(queue') \cup Settled'
      <4>1. InHand(u) \cup Settled = Queue!ToSet(queue) \cup Settled
        BY <1>4, <2>1, <3>1, <3>3 DEF FlushOk
      <4>2. InHand(u)' = InHand(u) /\ Queue!ToSet(queue') = Queue!ToSet(rest) /\ ~overlapped
        BY <1>4, <3>1, <3>3 DEF InHand
      <4> QED BY <1>2, <1>5, <1>8, <4>1, <4>2
    <3> QED BY <3>2, <3>3 DEF FlushOk
  <2> QED BY <2>2, <2>3
<1>10. Queue!NothingLost'
  <2>1. ASSUME ~overlapped' PROVE made' \subseteq Settled' \cup Queue!ToSet(queue')
    <3>1. made \subseteq Settled \cup Queue!ToSet(queue) /\ ~overlapped
      BY <1>4, <2>1 DEF QueueInv, Queue!NothingLost, Settled
    <3> QED BY <1>2, <1>4, <1>5, <1>8, <3>1
  <2> QED BY <2>1 DEF Queue!NothingLost, Settled
<1> QED BY <1>6, <1>7, <1>9, <1>10 DEF QueueInv

LEMMA AnswerInv == ASSUME Queue!QueueAssumption, QueueInv, NEW t \in Tabs, Queue!Answered(t) \/ Queue!Refused(t) PROVE QueueInv'
<1> DEFINE h == Head(flushing[t].items)
<1>1. Queue!Done(t) /\ h \in made /\ server \subseteq made /\ dropped \subseteq made
  BY HandOf DEF Queue!Answered, Queue!Refused, Queue!Done, QueueInv, Queue!TypeOK
<1>2. server' \subseteq made /\ dropped' \subseteq made /\ Settled' = Settled \cup {h}
  BY <1>1 DEF Queue!Answered, Queue!Refused, Settled
<1> QED BY <1>1, <1>2, DoneInv

LEMMA OfflineInv == ASSUME Queue!QueueAssumption, QueueInv, NEW t \in Tabs, Queue!Offline(t) PROVE QueueInv'
<1> DEFINE h == Head(flushing[t].items)
<1>1. flight[t] /\ h \in made
  BY HandOf DEF Queue!Offline
<1>2. /\ flushing' = [flushing EXCEPT ![t] = Queue!NotFlushing] /\ flight' = [flight EXCEPT ![t] = FALSE]
      /\ (server' = server \/ server' = server \cup {h}) /\ queue' = queue /\ failures' = failures + 1 /\ failures < MaxFailures
      /\ UNCHANGED <<made, dropped, overlapped>>
      /\ flushing \in [Tabs -> [on : BOOLEAN, items : Seq(Writes)]] /\ flight \in [Tabs -> BOOLEAN]
  BY DEF Queue!Offline, Queue!Stays, QueueInv, Queue!TypeOK
<1>3. Queue!TypeOK'
  <2>1. failures' \in 0 .. MaxFailures
    BY <1>2 DEF QueueInv, Queue!TypeOK, Queue!QueueAssumption
  <2>2. Queue!NotFlushing \in [on : BOOLEAN, items : Seq(Writes)]
    BY DEF Queue!NotFlushing
  <2>3. flushing' \in [Tabs -> [on : BOOLEAN, items : Seq(Writes)]] /\ flight' \in [Tabs -> BOOLEAN]
    BY <1>2, <2>2
  <2> QED BY <1>1, <1>2, <2>1, <2>3 DEF QueueInv, Queue!TypeOK, Queue!OnePerPath
<1>4. ListOk(queue)'
  BY <1>2 DEF QueueInv, ListOk, Queue!OnePerPath
<1>5. ASSUME NEW u \in Tabs PROVE FlushOk(u)'
  <2>1. FlushOk(u)
    BY DEF QueueInv
  <2>2. CASE u = t
    <3>1. flushing'[u] = Queue!NotFlushing /\ ~flight'[u]
      BY <1>2, <2>2
    <3>2. Queue!ToSet(<<>>) = {} /\ Len(<<>>) = 0 /\ Queue!OnePerPath(<<>>)
      BY DEF Queue!ToSet, Queue!OnePerPath
    <3>3. ~flushing'[u].on /\ flushing'[u].items = <<>>
      BY <3>1 DEF Queue!NotFlushing
    <3>4. ListOk(<<>>)
      BY <3>2 DEF ListOk, Queue!QueueAssumption
    <3>5. ListOk(flushing[u].items)'
      BY <1>2, <3>3, <3>4 DEF ListOk, Queue!OnePerPath
    <3> QED BY <3>1, <3>3, <3>5 DEF FlushOk
  <2>3. CASE u # t
    <3>1. flushing'[u] = flushing[u] /\ flight'[u] = flight[u]
      BY <1>2, <2>3
    <3> QED BY <1>2, <2>1, <3>1 DEF FlushOk, ListOk, InHand, Settled, Queue!OnePerPath
  <2> QED BY <2>2, <2>3
<1>6. Queue!NothingLost'
  BY <1>2 DEF QueueInv, Queue!NothingLost
<1> QED BY <1>3, <1>4, <1>5, <1>6 DEF QueueInv

LEMMA FlushedInv == ASSUME Queue!QueueAssumption, QueueInv, NEW t \in Tabs, Queue!Flushed(t) PROVE QueueInv'
<1>1. /\ flushing' = [flushing EXCEPT ![t] = Queue!NotFlushing] /\ flushing[t].items = <<>>
      /\ UNCHANGED <<queue, made, flight, server, dropped, failures, overlapped>>
      /\ flushing \in [Tabs -> [on : BOOLEAN, items : Seq(Writes)]] /\ ~flight[t]
  BY HandOf DEF Queue!Flushed, QueueInv, Queue!TypeOK
<1>2. Queue!TypeOK'
  <2>1. Queue!NotFlushing \in [on : BOOLEAN, items : Seq(Writes)]
    BY DEF Queue!NotFlushing
  <2> QED BY <1>1, <2>1 DEF QueueInv, Queue!TypeOK, Queue!OnePerPath
<1>3. ASSUME NEW u \in Tabs PROVE FlushOk(u)'
  <2>1. FlushOk(u)
    BY DEF QueueInv
  <2>2. CASE u = t
    <3>1. flushing'[u] = Queue!NotFlushing /\ ~flight'[u]
      BY <1>1, <2>2
    <3>2. ~flushing'[u].on /\ flushing'[u].items = flushing[u].items
      BY <1>1, <2>2, <3>1 DEF Queue!NotFlushing
    <3>3. ListOk(flushing[u].items)'
      BY <1>1, <2>1, <3>2 DEF FlushOk, ListOk, Queue!OnePerPath
    <3> QED BY <3>1, <3>2, <3>3 DEF FlushOk
  <2>3. CASE u # t
    <3>1. flushing'[u] = flushing[u] /\ flight'[u] = flight[u]
      BY <1>1, <2>3
    <3> QED BY <1>1, <2>1, <3>1 DEF FlushOk, ListOk, InHand, Settled, Queue!OnePerPath
  <2> QED BY <2>2, <2>3
<1>4. ListOk(queue)' /\ Queue!NothingLost'
  BY <1>1 DEF QueueInv, Queue!NothingLost, ListOk, Queue!OnePerPath
<1> QED BY <1>2, <1>3, <1>4 DEF QueueInv

LEMMA QueueNextInv == ASSUME Queue!QueueAssumption, QueueInv, [Queue!Next]_Queue!vars PROVE QueueInv'
<1>1. CASE UNCHANGED Queue!vars
  <2>1. Queue!TypeOK' /\ ListOk(queue)' /\ Queue!NothingLost'
    BY <1>1 DEF QueueInv, Queue!vars, Queue!TypeOK, ListOk, Queue!OnePerPath, Queue!NothingLost
  <2>2. \A t \in Tabs : FlushOk(t)'
    BY <1>1 DEF QueueInv, Queue!vars, FlushOk, ListOk, Queue!OnePerPath, InHand, Settled
  <2> QED BY <2>1, <2>2 DEF QueueInv
<1>2. CASE Queue!Next
  BY <1>2, QueueSentInv, EnqueueInv, FlushInv, QueueRequestInv, AnswerInv, OfflineInv, FlushedInv DEF Queue!Next
<1> QED BY <1>1, <1>2

LEMMA QueueInvariant == ASSUME Queue!QueueAssumption PROVE Queue!Spec => []QueueInv
<1>1. Queue!Init => QueueInv
  BY QueueInitInv
<1>2. QueueInv /\ [Queue!Next]_Queue!vars => QueueInv'
  BY QueueNextInv
<1> QED BY <1>1, <1>2, PTL DEF Queue!Spec

\* The lists and the writes keep their types, one write of a path in the storage
\* (enqueue).
THEOREM QueueTypeCorrect == ASSUME Queue!QueueAssumption PROVE Queue!Spec => []Queue!TypeOK
<1>1. QueueInv => Queue!TypeOK
  BY DEF QueueInv
<1> QED BY <1>1, QueueInvariant, PTL

\* A write that was made is at the server, queued, or was dropped for a reason,
\* whatever tabs replay at once (flushOutbox).
THEOREM NothingIsLost == ASSUME Queue!QueueAssumption PROVE Queue!Spec => []Queue!NothingLost
<1>1. QueueInv => Queue!NothingLost
  BY DEF QueueInv
<1> QED BY <1>1, QueueInvariant, PTL

-----------------------------------------------------------------------------
(* Watching a lesson: Watch                                              *)

\* What a row, or a copy of it in a request, says of the video that is there now.
IsOfVideo(e) ==
  /\ e.started # Video!Never => first # Video!Never /\ first <= e.started
  /\ e.percent >= Video!Goal => reached

\* A request that counts has raised the percentage it reports, and one that is
\* about to record has checked an entity of this video.
Counts(r) ==
  /\ IsOfVideo(videoRequest[r].entity)
  /\ videoRequest[r].at \in {"save", "again"} /\ videoRequest[r].percent >= Video!Goal => reached
  /\ videoRequest[r].at = "record" => reached /\ first # Video!Never /\ clock >= first + Need

VideoInv ==
  /\ Video!TypeOK
  /\ \A r \in Requests : videoRequest[r].at = "idle" => videoRequest[r] = Video!Idle
  /\ ~videoRow.exists => videoRow = Video!NoRow
  /\ first = Video!Never \/ first <= clock
  /\ ~videoOverlapped => IsOfVideo(videoRow) /\ \A r \in Requests : Counts(r)

LEMMA VideoInitInv ==
  ASSUME Video!WatchAssumption, Video!Init PROVE VideoInv
<1>1. 0 \in 0 .. MaxClock /\ 0 \in 0 .. Video!Never /\ Video!Never \in 0 .. Video!Never /\ 0 \in 0 .. MaxReplaced /\ Video!Never \in Nat /\ ~(0 >= Video!Goal)
  BY DEF Video!WatchAssumption, Video!Never, Video!Goal
<1>2. Video!NoRow \in Video!RowType /\ Video!Idle \in Video!RequestType
  BY <1>1 DEF Video!NoRow, Video!RowType, Video!Idle, Video!RequestType
<1>3. Video!TypeOK
  BY <1>1, <1>2, Zenon DEF Video!Init, Video!TypeOK
<1>4. IsOfVideo(Video!NoRow)
  BY <1>1 DEF IsOfVideo, Video!NoRow
<1>5. \A r \in Requests : Counts(r)
  BY <1>4 DEF Video!Init, Counts, Video!Idle
<1> QED BY <1>3, <1>4, <1>5 DEF Video!Init, VideoInv

\* A request goes from one step to the next and leaves the row and the time.
LEMMA VideoGoesInv ==
  ASSUME Video!WatchAssumption, VideoInv, NEW r \in Requests, NEW q \in Video!RequestType,
         videoRequest' = [videoRequest EXCEPT ![r] = q], q.at = "idle" => q = Video!Idle, ~videoOverlapped => Counts(r)',
         videoRecorded' \in BOOLEAN, UNCHANGED <<videoRow, clock, replaced, videoOverlapped, first, reached>>
  PROVE  VideoInv'
<1>1. videoRequest' \in [Requests -> Video!RequestType] /\ videoRequest'[r] = q /\ \A s \in Requests \ {r} : videoRequest'[s] = videoRequest[s]
  BY DEF VideoInv, Video!TypeOK
<1>2. Video!TypeOK'
  BY <1>1 DEF VideoInv, Video!TypeOK, Video!Never
<1>3. \A s \in Requests : videoRequest'[s].at = "idle" => videoRequest'[s] = Video!Idle
  BY <1>1 DEF VideoInv
<1>4. ASSUME ~videoOverlapped', NEW s \in Requests PROVE Counts(s)'
  <2>1. CASE s = r
    BY <1>4, <2>1
  <2>2. CASE s # r
    <3>1. Counts(s) /\ videoRequest'[s] = videoRequest[s]
      BY <1>1, <1>4, <2>2 DEF VideoInv
    <3> QED BY <3>1 DEF Counts, IsOfVideo, Video!Never
  <2> QED BY <2>1, <2>2
<1>5. (first = Video!Never \/ first <= clock)' /\ (~videoOverlapped => IsOfVideo(videoRow))'
  BY DEF VideoInv, IsOfVideo, Video!Never
<1> QED BY <1>2, <1>3, <1>4, <1>5, Zenon DEF VideoInv, Video!Idle, Video!NoRow, Video!Never

LEMMA VideoNextInv ==
  ASSUME Video!WatchAssumption, VideoInv, [Video!Next]_Video!vars PROVE VideoInv'
<1>0. /\ Video!TypeOK /\ MaxClock \in Nat /\ Video!Never \in Nat /\ Need \in Nat /\ Video!Goal \in Nat /\ clock \in Nat /\ first \in Nat /\ clock < Video!Never
      /\ clock <= MaxClock /\ Video!Never = MaxClock + 1 /\ first <= Video!Never
      /\ \A r \in Requests : videoRequest[r] \in Video!RequestType
      /\ videoRow \in Video!RowType
      /\ \A e \in Video!RowType : e.exists \in BOOLEAN /\ e.percent \in Percents \cup {0} /\ e.percent \in Nat /\ e.started \in 0 .. Video!Never /\ e.started \in Nat
  <2>1. MaxClock \in Nat /\ Video!Never \in Nat /\ Need \in Nat /\ Video!Goal \in Nat /\ Video!Never = MaxClock + 1 /\ Percents \subseteq Nat
    BY DEF Video!WatchAssumption, Video!Never, Video!Goal
  <2>2. Video!TypeOK
    BY DEF VideoInv
  <2>3. clock \in 0 .. MaxClock /\ first \in 0 .. Video!Never /\ videoRow \in Video!RowType /\ \A r \in Requests : videoRequest[r] \in Video!RequestType
    BY <2>2 DEF Video!TypeOK
  <2>4. ASSUME NEW e \in Video!RowType
        PROVE  e.exists \in BOOLEAN /\ e.percent \in Percents \cup {0} /\ e.percent \in Nat /\ e.started \in 0 .. Video!Never /\ e.started \in Nat
    <3>1. e.exists \in BOOLEAN /\ e.percent \in Percents \cup {0} /\ e.started \in 0 .. Video!Never
      BY DEF Video!RowType
    <3> HIDE DEF Video!RowType
    <3>2. e.percent \in Nat
      <4>1. \A x \in Percents \cup {0} : x \in Nat
        BY ONLY <2>1
      <4> QED BY <3>1, <4>1
    <3>3. e.started \in Nat
      BY <2>1, <3>1
    <3> QED BY <3>1, <3>2, <3>3
  <2> HIDE DEF Video!RowType
  <2>5. clock \in Nat /\ clock <= MaxClock /\ clock < Video!Never /\ first \in Nat /\ first <= Video!Never
    BY <2>1, <2>3
  <2> QED BY <2>1, <2>2, <2>3, <2>4, <2>5
<1>1. ASSUME NEW r \in Requests, NEW p \in Percents, Video!Beat(r, p) PROVE VideoInv'
  <2> DEFINE q == [at |-> "read", percent |-> p, entity |-> Video!NoRow]
  <2>1. Video!NoRow \in Video!RowType /\ q \in Video!RequestType
    BY <1>0 DEF Video!NoRow, Video!RowType, Video!RequestType
  <2>2. IsOfVideo(Video!NoRow)'
    BY <1>0 DEF IsOfVideo, Video!NoRow, Video!Goal
  <2>3. videoRequest'[r] = q
    BY <1>0, <1>1 DEF Video!Beat, Video!TypeOK
  <2>4. Counts(r)'
    BY <2>2, <2>3 DEF Counts, IsOfVideo, Video!NoRow
  <2> QED BY <1>0, <1>1, <2>1, <2>3, <2>4, VideoGoesInv, Zenon DEF Video!Beat, Video!TypeOK
<1>2. ASSUME NEW r \in Requests, Video!Complete(r) PROVE VideoInv'
  <2> DEFINE q == [at |-> "check", percent |-> 0, entity |-> videoRow]
  <2>1. q \in Video!RequestType
    BY <1>0 DEF Video!RequestType
  <2>2. videoRequest'[r] = q
    BY <1>0, <1>2 DEF Video!Complete, Video!TypeOK
  <2>3. ~videoOverlapped => Counts(r)'
    BY <1>2, <2>2 DEF Video!Complete, Counts, IsOfVideo, VideoInv, Video!Never
  <2> QED BY <1>0, <1>2, <2>1, <2>2, <2>3, VideoGoesInv, Zenon DEF Video!Complete, Video!TypeOK
<1>3. ASSUME NEW r \in Requests, Video!Read(r) PROVE VideoInv'
  <2> DEFINE e == Video!Raised(videoRow, videoRequest[r].percent)
  <2>1. e \in Video!RowType /\ e.started # Video!Never
    BY <1>0, <1>3 DEF Video!Raised, Video!Higher, Video!Start, Video!RowType, Video!RequestType
  <2>2. videoRequest' \in [Requests -> Video!RequestType] /\ videoRequest'[r] = [videoRequest[r] EXCEPT !.at = "save", !.entity = e]
        /\ \A s \in Requests \ {r} : videoRequest'[s] = videoRequest[s]
    BY <1>0, <1>3, <2>1, Zenon DEF Video!Read, Video!TypeOK, Video!RequestType
  <2>3. first' \in Nat /\ first' # Video!Never /\ first' <= clock /\ (first # Video!Never => first' = first) /\ first' \in 0 .. Video!Never
    BY <1>0, <1>3 DEF Video!Read, VideoInv
  <2>4. Video!TypeOK'
    BY <1>3, <2>2, <2>3 DEF Video!Read, VideoInv, Video!TypeOK, Video!Never
  <2>5. ASSUME NEW d, IsOfVideo(d) PROVE IsOfVideo(d)'
    BY <1>3, <2>3, <2>5, Zenon DEF IsOfVideo, Video!Read, Video!Never
  <2>6. ASSUME ~videoOverlapped, NEW d, d = e PROVE IsOfVideo(d)'
    <3>1. IsOfVideo(videoRow)
      BY <2>6 DEF VideoInv
    <3>2. first' <= e.started
      BY <1>0, <2>3, <3>1 DEF Video!Raised, Video!Start, IsOfVideo
    <3>3. e.percent >= Video!Goal => reached'
      BY <1>0, <1>3, <3>1, Zenon DEF Video!Raised, Video!Higher, IsOfVideo, Video!Read
    <3> QED BY <2>3, <2>6, <3>2, <3>3 DEF IsOfVideo, Video!Never
  <2>7. ~videoOverlapped => IsOfVideo(videoRow)'
    BY <1>3, <2>5 DEF VideoInv, Video!Read
  <2>10. videoRequest'[r].at = "save" /\ videoRequest'[r].entity = e /\ videoRequest'[r].percent = videoRequest[r].percent
    BY <1>0, <2>2 DEF Video!RequestType
  <2>8. ASSUME ~videoOverlapped PROVE Counts(r)'
    <3>1. videoRequest'[r].percent >= Video!Goal => reached'
      BY <1>3, <2>10, Zenon DEF Video!Read
    <3>2. PICK d : d = e
      OBVIOUS
    <3>3. IsOfVideo(d)' /\ videoRequest'[r].entity = d
      BY <2>6, <2>8, <2>10, <3>2
    <3> HIDE DEF e
    <3> QED BY <2>10, <3>1, <3>3 DEF Counts, IsOfVideo
  <2>9. ASSUME ~videoOverlapped, NEW s \in Requests \ {r} PROVE Counts(s)'
    BY <1>3, <2>2, <2>3, <2>5, <2>9, Zenon DEF Counts, Video!Read, VideoInv
  <2>11. \A s \in Requests : videoRequest'[s].at = "idle" => videoRequest'[s] = Video!Idle
    BY <2>2, <2>10, Zenon DEF VideoInv
  <2>12. (first = Video!Never \/ first <= clock)' /\ (~videoRow.exists => videoRow = Video!NoRow)'
    BY <1>3, <2>3 DEF Video!Read, VideoInv, Video!NoRow, Video!Never
  <2>13. ~videoOverlapped' => IsOfVideo(videoRow)' /\ \A s \in Requests : Counts(s)'
    BY <1>3, <2>7, <2>8, <2>9 DEF Video!Read
  <2> QED BY <2>4, <2>11, <2>12, <2>13, Zenon DEF VideoInv, Video!Idle, Video!NoRow, Video!Never
<1>4. ASSUME NEW r \in Requests, Video!Save(r) PROVE VideoInv'
  <2> DEFINE e == videoRequest[r].entity
  <2>1. CASE ~e.exists /\ videoRow.exists /\ videoRequest' = [videoRequest EXCEPT ![r].at = "again"] /\ UNCHANGED videoRow
    <3> DEFINE q == [videoRequest[r] EXCEPT !.at = "again"]
    <3>1. q \in Video!RequestType /\ videoRequest' = [videoRequest EXCEPT ![r] = q] /\ videoRequest'[r] = q /\ q.at = "again"
      BY <1>0, <2>1 DEF Video!TypeOK, Video!RequestType
    <3>2. ~videoOverlapped => Counts(r)'
      BY <1>0, <1>4, <2>1, <3>1 DEF Counts, IsOfVideo, Video!Save, VideoInv, Video!Never, Video!RequestType
    <3> HIDE DEF q
    <3> QED BY <1>0, <1>4, <2>1, <3>1, <3>2, VideoGoesInv, Zenon DEF Video!Save, Video!TypeOK
  <2>2. CASE videoRow' = [e EXCEPT !.exists = TRUE] /\ videoRequest' = [videoRequest EXCEPT ![r].at = "check", ![r].entity = videoRow']
    <3>1. e \in Video!RowType /\ videoRow' \in Video!RowType /\ videoRow'.started = e.started /\ videoRow'.percent = e.percent
      BY <1>0, <2>2, Zenon DEF Video!RequestType, Video!RowType
    <3>2. videoRequest' \in [Requests -> Video!RequestType] /\ videoRequest'[r] = [videoRequest[r] EXCEPT !.at = "check", !.entity = videoRow']
          /\ \A s \in Requests \ {r} : videoRequest'[s] = videoRequest[s]
      BY <1>0, <2>2, <3>1, Zenon DEF Video!TypeOK, Video!RequestType
    <3>3. Video!TypeOK'
      BY <1>4, <3>1, <3>2 DEF Video!Save, VideoInv, Video!TypeOK, Video!Never
    <3>4. ASSUME NEW d, IsOfVideo(d) PROVE IsOfVideo(d)'
      BY <1>4, <3>4 DEF IsOfVideo, Video!Save, Video!Never
    <3>5. ~videoOverlapped => IsOfVideo(videoRow)'
      BY <1>4, <3>1 DEF VideoInv, Counts, IsOfVideo, Video!Save, Video!Never
    <3>6. videoRequest'[r].at = "check" /\ videoRequest'[r].entity = videoRow'
      BY <1>0, <3>2 DEF Video!RequestType
    <3>7. ~videoOverlapped => Counts(r)'
      BY <3>5, <3>6 DEF Counts, IsOfVideo
    <3>8. ASSUME ~videoOverlapped, NEW s \in Requests \ {r} PROVE Counts(s)'
      BY <1>4, <3>2, <3>4, <3>8 DEF Counts, Video!Save, VideoInv
    <3>9. \A s \in Requests : videoRequest'[s].at = "idle" => videoRequest'[s] = Video!Idle
      BY <3>2, <3>6, Zenon DEF VideoInv
    <3>10. (first = Video!Never \/ first <= clock)' /\ (~videoRow.exists => videoRow = Video!NoRow)'
      BY <1>0, <1>4, <2>2, <3>1 DEF Video!Save, VideoInv, Video!NoRow, Video!Never, Video!RowType
    <3>11. ~videoOverlapped' => IsOfVideo(videoRow)' /\ \A s \in Requests : Counts(s)'
      BY <1>4, <3>5, <3>7, <3>8 DEF Video!Save
    <3> QED BY <3>3, <3>9, <3>10, <3>11, Zenon DEF VideoInv, Video!Idle, Video!NoRow, Video!Never
  <2> QED BY <1>4, <2>1, <2>2 DEF Video!Save
<1>5. ASSUME NEW r \in Requests, Video!Check(r) PROVE VideoInv'
  <2> DEFINE q == IF Video!Watched(videoRequest[r].entity) THEN [videoRequest[r] EXCEPT !.at = "record"] ELSE Video!Idle
  <2>1. Video!Idle \in Video!RequestType
    BY <1>0 DEF Video!Idle, Video!NoRow, Video!RequestType, Video!RowType
  <2>2. q \in Video!RequestType /\ videoRequest' = [videoRequest EXCEPT ![r] = q] /\ videoRequest'[r] = q /\ (q.at = "idle" => q = Video!Idle)
    BY <1>0, <1>5, <2>1 DEF Video!Check, Video!TypeOK, Video!RequestType
  <2>3. CASE Video!Watched(videoRequest[r].entity)
    <3>1. q.at = "record" /\ q.entity = videoRequest[r].entity
      BY <1>0, <2>3 DEF Video!RequestType
    <3>2. videoRequest[r].entity \in Video!RowType
      BY <1>0 DEF Video!RequestType
    <3>3. ~videoOverlapped => Counts(r)'
      BY <1>0, <1>5, <2>2, <2>3, <3>1, <3>2 DEF Counts, IsOfVideo, VideoInv, Video!Watched, Video!Check, Video!Never
    <3> HIDE DEF q
    <3> QED BY <1>5, <2>2, <3>3, VideoGoesInv, Zenon DEF Video!Check, VideoInv, Video!TypeOK
  <2>4. CASE ~Video!Watched(videoRequest[r].entity)
    <3>1. q = Video!Idle /\ Counts(r)'
      BY <1>0, <2>2, <2>4 DEF Counts, IsOfVideo, Video!Idle, Video!NoRow, Video!Goal
    <3> HIDE DEF q
    <3> QED BY <1>5, <2>2, <3>1, VideoGoesInv, Zenon DEF Video!Check, VideoInv, Video!TypeOK
  <2> QED BY <2>3, <2>4
<1>6. ASSUME NEW r \in Requests, Video!Record(r) PROVE VideoInv'
  <2>1. Video!Idle \in Video!RequestType
    BY <1>0 DEF Video!Idle, Video!NoRow, Video!RequestType, Video!RowType
  <2>2. videoRequest'[r] = Video!Idle
    BY <1>0, <1>6 DEF Video!Record, Video!TypeOK
  <2>3. Counts(r)'
    BY <1>0, <2>2 DEF Counts, IsOfVideo, Video!Idle, Video!NoRow, Video!Goal
  <2> QED BY <1>6, <2>1, <2>2, <2>3, VideoGoesInv, Zenon DEF Video!Record
<1>7. CASE Video!Replace
  <2>1. videoRow' \in Video!RowType /\ videoRow'.percent = 0 /\ videoRow'.started = Video!Never
    <3>1. CASE videoRow.exists
      <4>1. videoRow' = [exists |-> videoRow.exists, percent |-> 0, started |-> Video!Never]
        BY <1>0, <1>7, <3>1, Zenon DEF Video!Replace, Video!Reset, Video!RowType
      <4> QED BY <1>0, <3>1, <4>1 DEF Video!RowType
    <3>2. CASE ~videoRow.exists
      BY <1>0, <1>7, <3>2 DEF Video!Replace, VideoInv, Video!NoRow
    <3> QED BY <3>1, <3>2
  <2>2. replaced' \in 0 .. MaxReplaced
    BY <1>7 DEF Video!Replace, VideoInv, Video!TypeOK, Video!WatchAssumption
  <2>3. first' = Video!Never /\ reached' = FALSE /\ Video!Never \in 0 .. Video!Never /\ UNCHANGED <<videoRequest, clock, videoRecorded>> /\ videoOverlapped' \in BOOLEAN
    BY <1>0, <1>7 DEF Video!Replace
  <2>4. Video!TypeOK'
    BY <1>0, <2>1, <2>2, <2>3, Zenon DEF Video!TypeOK, Video!Never
  <2>5. IsOfVideo(videoRow)'
    BY <1>0, <2>1 DEF IsOfVideo, Video!Never, Video!Goal
  <2>6. ASSUME ~videoOverlapped', NEW r \in Requests PROVE Counts(r)'
    <3>1. videoRequest'[r] = Video!Idle
      BY <1>7, <2>3, <2>6 DEF Video!Replace, VideoInv
    <3>2. videoRequest'[r].at = "idle" /\ videoRequest'[r].entity.percent = 0 /\ videoRequest'[r].entity.started = Video!Never
      BY <3>1 DEF Video!Idle, Video!NoRow
    <3> QED BY <1>0, <3>2 DEF Counts, IsOfVideo, Video!Never, Video!Goal
  <2>7. (~videoRow.exists => videoRow = Video!NoRow)'
    BY <1>0, <1>7, <2>1 DEF Video!Replace, Video!Reset, VideoInv, Video!NoRow, Video!Never, Video!RowType
  <2> QED BY <2>3, <2>4, <2>5, <2>6, <2>7, Zenon DEF VideoInv, Video!Idle, Video!NoRow, Video!Never
<1>8. CASE Video!Tick
  <2>1. clock' \in 0 .. MaxClock /\ clock' = clock + 1 /\ clock' \in Nat
    BY <1>0, <1>8 DEF Video!Tick
  <2>2. Video!TypeOK'
    BY <1>8, <2>1 DEF Video!Tick, VideoInv, Video!TypeOK, Video!Never
  <2>3. ASSUME NEW d, IsOfVideo(d) PROVE IsOfVideo(d)'
    BY <1>8, <2>3 DEF IsOfVideo, Video!Tick, Video!Never
  <2>4. ~videoOverlapped => \A r \in Requests : Counts(r)'
    BY <1>0, <1>8, <2>1, <2>3 DEF Video!Tick, VideoInv, Counts
  <2>5. (first = Video!Never \/ first <= clock)'
    BY <1>0, <1>8, <2>1 DEF Video!Tick, VideoInv, Video!Never
  <2> QED BY <1>8, <2>2, <2>3, <2>4, <2>5, Zenon DEF Video!Tick, VideoInv, Video!Idle, Video!NoRow, Video!Never
<1>9. CASE UNCHANGED Video!vars
  BY <1>9 DEF Video!vars, VideoInv, Video!TypeOK, Counts, IsOfVideo, Video!Never, Video!Idle, Video!NoRow
<1> QED BY <1>1, <1>2, <1>3, <1>4, <1>5, <1>6, <1>7, <1>8, <1>9 DEF Video!Next

\* The row, the requests and the time keep their types.
THEOREM VideoTypeCorrect ==
  ASSUME Video!WatchAssumption PROVE Video!Spec => []Video!TypeOK
<1>1. Video!Init => VideoInv
  BY VideoInitInv
<1>2. VideoInv /\ [Video!Next]_Video!vars => VideoInv'
  BY VideoNextInv
<1>3. VideoInv => Video!TypeOK
  BY DEF VideoInv
<1> QED BY <1>1, <1>2, <1>3, PTL DEF Video!Spec

\* A lesson is recorded as watched when its video has been, however many
\* heartbeats read and save the row at a time and whenever the video is replaced
\* (completeIfWatched, onRevisionApplied).
THEOREM RecordedIsWatched ==
  ASSUME Video!WatchAssumption PROVE Video!Spec => Video!WatchedInTime
<1>1. Video!Init => VideoInv
  BY VideoInitInv
<1>2. VideoInv /\ [Video!Next]_Video!vars => VideoInv'
  BY VideoNextInv
<1>3. ASSUME VideoInv, [Video!Next]_Video!vars PROVE [Video!RecordsWatched]_Video!vars
  <2>1. ASSUME NEW r \in Requests, Video!Record(r) PROVE Video!RecordsWatched
    BY <1>3, <2>1 DEF Video!Record, VideoInv, Counts, Video!RecordsWatched
  <2>2. ASSUME ~\E r \in Requests : Video!Record(r) PROVE videoRecorded' = videoRecorded
    BY <1>3, <2>2, Zenon DEF Video!Next, Video!Beat, Video!Complete, Video!Read, Video!Save, Video!Check, Video!Replace, Video!Tick, Video!vars
  <2> QED BY <1>3, <2>1, <2>2 DEF Video!RecordsWatched
<1> QED BY <1>1, <1>2, <1>3, PTL DEF Video!Spec, Video!WatchedInTime

-----------------------------------------------------------------------------
(* Payments and access: Access                                           *)

Seen == Grants!ToSet(log)
Before(i) == {log[j] : j \in 1 .. (i - 1)}

\* What a set of events says of a payment.
Stands(p, events) == Grants!Granting(p) \in events /\ Grants!Revoking(p, TRUE) \notin events /\ Grants!Revoking(p, FALSE) \notin events
Untouched(p, events) == Grants!Granting(p) \notin events /\ Grants!Revoking(p, TRUE) \notin events /\ Grants!Revoking(p, FALSE) \notin events
Follows(e, events) ==
  /\ e.kind = "PaymentConfirmed" => e = Grants!Granting(e.payment) /\ Untouched(e.payment, events)
  /\ e.kind = "RefundApproved" => /\ Stands(e.payment, events)
                                  /\ e.kept <=> \E q \in Payments \ {e.payment} : Stands(q, events)

\* Each event of the log follows from the events before it; what a payment is by
\* now is what the whole log says; all that is in flight is of the log; and the
\* row says what the events that took effect say, when they did so in turn.
LogOk == \A i \in DOMAIN log : Follows(log[i], Before(i))
PaymentOk(p) == (payment[p] = "confirmed" <=> Stands(p, Seen)) /\ (payment[p] = "open" => Untouched(p, Seen))
HandlerOk(h) == handler[h] # Grants!Free => handler[h].event \in Seen /\ handler[h].event.kind = "PaymentConfirmed"
InFlight ==
  /\ bus \subseteq Seen /\ outbox \subseteq Seen /\ handled \subseteq Seen
  /\ \A p \in publishing : Grants!Granting(p) \in Seen
  /\ \A h \in Handlers : HandlerOk(h)
RowOk == ordered => (row = "active" <=> \E p \in Payments : Stands(p, handled))

GrantsInv == Grants!TypeOK /\ LogOk /\ (\A p \in Payments : PaymentOk(p)) /\ InFlight /\ RowOk

-----------------------------------------------------------------------------
LEMMA EventsAre ==
  /\ \A p \in Payments : Grants!Granting(p) \in Grants!Events /\ \A k \in BOOLEAN : Grants!Revoking(p, k) \in Grants!Events
  /\ \A p, q \in Payments, k \in BOOLEAN : Grants!Granting(p) # Grants!Revoking(q, k)
  /\ \A p, q \in Payments : Grants!Granting(p) = Grants!Granting(q) => p = q
  /\ \A p, q \in Payments, k, l \in BOOLEAN : Grants!Revoking(p, k) = Grants!Revoking(q, l) => p = q /\ k = l
<1>1. ASSUME NEW p \in Payments, NEW k \in BOOLEAN PROVE Grants!Granting(p) \in Grants!Events /\ Grants!Revoking(p, k) \in Grants!Events
  BY DEF Grants!Granting, Grants!Revoking, Grants!Events
<1>2. ASSUME NEW p, NEW k PROVE /\ Grants!Granting(p).kind = "PaymentConfirmed" /\ Grants!Granting(p).payment = p
                                /\ Grants!Revoking(p, k).kind = "RefundApproved" /\ Grants!Revoking(p, k).payment = p /\ Grants!Revoking(p, k).kept = k
  BY DEF Grants!Granting, Grants!Revoking
<1>3. ASSUME NEW p \in Payments, NEW q \in Payments, NEW k \in BOOLEAN PROVE Grants!Granting(p) # Grants!Revoking(q, k)
  <2>1. Grants!Granting(p).kind = "PaymentConfirmed" /\ Grants!Revoking(q, k).kind = "RefundApproved"
    BY <1>2
  <2> QED BY <2>1
<1>4. ASSUME NEW p \in Payments, NEW q \in Payments, Grants!Granting(p) = Grants!Granting(q) PROVE p = q
  <2>1. Grants!Granting(p).payment = p /\ Grants!Granting(q).payment = q
    BY <1>2
  <2> QED BY <1>4, <2>1
<1>5. ASSUME NEW p \in Payments, NEW q \in Payments, NEW k \in BOOLEAN, NEW l \in BOOLEAN, Grants!Revoking(p, k) = Grants!Revoking(q, l)
      PROVE  p = q /\ k = l
  <2>1. Grants!Revoking(p, k).payment = p /\ Grants!Revoking(q, l).payment = q /\ Grants!Revoking(p, k).kept = k /\ Grants!Revoking(q, l).kept = l
    BY <1>2
  <2> QED BY <1>5, <2>1
<1> QED BY <1>1, <1>3, <1>4, <1>5, Zenon

LEMMA EventOf ==
  ASSUME NEW e \in Grants!Events
  PROVE  /\ e.payment \in Payments /\ e.kept \in BOOLEAN /\ e.kind \in {"PaymentConfirmed", "RefundApproved"}
         /\ e.kind = "RefundApproved" => e = Grants!Revoking(e.payment, e.kept)
BY DEF Grants!Events, Grants!Revoking

LEMMA LogIs ==
  ASSUME GrantsInv
  PROVE  /\ log \in Seq(Grants!Events) /\ Len(log) \in Nat /\ DOMAIN log = 1 .. Len(log) /\ Seen = {log[i] : i \in 1 .. Len(log)}
         /\ \A i \in 1 .. Len(log) : log[i] \in Grants!Events
<1>1. log \in Seq(Grants!Events)
  BY DEF GrantsInv, Grants!TypeOK
<1> QED BY <1>1, LenProperties, ElementOfSeq DEF Seen, Grants!ToSet

LEMMA GrantsInitInv == ASSUME Grants!AccessAssumption, Grants!Init PROVE GrantsInv
<1>1. <<>> \in Seq(Grants!Events) /\ DOMAIN <<>> = {} /\ Grants!ToSet(<<>>) = {}
  BY DEF Grants!ToSet
<1>2. Grants!Free \in [event : Grants!Events \cup {None}, found : Grants!Rows]
  BY DEF Grants!Free, Grants!Rows
<1>3. Grants!TypeOK
  BY <1>1, <1>2 DEF Grants!TypeOK, Grants!Init, Grants!Rows, Grants!AccessAssumption
<1>4. LogOk /\ InFlight /\ \A p \in Payments : PaymentOk(p)
  BY <1>1, Zenon DEF Grants!Init, LogOk, InFlight, PaymentOk, HandlerOk, Seen, Stands, Untouched
<1>5. RowOk
  BY DEF Grants!Init, RowOk, Stands
<1> QED BY <1>3, <1>4, <1>5 DEF GrantsInv

-----------------------------------------------------------------------------
\* A commit of financial adds its event at the end of the log.
LEMMA LogGrows ==
  ASSUME GrantsInv, NEW e \in Grants!Events, log' = Append(log, e), Follows(e, Seen)
  PROVE  log' \in Seq(Grants!Events) /\ Seen' = Seen \cup {e} /\ LogOk'
<1>1. log \in Seq(Grants!Events) /\ Len(log) \in Nat /\ DOMAIN log = 1 .. Len(log) /\ Seen = {log[i] : i \in 1 .. Len(log)}
  BY LogIs
<1>2. /\ log' \in Seq(Grants!Events) /\ Len(log') = Len(log) + 1 /\ log'[Len(log) + 1] = e
      /\ \A i \in 1 .. Len(log) : log'[i] = log[i]
  BY <1>1, AppendProperties
<1>3. DOMAIN log' = 1 .. (Len(log) + 1)
  BY <1>2, LenProperties
<1>4. \A i \in 1 .. (Len(log) + 1) : i \in 1 .. Len(log) \/ i = Len(log) + 1
  BY <1>1
<1>5. (\A i \in 1 .. Len(log) : i \in 1 .. (Len(log) + 1)) /\ Len(log) + 1 \in 1 .. (Len(log) + 1)
  BY <1>1
<1>6. Seen' = Seen \cup {e}
  <2>1. Seen' = {log'[i] : i \in 1 .. (Len(log) + 1)}
    BY <1>3 DEF Seen, Grants!ToSet
  <2> QED BY <1>1, <1>2, <1>4, <1>5, <2>1
<1>7. ASSUME NEW i \in 1 .. Len(log) PROVE Follows(log'[i], {log'[j] : j \in 1 .. (i - 1)})
  <2>1. \A j \in 1 .. (i - 1) : j \in 1 .. Len(log)
    BY <1>1
  <2>2. {log'[j] : j \in 1 .. (i - 1)} = Before(i)
    BY <1>2, <2>1 DEF Before
  <2>3. Follows(log[i], Before(i))
    BY <1>1 DEF GrantsInv, LogOk
  <2> QED BY <1>2, <2>2, <2>3, Zenon
<1>8. Follows(log'[Len(log) + 1], {log'[j] : j \in 1 .. (Len(log) + 1 - 1)})
  <2>1. {log'[j] : j \in 1 .. (Len(log) + 1 - 1)} = Seen
    BY <1>1, <1>2
  <2> QED BY <1>2, <2>1, Zenon
<1>9. LogOk'
  <2>1. \A i \in DOMAIN log' : Follows(log'[i], {log'[j] : j \in 1 .. (i - 1)})
    <3> DEFINE FollowsAt(i) == Follows(log'[i], {log'[j] : j \in 1 .. (i - 1)})
    <3>1. (\A i \in 1 .. Len(log) : FollowsAt(i)) /\ FollowsAt(Len(log) + 1)
      <4>1. \A i \in 1 .. Len(log) : FollowsAt(i)
        BY <1>7, Zenon
      <4>2. FollowsAt(Len(log) + 1)
        BY ONLY <1>8 DEF FollowsAt
      <4> QED BY <4>1, <4>2, Zenon
    <3> HIDE DEF FollowsAt
    <3>2. \A i \in DOMAIN log' : FollowsAt(i)
      BY <1>3, <1>4, <3>1
    <3> QED BY <3>2, Zenon DEF FollowsAt
  <2> QED BY <2>1, Zenon DEF LogOk, Before, Follows, Stands, Untouched
<1> QED BY <1>2, <1>6, <1>9

LEMMA InFlightGrows ==
  ASSUME GrantsInv, Seen \subseteq Seen', NEW e \in Seen', outbox' \in {outbox, outbox \cup {e}}, UNCHANGED <<bus, handled, handler>>,
         \A p \in publishing' : p \in publishing \/ Grants!Granting(p) = e
  PROVE  InFlight'
BY DEF GrantsInv, InFlight, HandlerOk, Grants!Free

LEMMA ConfirmInv == ASSUME GrantsInv, NEW p \in Payments, Grants!Confirm(p) PROVE GrantsInv'
<1>1. /\ payment[p] = "open" /\ payment' = [payment EXCEPT ![p] = "confirmed"] /\ log' = Append(log, Grants!Granting(p))
      /\ publishing' \in {publishing, publishing \cup {p}}
      /\ UNCHANGED <<effects, outbox, bus, handler, row, faults, handled, ordered>>
  BY DEF Grants!Confirm
<1>2. Grants!Granting(p) \in Grants!Events /\ payment \in [Payments -> {"open", "confirmed", "refunded"}]
  BY EventsAre DEF GrantsInv, Grants!TypeOK
<1>3. Follows(Grants!Granting(p), Seen)
  <2>1. Untouched(p, Seen)
    BY <1>1 DEF GrantsInv, PaymentOk
  <2>2. Grants!Granting(p).payment = p /\ Grants!Granting(p).kind = "PaymentConfirmed"
    BY DEF Grants!Granting
  <2> QED BY <2>1, <2>2 DEF Follows
<1>4. log' \in Seq(Grants!Events) /\ Seen' = Seen \cup {Grants!Granting(p)} /\ LogOk'
  BY <1>1, <1>2, <1>3, LogGrows
<1>5. Grants!TypeOK'
  BY <1>1, <1>2, <1>4 DEF GrantsInv, Grants!TypeOK
<1>6. ASSUME NEW q \in Payments PROVE PaymentOk(q)'
  <2>1. PaymentOk(q)
    BY DEF GrantsInv
  <2>2. CASE q = p
    <3>1. payment'[p] = "confirmed" /\ Stands(p, Seen)'
      BY <1>1, <1>2, <1>4, <2>1, <2>2, EventsAre, Zenon DEF Stands, PaymentOk, Untouched
    <3> QED BY <2>2, <3>1 DEF PaymentOk
  <2>3. CASE q # p
    <3>1. payment'[q] = payment[q] /\ Grants!Granting(q) # Grants!Granting(p) /\ Grants!Revoking(q, TRUE) # Grants!Granting(p) /\ Grants!Revoking(q, FALSE) # Grants!Granting(p)
      BY <1>1, <1>2, <2>3, EventsAre, Zenon
    <3> QED BY <1>4, <2>1, <3>1, Zenon DEF PaymentOk, Stands, Untouched
  <2> QED BY <2>2, <2>3
<1>7. InFlight'
  BY <1>1, <1>4, InFlightGrows, Zenon
<1>8. RowOk'
  BY <1>1, Zenon DEF GrantsInv, RowOk, Stands
<1> QED BY <1>4, <1>5, <1>6, <1>7, <1>8 DEF GrantsInv

LEMMA RefundInv == ASSUME GrantsInv, NEW p \in Payments, Grants!Refund(p) PROVE GrantsInv'
<1> DEFINE e == Grants!Revoking(p, Grants!Kept(p))
<1>1. /\ payment[p] = "confirmed" /\ payment' = [payment EXCEPT ![p] = "refunded"] /\ log' = Append(log, e)
      /\ outbox' = outbox \cup {e}
      /\ UNCHANGED <<effects, publishing, bus, handler, row, faults, handled, ordered>>
  BY DEF Grants!Refund
<1>2. Grants!Kept(p) \in BOOLEAN /\ payment \in [Payments -> {"open", "confirmed", "refunded"}]
  BY DEF Grants!Kept, GrantsInv, Grants!TypeOK
<1>3. e \in Grants!Events
  BY <1>2, EventsAre
<1>4. Grants!Kept(p) <=> \E q \in Payments \ {p} : Stands(q, Seen)
  BY DEF Grants!Kept, GrantsInv, PaymentOk
<1>5. Follows(e, Seen)
  <2>1. Stands(p, Seen)
    BY <1>1 DEF GrantsInv, PaymentOk
  <2>2. e.payment = p /\ e.kind = "RefundApproved" /\ e.kept = Grants!Kept(p)
    BY DEF Grants!Revoking
  <2> QED BY <1>4, <2>1, <2>2 DEF Follows
<1> DEFINE k == Grants!Kept(p)
<1>6. e = Grants!Revoking(p, k) /\ k \in BOOLEAN
  BY <1>2
<1> HIDE DEF e, k
<1>7. log' \in Seq(Grants!Events) /\ Seen' = Seen \cup {e} /\ LogOk'
  BY <1>1, <1>3, <1>5, LogGrows
<1>8. Grants!TypeOK'
  BY <1>1, <1>2, <1>3, <1>7 DEF GrantsInv, Grants!TypeOK
<1>9. ASSUME NEW q \in Payments PROVE PaymentOk(q)'
  <2>1. PaymentOk(q)
    BY DEF GrantsInv
  <2>2. CASE q = p
    <3>1. payment'[p] = "refunded"
      BY <1>1, <1>2
    <3>2. e = Grants!Revoking(p, TRUE) \/ e = Grants!Revoking(p, FALSE)
      BY <1>6, Zenon
    <3> QED BY <1>7, <2>2, <3>1, <3>2, Zenon DEF PaymentOk, Stands
  <2>3. CASE q # p
    <3>1. payment'[q] = payment[q] /\ Grants!Granting(q) # e /\ Grants!Revoking(q, TRUE) # e /\ Grants!Revoking(q, FALSE) # e
      BY <1>1, <1>2, <1>6, <2>3, EventsAre, Zenon
    <3> QED BY <1>7, <2>1, <3>1, Zenon DEF PaymentOk, Stands, Untouched
  <2> QED BY <2>2, <2>3
<1>10. InFlight'
  BY <1>1, <1>7, InFlightGrows, Zenon
<1>11. RowOk'
  BY <1>1, Zenon DEF GrantsInv, RowOk, Stands
<1> QED BY <1>7, <1>8, <1>9, <1>10, <1>11 DEF GrantsInv

LEMMA LogStays ==
  ASSUME LogOk, \A p \in Payments : PaymentOk(p), UNCHANGED <<payment, log>>
  PROVE  LogOk' /\ \A p \in Payments : PaymentOk(p)'
<1>1. LogOk'
  <2>1. \A i \in DOMAIN log : Follows(log[i], {log[j] : j \in 1 .. (i - 1)})
    BY DEF LogOk, Before
  <2>2. \A i \in DOMAIN log' : Follows(log'[i], {log'[j] : j \in 1 .. (i - 1)})
    BY <2>1
  <2> QED BY <2>2, Zenon DEF LogOk, Before, Follows, Stands, Untouched
<1>2. ASSUME NEW p \in Payments PROVE PaymentOk(p)'
  <2>1. PaymentOk(p) /\ Seen' = Seen
    BY DEF Seen
  <2> QED BY <2>1, Zenon DEF PaymentOk, Stands, Untouched
<1> QED BY <1>1, <1>2

\* Steps that do not touch the payments, the log, the row or what took effect.
LEMMA QuietInv ==
  ASSUME GrantsInv, UNCHANGED <<payment, log, row, handled, ordered>>, Grants!TypeOK', InFlight'
  PROVE  GrantsInv'
<1>1. LogOk' /\ \A p \in Payments : PaymentOk(p)'
  BY LogStays DEF GrantsInv
<1> QED BY <1>1, Zenon DEF GrantsInv, RowOk, Stands

LEMMA FinancialInv ==
  ASSUME Grants!AccessAssumption, GrantsInv, NEW p \in Payments, Grants!Reload(p) \/ Grants!Publish(p) \/ Grants!PublishFails(p)
  PROVE  GrantsInv'
<1>1. /\ UNCHANGED <<payment, log, row, handled, ordered, outbox, handler>>
      /\ publishing' \subseteq publishing \cup {p} /\ (p \in publishing' => Grants!Granting(p) \in Seen)
      /\ bus' \subseteq bus \cup {Grants!Granting(p)} /\ (bus' # bus => Grants!Granting(p) \in Seen)
      /\ effects' \subseteq effects \cup {p} /\ faults' \in 0 .. GrantFaults
  <2>1. faults \in 0 .. GrantFaults /\ (faults < GrantFaults => faults + 1 \in 0 .. GrantFaults)
    BY DEF GrantsInv, Grants!TypeOK, Grants!AccessAssumption
  <2>2. CASE Grants!Reload(p)
    <3>1. Grants!Granting(p) \in Seen
      BY <2>2, Zenon DEF Grants!Reload, Grants!Pending, GrantsInv, PaymentOk, Stands
    <3> QED BY <2>1, <2>2, <3>1 DEF Grants!Reload
  <2>3. CASE Grants!Publish(p)
    <3>1. Grants!Granting(p) \in Seen
      BY <2>3 DEF Grants!Publish, GrantsInv, InFlight
    <3> QED BY <2>1, <2>3, <3>1 DEF Grants!Publish
  <2>4. CASE Grants!PublishFails(p)
    <3>1. Grants!Granting(p) \in Seen
      BY <2>4 DEF Grants!PublishFails, GrantsInv, InFlight
    <3> QED BY <2>1, <2>4, <3>1 DEF Grants!PublishFails, Grants!Fault, Grants!MarkedAnyway
  <2> QED BY <2>2, <2>3, <2>4
<1>2. Grants!TypeOK'
  BY <1>1, EventsAre DEF GrantsInv, Grants!TypeOK
<1>3. InFlight'
  <2>1. Seen' = Seen
    BY <1>1 DEF Seen
  <2> QED BY <1>1, <2>1 DEF GrantsInv, InFlight, HandlerOk, Grants!Free
<1> QED BY <1>1, <1>2, <1>3, QuietInv

LEMMA RelayInv == ASSUME Grants!AccessAssumption, GrantsInv, NEW e \in outbox, Grants!Relay(e) PROVE GrantsInv'
<1>1. /\ UNCHANGED <<payment, log, row, handled, ordered, publishing, effects, handler>>
      /\ bus' = bus \cup {e} /\ outbox' \subseteq outbox /\ faults' \in 0 .. GrantFaults
  BY DEF Grants!Relay, Grants!Fault, GrantsInv, Grants!TypeOK, Grants!AccessAssumption
<1>2. Grants!TypeOK'
  BY <1>1 DEF GrantsInv, Grants!TypeOK
<1>3. InFlight'
  <2>1. Seen' = Seen
    BY <1>1 DEF Seen
  <2> QED BY <1>1, <2>1 DEF GrantsInv, InFlight, HandlerOk, Grants!Free
<1> QED BY <1>1, <1>2, <1>3, QuietInv

-----------------------------------------------------------------------------
\* Enrollment.

\* An event in its turn: all before it have taken effect, and nothing after it.
LEMMA TurnOf ==
  ASSUME GrantsInv, NEW e \in Seen, Grants!InTurn(e)
  PROVE  \E events : /\ Follows(e, events)
                     /\ handled = events \/ handled = events \cup {e}
<1>1. /\ log \in Seq(Grants!Events) /\ Len(log) \in Nat /\ DOMAIN log = 1 .. Len(log) /\ Seen = {log[i] : i \in 1 .. Len(log)}
      /\ \A i \in 1 .. Len(log) : log[i] \in Grants!Events
  BY LogIs
<1>2. ASSUME NEW i \in 1 .. Len(log), NEW j \in 1 .. Len(log), i < j PROVE log[i] # log[j]
  <2>1. log[i] \in Before(j)
    <3>1. i \in 1 .. (j - 1)
      BY <1>1, <1>2
    <3> QED BY <3>1 DEF Before
  <2>2. Follows(log[j], Before(j))
    BY <1>1 DEF GrantsInv, LogOk
  <2>3. log[j] \notin Before(j)
    <3>1. log[j] \in Grants!Events
      BY <1>1
    <3>2. CASE log[j].kind = "PaymentConfirmed"
      BY <2>2, <3>2 DEF Follows, Untouched
    <3>3. CASE log[j].kind = "RefundApproved"
      <4>1. Stands(log[j].payment, Before(j)) /\ log[j] = Grants!Revoking(log[j].payment, log[j].kept) /\ log[j].kept \in BOOLEAN
        BY <2>2, <3>1, <3>3, EventOf DEF Follows
      <4>2. log[j] = Grants!Revoking(log[j].payment, TRUE) \/ log[j] = Grants!Revoking(log[j].payment, FALSE)
        BY <4>1, Zenon
      <4> QED BY <4>1, <4>2, Zenon DEF Stands
    <3> QED BY <3>1, <3>2, <3>3, EventOf
  <2> QED BY <2>1, <2>3
<1>3. ASSUME NEW i \in 1 .. Len(log) PROVE Grants!Position(log[i]) = i
  <2>1. Grants!Position(log[i]) \in 1 .. Len(log) /\ log[Grants!Position(log[i])] = log[i]
    BY <1>1 DEF Grants!Position
  <2> QED BY <1>1, <1>2, <2>1
<1>4. PICK j \in 1 .. Len(log) : e = log[j]
  BY <1>1
<1>5. Grants!Position(e) = j /\ Follows(e, Before(j))
  BY <1>1, <1>3, <1>4 DEF GrantsInv, LogOk
<1>6. ASSUME NEW d \in Before(j) PROVE d \in handled
  <2>1. PICK i \in 1 .. (j - 1) : d = log[i]
    BY DEF Before
  <2>2. i \in 1 .. Len(log) /\ i < j
    BY <1>1, <2>1
  <2>3. d \in Seen /\ Grants!Position(d) < Grants!Position(e)
    BY <1>1, <1>3, <1>5, <2>1, <2>2
  <2> QED BY <2>3 DEF Grants!InTurn, Seen
<1>7. ASSUME NEW d \in handled, d # e PROVE d \in Before(j)
  <2>1. PICK i \in 1 .. Len(log) : d = log[i]
    BY <1>1, <1>7 DEF GrantsInv, InFlight
  <2>2. i <= j
    BY <1>3, <1>5, <1>7, <2>1 DEF Grants!InTurn
  <2>3. i \in 1 .. (j - 1)
    BY <1>1, <1>4, <1>7, <2>1, <2>2
  <2> QED BY <2>1, <2>3 DEF Before
<1>8. handled = Before(j) \/ handled = Before(j) \cup {e}
  BY <1>6, <1>7, Zenon
<1> QED BY <1>5, <1>8

\* What an event that takes effect in its turn leaves.
LEMMA EffectOf ==
  ASSUME GrantsInv, NEW e \in Seen, NEW r, ordered, Grants!InTurn(e),
         \/ e.kind = "PaymentConfirmed" /\ r = "active"
         \/ e.kind = "RefundApproved" /\ r = IF ~e.kept /\ row = "active" THEN "refunded" ELSE row
  PROVE  r = "active" <=> \E p \in Payments : Stands(p, handled \cup {e})
<1>1. PICK events : Follows(e, events) /\ (handled = events \/ handled = events \cup {e})
  BY TurnOf
<1>2. handled \cup {e} = events \cup {e} /\ e \in Grants!Events
  BY <1>1, LogIs
<1>3. row = "active" <=> \E p \in Payments : Stands(p, handled)
  BY DEF GrantsInv, RowOk
<1>4. e.payment \in Payments
  BY <1>2, EventOf
<1>5. CASE e.kind = "PaymentConfirmed"
  <2>1. r = "active" /\ e = Grants!Granting(e.payment) /\ Untouched(e.payment, events)
    BY <1>1, <1>5 DEF Follows
  <2>2. Stands(e.payment, events \cup {e})
    BY <1>4, <2>1, EventsAre, Zenon DEF Stands, Untouched
  <2> QED BY <1>2, <1>4, <2>1, <2>2
<1>6. CASE e.kind = "RefundApproved"
  <2>1. /\ r = IF ~e.kept /\ row = "active" THEN "refunded" ELSE row
        /\ e = Grants!Revoking(e.payment, e.kept) /\ e.kept \in BOOLEAN
        /\ e.kept <=> \E q \in Payments \ {e.payment} : Stands(q, events)
    BY <1>1, <1>2, <1>6, EventOf DEF Follows
  <2>2. ~Stands(e.payment, events \cup {e})
    BY <2>1, Zenon DEF Stands
  <2>3. ASSUME NEW q \in Payments \ {e.payment} PROVE Stands(q, events) <=> Stands(q, events \cup {e})
    BY <1>4, <2>1, EventsAre, Zenon DEF Stands
  <2>4. (\E q \in Payments : Stands(q, events \cup {e})) <=> e.kept
    BY <2>1, <2>2, <2>3
  <2>5. e.kept => row = "active"
    BY <1>1, <1>3, <2>1, <2>3
  <2> QED BY <1>2, <2>1, <2>4, <2>5
<1> QED BY <1>2, <1>5, <1>6, EventOf

LEMMA TakesEffectInv ==
  ASSUME Grants!AccessAssumption, GrantsInv, NEW e \in Seen, Grants!TakesEffect(e), row' \in Grants!Rows, UNCHANGED <<Grants!financial, log>>,
         \/ e.kind = "PaymentConfirmed" /\ row' = "active"
         \/ e.kind = "RefundApproved" /\ row' = IF ~e.kept /\ row = "active" THEN "refunded" ELSE row,
         handler' \in [Handlers -> [event : Grants!Events \cup {None}, found : Grants!Rows]],
         \A h \in Handlers : handler'[h] \in {handler[h], Grants!Free}
  PROVE  GrantsInv'
<1>1. /\ handled' = handled \cup {e} /\ ordered' = (ordered /\ Grants!InTurn(e)) /\ bus' \subseteq bus /\ faults' \in 0 .. GrantFaults
      /\ UNCHANGED <<payment, effects, publishing, outbox, log>>
  BY DEF Grants!TakesEffect, Grants!Fault, GrantsInv, Grants!TypeOK, Grants!AccessAssumption, Grants!financial
<1>2. e \in Grants!Events /\ (Grants!InTurn(e) \in BOOLEAN)
  BY LogIs DEF Grants!InTurn
<1>3. Grants!TypeOK'
  BY <1>1, <1>2 DEF GrantsInv, Grants!TypeOK
<1>4. Seen' = Seen
  BY <1>1 DEF Seen
<1>5. InFlight'
  BY <1>1, <1>4 DEF GrantsInv, InFlight, HandlerOk, Grants!Free
<1>6. LogOk' /\ \A p \in Payments : PaymentOk(p)'
  BY <1>1, LogStays DEF GrantsInv
<1>7. RowOk'
  <2>1. ASSUME ordered' PROVE row' = "active" <=> \E p \in Payments : Stands(p, handled \cup {e})
    <3>1. ordered /\ Grants!InTurn(e)
      BY <1>1, <2>1, Zenon
    <3> QED BY <3>1, EffectOf, Zenon
  <2> QED BY <1>1, <2>1, Zenon DEF RowOk, Stands
<1> QED BY <1>3, <1>5, <1>6, <1>7 DEF GrantsInv

LEMMA ReadGrantInv == ASSUME Grants!AccessAssumption, GrantsInv, NEW h \in Handlers, NEW e \in bus, Grants!ReadGrant(h, e) PROVE GrantsInv'
<1>1. /\ e \in Seen /\ e \in Grants!Events /\ e.kind = "PaymentConfirmed" /\ UNCHANGED <<Grants!financial, row, log>>
      /\ handler \in [Handlers -> [event : Grants!Events \cup {None}, found : Grants!Rows]] /\ row \in Grants!Rows
  BY DEF Grants!ReadGrant, GrantsInv, InFlight, Grants!TypeOK
<1>2. CASE row = "active"
  <2>1. Grants!TakesEffect(e) /\ UNCHANGED handler
    BY <1>2 DEF Grants!ReadGrant
  <2> QED BY <1>1, <1>2, <2>1, TakesEffectInv
<1>3. CASE row # "active"
  <2>1. handler' = [handler EXCEPT ![h] = [event |-> e, found |-> row]] /\ UNCHANGED <<bus, faults, handled, ordered>>
    BY <1>3 DEF Grants!ReadGrant
  <2>2. [event |-> e, found |-> row] \in [event : Grants!Events \cup {None}, found : Grants!Rows] /\ [event |-> e, found |-> row].event = e
    BY <1>1
  <2>3. handler' \in [Handlers -> [event : Grants!Events \cup {None}, found : Grants!Rows]]
    BY <1>1, <2>1, <2>2
  <2>4. Grants!TypeOK'
    BY <1>1, <2>1, <2>3 DEF GrantsInv, Grants!TypeOK, Grants!financial
  <2>5. InFlight'
    <3>1. Seen' = Seen
      BY <1>1 DEF Seen
    <3>2. ASSUME NEW g \in Handlers PROVE HandlerOk(g)'
      <4>1. CASE g = h
        BY <1>1, <2>1, <2>2, <3>1, <4>1 DEF HandlerOk
      <4>2. CASE g # h
        BY <1>1, <2>1, <3>1, <4>2 DEF HandlerOk, GrantsInv, InFlight, Grants!Free
      <4> QED BY <4>1, <4>2
    <3> QED BY <1>1, <2>1, <3>1, <3>2 DEF GrantsInv, InFlight, Grants!financial
  <2> QED BY <1>1, <2>1, <2>4, <2>5, QuietInv DEF Grants!financial
<1> QED BY <1>2, <1>3

\* A handler lets go of its event.
LEMMA FreedOf ==
  ASSUME GrantsInv, NEW h \in Handlers, handler' = [handler EXCEPT ![h] = Grants!Free]
  PROVE  /\ handler' \in [Handlers -> [event : Grants!Events \cup {None}, found : Grants!Rows]]
         /\ \A g \in Handlers : handler'[g] \in {handler[g], Grants!Free}
<1>1. handler \in [Handlers -> [event : Grants!Events \cup {None}, found : Grants!Rows]]
  BY DEF GrantsInv, Grants!TypeOK
<1>2. Grants!Free \in [event : Grants!Events \cup {None}, found : Grants!Rows]
  BY DEF Grants!Free, Grants!Rows
<1> QED BY <1>1, <1>2

LEMMA FreedInv ==
  ASSUME GrantsInv, NEW h \in Handlers, handler' = [handler EXCEPT ![h] = Grants!Free], faults' \in 0 .. GrantFaults,
         UNCHANGED <<Grants!financial, bus, row, log, handled, ordered>>
  PROVE  GrantsInv'
<1>1. Grants!TypeOK'
  BY FreedOf, Zenon DEF GrantsInv, Grants!TypeOK, Grants!financial
<1>2. InFlight'
  <2>1. Seen' = Seen
    BY DEF Seen
  <2> QED BY <2>1, FreedOf DEF GrantsInv, InFlight, HandlerOk, Grants!Free, Grants!financial
<1> QED BY <1>1, <1>2, QuietInv DEF Grants!financial

LEMMA SaveGrantInv == ASSUME Grants!AccessAssumption, GrantsInv, NEW h \in Handlers, Grants!SaveGrant(h) PROVE GrantsInv'
<1>1. /\ handler[h].event \in Seen /\ handler[h].event.kind = "PaymentConfirmed"
      /\ handler' = [handler EXCEPT ![h] = Grants!Free] /\ UNCHANGED <<Grants!financial, log>>
  BY DEF Grants!SaveGrant, GrantsInv, InFlight, HandlerOk
<1>2. CASE Grants!Saves(h) /\ row' = "active" /\ Grants!TakesEffect(handler[h].event)
  <2>1. row' \in Grants!Rows
    BY <1>2 DEF Grants!Rows
  <2> QED BY <1>1, <1>2, <2>1, FreedOf, TakesEffectInv, Zenon
<1>3. CASE UNCHANGED <<row, bus, faults, handled, ordered>>
  <2>1. faults' \in 0 .. GrantFaults
    BY <1>3 DEF GrantsInv, Grants!TypeOK
  <2> QED BY <1>1, <1>3, <2>1, FreedInv, Zenon
<1> QED BY <1>2, <1>3 DEF Grants!SaveGrant

LEMMA HandlerDiesInv == ASSUME Grants!AccessAssumption, GrantsInv, NEW h \in Handlers, Grants!HandlerDies(h) PROVE GrantsInv'
<1>1. faults' \in 0 .. GrantFaults
  BY DEF Grants!HandlerDies, Grants!Fault, GrantsInv, Grants!TypeOK, Grants!AccessAssumption
<1> QED BY <1>1, FreedInv, Zenon DEF Grants!HandlerDies

LEMMA RevokeInv == ASSUME Grants!AccessAssumption, GrantsInv, NEW e \in bus, Grants!Revoke(e) PROVE GrantsInv'
<1>1. /\ e \in Seen /\ e.kind = "RefundApproved" /\ UNCHANGED <<Grants!financial, handler, log>> /\ Grants!TakesEffect(e)
      /\ row' = IF ~e.kept /\ row = "active" THEN "refunded" ELSE row
      /\ handler \in [Handlers -> [event : Grants!Events \cup {None}, found : Grants!Rows]] /\ row \in Grants!Rows
  BY DEF Grants!Revoke, GrantsInv, InFlight, Grants!TypeOK
<1>2. row' \in Grants!Rows
  BY <1>1 DEF Grants!Rows
<1> QED BY <1>1, <1>2, TakesEffectInv

LEMMA GrantsNextInv == ASSUME Grants!AccessAssumption, GrantsInv, [Grants!Next]_Grants!vars PROVE GrantsInv'
<1>1. CASE UNCHANGED Grants!vars
  <2>1. Grants!TypeOK' /\ InFlight'
    BY <1>1 DEF GrantsInv, Grants!TypeOK, InFlight, HandlerOk, Seen, Grants!Free, Grants!vars
  <2> QED BY <1>1, <2>1, QuietInv DEF Grants!vars
<1>2. CASE Grants!Next
  BY <1>2, ConfirmInv, FinancialInv, RefundInv, RelayInv, RevokeInv, ReadGrantInv, SaveGrantInv, HandlerDiesInv DEF Grants!Next
<1> QED BY <1>1, <1>2

LEMMA GrantsInvariant == ASSUME Grants!AccessAssumption PROVE Grants!Spec => []GrantsInv
<1>1. Grants!Init => GrantsInv
  BY GrantsInitInv
<1>2. GrantsInv /\ [Grants!Next]_Grants!vars => GrantsInv'
  BY GrantsNextInv
<1> QED BY <1>1, <1>2, PTL DEF Grants!Spec

\* Payments, events and handlers keep their types (payment.service.ts, the
\* outbox, enrollment's subscriptions).
THEOREM GrantsTypeCorrect == ASSUME Grants!AccessAssumption PROVE Grants!Spec => []Grants!TypeOK
<1>1. GrantsInv => Grants!TypeOK
  BY DEF GrantsInv
<1> QED BY <1>1, GrantsInvariant, PTL

\* Once all is handled in the order of the commits, who has a payment that stands
\* has access and nobody else (approveWith, grantFromPayment, revokeFromRefund).
THEOREM PaidHasAccess == ASSUME Grants!AccessAssumption PROVE Grants!Spec => []Grants!AccessFollowsPayments
<1>1. GrantsInv => Grants!AccessFollowsPayments
  BY DEF GrantsInv, RowOk, PaymentOk, Seen, Grants!AccessFollowsPayments, Grants!Quiet
<1> QED BY <1>1, GrantsInvariant, PTL

-----------------------------------------------------------------------------
(* Attempts: Attempts                                                    *)

\* The sizes of Exam's sets are those of the library's theorems.
LEMMA ExamSets == \A S : Exam!Cardinality(S) = Cardinality(S)
BY DEF Exam!Cardinality, Cardinality, Exam!IsFiniteSet, IsFiniteSet

\* The attempts are numbered without a gap, by one transaction at a time (the
\* advisory lock of startAttempt).
Used == {a \in Attempts : attempt[a].at # "none"}

RowsInv ==
  /\ \E n \in Nat : Used = 1 .. n
  /\ \A r, s \in Starts : start[r].at # "idle" /\ start[s].at # "idle" => r = s
  /\ \A r \in Starts : start[r].open # 0 => start[r].open \in Used
  /\ \A s \in Submits : submit[s].at # "idle" => submit[s].of # 0
  /\ kind # "project" => \A v \in Reviewers : review[v].of = 0

\* Until a submit commits between the reads and the write of a start: the open
\* attempt and the passed one are the newest, the start knows the rows that are
\* there, and an announced result is the stored one.
OpenIsNewest == \A a \in Exam!Open, b \in Used : b <= a
StartKnows(r) ==
  /\ start[r].at # "idle" => start[r].finished = Exam!Finished
  /\ start[r].at = "open" => IF Exam!Open = {} THEN start[r].open = 0 ELSE start[r].open \in Exam!Open
PassedIsNewest == \A a \in Exam!Finished : attempt[a].passed = "yes" => \A b \in Used : b <= a
AnnouncedIsResult == \A a \in Attempts : announced[a] # "unknown" => a \in Exam!Finished /\ attempt[a].passed = announced[a]

AllKnow == \A r \in Starts : StartKnows(r)
Bounded == \A a \in Used : a <= MaxAttempts
ResultsInv == kind # "project" => PassedIsNewest /\ AnnouncedIsResult
CourseInv == ~crossed => OpenIsNewest /\ AllKnow /\ Bounded /\ ResultsInv

ExamInv == Exam!TypeOK /\ RowsInv /\ CourseInv

-----------------------------------------------------------------------------
\* A set of numbers up to n that is not empty has a greatest one.
LEMMA Greatest ==
  ASSUME NEW n \in Nat, NEW S \in SUBSET (1 .. n), S # {}
  PROVE  \E a \in S : \A b \in S : b <= a
<1> DEFINE T == {n - a : a \in S}
<1>1. T \subseteq Nat /\ T # {}
  <2>1. \A a \in S : a \in Nat /\ a <= n
    OBVIOUS
  <2>2. \A a \in S : n - a \in Nat
    BY <2>1
  <2> QED BY <2>2, Zenon
<1>2. PICK x \in T : \A y \in T : ~(<<y, x>> \in OpToRel(<, Nat))
  BY <1>1, NatLessThanWellFounded, WFMin, Zenon
<1>3. \A y \in T : ~(y < x)
  <2>1. \A y \in T : (<<y, x>> \in OpToRel(<, Nat)) <=> (y < x)
    BY <1>1 DEF OpToRel
  <2> QED BY <1>2, <2>1, Zenon
<1>4. PICK a \in S : x = n - a
  OBVIOUS
<1>5. ASSUME NEW b \in S PROVE b <= a
  <2>1. n - b \in T
    OBVIOUS
  <2>2. ~(n - b < n - a)
    BY <1>3, <1>4, <2>1
  <2>3. n \in Nat /\ a \in 1 .. n /\ b \in 1 .. n
    OBVIOUS
  <2> HIDE DEF T
  <2> QED BY ONLY <2>2, <2>3
<1> QED BY <1>5

LEMMA ExamNewestOf ==
  ASSUME NEW n \in Nat, NEW S \in SUBSET (1 .. n)
  PROVE  /\ S = {} => Exam!Newest(S) = 0
         /\ S # {} => Exam!Newest(S) \in S /\ \A b \in S : b <= Exam!Newest(S)
<1>1. CASE S # {}
  <2>1. \E a \in S : \A b \in S : b <= a
    BY <1>1, Greatest, Zenon
  <2> QED BY <1>1, <2>1, Zenon DEF Exam!Newest
<1> QED BY <1>1 DEF Exam!Newest

LEMMA ExamTypes ==
  ASSUME Exam!AttemptAssumption, ExamInv
  PROVE  /\ 0 \notin Attempts /\ Attempts \subseteq Nat /\ MaxAttempts \in Nat
         /\ Exam!Open \subseteq Used /\ Exam!Finished \subseteq Used /\ Used = Exam!Open \cup Exam!Finished /\ Exam!Open \cap Exam!Finished = {} /\ Used \subseteq Attempts
         /\ \A a \in Attempts : attempt[a] \in Exam!AttemptType
         /\ \A r \in Starts : start[r].open \in Used \cup {0} /\ start[r].open \in Attempts \cup {0} /\ start[r].finished \subseteq Attempts
                              /\ start[r].at \in {"idle", "finished", "open"}
         /\ \A s \in Submits : submit[s].of \in Attempts \cup {0} /\ (submit[s].at # "idle" => submit[s].of \in Attempts)
<1>1. \A a \in Attempts : attempt[a] \in Exam!AttemptType
  BY DEF ExamInv, Exam!TypeOK
<1>2. Used = Exam!Open \cup Exam!Finished /\ Exam!Open \cap Exam!Finished = {}
  BY <1>1 DEF Used, Exam!Open, Exam!Finished, Exam!AttemptType
<1>6. Used \subseteq Attempts
  BY DEF Used
<1>3. \A r \in Starts : start[r].open \in Attempts \cup {0} /\ start[r].finished \subseteq Attempts /\ start[r].at \in {"idle", "finished", "open"}
  BY DEF ExamInv, Exam!TypeOK
<1>4. \A s \in Submits : submit[s].of \in Attempts \cup {0}
  BY DEF ExamInv, Exam!TypeOK
<1>5. 0 \notin Attempts /\ Attempts \subseteq Nat /\ MaxAttempts \in Nat
  BY DEF Exam!AttemptAssumption
<1> QED BY <1>1, <1>2, <1>3, <1>4, <1>5, <1>6 DEF ExamInv, RowsInv

\* The rows keep their states, and nothing is announced.
LEMMA RowsStay ==
  ASSUME Exam!AttemptAssumption, ExamInv, Exam!TypeOK', \A a \in Attempts : attempt'[a].at = attempt[a].at /\ attempt'[a].passed = attempt[a].passed,
         UNCHANGED <<kind, announced, crossed>>,
         \A r, s \in Starts : start'[r].at # "idle" /\ start'[s].at # "idle" => r = s,
         \A r \in Starts : start'[r].open # 0 => start'[r].open \in Used,
         \A s \in Submits : submit'[s].at # "idle" => submit'[s].of # 0,
         kind # "project" => \A v \in Reviewers : review'[v].of = 0,
         ~crossed => \A r \in Starts : /\ start'[r].at # "idle" => start'[r].finished = Exam!Finished
                                       /\ start'[r].at = "open" => IF Exam!Open = {} THEN start'[r].open = 0 ELSE start'[r].open \in Exam!Open
  PROVE  ExamInv'
<1>1. Used' = Used /\ Exam!Open' = Exam!Open /\ Exam!Finished' = Exam!Finished
  BY DEF Used, Exam!Open, Exam!Finished
<1>2. RowsInv'
  BY <1>1 DEF ExamInv, RowsInv
<1>3. CourseInv'
  <2>1. OpenIsNewest => OpenIsNewest'
    BY <1>1 DEF OpenIsNewest
  <2>2. PassedIsNewest => PassedIsNewest'
    BY <1>1 DEF PassedIsNewest, Exam!Finished
  <2>3. AnnouncedIsResult => AnnouncedIsResult'
    BY <1>1 DEF AnnouncedIsResult
  <2>4. ~crossed => \A r \in Starts : StartKnows(r)'
    BY <1>1 DEF StartKnows
  <2> QED BY <1>1, <2>1, <2>2, <2>3, <2>4 DEF ExamInv, CourseInv, AllKnow, Bounded, ResultsInv
<1> QED BY <1>2, <1>3 DEF ExamInv

\* Starts stay as they are, and so what they know of the rows.
LEMMA StartsStay ==
  ASSUME Exam!AttemptAssumption, ExamInv, start' = start
  PROVE  /\ \A r, s \in Starts : start'[r].at # "idle" /\ start'[s].at # "idle" => r = s
         /\ \A r \in Starts : start'[r].open # 0 => start'[r].open \in Used
         /\ ~crossed => \A r \in Starts : /\ start'[r].at # "idle" => start'[r].finished = Exam!Finished
                                          /\ start'[r].at = "open" => IF Exam!Open = {} THEN start'[r].open = 0 ELSE start'[r].open \in Exam!Open
BY DEF ExamInv, RowsInv, CourseInv, AllKnow, Bounded, ResultsInv, StartKnows

LEMMA ExpireKeeps ==
  ASSUME Exam!AttemptAssumption, ExamInv, NEW a \in Attempts, Exam!Expire(a) PROVE ExamInv'
<1>1. attempt' \in [Attempts -> Exam!AttemptType] /\ \A b \in Attempts : attempt'[b].at = attempt[b].at /\ attempt'[b].passed = attempt[b].passed
  <2>1. [attempt[a] EXCEPT !.late = TRUE] \in Exam!AttemptType
    <3>1. attempt[a] \in Exam!AttemptType
      BY DEF ExamInv, Exam!TypeOK
    <3> QED BY <3>1, Zenon DEF Exam!AttemptType
  <2>2. attempt' = [attempt EXCEPT ![a] = [attempt[a] EXCEPT !.late = TRUE]]
    BY DEF Exam!Expire, ExamInv, Exam!TypeOK
  <2>3. attempt \in [Attempts -> Exam!AttemptType]
    BY DEF ExamInv, Exam!TypeOK
  <2> QED BY <2>1, <2>2, <2>3 DEF Exam!AttemptType
<1>2. Exam!TypeOK'
  BY <1>1 DEF Exam!Expire, ExamInv, Exam!TypeOK
<1>3. /\ \A s \in Submits : submit'[s].at # "idle" => submit'[s].of # 0
      /\ kind # "project" => \A v \in Reviewers : review'[v].of = 0
  BY DEF Exam!Expire, ExamInv, RowsInv
<1>4. UNCHANGED <<kind, start, announced, crossed>>
  BY DEF Exam!Expire
<1> QED BY <1>1, <1>2, <1>3, <1>4, RowsStay, StartsStay

LEMMA StartReadsKeeps ==
  ASSUME Exam!AttemptAssumption, ExamInv, NEW r \in Starts, Exam!StartReads(r) PROVE ExamInv'
<1>1. /\ start' \in [Starts -> [at : {"idle", "finished", "open"}, finished : SUBSET Attempts, open : Attempts \cup {0}]]
      /\ start'[r].at = "finished" /\ start'[r].finished = Exam!Finished /\ start'[r].open = 0
      /\ \A s \in Starts \ {r} : start'[s] = start[s] /\ start[s].at = "idle"
  <2>1. [at |-> "finished", finished |-> Exam!Finished, open |-> 0] \in [at : {"idle", "finished", "open"}, finished : SUBSET Attempts, open : Attempts \cup {0}]
    BY DEF Exam!Finished
  <2> QED BY <2>1 DEF Exam!StartReads, Exam!LockFree, ExamInv, Exam!TypeOK
<1>2. Exam!TypeOK'
  BY <1>1 DEF Exam!StartReads, ExamInv, Exam!TypeOK
<1>3. /\ \A s \in Submits : submit'[s].at # "idle" => submit'[s].of # 0
      /\ kind # "project" => \A v \in Reviewers : review'[v].of = 0
      /\ UNCHANGED <<kind, attempt, announced, crossed>>
  BY DEF Exam!StartReads, ExamInv, RowsInv
<1>4. /\ \A p, s \in Starts : start'[p].at # "idle" /\ start'[s].at # "idle" => p = s
      /\ \A s \in Starts : start'[s].open # 0 => start'[s].open \in Used
      /\ \A s \in Starts : start'[s].at # "idle" => start'[s].finished = Exam!Finished
      /\ \A s \in Starts : start'[s].at # "open"
  BY <1>1, ExamTypes
<1> QED BY <1>2, <1>3, <1>4, RowsStay

LEMMA StartFindsKeeps ==
  ASSUME Exam!AttemptAssumption, ExamInv, NEW r \in Starts, Exam!StartFinds(r) PROVE ExamInv'
<1> DEFINE found == IF Exam!Newest(Exam!Open) > Exam!Newest(start[r].finished) THEN Exam!Newest(Exam!Open) ELSE 0
<1>1. PICK n \in Nat : Used = 1 .. n
  BY DEF ExamInv, RowsInv
<1>2. /\ Exam!Open = {} => Exam!Newest(Exam!Open) = 0
      /\ Exam!Open # {} => Exam!Newest(Exam!Open) \in Exam!Open /\ \A b \in Exam!Open : b <= Exam!Newest(Exam!Open)
  BY <1>1, ExamTypes, ExamNewestOf, Zenon
<1>3. /\ Exam!Finished = {} => Exam!Newest(Exam!Finished) = 0
      /\ Exam!Finished # {} => Exam!Newest(Exam!Finished) \in Exam!Finished
  BY <1>1, ExamTypes, ExamNewestOf, Zenon
<1>4. found \in Used \cup {0}
  BY <1>2, ExamTypes
<1>5. ~crossed => IF Exam!Open = {} THEN found = 0 ELSE found \in Exam!Open
  <2>1. CASE Exam!Open = {}
    BY <1>2, <2>1
  <2>2. CASE Exam!Open # {} /\ ~crossed
    <3>1. start[r].finished = Exam!Finished
      BY <2>2 DEF Exam!StartFinds, ExamInv, CourseInv, AllKnow, Bounded, ResultsInv, StartKnows
    <3>2. Exam!Newest(Exam!Open) \in Used /\ Exam!Newest(Exam!Open) \in Nat /\ Exam!Newest(Exam!Open) # 0
      BY <1>2, <2>2, ExamTypes
    <3>3. CASE Exam!Finished = {}
      BY <1>2, <1>3, <2>2, <3>1, <3>2, <3>3
    <3>4. CASE Exam!Finished # {}
      <4>1. Exam!Newest(Exam!Finished) \in Used /\ Exam!Newest(Exam!Finished) \in Nat /\ Exam!Newest(Exam!Finished) # Exam!Newest(Exam!Open)
        BY <1>2, <1>3, <2>2, <3>4, ExamTypes
      <4>2. Exam!Newest(Exam!Finished) <= Exam!Newest(Exam!Open)
        BY <1>2, <2>2, <4>1 DEF ExamInv, CourseInv, AllKnow, Bounded, ResultsInv, OpenIsNewest
      <4> QED BY <1>2, <2>2, <3>1, <3>2, <4>1, <4>2
    <3> QED BY <3>3, <3>4
  <2> QED BY <2>1, <2>2
<1> HIDE DEF found
<1>6. /\ start' \in [Starts -> [at : {"idle", "finished", "open"}, finished : SUBSET Attempts, open : Attempts \cup {0}]]
      /\ start'[r].at = "open" /\ start'[r].finished = start[r].finished /\ start'[r].open = found
      /\ \A s \in Starts \ {r} : start'[s] = start[s]
      /\ start[r].at = "finished"
  <2>1. start' = [start EXCEPT ![r].at = "open", ![r].open = found] /\ found \in Attempts \cup {0}
    BY <1>4, ExamTypes DEF Exam!StartFinds, found, Used
  <2>2. start \in [Starts -> [at : {"idle", "finished", "open"}, finished : SUBSET Attempts, open : Attempts \cup {0}]]
    BY DEF ExamInv, Exam!TypeOK
  <2>3. start' = [start EXCEPT ![r] = [start[r] EXCEPT !.at = "open", !.open = found]]
    BY <2>1, <2>2, Zenon
  <2>4. [start[r] EXCEPT !.at = "open", !.open = found] \in [at : {"idle", "finished", "open"}, finished : SUBSET Attempts, open : Attempts \cup {0}]
    BY <2>1, <2>2, Zenon
  <2>5. start[r].at = "finished"
    BY DEF Exam!StartFinds
  <2>6. start'[r] = [start[r] EXCEPT !.at = "open", !.open = found] /\ \A s \in Starts \ {r} : start'[s] = start[s]
    BY <2>2, <2>3
  <2>7. start'[r].at = "open" /\ start'[r].finished = start[r].finished /\ start'[r].open = found
    BY <2>2, <2>6
  <2> QED BY <2>2, <2>3, <2>4, <2>5, <2>6, <2>7
<1>7. Exam!TypeOK'
  BY <1>6 DEF Exam!StartFinds, ExamInv, Exam!TypeOK
<1>8. /\ \A s \in Submits : submit'[s].at # "idle" => submit'[s].of # 0
      /\ kind # "project" => \A v \in Reviewers : review'[v].of = 0
      /\ UNCHANGED <<kind, attempt, announced, crossed>>
  BY DEF Exam!StartFinds, ExamInv, RowsInv
<1>9. /\ \A p, s \in Starts : start'[p].at # "idle" /\ start'[s].at # "idle" => p = s
      /\ \A s \in Starts : start'[s].open # 0 => start'[s].open \in Used
  BY <1>4, <1>6 DEF ExamInv, RowsInv
<1>10. ~crossed => \A s \in Starts : /\ start'[s].at # "idle" => start'[s].finished = Exam!Finished
                                     /\ start'[s].at = "open" => IF Exam!Open = {} THEN start'[s].open = 0 ELSE start'[s].open \in Exam!Open
  BY <1>5, <1>6 DEF ExamInv, CourseInv, AllKnow, Bounded, ResultsInv, StartKnows
<1> QED BY <1>7, <1>8, <1>9, <1>10, RowsStay

LEMMA Ended ==
  ASSUME Exam!AttemptAssumption, ExamInv, NEW r \in Starts, Exam!Ends(r)
  PROVE  /\ start' \in [Starts -> [at : {"idle", "finished", "open"}, finished : SUBSET Attempts, open : Attempts \cup {0}]]
         /\ start'[r].at = "idle" /\ start'[r].open = 0
         /\ \A s \in Starts \ {r} : start'[s] = start[s]
<1>1. Exam!StartIdle \in [at : {"idle", "finished", "open"}, finished : SUBSET Attempts, open : Attempts \cup {0}]
  BY DEF Exam!StartIdle
<1> QED BY <1>1 DEF Exam!Ends, Exam!StartIdle, ExamInv, Exam!TypeOK

LEMMA EndsOnly ==
  ASSUME Exam!AttemptAssumption, ExamInv, NEW r \in Starts, Exam!Ends(r), UNCHANGED <<kind, attempt, submit, review, announced, crossed>> PROVE ExamInv'
<1>1. Exam!TypeOK'
  BY Ended DEF ExamInv, Exam!TypeOK
<1>2. /\ \A s \in Submits : submit'[s].at # "idle" => submit'[s].of # 0
      /\ kind # "project" => \A v \in Reviewers : review'[v].of = 0
  BY DEF ExamInv, RowsInv
<1>3. /\ \A p, s \in Starts : start'[p].at # "idle" /\ start'[s].at # "idle" => p = s
      /\ \A s \in Starts : start'[s].open # 0 => start'[s].open \in Used
  BY Ended DEF ExamInv, RowsInv
<1>4. ~crossed => \A s \in Starts : /\ start'[s].at # "idle" => start'[s].finished = Exam!Finished
                                    /\ start'[s].at = "open" => IF Exam!Open = {} THEN start'[s].open = 0 ELSE start'[s].open \in Exam!Open
  BY Ended DEF ExamInv, CourseInv, AllKnow, Bounded, ResultsInv, StartKnows
<1> QED BY <1>1, <1>2, <1>3, <1>4, RowsStay


LEMMA SubmitStays ==
  ASSUME Exam!AttemptAssumption, ExamInv, NEW s \in Submits, submit' \in [Submits -> [at : {"idle", "read", "grade"}, of : Attempts \cup {0}, late : BOOLEAN]],
         \A p \in Submits : submit'[p].at # "idle" => submit'[p].of # 0,
         UNCHANGED <<kind, attempt, start, review, announced, crossed>>
  PROVE  ExamInv'
<1>1. Exam!TypeOK'
  BY DEF ExamInv, Exam!TypeOK
<1>2. kind # "project" => \A v \in Reviewers : review'[v].of = 0
  BY DEF ExamInv, RowsInv
<1> QED BY <1>1, <1>2, RowsStay, StartsStay

LEMMA SubmitKeeps ==
  ASSUME Exam!AttemptAssumption, ExamInv, NEW s \in Submits, (\E a \in Attempts : Exam!SubmitReads(s, a)) \/ Exam!SubmitChecks(s) \/ Exam!SubmitFails(s) PROVE ExamInv'
<1> DEFINE Rows == [at : {"idle", "read", "grade"}, of : Attempts \cup {0}, late : BOOLEAN]
<1>1. submit \in [Submits -> Rows] /\ Exam!SubmitIdle \in Rows
  BY DEF ExamInv, Exam!TypeOK, Exam!SubmitIdle
<1>2. ASSUME NEW q \in Rows, q.at # "idle" => q.of # 0, submit' = [submit EXCEPT ![s] = q],
             UNCHANGED <<kind, attempt, start, review, announced, crossed>>
      PROVE  ExamInv'
  <2>1. submit' \in [Submits -> Rows] /\ \A p \in Submits : submit'[p].at # "idle" => submit'[p].of # 0
    BY <1>1, <1>2 DEF ExamInv, RowsInv
  <2> QED BY <1>2, <2>1, SubmitStays
<1>3. CASE Exam!SubmitFails(s)
  BY <1>1, <1>2, <1>3, Zenon DEF Exam!SubmitFails, Exam!SubmitIdle
<1>4. ASSUME NEW a \in Attempts, Exam!SubmitReads(s, a) PROVE ExamInv'
  <2> DEFINE q == [at |-> "read", of |-> a, late |-> FALSE]
  <2>1. q \in Rows /\ q.of # 0
    BY ExamTypes
  <2> QED BY <1>2, <1>4, <2>1, Zenon DEF Exam!SubmitReads
<1>5. CASE Exam!SubmitChecks(s)
  <2> DEFINE q == IF Exam!Stale(submit[s].of) THEN Exam!SubmitIdle ELSE [submit[s] EXCEPT !.at = "grade", !.late = attempt[submit[s].of].late]
  <2>1. submit[s].at = "read" /\ submit[s].of \in Attempts /\ submit[s].of # 0 /\ submit[s] \in Rows
    BY <1>1, <1>5, ExamTypes DEF Exam!SubmitChecks
  <2>2. attempt[submit[s].of].late \in BOOLEAN
    BY <2>1, ExamTypes DEF Exam!AttemptType
  <2>3. q \in Rows /\ (q.at # "idle" => q.of # 0)
    <3>1. CASE Exam!Stale(submit[s].of)
      BY <1>1, <3>1 DEF Exam!SubmitIdle
    <3>2. CASE ~Exam!Stale(submit[s].of)
      BY <2>1, <2>2, <3>2, Zenon
    <3> QED BY <3>1, <3>2
  <2>4. submit' = [submit EXCEPT ![s] = q] /\ UNCHANGED <<kind, attempt, start, review, announced, crossed>>
    BY <1>5 DEF Exam!SubmitChecks
  <2> QED BY <1>2, <2>3, <2>4, Zenon
<1> QED BY <1>3, <1>4, <1>5

LEMMA ReviewLoadsKeeps ==
  ASSUME Exam!AttemptAssumption, ExamInv, NEW v \in Reviewers, NEW a \in Attempts, NEW verdict \in {"yes", "no"}, Exam!ReviewLoads(v, a, verdict) PROVE ExamInv'
<1>1. [of |-> a, loaded |-> attempt[a].passed, verdict |-> verdict] \in [of : Attempts \cup {0}, loaded : Exam!Results, verdict : {"yes", "no"}]
  BY ExamTypes DEF Exam!AttemptType
<1>2. Exam!TypeOK'
  BY <1>1 DEF Exam!ReviewLoads, ExamInv, Exam!TypeOK
<1>3. /\ \A s \in Submits : submit'[s].at # "idle" => submit'[s].of # 0
      /\ kind = "project" /\ UNCHANGED <<kind, attempt, start, announced, crossed>>
  BY DEF Exam!ReviewLoads, ExamInv, RowsInv
<1> QED BY <1>2, <1>3, RowsStay, StartsStay

LEMMA ReviewSavesKeeps ==
  ASSUME Exam!AttemptAssumption, ExamInv, NEW v \in Reviewers, Exam!ReviewSaves(v) PROVE ExamInv'
<1> DEFINE a == review[v].of
           verdict == IF review[v].verdict = review[v].loaded THEN attempt[a].passed ELSE review[v].verdict
<1>1. a \in Attempts /\ kind = "project" /\ review[v].verdict \in Exam!Results /\ verdict \in Exam!Results /\ attempt \in [Attempts -> Exam!AttemptType]
  <2>1. a \in Attempts /\ kind = "project" /\ review[v].verdict \in Exam!Results /\ attempt \in [Attempts -> Exam!AttemptType]
    BY DEF Exam!ReviewSaves, ExamInv, Exam!TypeOK, RowsInv, Exam!Results
  <2> QED BY <2>1 DEF Exam!AttemptType
<1>2. attempt' = [attempt EXCEPT ![a] = [attempt[a] EXCEPT !.passed = verdict]]
  BY <1>1 DEF Exam!ReviewSaves
<1> HIDE DEF verdict
<1>3. attempt' \in [Attempts -> Exam!AttemptType] /\ \A b \in Attempts : attempt'[b].at = attempt[b].at
  BY <1>1, <1>2 DEF Exam!AttemptType
<1>4. Exam!TypeOK'
  <2>1. Exam!ReviewIdle \in [of : Attempts \cup {0}, loaded : Exam!Results, verdict : {"yes", "no"}]
    BY DEF Exam!ReviewIdle, Exam!Results
  <2> QED BY <1>1, <1>3, <2>1 DEF Exam!ReviewSaves, ExamInv, Exam!TypeOK
<1>5. Used' = Used /\ Exam!Open' = Exam!Open /\ Exam!Finished' = Exam!Finished
  BY <1>3 DEF Used, Exam!Open, Exam!Finished
<1>6. UNCHANGED <<kind, start, submit, crossed>>
  BY DEF Exam!ReviewSaves
<1>7. RowsInv'
  BY <1>1, <1>5, <1>6 DEF ExamInv, RowsInv
<1>8. CourseInv'
  BY <1>1, <1>5, <1>6 DEF ExamInv, CourseInv, AllKnow, Bounded, ResultsInv, OpenIsNewest, StartKnows
<1> QED BY <1>4, <1>7, <1>8 DEF ExamInv

LEMMA SubmitCommitsKeeps ==
  ASSUME Exam!AttemptAssumption, ExamInv, NEW s \in Submits, NEW result \in Exam!Results, Exam!SubmitCommits(s, result) PROVE ExamInv'
<1> DEFINE a == submit[s].of
<1>1. a \in Attempts /\ result \in Exam!Grades(s) /\ attempt \in [Attempts -> Exam!AttemptType]
  BY ExamTypes DEF Exam!SubmitCommits, ExamInv, Exam!TypeOK
<1>2. submit' \in [Submits -> [at : {"idle", "read", "grade"}, of : Attempts \cup {0}, late : BOOLEAN]]
      /\ \A p \in Submits : submit'[p].at # "idle" => submit'[p].of # 0
  <2>1. Exam!SubmitIdle \in [at : {"idle", "read", "grade"}, of : Attempts \cup {0}, late : BOOLEAN] /\ Exam!SubmitIdle.at = "idle"
    BY DEF Exam!SubmitIdle
  <2> QED BY <2>1 DEF Exam!SubmitCommits, ExamInv, Exam!TypeOK, RowsInv
<1>3. CASE ~Exam!Claims(a)
  BY <1>2, <1>3, SubmitStays DEF Exam!SubmitCommits
<1>4. CASE Exam!Claims(a)
  <2>1. /\ attempt' = [attempt EXCEPT ![a].at = "finished", ![a].passed = result]
        /\ announced' = [announced EXCEPT ![a] = result]
        /\ (crossed' <=> (crossed \/ ~Exam!LockFree)) /\ crossed' \in BOOLEAN
        /\ UNCHANGED <<kind, start, review>> /\ a \in Exam!Open
    BY <1>1, <1>4, Zenon DEF Exam!SubmitCommits, Exam!Claims, Exam!Closes, Exam!Open, ExamInv, Exam!TypeOK
  <2>2. /\ attempt' \in [Attempts -> Exam!AttemptType]
        /\ attempt'[a].at = "finished" /\ attempt'[a].passed = result
        /\ \A b \in Attempts \ {a} : attempt'[b] = attempt[b]
    <3>1. attempt' = [attempt EXCEPT ![a] = [attempt[a] EXCEPT !.at = "finished", !.passed = result]]
      BY <1>1, <2>1, Zenon
    <3> QED BY <1>1, <3>1, Zenon DEF Exam!AttemptType
  <2>3. Exam!TypeOK'
    BY <1>1, <1>2, <2>1, <2>2 DEF ExamInv, Exam!TypeOK
  <2>4. Used' = Used /\ Exam!Open' = Exam!Open \ {a} /\ Exam!Finished' = Exam!Finished \cup {a}
    <3>1. attempt[a].at = "open"
      BY <2>1 DEF Exam!Open
    <3> QED BY <1>1, <2>2, <3>1 DEF Used, Exam!Open, Exam!Finished
  <2>5. RowsInv'
    BY <1>2, <2>1, <2>4 DEF ExamInv, RowsInv
  <2>6. ASSUME ~crossed' PROVE OpenIsNewest' /\ AllKnow' /\ Bounded' /\ ResultsInv'
    <3>1. ~crossed /\ \A r \in Starts : start'[r].at = "idle"
      BY <2>1, <2>6 DEF Exam!LockFree
    <3>2. OpenIsNewest' /\ \A b \in Used' : b <= MaxAttempts
      BY <2>4, <3>1 DEF ExamInv, CourseInv, AllKnow, Bounded, ResultsInv, OpenIsNewest
    <3>3. \A r \in Starts : StartKnows(r)'
      BY <3>1 DEF StartKnows
    <3>4. ASSUME kind' # "project" PROVE PassedIsNewest' /\ AnnouncedIsResult'
      <4>1. \A b \in Used : b <= a
        BY <2>1, <3>1 DEF ExamInv, CourseInv, AllKnow, Bounded, ResultsInv, OpenIsNewest
      <4>2. PassedIsNewest'
        BY <2>1, <2>2, <2>4, <3>1, <3>4, <4>1, ExamTypes DEF ExamInv, CourseInv, AllKnow, Bounded, ResultsInv, PassedIsNewest
      <4>3. AnnouncedIsResult'
        BY <1>1, <2>1, <2>2, <2>4, <3>1, <3>4, ExamTypes DEF ExamInv, Exam!TypeOK, CourseInv, AllKnow, Bounded, ResultsInv, AnnouncedIsResult
      <4> QED BY <4>2, <4>3
    <3> QED BY <3>2, <3>3, <3>4 DEF AllKnow, Bounded, ResultsInv
  <2>7. CourseInv'
    BY <2>6 DEF CourseInv
  <2> QED BY <2>3, <2>5, <2>7 DEF ExamInv
<1> QED BY <1>3, <1>4

LEMMA StartActsKeeps ==
  ASSUME Exam!AttemptAssumption, ExamInv, NEW r \in Starts, Exam!StartActs(r) PROVE ExamInv'
<1> DEFINE open == start[r].open
           expires == open # 0 /\ attempt[open].late
           counted == start[r].finished \cup (IF expires THEN {open} ELSE {})
           closed == IF expires THEN [attempt EXCEPT ![open].at = "finished", ![open].passed = "no"] ELSE attempt
           new == Exam!Newest(Used) + 1
           starts == ~Exam!Passed(start[r].finished) /\ Exam!Cardinality(counted) < MaxAttempts
<1>1. /\ start[r].at = "open" /\ Exam!Ends(r) /\ UNCHANGED <<kind, submit, review, announced, crossed>>
      /\ \/ open # 0 /\ ~expires /\ attempt' = attempt
         \/ (open = 0 \/ expires) /\ ~starts /\ attempt' = closed
         \/ (open = 0 \/ expires) /\ starts /\ new \in Attempts /\ attempt' = [closed EXCEPT ![new].at = "open"]
  BY Zenon DEF Exam!StartActs, Used
<1>2. PICK n \in Nat : Used = 1 .. n
  BY DEF ExamInv, RowsInv
<1>3. new = n + 1 /\ new \notin Used /\ \A b \in Used : b <= new
  <2>1. Exam!Newest(Used) = n
    <3>1. CASE n = 0
      BY <1>2, <3>1, ExamNewestOf
    <3>2. CASE n # 0
      <4>1. n \in Used /\ Used # {}
        BY <1>2, <3>2
      <4>2. Exam!Newest(Used) \in Used /\ n <= Exam!Newest(Used)
        BY <1>2, <4>1, ExamNewestOf, Zenon
      <4> QED BY <1>2, <4>2
    <3> QED BY <3>1, <3>2
  <2> QED BY <1>2, <2>1
<1> HIDE DEF new
<1>4. /\ open \in Used \cup {0} /\ (expires => open \in Used) /\ Used \subseteq Attempts /\ start[r].finished \subseteq Attempts
      /\ attempt \in [Attempts -> Exam!AttemptType]
  BY ExamTypes DEF ExamInv, Exam!TypeOK
\* What is closed was open, unless a submit has crossed the start.
<1>5. /\ closed \in [Attempts -> Exam!AttemptType] /\ \A b \in Attempts : closed[b].at # "none" <=> b \in Used
      /\ \A b \in Attempts : ~(expires /\ b = open) => closed[b] = attempt[b]
      /\ expires => closed[open].at = "finished" /\ closed[open].passed = "no"
  <2>1. CASE expires
    <3>1. closed = [attempt EXCEPT ![open] = [attempt[open] EXCEPT !.at = "finished", !.passed = "no"]]
      BY <1>4, <2>1, Zenon
    <3>2. [attempt[open] EXCEPT !.at = "finished", !.passed = "no"] \in Exam!AttemptType
      BY <1>4, <2>1, Zenon DEF Exam!AttemptType, Exam!Results
    <3>3. closed[open] = [attempt[open] EXCEPT !.at = "finished", !.passed = "no"]
      BY <1>4, <2>1, <3>1, Zenon
    <3>4. closed[open].at = "finished" /\ closed[open].passed = "no"
      BY <1>4, <2>1, <3>3 DEF Exam!AttemptType
    <3> QED BY <1>4, <2>1, <3>1, <3>2, <3>4 DEF Used
  <2>2. CASE ~expires
    BY <1>4, <2>2 DEF Used
  <2> QED BY <2>1, <2>2, Zenon
<1> HIDE DEF closed
<1>6. CASE attempt' = attempt
  BY <1>1, <1>6, EndsOnly
<1>7. /\ \A p, s \in Starts : start'[p].at # "idle" /\ start'[s].at # "idle" => p = s
      /\ \A s \in Starts : start'[s].open # 0 => start'[s].open \in Used
      /\ \A s \in Starts : start'[s].at = "idle"
  BY <1>1, Ended DEF ExamInv, RowsInv
<1>8. ~crossed => /\ start[r].finished = Exam!Finished
                  /\ IF Exam!Open = {} THEN open = 0 ELSE open \in Exam!Open
                  /\ \A a \in Exam!Open, b \in Used : b <= a
  BY <1>1 DEF ExamInv, CourseInv, AllKnow, Bounded, ResultsInv, StartKnows, OpenIsNewest
<1>9. ASSUME ~crossed, open = 0 \/ expires
      PROVE  /\ Exam!Open = IF expires THEN {open} ELSE {}
             /\ counted = Used
  <2>1. CASE Exam!Open = {}
    BY <1>8, <1>9, <2>1, ExamTypes
  <2>2. CASE Exam!Open # {}
    <3>1. open \in Exam!Open /\ expires
      BY <1>8, <1>9, <2>2, ExamTypes
    <3>2. \A b \in Exam!Open : b = open
      BY <1>8, <1>9, <3>1, ExamTypes
    <3> QED BY <1>8, <1>9, <3>1, <3>2, ExamTypes
  <2> QED BY <2>1, <2>2
<1>10. CASE (open = 0 \/ expires) /\ attempt' = closed
  <2>1. Exam!TypeOK'
    BY <1>1, <1>5, <1>10, Ended DEF ExamInv, Exam!TypeOK
  <2>2. Used' = Used
    BY <1>5, <1>10 DEF Used
  <2>3. RowsInv'
    BY <1>1, <1>7, <2>2 DEF ExamInv, RowsInv
  <2>4. ASSUME ~crossed' PROVE OpenIsNewest' /\ AllKnow' /\ Bounded' /\ ResultsInv'
    <3>1. ~crossed
      BY <1>1, <2>4
    <3>2. Exam!Open' = {}
      BY <1>5, <1>9, <1>10, <3>1 DEF Exam!Open
    <3>3. OpenIsNewest' /\ (\A s \in Starts : StartKnows(s)') /\ \A b \in Used' : b <= MaxAttempts
      BY <1>7, <2>2, <3>1, <3>2 DEF OpenIsNewest, StartKnows, ExamInv, CourseInv, AllKnow, Bounded, ResultsInv
    <3>4. ASSUME NEW b \in Attempts
          PROVE  /\ (b \in Exam!Finished' /\ attempt'[b].passed = "yes" => b \in Exam!Finished /\ attempt[b].passed = "yes")
                 /\ (b \in Exam!Finished => b \in Exam!Finished' /\ attempt'[b].passed = attempt[b].passed)
      <4>1. CASE expires /\ b = open
        <5>1. b \in Exam!Open
          BY <1>9, <1>10, <3>1, <4>1
        <5> QED BY <1>5, <1>10, <4>1, <5>1, ExamTypes
      <4>2. CASE ~(expires /\ b = open)
        BY <1>5, <1>10, <4>2 DEF Exam!Finished
      <4> QED BY <4>1, <4>2
    <3>5. Exam!Finished' \subseteq Attempts /\ UNCHANGED <<announced, kind>>
      BY <1>1 DEF Exam!Finished
    <3>6. kind # "project" => PassedIsNewest'
      BY <2>2, <3>1, <3>4, <3>5 DEF ExamInv, CourseInv, AllKnow, Bounded, ResultsInv, PassedIsNewest
    <3>7. kind # "project" => AnnouncedIsResult'
      BY <3>1, <3>4, <3>5 DEF ExamInv, CourseInv, AllKnow, Bounded, ResultsInv, AnnouncedIsResult
    <3> QED BY <3>3, <3>5, <3>6, <3>7 DEF AllKnow, Bounded, ResultsInv
  <2>5. CourseInv'
    BY <2>4 DEF CourseInv
  <2> QED BY <2>1, <2>3, <2>5 DEF ExamInv
<1>11. CASE (open = 0 \/ expires) /\ starts /\ new \in Attempts /\ attempt' = [closed EXCEPT ![new].at = "open"]
  <2>1. /\ attempt' \in [Attempts -> Exam!AttemptType] /\ attempt'[new].at = "open"
        /\ \A b \in Attempts \ {new} : attempt'[b] = closed[b]
    <3>1. attempt' = [closed EXCEPT ![new] = [closed[new] EXCEPT !.at = "open"]]
      BY <1>5, <1>11
    <3>2. [closed[new] EXCEPT !.at = "open"] \in Exam!AttemptType /\ [closed[new] EXCEPT !.at = "open"].at = "open"
      BY <1>5, <1>11 DEF Exam!AttemptType
    <3> QED BY <1>5, <1>11, <3>1, <3>2
  <2>2. Exam!TypeOK'
    BY <1>1, <2>1, Ended DEF ExamInv, Exam!TypeOK
  <2>3. Used' = Used \cup {new}
    BY <1>4, <1>5, <1>11, <2>1 DEF Used
  <2>4. RowsInv'
    <3>1. n + 1 \in Nat /\ Used' = 1 .. (n + 1)
      BY <1>2, <1>3, <2>3
    <3> QED BY <1>1, <1>7, <2>3, <3>1 DEF ExamInv, RowsInv
  <2>5. ASSUME ~crossed' PROVE OpenIsNewest' /\ AllKnow' /\ Bounded' /\ ResultsInv'
    <3>1. ~crossed /\ Exam!Finished' \subseteq Attempts /\ UNCHANGED <<announced, kind>>
      BY <1>1, <2>5 DEF Exam!Finished
    <3>2. Exam!Open' = {new}
      <4>1. ASSUME NEW b \in Attempts, b # new PROVE attempt'[b].at # "open"
        <5>1. attempt'[b] = closed[b]
          BY <2>1, <4>1
        <5>2. CASE expires /\ b = open
          BY <1>5, <5>1, <5>2
        <5>3. CASE ~(expires /\ b = open)
          <6>1. closed[b] = attempt[b] /\ b \notin Exam!Open
            BY <1>5, <1>9, <1>11, <3>1, <5>3
          <6> QED BY <5>1, <6>1 DEF Exam!Open
        <5> QED BY <5>2, <5>3
      <4> QED BY <1>11, <2>1, <4>1 DEF Exam!Open
    <3>3. \A b \in Used' : b <= new
      BY <1>2, <1>3, <2>3
    <3>4. new <= MaxAttempts
      <4>1. Cardinality(Used) = n /\ IsFiniteSet(Used)
        BY <1>2, FS_Interval
      <4>2. n < MaxAttempts
        BY <1>9, <1>11, <3>1, <4>1, ExamSets
      <4> QED BY <1>2, <1>3, <4>2, ExamTypes
    <3>5. OpenIsNewest' /\ (\A s \in Starts : StartKnows(s)') /\ \A b \in Used' : b <= MaxAttempts
      <4>1. OpenIsNewest'
        BY <3>2, <3>3 DEF OpenIsNewest
      <4>2. \A s \in Starts : StartKnows(s)'
        BY <1>7 DEF StartKnows
      <4>3. \A b \in Used' : b <= MaxAttempts
        BY <1>2, <1>3, <2>3, <3>1, <3>4 DEF ExamInv, CourseInv, AllKnow, Bounded, ResultsInv
      <4> QED BY <4>1, <4>2, <4>3
    <3>6. ~Exam!Passed(Exam!Finished)
      BY <1>8, <1>11, <3>1
    <3>7. ASSUME NEW b \in Attempts
          PROVE  /\ b \in Exam!Finished' => attempt'[b].passed # "yes"
                 /\ (b \in Exam!Finished => b \in Exam!Finished' /\ attempt'[b].passed = attempt[b].passed)
      <4>1. CASE b = new
        BY <1>3, <2>1, <4>1, ExamTypes DEF Exam!Finished
      <4>2. CASE b # new /\ expires /\ b = open
        <5>1. b \in Exam!Open
          BY <1>9, <1>11, <3>1, <4>2
        <5> QED BY <1>5, <2>1, <4>2, <5>1, ExamTypes
      <4>3. CASE b # new /\ ~(expires /\ b = open)
        BY <1>5, <2>1, <3>6, <4>3 DEF Exam!Finished, Exam!Passed
      <4> QED BY <4>1, <4>2, <4>3
    <3>8. kind # "project" => PassedIsNewest'
      BY <3>1, <3>7 DEF PassedIsNewest
    <3>9. kind # "project" => AnnouncedIsResult'
      BY <3>1, <3>7 DEF ExamInv, CourseInv, AllKnow, Bounded, ResultsInv, AnnouncedIsResult
    <3> QED BY <3>1, <3>5, <3>8, <3>9 DEF AllKnow, Bounded, ResultsInv
  <2>6. CourseInv'
    BY <2>5 DEF CourseInv
  <2> QED BY <2>2, <2>4, <2>6 DEF ExamInv
<1> QED BY <1>1, <1>6, <1>10, <1>11

LEMMA ExamInitInv ==
  ASSUME Exam!AttemptAssumption, Exam!Init PROVE ExamInv
<1>1. Exam!TypeOK
  <2>1. Exam!NoRow \in Exam!AttemptType
    BY DEF Exam!NoRow, Exam!AttemptType, Exam!Results
  <2> QED BY <2>1, Zenon DEF Exam!Init, Exam!TypeOK, Exam!StartIdle, Exam!SubmitIdle, Exam!ReviewIdle, Exam!Results
<1>2. Used = {} /\ Exam!Open = {} /\ Exam!Finished = {}
  BY DEF Exam!Init, Exam!NoRow, Used, Exam!Open, Exam!Finished
<1>3. RowsInv
  <2>1. Used = 1 .. 0 /\ 0 \in Nat
    BY <1>2
  <2>2. \A r \in Starts : start[r].at = "idle" /\ start[r].open = 0
    BY DEF Exam!Init, Exam!StartIdle
  <2> QED BY <2>1, <2>2, Zenon DEF Exam!Init, RowsInv, Exam!SubmitIdle, Exam!ReviewIdle
<1>4. CourseInv
  BY <1>2 DEF Exam!Init, CourseInv, AllKnow, Bounded, ResultsInv, OpenIsNewest, StartKnows, Exam!StartIdle, PassedIsNewest, AnnouncedIsResult
<1> QED BY <1>1, <1>3, <1>4 DEF ExamInv

LEMMA ExamNextInv ==
  ASSUME Exam!AttemptAssumption, ExamInv, [Exam!Next]_Exam!vars PROVE ExamInv'
<1>1. CASE UNCHANGED Exam!vars
  BY <1>1 DEF Exam!vars, ExamInv, Exam!TypeOK, RowsInv, CourseInv, AllKnow, Bounded, ResultsInv, Used, Exam!Open, Exam!Finished, OpenIsNewest, StartKnows, PassedIsNewest, AnnouncedIsResult
<1>2. ASSUME NEW a \in Attempts, Exam!Expire(a) PROVE ExamInv'
  BY <1>2, ExpireKeeps
<1>3. ASSUME NEW r \in Starts, Exam!StartReads(r) \/ Exam!StartFinds(r) \/ Exam!StartActs(r) \/ Exam!StartFails(r) PROVE ExamInv'
  BY <1>3, StartReadsKeeps, StartFindsKeeps, StartActsKeeps, EndsOnly DEF Exam!StartFails
<1>4. ASSUME NEW s \in Submits, (\E a \in Attempts : Exam!SubmitReads(s, a)) \/ Exam!SubmitChecks(s) \/ Exam!SubmitFails(s) \/ \E result \in Exam!Results : Exam!SubmitCommits(s, result)
      PROVE  ExamInv'
  BY <1>4, SubmitKeeps, SubmitCommitsKeeps
<1>5. ASSUME NEW v \in Reviewers, Exam!ReviewSaves(v) \/ \E a \in Attempts, verdict \in {"yes", "no"} : Exam!ReviewLoads(v, a, verdict)
      PROVE  ExamInv'
  BY <1>5, ReviewSavesKeeps, ReviewLoadsKeeps
<1> QED BY <1>1, <1>2, <1>3, <1>4, <1>5 DEF Exam!Next

LEMMA ExamInvariant ==
  ASSUME Exam!AttemptAssumption PROVE Exam!Spec => []ExamInv
<1>1. Exam!Init => ExamInv
  BY ExamInitInv
<1>2. ExamInv /\ [Exam!Next]_Exam!vars => ExamInv'
  BY ExamNextInv
<1> QED BY <1>1, <1>2, PTL DEF Exam!Spec

\* Every variable keeps to its set (assessment.service.ts).
THEOREM ExamTypeCorrect ==
  ASSUME Exam!AttemptAssumption PROVE Exam!Spec => []Exam!TypeOK
<1>1. ExamInv => Exam!TypeOK
  BY DEF ExamInv
<1> QED BY <1>1, ExamInvariant, PTL

\* One open attempt, no more than max_attempts, none after a pass (startAttempt).
THEOREM BoundedAttempts ==
  ASSUME Exam!AttemptAssumption PROVE Exam!Spec => []Exam!AttemptsBounded
<1>1. ASSUME ExamInv, ~crossed PROVE Cardinality(Exam!Open) <= 1
  <2>1. CASE Exam!Open = {}
    BY <2>1, FS_EmptySet
  <2>2. CASE Exam!Open # {}
    <3>1. PICK a \in Exam!Open : TRUE
      BY <2>2
    <3>2. \A b \in Exam!Open : b = a
      <4>1. ASSUME NEW b \in Exam!Open PROVE b = a
        <5>1. a <= b /\ b <= a
          BY <1>1, ExamTypes DEF ExamInv, CourseInv, AllKnow, Bounded, ResultsInv, OpenIsNewest
        <5>2. a \in Nat /\ b \in Nat
          BY <1>1, ExamTypes
        <5> QED BY <5>1, <5>2
      <4> QED BY <4>1
    <3>3. Exam!Open = {a}
      BY <3>2
    <3>4. Cardinality({a}) = 1
      BY FS_Singleton
    <3> QED BY <3>3, <3>4
  <2> QED BY <2>1, <2>2
<1>2. ASSUME ExamInv, ~crossed PROVE Cardinality(Exam!Open \cup Exam!Finished) <= MaxAttempts
  <2>1. PICK n \in Nat : Used = 1 .. n
    BY <1>2 DEF ExamInv, RowsInv
  <2>2. n <= MaxAttempts
    <3>1. CASE n = 0
      BY <3>1, ExamTypes, <1>2
    <3>2. CASE n # 0
      BY <1>2, <2>1, <3>2 DEF ExamInv, CourseInv, AllKnow, Bounded, ResultsInv
    <3> QED BY <3>1, <3>2
  <2>3. Cardinality(Used) = n
    BY <2>1, FS_Interval
  <2> QED BY <1>2, <2>2, <2>3, ExamTypes, Zenon
<1>3. ASSUME ExamInv, ~crossed, kind # "project"
      PROVE  \A a \in Exam!Finished : attempt[a].passed = "yes" => \A b \in Exam!Open \cup Exam!Finished : b <= a
  BY <1>3, ExamTypes DEF ExamInv, CourseInv, AllKnow, Bounded, ResultsInv, PassedIsNewest
<1>4. ExamInv => Exam!AttemptsBounded
  BY <1>1, <1>2, <1>3, ExamSets DEF Exam!AttemptsBounded
<1> QED BY <1>4, ExamInvariant, PTL

\* What was announced is what is stored, and stays (submitAttempt's claim).
THEOREM ResultsStand ==
  ASSUME Exam!AttemptAssumption PROVE Exam!Spec => Exam!AnnouncedStands
<1>1. ASSUME ExamInv, ExamInv', [Exam!Next]_Exam!vars, ~crossed', kind # "project", NEW a \in Attempts, announced[a] # "unknown"
      PROVE  announced'[a] = announced[a] /\ attempt'[a].passed = announced[a]
  <2>1. ~crossed
    BY <1>1, Zenon DEF Exam!Next, Exam!vars, Exam!Expire, Exam!StartReads, Exam!StartFinds, Exam!StartActs, Exam!StartFails, Exam!SubmitReads, Exam!SubmitChecks, Exam!SubmitFails, Exam!SubmitCommits,
                Exam!ReviewSaves, Exam!ReviewLoads
  <2>2. a \in Exam!Finished /\ attempt[a].passed = announced[a]
    BY <1>1, <2>1 DEF ExamInv, CourseInv, AllKnow, Bounded, ResultsInv, AnnouncedIsResult
  <2>3. announced'[a] = announced[a]
    <3>1. CASE UNCHANGED announced
      BY <3>1
    <3>2. ASSUME NEW s \in Submits, NEW result \in Exam!Results, Exam!SubmitCommits(s, result) PROVE announced'[a] = announced[a]
      <4>1. CASE Exam!Claims(submit[s].of)
        <5>1. submit[s].of # a
          BY <2>2, <4>1 DEF Exam!Claims, Exam!Finished
        <5> QED BY <1>1, <3>2, <5>1 DEF Exam!SubmitCommits, ExamInv, Exam!TypeOK
      <4>2. CASE ~Exam!Claims(submit[s].of)
        BY <3>2, <4>2 DEF Exam!SubmitCommits
      <4> QED BY <4>1, <4>2
    <3>3. ASSUME NEW v \in Reviewers, Exam!ReviewSaves(v) PROVE FALSE
      BY <1>1, <3>3 DEF Exam!ReviewSaves, ExamInv, RowsInv
    <3> QED BY <1>1, <3>1, <3>2, <3>3, Zenon DEF Exam!Next, Exam!vars, Exam!Expire, Exam!StartReads, Exam!StartFinds, Exam!StartActs, Exam!StartFails, Exam!SubmitReads, Exam!SubmitChecks, Exam!SubmitFails, Exam!ReviewLoads
  <2>4. kind' = kind
    BY <1>1, Zenon DEF Exam!Next, Exam!vars, Exam!Expire, Exam!StartReads, Exam!StartFinds, Exam!StartActs, Exam!StartFails, Exam!SubmitReads, Exam!SubmitChecks, Exam!SubmitFails, Exam!SubmitCommits,
                Exam!ReviewSaves, Exam!ReviewLoads
  <2>5. attempt'[a].passed = announced'[a]
    BY <1>1, <2>3, <2>4 DEF ExamInv, CourseInv, AllKnow, Bounded, ResultsInv, AnnouncedIsResult
  <2> QED BY <2>3, <2>5
<1>2. ExamInv /\ ExamInv' /\ [Exam!Next]_Exam!vars => [Exam!ResultStands]_Exam!vars
  BY <1>1 DEF Exam!ResultStands
<1> QED BY <1>2, ExamInvariant, PTL DEF Exam!Spec, Exam!AnnouncedStands

-----------------------------------------------------------------------------
(* Certificates: Certificates                                            *)

HandlerType == [at : {"idle", "list", "check", "find", "insert", "publish"}, event : Certificate!Events, listed : SUBSET Assessments]

\* What a handler has seen still holds when it acts on it: lessons, lists and
\* passes only grow.
HandlerKnows(h) ==
  /\ certHandler[h].at # "idle" => done
  /\ certHandler[h].listed \subseteq Certificate!Required
  /\ certHandler[h].at = "check" => Assessments \ Later \subseteq certHandler[h].listed
  /\ certHandler[h].at \in {"find", "insert", "publish"} => Assessments \ Later \subseteq passed
  /\ certHandler[h].at = "publish" => cert /\ certIssued = 0

\* One delivery at most has inserted the row and is to announce it.
OnePublishes == \A g, h \in Handlers : certHandler[g].at = "publish" /\ certHandler[h].at = "publish" => g = h

\* While the certificate is due and missing, an event that will issue it is queued.
DueIsQueued == done /\ Certificate!Required \subseteq passed /\ ~cert => certQueue # {}

CertificateInv ==
  /\ Certificate!TypeOK
  /\ Assessments \ Later \subseteq Certificate!Required
  /\ None \in certQueue => done
  /\ \A h \in Handlers : HandlerKnows(h)
  /\ OnePublishes
  /\ ~cert => certIssued = 0
  /\ DueIsQueued
  /\ Certificate!CertificateIsEarned

LEMMA CertificateInitInv ==
  ASSUME Certificate!CertificateAssumption, Certificate!Init PROVE CertificateInv
<1>1. Certificate!TypeOK
  <2>1. 0 \in 0 .. MaxFaults /\ 0 \in 0 .. 2
    BY DEF Certificate!CertificateAssumption
  <2>2. Certificate!Idle \in HandlerType
    BY DEF Certificate!Idle, HandlerType, Certificate!Events
  <2> QED BY <2>1, <2>2, Zenon DEF Certificate!Init, Certificate!TypeOK, HandlerType
<1>2. \A h \in Handlers : certHandler[h] = Certificate!Idle
  BY DEF Certificate!Init
<1>3. \A h \in Handlers : certHandler[h].at = "idle" /\ certHandler[h].listed = {}
  BY <1>2 DEF Certificate!Idle
<1>4. Assessments \ Later \subseteq Certificate!Required
  BY DEF Certificate!Init, Certificate!Required
<1>5. ~done /\ ~cert /\ certQueue = {} /\ certIssued = 0
  BY DEF Certificate!Init
<1>6. \A h \in Handlers : HandlerKnows(h)
  BY <1>3 DEF HandlerKnows
<1> QED BY <1>1, <1>3, <1>4, <1>5, <1>6 DEF CertificateInv, OnePublishes, DueIsQueued, Certificate!CertificateIsEarned

\* A handler that acks, or dies, is idle; its event may leave the queue.
LEMMA AcksInv ==
  ASSUME Certificate!CertificateAssumption, CertificateInv, NEW h \in Handlers,
         certHandler' = [certHandler EXCEPT ![h] = Certificate!Idle], certQueue' \subseteq certQueue, certFaults' \in 0 .. MaxFaults,
         certIssued' = certIssued \/ (certIssued' = certIssued + 1 /\ certHandler[h].at = "publish"),
         UNCHANGED <<done, state, passed, cert>>,
         certQueue' = certQueue \/ cert \/ ~(Certificate!Required \subseteq passed)
  PROVE  CertificateInv'
<1> USE DEF CertificateInv, Certificate!CertificateAssumption
<1>1. certHandler' \in [Handlers -> HandlerType] /\ certHandler'[h] = Certificate!Idle /\ \A g \in Handlers \ {h} : certHandler'[g] = certHandler[g]
  BY DEF Certificate!TypeOK, HandlerType, Certificate!Idle, Certificate!Events
<1>2. certIssued' \in 0 .. 1 /\ (certHandler[h].at # "publish" => certIssued' = certIssued)
  BY DEF HandlerKnows, Certificate!TypeOK, Certificate!CertificateIsEarned
<1>3. Certificate!TypeOK'
  BY <1>1, <1>2 DEF Certificate!TypeOK, HandlerType, Certificate!Events
<1>4. \A g \in Handlers : HandlerKnows(g)'
  <2>1. HandlerKnows(h)'
    BY <1>1 DEF HandlerKnows, Certificate!Idle
  <2>2. ASSUME NEW g \in Handlers \ {h} PROVE HandlerKnows(g)'
    BY <1>1, <1>2, <2>2 DEF HandlerKnows, Certificate!Required, OnePublishes
  <2> QED BY <2>1, <2>2
<1>5. OnePublishes' /\ DueIsQueued'
  BY <1>1 DEF OnePublishes, DueIsQueued, Certificate!Required, Certificate!Idle
<1>6. (~cert => certIssued = 0)' /\ Certificate!CertificateIsEarned'
  BY <1>2 DEF Certificate!CertificateIsEarned, HandlerKnows
<1> QED BY <1>3, <1>4, <1>5, <1>6 DEF Certificate!Required

\* What Acks does to the queue and the faults.
LEMMA AcksDoes ==
  ASSUME Certificate!CertificateAssumption, Certificate!TypeOK, NEW h \in Handlers, Certificate!Acks(h)
  PROVE  certHandler' = [certHandler EXCEPT ![h] = Certificate!Idle] /\ certQueue' \subseteq certQueue /\ certFaults' \in 0 .. MaxFaults
<1>1. certFaults \in 0 .. MaxFaults /\ MaxFaults \in Nat
  BY DEF Certificate!TypeOK, Certificate!CertificateAssumption
<1> QED BY <1>1 DEF Certificate!Acks

\* A handler takes a step, or an event, and acks nothing.
LEMMA CertificateGoesInv ==
  ASSUME Certificate!CertificateAssumption, CertificateInv, NEW h \in Handlers, NEW t \in HandlerType,
         certHandler' = [certHandler EXCEPT ![h] = t], certFaults' \in 0 .. MaxFaults,
         UNCHANGED <<done, state, passed, cert, certQueue, certIssued>>, t.at # "publish",
         HandlerKnows(h)'
  PROVE  CertificateInv'
<1> USE DEF CertificateInv, Certificate!CertificateAssumption
<1>1. certHandler' \in [Handlers -> HandlerType] /\ certHandler'[h] = t /\ \A g \in Handlers \ {h} : certHandler'[g] = certHandler[g]
  BY DEF Certificate!TypeOK, HandlerType
<1>2. \A g \in Handlers : HandlerKnows(g)'
  BY <1>1 DEF HandlerKnows, Certificate!Required
<1> QED BY <1>1, <1>2 DEF Certificate!TypeOK, HandlerType, Certificate!Events, Certificate!Required, OnePublishes, DueIsQueued, Certificate!CertificateIsEarned

LEMMA CertificateNextInv ==
  ASSUME Certificate!CertificateAssumption, CertificateInv, [Certificate!Next]_Certificate!vars PROVE CertificateInv'
<1>0. Certificate!TypeOK /\ MaxFaults \in Nat /\ certFaults \in 0 .. MaxFaults /\ \A h \in Handlers : HandlerKnows(h) /\ certHandler[h] \in HandlerType
  BY DEF CertificateInv, Certificate!TypeOK, HandlerType, Certificate!CertificateAssumption
<1>1. CASE Certificate!Complete
  BY <1>1 DEF CertificateInv, Certificate!Complete, Certificate!TypeOK, Certificate!Events, Certificate!Required, HandlerKnows, OnePublishes, DueIsQueued, Certificate!CertificateIsEarned
<1>2. ASSUME NEW a \in Assessments, Certificate!Pass(a) PROVE CertificateInv'
  BY <1>2 DEF CertificateInv, Certificate!Pass, Certificate!TypeOK, Certificate!Events, Certificate!Required, HandlerKnows, OnePublishes, DueIsQueued, Certificate!CertificateIsEarned, Certificate!CertificateAssumption
<1>3. ASSUME NEW S \in SUBSET Assessments, NEW to \in {"live", "deleted"}, Certificate!CloseRevision(S, to) PROVE CertificateInv'
  <2>1. Certificate!Required \subseteq Certificate!Required'
    BY <1>3 DEF Certificate!CloseRevision, Certificate!Required
  <2> QED BY <1>3, <2>1 DEF CertificateInv, Certificate!CloseRevision, Certificate!TypeOK, HandlerKnows, OnePublishes, DueIsQueued, Certificate!CertificateIsEarned
<1>4. ASSUME NEW h \in Handlers, NEW e \in Certificate!Events, Certificate!Deliver(h, e) PROVE CertificateInv'
  <2>0. certFaults' \in 0 .. MaxFaults
    BY <1>0, <1>4 DEF Certificate!Deliver
  <2>1. CASE Certificate!LessonsDone(e)
    <3> DEFINE t == [at |-> "list", event |-> e, listed |-> {}]
    <3>1. t \in HandlerType /\ certHandler' = [certHandler EXCEPT ![h] = t] /\ done
      BY <1>4, <2>1 DEF CertificateInv, Certificate!Deliver, HandlerType, Certificate!LessonsDone
    <3>2. HandlerKnows(h)'
      BY <1>0, <1>4, <3>1 DEF Certificate!Deliver, HandlerKnows, Certificate!TypeOK
    <3> QED BY <1>4, <2>0, <2>1, <3>1, <3>2, CertificateGoesInv, Zenon DEF Certificate!Deliver
  <2>2. CASE ~Certificate!LessonsDone(e)
    BY <1>4, <2>0, <2>2 DEF CertificateInv, Certificate!Deliver, Certificate!LessonsDone, Certificate!TypeOK, Certificate!Required, HandlerKnows, OnePublishes, DueIsQueued, Certificate!CertificateIsEarned
  <2> QED BY <2>1, <2>2
<1>5. ASSUME NEW h \in Handlers, Certificate!List(h) PROVE CertificateInv'
  <2> DEFINE t == [certHandler[h] EXCEPT !.at = "check", !.listed = Certificate!Required]
  <2>1. t \in HandlerType /\ certHandler' = [certHandler EXCEPT ![h] = t] /\ certHandler'[h] = t
    BY <1>0, <1>5, Zenon DEF Certificate!List, HandlerType, Certificate!TypeOK, Certificate!Required
  <2>2. HandlerKnows(h)'
    <3>1. t.at = "check" /\ t.listed = Certificate!Required
      BY <1>0, <1>5 DEF HandlerType
    <3>2. Certificate!Required' = Certificate!Required /\ done' = done /\ done
      BY <1>0, <1>5 DEF Certificate!List, Certificate!Required, HandlerKnows
    <3> HIDE DEF t
    <3> QED BY <2>1, <3>1, <3>2 DEF HandlerKnows, CertificateInv
  <2> HIDE DEF t
  <2>3. t.at = "check"
    BY <1>0, <1>5 DEF t, HandlerType
  <2> QED BY <1>0, <1>5, <2>1, <2>2, <2>3, CertificateGoesInv, Zenon DEF Certificate!List
<1>6. ASSUME NEW h \in Handlers, NEW step \in {"find", "insert"}, Certificate!To(h, step),
             UNCHANGED <<done, state, passed, cert, certQueue, certIssued, certFaults>>, Assessments \ Later \subseteq passed, certHandler[h].at # "idle"
      PROVE CertificateInv'
  <2> DEFINE t == [certHandler[h] EXCEPT !.at = step]
  <2>1. t \in HandlerType /\ certHandler' = [certHandler EXCEPT ![h] = t] /\ certHandler'[h] = t
    BY <1>0, <1>6 DEF Certificate!To, HandlerType, Certificate!TypeOK
  <2>2. HandlerKnows(h)'
    BY <1>0, <1>6, <2>1 DEF HandlerKnows, Certificate!Required, HandlerType
  <2>3. t.at = step
    BY <1>0 DEF HandlerType
  <2> HIDE DEF t
  <2> QED BY <1>0, <1>6, <2>1, <2>2, <2>3, CertificateGoesInv, Zenon
<1>7. ASSUME NEW h \in Handlers, Certificate!Check(h) PROVE CertificateInv'
  <2>1. CASE Certificate!AllPassed(h) /\ Certificate!To(h, "find")
    BY <1>0, <1>6, <1>7, <2>1, Zenon DEF Certificate!Check, Certificate!AllPassed, HandlerKnows, Certificate!To
  <2>2. CASE ~Certificate!AllPassed(h) /\ Certificate!Acks(h)
    <3>1. ~(Certificate!Required \subseteq passed)
      BY <1>0, <2>2 DEF Certificate!AllPassed, HandlerKnows
    <3> QED BY <1>0, <1>7, <2>2, <3>1, AcksInv, AcksDoes DEF Certificate!Check
  <2> QED BY <1>7, <2>1, <2>2 DEF Certificate!Check
<1>8. ASSUME NEW h \in Handlers, Certificate!Find(h) PROVE CertificateInv'
  <2>1. CASE ~cert /\ Certificate!To(h, "insert")
    BY <1>0, <1>6, <1>8, <2>1, Zenon DEF Certificate!Find, HandlerKnows, Certificate!To
  <2>2. CASE cert /\ Certificate!Acks(h)
    BY <1>0, <1>8, <2>2, AcksInv, AcksDoes DEF Certificate!Find
  <2> QED BY <1>8, <2>1, <2>2 DEF Certificate!Find
<1>9. ASSUME NEW h \in Handlers, Certificate!Insert(h) PROVE CertificateInv'
  <2>1. CASE Certificate!Inserts /\ cert' = TRUE /\ Certificate!To(h, "publish")
    <3>1. certIssued = 0 /\ \A g \in Handlers : certHandler[g].at # "publish"
      BY <1>0, <2>1 DEF CertificateInv, Certificate!Inserts, HandlerKnows
    <3>2. done /\ Assessments \ Later \subseteq passed
      BY <1>0, <1>9 DEF Certificate!Insert, HandlerKnows
    <3>3. certHandler' \in [Handlers -> HandlerType] /\ certHandler'[h] = [certHandler[h] EXCEPT !.at = "publish"] /\ \A g \in Handlers \ {h} : certHandler'[g] = certHandler[g]
      BY <1>0, <2>1 DEF Certificate!To, Certificate!TypeOK, HandlerType
    <3>4. \A g \in Handlers : HandlerKnows(g)'
      BY <1>0, <1>9, <2>1, <3>1, <3>2, <3>3 DEF Certificate!Insert, HandlerKnows, Certificate!Required, HandlerType
    <3>5. OnePublishes'
      BY <3>1, <3>3 DEF OnePublishes
    <3> QED BY <1>0, <1>9, <2>1, <3>1, <3>2, <3>3, <3>4, <3>5 DEF CertificateInv, Certificate!Insert, Certificate!TypeOK, HandlerType, Certificate!Events, Certificate!Required, DueIsQueued, Certificate!CertificateIsEarned
  <2>2. CASE ~Certificate!Inserts /\ Certificate!Acks(h) /\ UNCHANGED cert
    BY <1>0, <1>9, <2>2, AcksInv, AcksDoes DEF Certificate!Insert, Certificate!Inserts
  <2> QED BY <1>9, <2>1, <2>2, Zenon DEF Certificate!Insert
<1>10. ASSUME NEW h \in Handlers, Certificate!Publish(h) PROVE CertificateInv'
  <2>1. cert /\ certIssued = 0
    BY <1>0, <1>10 DEF Certificate!Publish, HandlerKnows
  <2>2. certIssued' = certIssued \/ (certIssued' = certIssued + 1 /\ certHandler[h].at = "publish")
    BY <1>10 DEF Certificate!Publish
  <2> QED BY <1>0, <1>10, <2>1, <2>2, AcksInv, AcksDoes DEF Certificate!Publish
<1>11. ASSUME NEW h \in Handlers, Certificate!Fail(h) PROVE CertificateInv'
  <2>1. certFaults' \in 0 .. MaxFaults
    BY <1>0, <1>11 DEF Certificate!Fail
  <2> QED BY <1>11, <2>1, AcksInv, Zenon DEF Certificate!Fail
<1>12. CASE UNCHANGED Certificate!vars
  BY <1>12 DEF CertificateInv, Certificate!vars, Certificate!TypeOK, Certificate!Events, Certificate!Required, HandlerKnows, OnePublishes, DueIsQueued, Certificate!CertificateIsEarned
<1> QED BY <1>1, <1>2, <1>3, <1>4, <1>5, <1>7, <1>8, <1>9, <1>10, <1>11, <1>12 DEF Certificate!Next

\* The enrollment, the certificate and the deliveries keep their types.
THEOREM CertificateTypeCorrect ==
  ASSUME Certificate!CertificateAssumption PROVE Certificate!Spec => []Certificate!TypeOK
<1>1. Certificate!Init => CertificateInv
  BY CertificateInitInv
<1>2. CertificateInv /\ [Certificate!Next]_Certificate!vars => CertificateInv'
  BY CertificateNextInv
<1>3. CertificateInv => Certificate!TypeOK
  BY DEF CertificateInv
<1> QED BY <1>1, <1>2, <1>3, PTL DEF Certificate!Spec

\* Who has done the lessons and passed what is required has a certificate once
\* the events are handled, in whatever order they come, are lost and come again
\* (the two subscriptions, allRequiredAssessmentsPassed, issue).
THEOREM DueIsIssued ==
  ASSUME Certificate!CertificateAssumption PROVE Certificate!Spec => []Certificate!CertificateIsIssued
<1>1. Certificate!Init => CertificateInv
  BY CertificateInitInv
<1>2. CertificateInv /\ [Certificate!Next]_Certificate!vars => CertificateInv'
  BY CertificateNextInv
<1>3. CertificateInv => Certificate!CertificateIsIssued
  BY DEF CertificateInv, DueIsQueued, Certificate!CertificateIsIssued
<1> QED BY <1>1, <1>2, <1>3, PTL DEF Certificate!Spec

\* A certificate is of somebody who has earned it, and is announced once, however
\* many handlers issue it at a time (issue's insert).
THEOREM IssuedIsEarned ==
  ASSUME Certificate!CertificateAssumption PROVE Certificate!Spec => []Certificate!CertificateIsEarned
<1>1. Certificate!Init => CertificateInv
  BY CertificateInitInv
<1>2. CertificateInv /\ [Certificate!Next]_Certificate!vars => CertificateInv'
  BY CertificateNextInv
<1>3. CertificateInv => Certificate!CertificateIsEarned
  BY DEF CertificateInv
<1> QED BY <1>1, <1>2, <1>3, PTL DEF Certificate!Spec

-----------------------------------------------------------------------------
(* Uploads: Upload                                                       *)

\* The multipart upload is gone and has left no object: nothing can come of it.
Dead(n) == multipart[n] = "gone" /\ n \notin objects

\* What the browser's engine knows of the session it works on.
EngineInv ==
  /\ engine.at \in {"status", "listing", "parts", "send", "complete"} => engine.session # 0
  /\ engine.at = "create" => engine.session = 0
  /\ engine.at = "cancelled" => ~engine.sent
  /\ engine.awaits # None => engine.at = "complete"
  /\ engine.at \in {"send", "complete"} => engine.session \in parts
  /\ engine.session # 0 => engine.session \in engine.mine /\ uploadRow[engine.session] # "none"
  /\ engine.at = "listing" /\ engine.found = "completed" => engine.session \in objects
  /\ engine.at = "listing" /\ engine.found = "aborted" /\ ~uploadExcused => Dead(engine.session)
  /\ record # 0 => uploadRow[record] # "none"

\* What a request at the service has seen still holds when it acts on it.
RequestOk(r) ==
  /\ uploadRequest[r].at = "idle" => uploadRequest[r] = Transfer!Idle
  /\ uploadRequest[r].at # "idle" => uploadRequest[r].of \in Sessions /\ uploadRow[uploadRequest[r].of] # "none"
  /\ uploadRequest[r].at \in {"delete", "abort", "check"} => ~uploadRequest[r].waits
  /\ uploadRequest[r].at \in {"update", "attach"} => uploadRequest[r].of \in objects
  /\ uploadRequest[r].at \in {"head", "check"} => multipart[uploadRequest[r].of] = "gone"
  /\ r \in Transfer!Completing => uploadRequest[r].of \in parts
  /\ uploadRequest[r].at = "answer" /\ uploadRequest[r].answer = "gone" /\ ~uploadExcused => Dead(uploadRequest[r].of)
TransferRequestInv == \A r \in Requests : RequestOk(r)

\* The row, the multipart upload and the object of a session.
StoreInv ==
  /\ objects \subseteq parts
  /\ \A n \in Sessions :
       /\ uploadRow[n] = "none" => multipart[n] = "none"
       /\ uploadRow[n] = "completed" => n \in objects
       /\ n \in objects => multipart[n] = "gone"
       /\ uploadRow[n] = "aborted" /\ ~uploadExcused => Dead(n)
       /\ n \in answered /\ ~uploadExcused => Dead(n)
  /\ attached # 0 => attached \in objects

\* Until a fault excuses it: without a send there is no video, and every session
\* the engine gave up for another is dead.
TransferSentInv ==
  ~uploadExcused =>
    /\ ~engine.sent => attached = 0 /\ \A r \in Transfer!Completing : Dead(uploadRequest[r].of)
    /\ attached # 0 => attached \in engine.mine
    /\ \A r \in Transfer!Completing : uploadRequest[r].of \in engine.mine \/ Dead(uploadRequest[r].of)
    /\ engine.at # "cancelled" => \A n \in engine.mine : n = engine.session \/ Dead(n)

AwaitInv == engine.awaits # None => uploadRequest[engine.awaits].waits /\ uploadRequest[engine.awaits].of = engine.session

TransferInv == Transfer!TypeOK /\ EngineInv /\ AwaitInv /\ TransferRequestInv /\ StoreInv /\ TransferSentInv

\* What no step takes back.
Grows ==
  /\ parts \subseteq parts' /\ objects \subseteq objects' /\ (uploadExcused => uploadExcused')
  /\ \A n \in Sessions :
       /\ uploadRow[n] # "none" => uploadRow'[n] # "none"
       /\ multipart[n] = "gone" => multipart'[n] = "gone"
       /\ Dead(n) /\ ~uploadExcused' => Dead(n)'

LEMMA TransferTypes ==
  ASSUME Transfer!UploadAssumption, Transfer!TypeOK
  PROVE  /\ 0 \notin Sessions /\ None \notin Requests
         /\ engine.session \in Sessions \cup {0} /\ engine.mine \subseteq Sessions
         /\ engine.awaits \in Requests \cup {None}
         /\ \A r \in Requests : uploadRequest[r] \in Transfer!RequestType /\ uploadRequest[r].of \in Sessions \cup {0}
         /\ (Transfer!Fault => uploadFaults' \in 0 .. MaxFaults)
         /\ Transfer!Idle \in Transfer!RequestType
BY DEF Transfer!UploadAssumption, Transfer!TypeOK, Transfer!EngineType, Transfer!RequestType, Transfer!Fault, Transfer!Idle, Transfer!Steps

LEMMA EngineStays ==
  ASSUME Transfer!UploadAssumption, TransferInv, Grows, engine' = engine, record' = record PROVE EngineInv'
BY TransferTypes DEF TransferInv, Transfer!TypeOK, EngineInv, Grows, Dead

LEMMA RequestStays ==
  ASSUME Transfer!UploadAssumption, TransferInv, Grows, NEW r \in Requests, uploadRequest'[r] = uploadRequest[r] PROVE RequestOk(r)'
<1>1. RequestOk(r) /\ uploadRequest[r].of \in Sessions \cup {0}
  BY TransferTypes DEF TransferInv, TransferRequestInv
<1>2. r \in Transfer!Completing' <=> r \in Transfer!Completing
  BY DEF Transfer!Completing
<1> QED BY <1>1, <1>2 DEF RequestOk, Grows

LEMMA SentStays ==
  ASSUME Transfer!UploadAssumption, TransferInv, Grows,
         engine'.sent = engine.sent, engine'.mine = engine.mine, engine'.session = engine.session,
         engine'.at = "cancelled" <=> engine.at = "cancelled", attached' = attached,
         \A r \in Transfer!Completing' : r \in Transfer!Completing /\ uploadRequest'[r].of = uploadRequest[r].of
  PROVE  TransferSentInv'
<1>1. /\ \A r \in Transfer!Completing : uploadRequest[r].of \in Sessions
      /\ engine.mine \subseteq Sessions
  <2>1. ASSUME NEW r \in Transfer!Completing PROVE uploadRequest[r].of \in Sessions
    BY DEF Transfer!Completing, TransferInv, TransferRequestInv, RequestOk
  <2> QED BY <2>1, TransferTypes DEF TransferInv
<1>2. CASE ~uploadExcused'
  <2>1. ~uploadExcused /\ \A n \in Sessions : Dead(n) => Dead(n)'
    BY <1>2 DEF Grows
  <2>2. ~engine'.sent => attached' = 0 /\ \A r \in Transfer!Completing' : Dead(uploadRequest[r].of)'
    BY <1>1, <2>1 DEF TransferInv, TransferSentInv
  <2>3. attached' # 0 => attached' \in engine'.mine
    BY <2>1 DEF TransferInv, TransferSentInv
  <2>4. \A r \in Transfer!Completing' : uploadRequest[r].of \in engine.mine \/ Dead(uploadRequest[r].of)'
    BY <1>1, <2>1 DEF TransferInv, TransferSentInv
  <2>5. engine'.at # "cancelled" => \A n \in engine.mine : n = engine.session \/ Dead(n)'
    BY <1>1, <2>1 DEF TransferInv, TransferSentInv
  <2>6. \A r \in Transfer!Completing' : (Dead(uploadRequest[r].of)' => (Dead(uploadRequest[r].of))') /\ uploadRequest'[r].of = uploadRequest[r].of
    BY DEF Dead
  <2>7. \A r \in Transfer!Completing' : Dead(uploadRequest[r].of)' <=> (multipart'[uploadRequest'[r].of] = "gone" /\ uploadRequest'[r].of \notin objects')
    BY DEF Dead
  <2> QED BY <2>2, <2>3, <2>4, <2>5, <2>7 DEF TransferSentInv, Dead
<1> QED BY <1>2 DEF TransferSentInv

\* One request goes on, and the browser does not notice.
LEMMA RequestGoes ==
  ASSUME Transfer!UploadAssumption, TransferInv, Grows, Transfer!TypeOK', StoreInv', engine' = engine, record' = record, attached' = attached,
         NEW r \in Requests, \A s \in Requests \ {r} : uploadRequest'[s] = uploadRequest[s], RequestOk(r)',
         r \in Transfer!Completing' => r \in Transfer!Completing /\ uploadRequest'[r].of = uploadRequest[r].of,
         uploadRequest[r].waits => uploadRequest'[r].waits /\ uploadRequest'[r].of = uploadRequest[r].of
  PROVE  TransferInv'
<1>1. EngineInv' /\ AwaitInv'
  BY EngineStays, TransferTypes DEF TransferInv, AwaitInv
<1>2. TransferRequestInv'
  BY RequestStays DEF TransferRequestInv
<1>3. TransferSentInv'
  <2>1. \A s \in Transfer!Completing' : s \in Transfer!Completing /\ uploadRequest'[s].of = uploadRequest[s].of
    BY DEF Transfer!Completing
  <2> QED BY <2>1, SentStays
<1> QED BY <1>1, <1>2, <1>3 DEF TransferInv

LEMMA Said ==
  ASSUME Transfer!UploadAssumption, TransferInv, NEW r \in Requests, uploadRequest[r].at # "idle",
         NEW answer \in {"ok", "missing", "refused", "gone", "down"}, Transfer!Says(r, answer)
  PROVE  /\ uploadRequest' \in [Requests -> Transfer!RequestType]
         /\ \A s \in Requests \ {r} : uploadRequest'[s] = uploadRequest[s]
         /\ \/ uploadRequest'[r] = Transfer!Idle /\ ~uploadRequest[r].waits
            \/ uploadRequest[r].waits /\ uploadRequest'[r].waits /\ uploadRequest'[r].at = "answer" /\ uploadRequest'[r].answer = answer /\ uploadRequest'[r].of = uploadRequest[r].of
BY TransferTypes, Zenon DEF TransferInv, Transfer!TypeOK, Transfer!Says, Transfer!RequestType, Transfer!Steps, Transfer!Idle

\* An answer on its way, or a request that nobody waits for ended.
LEMMA Ends ==
  ASSUME Transfer!UploadAssumption, TransferInv, Grows, Transfer!TypeOK', StoreInv', engine' = engine, record' = record, attached' = attached,
         NEW r \in Requests, uploadRequest[r].at # "idle", uploadRequest[r].at \in {"delete", "abort", "check"} \/ r \in Transfer!Completing,
         NEW answer \in {"ok", "missing", "refused", "gone", "down"}, Transfer!Says(r, answer),
         answer = "gone" /\ ~uploadExcused' => multipart'[uploadRequest[r].of] = "gone" /\ uploadRequest[r].of \notin objects'
  PROVE  TransferInv'
<1>1. RequestOk(r) /\ uploadRequest[r].of \in Sessions \cup {0}
  BY TransferTypes DEF TransferInv, TransferRequestInv
<1>2. /\ \A s \in Requests \ {r} : uploadRequest'[s] = uploadRequest[s]
      /\ \/ uploadRequest'[r] = Transfer!Idle /\ ~uploadRequest[r].waits
         \/ /\ uploadRequest'[r].waits /\ uploadRequest'[r].at = "answer" /\ uploadRequest'[r].answer = answer /\ uploadRequest'[r].of = uploadRequest[r].of
            /\ uploadRequest[r].waits
  BY Said
<1>3. r \in Transfer!Completing' => r \in Transfer!Completing /\ uploadRequest'[r].of = uploadRequest[r].of
  BY <1>1, <1>2 DEF Transfer!Completing, Transfer!Idle, RequestOk
<1>4. RequestOk(r)'
  <2>1. CASE uploadRequest'[r] = Transfer!Idle
    BY <2>1 DEF RequestOk, Transfer!Idle, Transfer!Completing
  <2>2. CASE uploadRequest'[r].at = "answer" /\ uploadRequest'[r].answer = answer /\ uploadRequest'[r].of = uploadRequest[r].of /\ uploadRequest[r].waits
    <3>1. r \in Transfer!Completing
      BY <1>1, <2>2 DEF RequestOk
    <3>2. uploadRequest[r].of \in parts' /\ uploadRequest[r].of \in Sessions /\ uploadRow'[uploadRequest[r].of] # "none"
      BY <1>1, <3>1 DEF RequestOk, Grows
    <3>3. answer = "gone" /\ ~uploadExcused' => multipart'[uploadRequest'[r].of] = "gone" /\ uploadRequest'[r].of \notin objects'
      BY <2>2 DEF Dead
    <3> QED BY <2>2, <3>2, <3>3 DEF RequestOk, Dead
  <2> QED BY <1>2, <2>1, <2>2
<1> QED BY <1>2, <1>3, <1>4, RequestGoes

\* A request takes its next step.
LEMMA Moves ==
  ASSUME Transfer!UploadAssumption, TransferInv, NEW r \in Requests, NEW step \in Transfer!Steps, Transfer!To(r, step)
  PROVE  /\ uploadRequest' \in [Requests -> Transfer!RequestType]
         /\ \A s \in Requests \ {r} : uploadRequest'[s] = uploadRequest[s]
         /\ uploadRequest'[r].at = step /\ uploadRequest'[r].of = uploadRequest[r].of
         /\ uploadRequest'[r].waits = uploadRequest[r].waits /\ uploadRequest'[r].answer = uploadRequest[r].answer
BY TransferTypes DEF TransferInv, Transfer!TypeOK, Transfer!To, Transfer!RequestType

LEMMA GoesOn ==
  ASSUME Transfer!UploadAssumption, TransferInv, Grows, Transfer!TypeOK', StoreInv', engine' = engine, record' = record, attached' = attached,
         NEW r \in Requests, uploadRequest[r].at \notin {"idle", "answer"},
         NEW step \in Transfer!Steps \ {"idle", "row", "answer", "delete"}, Transfer!To(r, step),
         r \in Transfer!Completing <=> step \notin {"abort", "check"},
         step \in {"update", "attach"} => uploadRequest[r].of \in objects',
         step \in {"head", "check"} => multipart'[uploadRequest[r].of] = "gone"
  PROVE  TransferInv'
<1>1. RequestOk(r)
  BY DEF TransferInv, TransferRequestInv
<1>2. /\ \A s \in Requests \ {r} : uploadRequest'[s] = uploadRequest[s]
      /\ uploadRequest'[r].at = step /\ uploadRequest'[r].of = uploadRequest[r].of
      /\ uploadRequest'[r].waits = uploadRequest[r].waits
  BY Moves
<1>3. r \in Transfer!Completing' => r \in Transfer!Completing
  BY <1>2 DEF Transfer!Completing
<1>4. ~(r \in Transfer!Completing) => uploadRequest[r].at \in {"delete", "abort", "check"}
  <2>1. uploadRequest[r] \in Transfer!RequestType
    BY TransferTypes DEF TransferInv
  <2>2. uploadRequest[r].at \in Transfer!Steps
    BY <2>1 DEF Transfer!RequestType
  <2> QED BY <2>2 DEF Transfer!Completing, Transfer!Steps
<1>5. uploadRequest[r].of \in Sessions /\ uploadRow'[uploadRequest[r].of] # "none" /\ (r \in Transfer!Completing => uploadRequest[r].of \in parts')
  BY <1>1 DEF RequestOk, Grows
<1>6. RequestOk(r)'
  BY <1>1, <1>2, <1>3, <1>4, <1>5 DEF RequestOk
<1> QED BY <1>2, <1>3, <1>6, RequestGoes

LEMMA StoreStays ==
  ASSUME Transfer!UploadAssumption, TransferInv, UNCHANGED <<uploadRow, Transfer!storage, attached, answered, uploadExcused>> PROVE Grows /\ StoreInv'
BY DEF Transfer!storage, Grows, Dead, TransferInv, StoreInv

LEMMA CompleteReadsKeeps ==
  ASSUME Transfer!UploadAssumption, TransferInv, NEW r \in Requests, Transfer!CompleteReads(r) PROVE TransferInv'
<1>1. uploadRequest[r].at = "row" /\ RequestOk(r) /\ uploadRequest[r].of \in Sessions /\ r \in Transfer!Completing
  BY DEF Transfer!CompleteReads, Transfer!At, TransferInv, TransferRequestInv, RequestOk, Transfer!Completing
<1>2. Grows /\ StoreInv'
  BY StoreStays DEF Transfer!CompleteReads
<1>3. CASE uploadRow[uploadRequest[r].of] = "completed" /\ Transfer!To(r, "attach")
  <2>1. Transfer!TypeOK'
    BY <1>3, Moves DEF Transfer!CompleteReads, TransferInv, Transfer!TypeOK, Transfer!Steps, Transfer!storage
  <2>2. uploadRequest[r].of \in objects'
    BY <1>1, <1>3 DEF Transfer!CompleteReads, Transfer!storage, TransferInv, StoreInv
  <2> QED BY <1>1, <1>2, <1>3, <2>1, <2>2, GoesOn DEF Transfer!CompleteReads, Transfer!Steps
<1>4. CASE uploadRow[uploadRequest[r].of] = "aborted" /\ Transfer!Says(r, "gone")
  <2>1. Transfer!TypeOK'
    BY <1>1, <1>4, Said DEF Transfer!CompleteReads, TransferInv, Transfer!TypeOK, Transfer!storage
  <2>2. ~uploadExcused' => multipart'[uploadRequest[r].of] = "gone" /\ uploadRequest[r].of \notin objects'
    BY <1>1, <1>2, <1>4 DEF Transfer!CompleteReads, TransferInv, StoreInv, Dead, Transfer!storage
  <2> QED BY <1>1, <1>2, <1>4, <2>1, <2>2, Ends DEF Transfer!CompleteReads
<1>5. CASE Transfer!To(r, "list")
  <2>1. Transfer!TypeOK'
    BY <1>5, Moves DEF Transfer!CompleteReads, TransferInv, Transfer!TypeOK, Transfer!Steps, Transfer!storage
  <2> QED BY <1>1, <1>2, <1>5, <2>1, GoesOn DEF Transfer!CompleteReads, Transfer!Steps
<1> QED BY <1>3, <1>4, <1>5 DEF Transfer!CompleteReads

LEMMA CompleteListsKeeps ==
  ASSUME Transfer!UploadAssumption, TransferInv, NEW r \in Requests, Transfer!CompleteLists(r) PROVE TransferInv'
<1>1. uploadRequest[r].at = "list" /\ RequestOk(r) /\ uploadRequest[r].of \in Sessions /\ r \in Transfer!Completing
  BY DEF Transfer!CompleteLists, Transfer!At, TransferInv, TransferRequestInv, RequestOk, Transfer!Completing
<1>2. Grows /\ StoreInv'
  BY StoreStays DEF Transfer!CompleteLists
<1>3. CASE multipart[uploadRequest[r].of] = "gone" /\ Transfer!To(r, "head")
  <2>1. Transfer!TypeOK'
    BY <1>3, Moves DEF Transfer!CompleteLists, TransferInv, Transfer!TypeOK, Transfer!Steps, Transfer!storage
  <2> QED BY <1>1, <1>2, <1>3, <2>1, GoesOn DEF Transfer!CompleteLists, Transfer!Steps, Transfer!storage
<1>4. CASE Transfer!To(r, "assemble")
  <2>1. Transfer!TypeOK'
    BY <1>4, Moves DEF Transfer!CompleteLists, TransferInv, Transfer!TypeOK, Transfer!Steps, Transfer!storage
  <2> QED BY <1>1, <1>2, <1>4, <2>1, GoesOn DEF Transfer!CompleteLists, Transfer!Steps, Transfer!storage
<1>5. CASE Transfer!Says(r, "missing")
  <2>1. Transfer!TypeOK'
    BY <1>1, <1>5, Said DEF Transfer!CompleteLists, TransferInv, Transfer!TypeOK, Transfer!storage
  <2> QED BY <1>1, <1>2, <1>5, <2>1, Ends DEF Transfer!CompleteLists
<1> QED BY <1>3, <1>4, <1>5 DEF Transfer!CompleteLists

LEMMA AssembleKeeps ==
  ASSUME Transfer!UploadAssumption, TransferInv, NEW r \in Requests, Transfer!Assemble(r) PROVE TransferInv'
<1> DEFINE n == uploadRequest[r].of
<1>1. uploadRequest[r].at = "assemble" /\ n \in Sessions /\ uploadRow[n] # "none" /\ r \in Transfer!Completing /\ n \in parts
  BY DEF Transfer!Assemble, Transfer!At, TransferInv, TransferRequestInv, RequestOk, Transfer!Completing
<1>2. Transfer!TypeOK'
  BY <1>1, Moves DEF Transfer!Assemble, TransferInv, Transfer!TypeOK, Transfer!Steps
<1>3. multipart'[n] = "gone" /\ \A m \in Sessions \ {n} : multipart'[m] = multipart[m]
  BY <1>1 DEF Transfer!Assemble, TransferInv, Transfer!TypeOK
<1>4. Grows
  <2>1. ASSUME NEW m \in Sessions, Dead(m) PROVE m \notin objects'
    BY <2>1 DEF Transfer!Assemble, Dead
  <2> QED BY <1>3, <2>1 DEF Transfer!Assemble, Grows, Dead
<1>5. StoreInv'
  <2>1. objects' \subseteq parts' /\ objects \subseteq objects' /\ (attached' # 0 => attached' \in objects')
    BY <1>1 DEF Transfer!Assemble, TransferInv, StoreInv
  <2>2. ASSUME NEW m \in Sessions
        PROVE  /\ uploadRow'[m] = "none" => multipart'[m] = "none"
               /\ uploadRow'[m] = "completed" => m \in objects'
               /\ m \in objects' => multipart'[m] = "gone"
               /\ uploadRow'[m] = "aborted" /\ ~uploadExcused' => Dead(m)'
               /\ m \in answered' /\ ~uploadExcused' => Dead(m)'
    <3>1. uploadRow'[m] = uploadRow[m] /\ (uploadExcused' <=> uploadExcused) /\ answered' = answered
      BY DEF Transfer!Assemble
    <3>2. (m \in objects' => m \in objects \/ m = n) /\ (Dead(m) => Dead(m)')
      BY <1>3 DEF Transfer!Assemble, Dead
    <3> QED BY <1>1, <1>3, <2>1, <3>1, <3>2 DEF TransferInv, StoreInv
  <2> QED BY <2>1, <2>2 DEF StoreInv
<1> QED BY <1>1, <1>2, <1>3, <1>4, <1>5, GoesOn DEF Transfer!Assemble, Transfer!Steps

LEMMA HeadKeeps ==
  ASSUME Transfer!UploadAssumption, TransferInv, NEW r \in Requests, Transfer!Head(r) PROVE TransferInv'
<1> DEFINE n == uploadRequest[r].of
<1>1. uploadRequest[r].at = "head" /\ n \in Sessions /\ uploadRow[n] # "none" /\ r \in Transfer!Completing /\ multipart[n] = "gone"
  BY DEF Transfer!Head, Transfer!At, TransferInv, TransferRequestInv, RequestOk, Transfer!Completing
<1>2. CASE Transfer!Stored(n) /\ Transfer!To(r, "update") /\ UNCHANGED uploadRow
  <2>1. Transfer!TypeOK'
    BY <1>2, Moves DEF Transfer!Head, TransferInv, Transfer!TypeOK, Transfer!Steps, Transfer!storage
  <2>2. Grows /\ StoreInv'
    BY <1>2, StoreStays DEF Transfer!Head
  <2> QED BY <1>1, <1>2, <2>1, <2>2, GoesOn DEF Transfer!Head, Transfer!Steps, Transfer!Stored, Transfer!storage
<1>3. CASE ~Transfer!Stored(n) /\ Transfer!Says(r, "gone") /\ uploadRow' = Transfer!Aborted(n)
  <2>1. Transfer!TypeOK'
    BY <1>1, <1>3, Said DEF Transfer!Head, TransferInv, Transfer!TypeOK, Transfer!Aborted, Transfer!storage
  <2>2. Grows
    BY <1>1, <1>3 DEF Transfer!Head, Grows, Dead, Transfer!storage, Transfer!Aborted, TransferInv, Transfer!TypeOK
  <2>3. StoreInv'
    BY <1>1, <1>3 DEF Transfer!Head, StoreInv, TransferInv, Transfer!TypeOK, Dead, Transfer!storage, Transfer!Aborted, Transfer!Stored
  <2>4. multipart'[n] = "gone" /\ n \notin objects'
    BY <1>1, <1>3 DEF Transfer!Head, Dead, Transfer!storage, Transfer!Stored
  <2> QED BY <1>1, <1>3, <2>1, <2>2, <2>3, <2>4, Ends DEF Transfer!Head
<1> QED BY <1>2, <1>3 DEF Transfer!Head

LEMMA UpdateKeeps ==
  ASSUME Transfer!UploadAssumption, TransferInv, NEW r \in Requests, Transfer!Update(r) PROVE TransferInv'
<1> DEFINE n == uploadRequest[r].of
<1>1. uploadRequest[r].at = "update" /\ n \in Sessions /\ uploadRow[n] # "none" /\ r \in Transfer!Completing /\ n \in objects
  BY DEF Transfer!Update, Transfer!At, TransferInv, TransferRequestInv, RequestOk, Transfer!Completing
<1>2. Transfer!TypeOK'
  BY <1>1, Moves DEF Transfer!Update, TransferInv, Transfer!TypeOK, Transfer!Steps, Transfer!storage
<1>3. Grows
  BY <1>1 DEF Transfer!Update, Grows, Dead, Transfer!storage, TransferInv, Transfer!TypeOK
<1>4. StoreInv'
  BY <1>1 DEF Transfer!Update, StoreInv, TransferInv, Transfer!TypeOK, Dead, Transfer!storage
<1> QED BY <1>1, <1>2, <1>3, <1>4, GoesOn DEF Transfer!Update, Transfer!Steps, Transfer!storage

LEMMA AttachKeeps ==
  ASSUME Transfer!UploadAssumption, TransferInv, NEW r \in Requests, Transfer!Attach(r) PROVE TransferInv'
<1> DEFINE n == uploadRequest[r].of
<1>1. uploadRequest[r].at = "attach" /\ n \in Sessions /\ r \in Transfer!Completing /\ n \in objects /\ n # 0
  BY TransferTypes DEF Transfer!Attach, Transfer!At, TransferInv, TransferRequestInv, RequestOk, Transfer!Completing
<1>2. CASE attached # n /\ Transfer!Says(r, "refused") /\ UNCHANGED attached
  <2>1. Transfer!TypeOK'
    BY <1>1, <1>2, Said DEF Transfer!Attach, TransferInv, Transfer!TypeOK, Transfer!storage
  <2>2. Grows /\ StoreInv'
    BY <1>2, StoreStays DEF Transfer!Attach
  <2> QED BY <1>1, <1>2, <2>1, <2>2, Ends DEF Transfer!Attach
<1>3. CASE attached' = n /\ Transfer!Says(r, "ok")
  <2>1. Transfer!TypeOK'
    BY <1>1, <1>3, Said DEF Transfer!Attach, TransferInv, Transfer!TypeOK, Transfer!storage
  <2>2. Grows /\ StoreInv'
    BY <1>1, <1>3 DEF Transfer!Attach, Transfer!storage, Grows, Dead, TransferInv, StoreInv
  <2>3. /\ \A s \in Requests \ {r} : uploadRequest'[s] = uploadRequest[s]
        /\ \/ uploadRequest'[r] = Transfer!Idle /\ ~uploadRequest[r].waits
           \/ /\ uploadRequest'[r].waits /\ uploadRequest'[r].at = "answer" /\ uploadRequest'[r].answer = "ok" /\ uploadRequest'[r].of = n
    BY <1>1, <1>3, Said
  <2>4. RequestOk(r)'
    <3>1. n \in parts' /\ uploadRow'[n] # "none"
      BY <1>1 DEF Transfer!Attach, Transfer!storage, TransferInv, TransferRequestInv, RequestOk
    <3> QED BY <1>1, <2>3, <3>1 DEF RequestOk, Transfer!Idle, Transfer!Completing
  <2>5. EngineInv' /\ TransferRequestInv' /\ AwaitInv'
    <3>1. EngineInv' /\ TransferRequestInv'
      BY <2>2, <2>3, <2>4, EngineStays, RequestStays DEF TransferRequestInv, Transfer!Attach
    <3>2. AwaitInv'
      BY <2>3, TransferTypes DEF TransferInv, AwaitInv, Transfer!Attach
    <3> QED BY <3>1, <3>2
  <2>6. TransferSentInv'
    <3>1. \A s \in Transfer!Completing' : s \in Transfer!Completing /\ uploadRequest'[s].of = uploadRequest[s].of
      BY <1>1, <2>3 DEF Transfer!Completing, Transfer!Idle
    <3>2. ~uploadExcused => engine.sent /\ n \in engine.mine
      BY <1>1 DEF TransferInv, TransferSentInv, Dead
    <3>3. \A s \in Transfer!Completing' : Dead(uploadRequest[s].of) => Dead(uploadRequest[s].of)'
      <4>1. ASSUME NEW s \in Transfer!Completing', Dead(uploadRequest[s].of) PROVE Dead(uploadRequest[s].of)'
        BY <3>1, <4>1 DEF Dead, Transfer!Attach, Transfer!storage
      <4> QED BY <4>1
    <3> QED BY <3>1, <3>2, <1>3 DEF TransferSentInv, TransferInv, Transfer!Attach, Dead, Transfer!storage
  <2> QED BY <2>1, <2>2, <2>5, <2>6 DEF TransferInv
<1> QED BY <1>2, <1>3 DEF Transfer!Attach

LEMMA RequestFailsKeeps ==
  ASSUME Transfer!UploadAssumption, TransferInv, NEW r \in Requests, Transfer!RequestFails(r) PROVE TransferInv'
<1>1. uploadRequest[r].at \notin {"idle", "answer"} /\ (uploadRequest[r].at \in {"delete", "abort", "check"} \/ r \in Transfer!Completing)
  <2>1. uploadRequest[r] \in Transfer!RequestType
    BY TransferTypes DEF TransferInv
  <2>2. uploadRequest[r].at \in Transfer!Steps
    BY <2>1 DEF Transfer!RequestType
  <2> QED BY <2>2 DEF Transfer!Completing, Transfer!Steps, Transfer!RequestFails
<1>2. Grows /\ StoreInv'
  BY StoreStays DEF Transfer!RequestFails
<1>3. Transfer!TypeOK'
  BY <1>1, Said, TransferTypes DEF Transfer!RequestFails, TransferInv, Transfer!TypeOK, Transfer!storage
<1> QED BY <1>1, <1>2, <1>3, Ends DEF Transfer!RequestFails

LEMMA AbortReadsKeeps ==
  ASSUME Transfer!UploadAssumption, TransferInv, NEW r \in Requests, Transfer!AbortReads(r) PROVE TransferInv'
<1> DEFINE n == uploadRequest[r].of
<1>1. uploadRequest[r].at = "delete" /\ n \in Sessions /\ ~(r \in Transfer!Completing)
  BY DEF Transfer!AbortReads, Transfer!At, TransferInv, TransferRequestInv, RequestOk, Transfer!Completing
<1>2. Grows
  BY DEF Transfer!AbortReads, Grows, Dead, Transfer!storage
<1>3. StoreInv'
  BY DEF Transfer!AbortReads, Dead, Transfer!storage, TransferInv, StoreInv
<1>4. CASE uploadRow[n] = "uploading" /\ Transfer!To(r, "abort") /\ UNCHANGED answered
  <2>1. Transfer!TypeOK'
    BY <1>4, Moves DEF Transfer!AbortReads, TransferInv, Transfer!TypeOK, Transfer!Steps, Transfer!storage
  <2> QED BY <1>1, <1>2, <1>3, <1>4, <2>1, GoesOn DEF Transfer!AbortReads, Transfer!Steps, Transfer!storage
<1>5. ASSUME NEW answer \in {"ok", "refused"}, Transfer!Says(r, answer) PROVE TransferInv'
  <2>1. Transfer!TypeOK'
    BY <1>1, <1>5, Said DEF Transfer!AbortReads, TransferInv, Transfer!TypeOK, Transfer!storage
  <2> QED BY <1>1, <1>2, <1>3, <1>5, <2>1, Ends DEF Transfer!AbortReads
<1> QED BY <1>4, <1>5 DEF Transfer!AbortReads

LEMMA AbortStorageKeeps ==
  ASSUME Transfer!UploadAssumption, TransferInv, NEW r \in Requests, Transfer!AbortStorage(r) PROVE TransferInv'
<1> DEFINE n == uploadRequest[r].of
<1>1. uploadRequest[r].at = "abort" /\ n \in Sessions /\ uploadRow[n] # "none" /\ ~(r \in Transfer!Completing)
  BY DEF Transfer!AbortStorage, Transfer!At, TransferInv, TransferRequestInv, RequestOk, Transfer!Completing
<1>2. Transfer!TypeOK'
  BY <1>1, Moves DEF Transfer!AbortStorage, TransferInv, Transfer!TypeOK, Transfer!Steps
<1>3. Grows
  BY <1>1 DEF Transfer!AbortStorage, Grows, Dead, TransferInv, Transfer!TypeOK
<1>4. StoreInv'
  BY <1>1 DEF Transfer!AbortStorage, StoreInv, TransferInv, Transfer!TypeOK, Dead
<1>5. multipart'[n] = "gone"
  BY <1>1 DEF Transfer!AbortStorage, TransferInv, Transfer!TypeOK
<1> QED BY <1>1, <1>2, <1>3, <1>4, <1>5, GoesOn DEF Transfer!AbortStorage, Transfer!Steps

LEMMA AbortChecksKeeps ==
  ASSUME Transfer!UploadAssumption, TransferInv, NEW r \in Requests, Transfer!AbortChecks(r) PROVE TransferInv'
<1> DEFINE n == uploadRequest[r].of
<1>1. uploadRequest[r].at = "check" /\ n \in Sessions /\ uploadRow[n] # "none" /\ ~(r \in Transfer!Completing) /\ multipart[n] = "gone"
  BY DEF Transfer!AbortChecks, Transfer!At, TransferInv, TransferRequestInv, RequestOk, Transfer!Completing
<1>2. CASE Transfer!TooLate(n) /\ Transfer!Says(r, "refused") /\ UNCHANGED <<uploadRow, answered>>
  <2>1. Transfer!TypeOK'
    BY <1>1, <1>2, Said DEF Transfer!AbortChecks, TransferInv, Transfer!TypeOK, Transfer!storage
  <2>2. Grows /\ StoreInv'
    BY <1>2, StoreStays DEF Transfer!AbortChecks
  <2> QED BY <1>1, <1>2, <2>1, <2>2, Ends DEF Transfer!AbortChecks
<1>3. CASE ~Transfer!TooLate(n) /\ Transfer!Says(r, "ok") /\ uploadRow' = Transfer!Aborted(n) /\ answered' = answered \cup {n}
  <2>1. Transfer!TypeOK'
    BY <1>1, <1>3, Said DEF Transfer!AbortChecks, TransferInv, Transfer!TypeOK, Transfer!Aborted, Transfer!storage
  <2>2. Grows
    BY <1>1, <1>3 DEF Transfer!AbortChecks, Grows, Dead, Transfer!storage, Transfer!Aborted, TransferInv, Transfer!TypeOK
  <2>3. StoreInv'
    BY <1>1, <1>3 DEF Transfer!AbortChecks, StoreInv, TransferInv, Transfer!TypeOK, Dead, Transfer!storage, Transfer!Aborted, Transfer!TooLate
  <2> QED BY <1>1, <1>3, <2>1, <2>2, <2>3, Ends DEF Transfer!AbortChecks
<1> QED BY <1>2, <1>3 DEF Transfer!AbortChecks

\* The browser goes on; no request does.
LEMMA EngineGoes ==
  ASSUME Transfer!UploadAssumption, TransferInv, Grows, Transfer!TypeOK', StoreInv', EngineInv', TransferSentInv', uploadRequest' = uploadRequest,
         engine'.awaits = None \/ (engine'.awaits = engine.awaits /\ engine'.session = engine.session)
  PROVE  TransferInv'
BY RequestStays DEF TransferRequestInv, TransferInv, AwaitInv

LEMMA StartKeeps ==
  ASSUME Transfer!UploadAssumption, TransferInv, Transfer!Start PROVE TransferInv'
<1> DEFINE n == IF engine.session = 0 THEN record ELSE engine.session
<1>1. /\ n \in Sessions \cup {0} /\ (n = 0 => engine.session = 0) /\ (n # 0 => uploadRow[n] # "none")
      /\ (engine.session # 0 => n = engine.session) /\ engine \in Transfer!EngineType
      /\ engine.at \in {"off", "paused"}
  BY TransferTypes DEF Transfer!Start, TransferInv, Transfer!TypeOK, EngineInv
<1>2. /\ engine'.at = IF n = 0 THEN "create" ELSE "status"
      /\ engine'.session = n /\ engine'.sent = engine.sent /\ engine'.awaits = engine.awaits
      /\ engine'.mine = IF n = 0 THEN engine.mine ELSE engine.mine \cup {n}
  BY <1>1 DEF Transfer!Start, Transfer!EngineType
<1>3. Transfer!TypeOK'
  <2>1. engine' \in Transfer!EngineType
    BY <1>1, Zenon DEF Transfer!Start, Transfer!EngineType, Transfer!Running
  <2> QED BY <2>1 DEF Transfer!Start, TransferInv, Transfer!TypeOK, Transfer!storage
<1>4. Grows /\ StoreInv'
  BY StoreStays DEF Transfer!Start
<1>5. EngineInv'
  BY <1>1, <1>2 DEF Transfer!Start, TransferInv, EngineInv, Transfer!storage
<1>6. TransferSentInv'
  <2>1. (uploadExcused' <=> uploadExcused) /\ attached' = attached /\ Transfer!Completing' = Transfer!Completing /\ uploadRequest' = uploadRequest
        /\ \A m \in Sessions : Dead(m)' <=> Dead(m)
    BY DEF Transfer!Start, Transfer!storage, Dead, Transfer!Completing
  <2>2. \A r \in Transfer!Completing : Dead(uploadRequest[r].of)' <=> Dead(uploadRequest[r].of)
    BY <2>1 DEF Transfer!Start, Transfer!storage, Dead
  <2>3. engine.mine \subseteq Sessions /\ engine.mine \subseteq engine'.mine
    BY <1>2, TransferTypes DEF TransferInv
  <2>4. ~uploadExcused => \A m \in engine'.mine : m = engine'.session \/ Dead(m)'
    <3>1. \A m \in engine'.mine : m \in engine.mine \/ m = n
      BY <1>2
    <3>2. engine.at # "cancelled" /\ 0 \notin Sessions
      BY <1>1, TransferTypes DEF TransferInv
    <3> QED BY <1>1, <1>2, <2>1, <2>3, <3>1, <3>2 DEF TransferSentInv, TransferInv
  <2>5. ~uploadExcused => \A r \in Transfer!Completing : uploadRequest[r].of \in engine'.mine \/ Dead(uploadRequest[r].of)'
    BY <2>2, <2>3 DEF TransferSentInv, TransferInv
  <2>6. ~uploadExcused /\ ~engine.sent => attached = 0 /\ \A r \in Transfer!Completing : Dead(uploadRequest[r].of)'
    BY <2>2 DEF TransferSentInv, TransferInv
  <2>7. ~uploadExcused /\ attached # 0 => attached \in engine'.mine
    BY <2>3 DEF TransferSentInv, TransferInv
  <2> QED BY <1>2, <2>1, <2>4, <2>5, <2>6, <2>7 DEF TransferSentInv, Dead
<1>7. engine'.awaits = None
  BY <1>1, <1>2 DEF TransferInv, EngineInv
<1> QED BY <1>3, <1>4, <1>5, <1>6, <1>7, EngineGoes DEF Transfer!Start

\* The browser waits for something, or stops waiting.
LEMMA EngineTurns ==
  ASSUME Transfer!UploadAssumption, TransferInv, Grows, Transfer!TypeOK', StoreInv', EngineInv', uploadRequest' = uploadRequest, attached' = attached,
         engine.at # "cancelled", engine'.at # "cancelled",
         engine'.sent = engine.sent, engine'.mine = engine.mine, engine'.session = engine.session,
         engine'.awaits \in {None, engine.awaits}
  PROVE  TransferInv'
<1>1. Transfer!Completing' = Transfer!Completing
  BY DEF Transfer!Completing
<1>2. TransferSentInv'
  BY <1>1, SentStays
<1> QED BY <1>2, EngineGoes

LEMMA AskStatusKeeps ==
  ASSUME Transfer!UploadAssumption, TransferInv, Transfer!AskStatus PROVE TransferInv'
<1>1. engine \in Transfer!EngineType /\ engine.session \in Sessions /\ engine.at = "status"
  BY TransferTypes DEF Transfer!AskStatus, TransferInv, Transfer!TypeOK, EngineInv
<1>2. /\ engine'.at = "listing" /\ engine'.session = engine.session /\ engine'.sent = engine.sent
      /\ engine'.awaits = engine.awaits /\ engine'.mine = engine.mine /\ engine'.found = uploadRow[engine.session]
  BY <1>1 DEF Transfer!AskStatus, Transfer!EngineType
<1>3. uploadRow[engine.session] \in {"uploading", "completed", "aborted"}
  BY <1>1, TransferTypes DEF TransferInv, Transfer!TypeOK, EngineInv
<1>4. Transfer!TypeOK'
  <2>1. engine' \in Transfer!EngineType
    BY <1>1, <1>3, Zenon DEF Transfer!AskStatus, Transfer!EngineType, Transfer!Running
  <2> QED BY <2>1 DEF Transfer!AskStatus, TransferInv, Transfer!TypeOK, Transfer!storage
<1>5. Grows /\ StoreInv'
  BY StoreStays DEF Transfer!AskStatus
<1>6. EngineInv'
  BY <1>1, <1>2, TransferTypes DEF Transfer!AskStatus, TransferInv, EngineInv, StoreInv, Dead, Transfer!storage
<1> QED BY <1>1, <1>2, <1>4, <1>5, <1>6, EngineTurns DEF Transfer!AskStatus

LEMMA PutKeeps ==
  ASSUME Transfer!UploadAssumption, TransferInv, Transfer!Put PROVE TransferInv'
<1>1. engine \in Transfer!EngineType /\ engine.session \in Sessions /\ engine.at = "parts"
  BY TransferTypes DEF Transfer!Put, TransferInv, Transfer!TypeOK, EngineInv
<1>2. /\ engine'.at \in {"send", "status"} /\ engine'.session = engine.session /\ engine'.sent = engine.sent
      /\ engine'.awaits = engine.awaits /\ engine'.mine = engine.mine /\ engine'.found = engine.found
      /\ (engine'.at = "send" => parts' = parts \cup {engine.session}) /\ parts' \subseteq parts \cup {engine.session} /\ parts \subseteq parts'
  BY <1>1 DEF Transfer!Put, Transfer!Goes, Transfer!EngineType
<1>3. Transfer!TypeOK'
  <2>1. engine' \in Transfer!EngineType
    BY <1>1 DEF Transfer!Put, Transfer!Goes, Transfer!EngineType, Transfer!Running
  <2> QED BY <1>1, <1>2, <2>1 DEF Transfer!Put, TransferInv, Transfer!TypeOK
<1>4. Grows
  BY <1>2 DEF Transfer!Put, Grows, Dead
<1>5. StoreInv'
  BY <1>2 DEF Transfer!Put, TransferInv, StoreInv, Dead
<1>6. EngineInv'
  BY <1>1, <1>2, TransferTypes DEF Transfer!Put, TransferInv, EngineInv
<1> QED BY <1>1, <1>2, <1>3, <1>4, <1>5, <1>6, EngineTurns DEF Transfer!Put

LEMMA PauseKeeps ==
  ASSUME Transfer!UploadAssumption, TransferInv, Transfer!Pause PROVE TransferInv'
<1>1. engine \in Transfer!EngineType /\ engine.at \in Transfer!Running
  BY DEF Transfer!Pause, TransferInv, Transfer!TypeOK
<1>2. /\ engine'.at = "paused" /\ engine'.session = engine.session /\ engine'.sent = engine.sent
      /\ engine'.awaits = None /\ engine'.mine = engine.mine
  BY <1>1 DEF Transfer!Pause, Transfer!EngineType
<1>3. Transfer!TypeOK'
  <2>1. engine' \in Transfer!EngineType
    BY <1>1, Zenon DEF Transfer!Pause, Transfer!EngineType
  <2> QED BY <2>1, TransferTypes DEF Transfer!Pause, TransferInv, Transfer!TypeOK, Transfer!storage
<1>4. Grows /\ StoreInv'
  BY StoreStays DEF Transfer!Pause
<1>5. EngineInv'
  BY <1>1, <1>2 DEF Transfer!Pause, TransferInv, EngineInv, Transfer!storage
<1>6. engine.at # "cancelled"
  BY <1>1 DEF Transfer!Running
<1> QED BY <1>1, <1>2, <1>3, <1>4, <1>5, <1>6, EngineTurns DEF Transfer!Pause

LEMMA ReapKeeps ==
  ASSUME Transfer!UploadAssumption, TransferInv, NEW n \in Sessions, Transfer!Reap(n) PROVE TransferInv'
<1>1. Transfer!TypeOK'
  BY TransferTypes DEF Transfer!Reap, TransferInv, Transfer!TypeOK, Transfer!Aborted
<1>2. Grows
  BY DEF Transfer!Reap, TransferInv, Transfer!TypeOK, Grows, Dead, Transfer!Aborted
<1>3. StoreInv'
  BY Zenon DEF Transfer!Reap, TransferInv, Transfer!TypeOK, StoreInv, Dead, Transfer!Aborted
<1>4. EngineInv'
  BY <1>2, EngineStays DEF Transfer!Reap
<1>5. TransferSentInv'
  <2>1. Transfer!Completing' = Transfer!Completing
    BY DEF Transfer!Completing, Transfer!Reap
  <2> QED BY <1>2, <2>1, SentStays DEF Transfer!Reap
<1> QED BY <1>1, <1>2, <1>3, <1>4, <1>5, EngineGoes DEF Transfer!Reap

LEMMA CreateKeeps ==
  ASSUME Transfer!UploadAssumption, TransferInv, NEW n \in Sessions, Transfer!Create(n) PROVE TransferInv'
<1>1. engine \in Transfer!EngineType /\ engine.session = 0 /\ engine.at = "create" /\ uploadRow[n] = "none" /\ multipart[n] = "none" /\ n \notin objects /\ n # 0
  BY TransferTypes, Zenon DEF Transfer!Create, Transfer!Fresh, TransferInv, Transfer!TypeOK, EngineInv, StoreInv
<1>2. /\ uploadRow'[n] = "uploading" /\ multipart'[n] = "open" /\ \A m \in Sessions \ {n} : uploadRow'[m] = uploadRow[m] /\ multipart'[m] = multipart[m]
      /\ uploadRow' \in [Sessions -> {"none", "uploading", "completed", "aborted"}]
      /\ multipart' \in [Sessions -> {"none", "open", "gone"}]
  BY Zenon DEF Transfer!Create, TransferInv, Transfer!TypeOK
<1>3. Grows
  BY <1>1, <1>2, Zenon DEF Transfer!Create, Grows, Dead
<1>4. StoreInv'
  BY <1>1, <1>2, Zenon DEF Transfer!Create, TransferInv, StoreInv, Dead
<1>5. CASE \E owns \in BOOLEAN :
             /\ engine' = [engine EXCEPT !.at = "parts", !.session = n, !.owns = owns, !.mine = engine.mine \cup {n}]
             /\ record' = IF owns THEN n ELSE record
             /\ UNCHANGED uploadFaults
  <2> PICK owns \in BOOLEAN : /\ engine' = [engine EXCEPT !.at = "parts", !.session = n, !.owns = owns, !.mine = engine.mine \cup {n}]
                              /\ record' = IF owns THEN n ELSE record
                              /\ UNCHANGED uploadFaults
    BY <1>5, Zenon
  <2>1. /\ engine'.at = "parts" /\ engine'.session = n /\ engine'.sent = engine.sent
        /\ engine'.awaits = engine.awaits /\ engine'.mine = engine.mine \cup {n} /\ engine' \in Transfer!EngineType
    BY <1>1, Zenon DEF Transfer!EngineType, Transfer!Running
  <2>2. Transfer!TypeOK'
    <3>1. record' \in Sessions \cup {0}
      BY DEF TransferInv, Transfer!TypeOK
    <3> QED BY <1>2, <2>1, <3>1, Zenon DEF Transfer!Create, TransferInv, Transfer!TypeOK
  <2>3. EngineInv'
    BY <1>1, <1>2, <1>5, <2>1, Zenon DEF Transfer!Create, TransferInv, EngineInv, Transfer!TypeOK
  <2>4. TransferSentInv'
    <3>1. (uploadExcused' <=> uploadExcused) /\ attached' = attached /\ Transfer!Completing' = Transfer!Completing /\ uploadRequest' = uploadRequest
          /\ engine.mine \subseteq Sessions
      BY TransferTypes, Zenon DEF Transfer!Create, Transfer!Completing, TransferInv
    <3>2. ASSUME NEW r \in Transfer!Completing PROVE uploadRequest[r].of \in Sessions
      BY DEF Transfer!Completing, TransferInv, TransferRequestInv, RequestOk
    <3>3. ~uploadExcused => (\A m \in Sessions : Dead(m) => multipart'[m] = "gone" /\ m \notin objects')
      BY <1>3, <3>1 DEF Grows, Dead
    <3>4. ~uploadExcused => (\A m \in engine'.mine : m = engine'.session \/ (multipart'[m] = "gone" /\ m \notin objects'))
      <4>1. ~uploadExcused => \A m \in engine.mine : Dead(m)
        BY <1>1, <3>1, TransferTypes DEF TransferSentInv, TransferInv
      <4> QED BY <2>1, <3>1, <3>3, <4>1
    <3>5. ~uploadExcused => (\A r \in Transfer!Completing : uploadRequest[r].of \in engine'.mine \/ (multipart'[uploadRequest[r].of] = "gone" /\ uploadRequest[r].of \notin objects'))
      BY <2>1, <3>2, <3>3 DEF TransferSentInv, TransferInv
    <3>6. ~uploadExcused /\ ~engine.sent => attached = 0 /\ \A r \in Transfer!Completing : (multipart'[uploadRequest[r].of] = "gone" /\ uploadRequest[r].of \notin objects')
      BY <3>2, <3>3 DEF TransferSentInv, TransferInv
    <3>7. ~uploadExcused /\ attached # 0 => attached \in engine'.mine
      BY <2>1 DEF TransferSentInv, TransferInv
    <3> QED BY <2>1, <3>1, <3>4, <3>5, <3>6, <3>7 DEF TransferSentInv, Dead
  <2>5. engine'.awaits = None
    BY <1>1, <2>1 DEF TransferInv, EngineInv
  <2> QED BY <1>3, <1>4, <2>2, <2>3, <2>4, <2>5, EngineGoes, Zenon DEF Transfer!Create
<1>6. CASE Transfer!Fault /\ UNCHANGED <<engine, record>>
  <2>1. Transfer!TypeOK'
    BY <1>2, <1>6, TransferTypes DEF Transfer!Create, TransferInv, Transfer!TypeOK
  <2>2. EngineInv'
    BY <1>3, <1>6, EngineStays
  <2> QED BY <1>1, <1>3, <1>4, <1>6, <2>1, <2>2, EngineTurns DEF Transfer!Create
<1> QED BY <1>5, <1>6, Zenon DEF Transfer!Create

\* The browser leaves a session, and takes back that a complete was sent only
\* when none can reach the lesson.
LEMMA SentTurns ==
  ASSUME Transfer!UploadAssumption, TransferInv, Grows, StoreInv', attached' = attached, engine.at # "cancelled", engine'.mine = engine.mine,
         \A r \in Transfer!Completing' : r \in Transfer!Completing /\ uploadRequest'[r].of = uploadRequest[r].of,
         ~uploadExcused' => \A m \in engine.mine : m = engine'.session \/ (multipart'[m] = "gone" /\ m \notin objects'),
         engine'.sent => engine.sent,
         engine.sent /\ ~engine'.sent => engine'.session \notin parts
  PROVE  TransferSentInv'
<1> SUFFICES ASSUME ~uploadExcused' PROVE TransferSentInv'
  BY DEF TransferSentInv
<1> DEFINE Gone(m) == multipart'[m] = "gone" /\ m \notin objects'
<1>1. ~uploadExcused /\ (\A m \in Sessions : Dead(m) => Gone(m)) /\ objects \subseteq objects' /\ objects \subseteq parts
  BY DEF Grows, Dead, TransferInv, StoreInv
<1>2. ASSUME NEW r \in Transfer!Completing PROVE uploadRequest[r].of \in Sessions /\ uploadRequest[r].of \in parts
  BY DEF Transfer!Completing, TransferInv, TransferRequestInv, RequestOk
<1>3. \A r \in Transfer!Completing : uploadRequest[r].of \in engine.mine \/ Gone(uploadRequest[r].of)
  BY <1>1, <1>2 DEF TransferInv, TransferSentInv
<1>4. attached # 0 => attached \in engine.mine /\ attached \in objects
  BY <1>1 DEF TransferInv, TransferSentInv, StoreInv
<1>5. ~engine'.sent => attached = 0 /\ \A r \in Transfer!Completing : Gone(uploadRequest[r].of)
  <2>1. CASE ~engine.sent
    BY <1>1, <1>2, <2>1 DEF TransferInv, TransferSentInv
  <2>2. CASE engine.sent /\ ~engine'.sent
    BY <1>1, <1>2, <1>3, <1>4, <2>2
  <2> QED BY <2>1, <2>2
<1>6. \A r \in Transfer!Completing' : Dead(uploadRequest[r].of)' <=> Gone(uploadRequest[r].of)
  BY DEF Dead
<1>7. \A m \in engine.mine : m = engine'.session \/ Dead(m)'
  BY DEF Dead
<1>8. /\ ~engine'.sent => attached' = 0 /\ \A r \in Transfer!Completing' : Dead(uploadRequest[r].of)'
      /\ attached' # 0 => attached' \in engine'.mine
      /\ \A r \in Transfer!Completing' : uploadRequest'[r].of \in engine'.mine \/ Dead(uploadRequest[r].of)'
  BY <1>3, <1>4, <1>5, <1>6
<1> QED BY <1>7, <1>8 DEF TransferSentInv

LEMMA Loses ==
  ASSUME Transfer!UploadAssumption, TransferInv, Grows, StoreInv', attached' = attached, Transfer!Lost, engine.at \in Transfer!Running, engine.session # 0,
         \A r \in Transfer!Completing' : r \in Transfer!Completing /\ uploadRequest'[r].of = uploadRequest[r].of,
         ~uploadExcused' => multipart'[engine.session] = "gone" /\ engine.session \notin objects'
  PROVE  EngineInv' /\ TransferSentInv' /\ engine' \in Transfer!EngineType /\ engine'.awaits = None /\ record' \in Sessions \cup {0}
<1>1. engine \in Transfer!EngineType /\ record \in Sessions \cup {0} /\ engine.session \in Sessions
  BY TransferTypes DEF TransferInv, Transfer!TypeOK
<1>2. /\ engine'.at \in {"failed", "create"} /\ engine'.session = 0 /\ engine'.awaits = None
      /\ engine'.mine = engine.mine /\ (engine'.sent => engine.sent)
      /\ record' \in {0, record}
  BY <1>1, Zenon DEF Transfer!Lost, Transfer!EngineType
<1>3. engine' \in Transfer!EngineType
  <2> DEFINE sent == engine.sent /\ Transfer!InFlight # {}
  <2>1. sent \in BOOLEAN
    OBVIOUS
  <2> HIDE DEF sent
  <2>2. \/ engine' = [engine EXCEPT !.at = "failed", !.session = 0, !.owns = FALSE, !.found = "none", !.awaits = None]
        \/ engine' = [engine EXCEPT !.at = "create", !.session = 0, !.owns = FALSE, !.found = "none", !.awaits = None, !.sent = sent]
    BY DEF Transfer!Lost, sent
  <2> QED BY <1>1, <2>1, <2>2, Zenon DEF Transfer!EngineType, Transfer!Running
<1>4. EngineInv'
  BY <1>1, <1>2 DEF TransferInv, EngineInv, Grows
<1>5. TransferSentInv'
  <2>1. engine.at # "cancelled" /\ 0 \notin parts
    BY TransferTypes DEF Transfer!Running, TransferInv, Transfer!TypeOK
  <2>2. ~uploadExcused' => \A m \in engine.mine : m = engine'.session \/ (multipart'[m] = "gone" /\ m \notin objects')
    <3>1. ~uploadExcused => \A m \in engine.mine : m = engine.session \/ Dead(m)
      BY <2>1 DEF TransferInv, TransferSentInv
    <3>2. engine.mine \subseteq Sessions
      BY TransferTypes DEF TransferInv
    <3> QED BY <3>1, <3>2 DEF Grows, Dead
  <2> QED BY <1>2, <2>1, <2>2, SentTurns
<1> QED BY <1>1, <1>2, <1>3, <1>4, <1>5

LEMMA StatusKeeps ==
  ASSUME Transfer!UploadAssumption, TransferInv, Transfer!Status PROVE TransferInv'
<1> DEFINE n == engine.session
<1>1. engine \in Transfer!EngineType /\ n \in Sessions /\ engine.at = "listing" /\ n # 0 /\ n \in engine.mine /\ uploadRow[n] # "none"
      /\ engine.at \in Transfer!Running /\ engine.at # "cancelled" /\ engine.awaits = None
  BY TransferTypes DEF Transfer!Status, TransferInv, Transfer!TypeOK, EngineInv, Transfer!Running
<1>2. Transfer!Completing' = Transfer!Completing /\ uploadRequest' = uploadRequest /\ attached' = attached /\ UNCHANGED <<Transfer!storage, uploadFaults, answered>>
      /\ \A r \in Transfer!Completing' : r \in Transfer!Completing /\ uploadRequest'[r].of = uploadRequest[r].of
  BY DEF Transfer!Status, Transfer!Completing
<1>3. CASE engine.found = "completed" /\ engine' = [engine EXCEPT !.at = "send", !.found = "none"] /\ UNCHANGED <<record, uploadRow, uploadExcused>>
  <2>1. /\ engine'.at = "send" /\ engine'.session = n /\ engine'.sent = engine.sent
        /\ engine'.awaits = None /\ engine'.mine = engine.mine
    BY <1>1, <1>3 DEF Transfer!EngineType
  <2>2. Grows /\ StoreInv'
    BY <1>2, <1>3, StoreStays
  <2>3. Transfer!TypeOK'
    <3>1. engine' \in Transfer!EngineType
      BY <1>1, <1>3, Zenon DEF Transfer!EngineType, Transfer!Running
    <3> QED BY <1>2, <1>3, <3>1 DEF TransferInv, Transfer!TypeOK, Transfer!storage
  <2>4. EngineInv'
    <3>1. n \in parts'
      BY <1>1, <1>2, <1>3 DEF TransferInv, EngineInv, StoreInv, Transfer!storage
    <3> QED BY <1>1, <1>2, <1>3, <2>1, <3>1 DEF TransferInv, EngineInv, Transfer!storage
  <2> QED BY <1>1, <1>2, <2>1, <2>2, <2>3, <2>4, EngineTurns
<1>4. CASE engine.found = "aborted" /\ Transfer!Lost /\ UNCHANGED <<uploadRow, uploadExcused>>
  <2>1. Grows /\ StoreInv'
    BY <1>2, <1>4, StoreStays
  <2>2. ~uploadExcused' => multipart'[n] = "gone" /\ n \notin objects'
    BY <1>1, <1>2, <1>4 DEF TransferInv, EngineInv, Dead, Transfer!storage
  <2>3. EngineInv' /\ TransferSentInv' /\ engine' \in Transfer!EngineType /\ engine'.awaits = None /\ record' \in Sessions \cup {0}
    BY <1>1, <1>2, <1>4, <2>1, <2>2, Loses
  <2>4. Transfer!TypeOK'
    BY <1>2, <1>4, <2>3 DEF TransferInv, Transfer!TypeOK, Transfer!storage
  <2> QED BY <1>2, <2>1, <2>3, <2>4, EngineGoes
<1>5. CASE /\ engine.found = "uploading" /\ multipart[n] = "open"
           /\ engine' = [engine EXCEPT !.at = IF n \in parts THEN "send" ELSE "parts", !.found = "none",
                                       !.sent = engine.sent /\ (n \in parts \/ Transfer!InFlight # {})]
           /\ UNCHANGED <<record, uploadRow, uploadExcused>>
  <2>1. /\ engine'.at \in {"send", "parts"} /\ (engine'.at = "send" => n \in parts) /\ engine'.session = n
        /\ engine'.awaits = None /\ engine'.mine = engine.mine
        /\ (engine'.sent => engine.sent) /\ (engine.sent /\ ~engine'.sent => n \notin parts)
    <3>1. engine'.sent = (engine.sent /\ (n \in parts \/ Transfer!InFlight # {}))
      BY <1>1, <1>5 DEF Transfer!EngineType
    <3>2. /\ engine'.at \in {"send", "parts"} /\ (engine'.at = "send" => n \in parts) /\ engine'.session = n
          /\ engine'.awaits = None /\ engine'.mine = engine.mine
      BY <1>1, <1>5 DEF Transfer!EngineType
    <3> QED BY <3>1, <3>2, Zenon
  <2>2. Grows /\ StoreInv'
    BY <1>2, <1>5, StoreStays
  <2>3. Transfer!TypeOK'
    <3>1. engine' \in Transfer!EngineType
      <4>1. (engine.sent /\ (n \in parts \/ Transfer!InFlight # {})) \in BOOLEAN
        OBVIOUS
      <4> QED BY <1>1, <1>5, <4>1, Zenon DEF Transfer!EngineType, Transfer!Running
    <3> QED BY <1>2, <1>5, <3>1 DEF TransferInv, Transfer!TypeOK, Transfer!storage
  <2>4. EngineInv'
    BY <1>1, <1>2, <1>5, <2>1 DEF TransferInv, EngineInv, Transfer!storage
  <2>5. TransferSentInv'
    <3>1. ~uploadExcused' => \A m \in engine.mine : m = engine'.session \/ (multipart'[m] = "gone" /\ m \notin objects')
      BY <1>1, <1>2, <1>5, <2>1 DEF TransferInv, TransferSentInv, Dead, Transfer!storage
    <3> QED BY <1>1, <1>2, <2>1, <2>2, <3>1, SentTurns
  <2> QED BY <1>2, <2>1, <2>2, <2>3, <2>4, <2>5, EngineGoes
<1>6. CASE /\ engine.found = "uploading" /\ multipart[n] = "gone"
           /\ uploadRow' = Transfer!Aborted(n)
           /\ uploadExcused' = (uploadExcused \/ n \in objects)
           /\ Transfer!Lost
  <2>1. Grows
    BY <1>1, <1>2, <1>6 DEF Grows, Dead, Transfer!Aborted, Transfer!storage, TransferInv, Transfer!TypeOK
  <2>2. StoreInv'
    BY <1>1, <1>2, <1>6, Zenon DEF StoreInv, Dead, Transfer!Aborted, Transfer!storage, TransferInv, Transfer!TypeOK
  <2>3. ~uploadExcused' => multipart'[n] = "gone" /\ n \notin objects'
    BY <1>1, <1>2, <1>6, Zenon DEF Transfer!storage
  <2>4. EngineInv' /\ TransferSentInv' /\ engine' \in Transfer!EngineType /\ engine'.awaits = None /\ record' \in Sessions \cup {0}
    BY <1>1, <1>2, <1>6, <2>1, <2>2, <2>3, Loses
  <2>5. Transfer!TypeOK'
    BY <1>2, <1>6, <2>4, Zenon DEF TransferInv, Transfer!TypeOK, Transfer!storage, Transfer!Aborted
  <2> QED BY <1>2, <2>1, <2>2, <2>4, <2>5, EngineGoes
<1> QED BY <1>3, <1>4, <1>5, <1>6 DEF Transfer!Status

LEMMA SendKeeps ==
  ASSUME Transfer!UploadAssumption, TransferInv, NEW r \in Requests, Transfer!Send(r) PROVE TransferInv'
<1> DEFINE n == engine.session
<1>1. engine \in Transfer!EngineType /\ n \in Sessions /\ n # 0 /\ engine.at = "send" /\ n \in parts /\ n \in engine.mine /\ uploadRow[n] # "none"
      /\ ~(r \in Transfer!Completing)
  BY TransferTypes DEF Transfer!Send, TransferInv, Transfer!TypeOK, EngineInv, Transfer!Idle, Transfer!Completing
<1>2. /\ engine'.at = "complete" /\ engine'.session = n /\ engine'.sent = TRUE /\ engine'.awaits = r /\ engine'.mine = engine.mine
  BY <1>1 DEF Transfer!Send, Transfer!EngineType
<1>3. /\ uploadRequest' \in [Requests -> Transfer!RequestType]
      /\ uploadRequest'[r].at = "row" /\ uploadRequest'[r].of = n /\ \A s \in Requests \ {r} : uploadRequest'[s] = uploadRequest[s]
  BY <1>1 DEF Transfer!Send, TransferInv, Transfer!TypeOK, Transfer!RequestType, Transfer!Steps
<1>4. Transfer!TypeOK'
  <2>1. engine' \in Transfer!EngineType
    BY <1>1, Zenon DEF Transfer!Send, Transfer!EngineType, Transfer!Running
  <2> QED BY <1>3, <2>1 DEF Transfer!Send, TransferInv, Transfer!TypeOK, Transfer!storage
<1>5. Grows /\ StoreInv'
  BY StoreStays DEF Transfer!Send
<1>6. EngineInv'
  BY <1>1, <1>2 DEF Transfer!Send, TransferInv, EngineInv, Transfer!storage
<1>7. TransferRequestInv'
  <2>1. RequestOk(r)'
    BY <1>1, <1>3 DEF Transfer!Send, Transfer!storage, RequestOk, Transfer!Completing
  <2> QED BY <1>3, <1>5, <2>1, RequestStays DEF TransferRequestInv
<1>8. TransferSentInv'
  <2>1. \A s \in Transfer!Completing' : s = r \/ (s \in Transfer!Completing /\ uploadRequest'[s] = uploadRequest[s])
    BY <1>3 DEF Transfer!Completing
  <2>2. (\A s \in Transfer!Completing : Dead(uploadRequest[s].of) <=> (multipart'[uploadRequest[s].of] = "gone" /\ uploadRequest[s].of \notin objects'))
        /\ (\A m \in engine.mine : Dead(m)' <=> Dead(m))
    BY DEF Transfer!Send, Dead, Transfer!storage
  <2>3. ~uploadExcused => (\A s \in Transfer!Completing' : uploadRequest'[s].of \in engine'.mine \/ (multipart'[uploadRequest'[s].of] = "gone" /\ uploadRequest'[s].of \notin objects'))
    BY <1>1, <1>2, <1>3, <2>1, <2>2 DEF TransferInv, TransferSentInv
  <2>4. ~uploadExcused /\ attached # 0 => attached \in engine'.mine
    BY <1>2 DEF TransferInv, TransferSentInv
  <2>5. ~uploadExcused => \A m \in engine.mine : m = n \/ Dead(m)
    BY <1>1 DEF TransferInv, TransferSentInv
  <2>6. ~uploadExcused => \A m \in engine'.mine : m = engine'.session \/ Dead(m)'
    BY <1>2, <2>2, <2>5
  <2>7. attached' = attached /\ (uploadExcused' <=> uploadExcused)
    BY DEF Transfer!Send
  <2> QED BY <1>2, <2>3, <2>4, <2>6, <2>7 DEF TransferSentInv, Dead
<1>9. AwaitInv'
  <2>1. uploadRequest'[r].waits
    BY DEF Transfer!Send, TransferInv, Transfer!TypeOK
  <2> QED BY <1>2, <1>3, <2>1 DEF AwaitInv
<1> QED BY <1>4, <1>5, <1>6, <1>7, <1>8, <1>9 DEF TransferInv

LEMMA DiscardKeeps ==
  ASSUME Transfer!UploadAssumption, TransferInv, NEW r \in Requests, Transfer!Discard(r) PROVE TransferInv'
<1>1. record \in Sessions /\ uploadRow[record] # "none" /\ ~(r \in Transfer!Completing)
  BY DEF Transfer!Discard, Transfer!Deletes, TransferInv, Transfer!TypeOK, EngineInv, Transfer!Idle, Transfer!Completing
<1>2. /\ uploadRequest' \in [Requests -> Transfer!RequestType]
      /\ uploadRequest'[r].at = "delete" /\ uploadRequest'[r].of = record /\ ~uploadRequest'[r].waits /\ \A s \in Requests \ {r} : uploadRequest'[s] = uploadRequest[s]
  BY <1>1, Zenon DEF Transfer!Discard, Transfer!Deletes, Transfer!Idle, TransferInv, Transfer!TypeOK, Transfer!RequestType, Transfer!Steps
<1>3. Transfer!TypeOK'
  BY <1>2 DEF Transfer!Discard, TransferInv, Transfer!TypeOK, Transfer!storage
<1>4. Grows /\ StoreInv'
  BY StoreStays DEF Transfer!Discard
<1>5. EngineInv'
  BY DEF Transfer!Discard, TransferInv, EngineInv, Transfer!storage, Dead
<1>6. TransferRequestInv'
  <2>1. RequestOk(r)'
    BY <1>1, <1>2 DEF Transfer!Discard, Transfer!storage, RequestOk, Transfer!Completing
  <2> QED BY <1>2, <1>4, <2>1, RequestStays DEF TransferRequestInv
<1>7. TransferSentInv'
  <2>1. \A s \in Transfer!Completing' : s \in Transfer!Completing /\ uploadRequest'[s].of = uploadRequest[s].of
    BY <1>1, <1>2 DEF Transfer!Completing
  <2> QED BY <1>4, <2>1, SentStays DEF Transfer!Discard
<1>8. AwaitInv'
  <2>1. ~uploadRequest[r].waits
    BY DEF Transfer!Discard, Transfer!Deletes, Transfer!Idle
  <2> QED BY <1>2, <2>1, TransferTypes DEF Transfer!Discard, TransferInv, AwaitInv
<1> QED BY <1>3, <1>4, <1>5, <1>6, <1>7, <1>8 DEF TransferInv

LEMMA CancelKeeps ==
  ASSUME Transfer!UploadAssumption, TransferInv, NEW r \in Requests, Transfer!Cancel(r) PROVE TransferInv'
<1> DEFINE n == engine.session
<1>1. engine \in Transfer!EngineType /\ ~engine.sent /\ n \in Sessions \cup {0} /\ (n # 0 => uploadRow[n] # "none")
  BY TransferTypes DEF Transfer!Cancel, Transfer!MayCancel, TransferInv, Transfer!TypeOK, EngineInv
<1>2. /\ engine'.at = "cancelled" /\ engine'.session = 0 /\ ~engine'.sent /\ engine'.awaits = None /\ engine'.mine = engine.mine
      /\ engine' \in Transfer!EngineType
  BY <1>1, Zenon DEF Transfer!Cancel, Transfer!EngineType
<1>3. /\ uploadRequest' \in [Requests -> Transfer!RequestType]
      /\ \A s \in Requests \ {r} : uploadRequest'[s] = uploadRequest[s]
      /\ \/ uploadRequest'[r] = uploadRequest[r]
         \/ n # 0 /\ ~(r \in Transfer!Completing) /\ uploadRequest'[r].at = "delete" /\ uploadRequest'[r].of = n /\ ~uploadRequest'[r].waits
  <2>1. CASE n = 0
    BY <2>1 DEF Transfer!Cancel, TransferInv, Transfer!TypeOK
  <2>2. CASE n # 0
    <3>1. uploadRequest[r] = Transfer!Idle /\ uploadRequest' = [uploadRequest EXCEPT ![r] = [Transfer!Idle EXCEPT !.at = "delete", !.of = n]]
          /\ uploadRequest \in [Requests -> Transfer!RequestType]
      BY <2>2 DEF Transfer!Cancel, Transfer!Deletes, TransferInv, Transfer!TypeOK
    <3>2. [Transfer!Idle EXCEPT !.at = "delete", !.of = n] \in Transfer!RequestType
      BY <1>1, Zenon DEF Transfer!Idle, Transfer!RequestType, Transfer!Steps
    <3> QED BY <2>2, <3>1, <3>2 DEF Transfer!Idle, Transfer!Completing
  <2> QED BY <2>1, <2>2
<1>4. Transfer!TypeOK'
  BY <1>2, <1>3 DEF Transfer!Cancel, TransferInv, Transfer!TypeOK, Transfer!storage
<1>5. Grows /\ StoreInv'
  BY StoreStays DEF Transfer!Cancel
<1>6. EngineInv'
  BY <1>2 DEF Transfer!Cancel, EngineInv
<1>7. TransferRequestInv'
  <2>1. RequestOk(r)'
    <3>1. CASE uploadRequest'[r] = uploadRequest[r]
      BY <1>5, <3>1, RequestStays
    <3>2. CASE n # 0 /\ uploadRequest'[r].at = "delete" /\ uploadRequest'[r].of = n /\ ~uploadRequest'[r].waits
      BY <1>1, <3>2 DEF Transfer!Cancel, Transfer!storage, RequestOk, Transfer!Completing
    <3> QED BY <1>3, <3>1, <3>2
  <2> QED BY <1>3, <1>5, <2>1, RequestStays DEF TransferRequestInv
<1>8. TransferSentInv'
  <2>1. \A s \in Transfer!Completing' : s \in Transfer!Completing /\ uploadRequest'[s] = uploadRequest[s]
    BY <1>3 DEF Transfer!Completing
  <2>2. attached' = attached /\ (uploadExcused' <=> uploadExcused) /\ UNCHANGED Transfer!storage
    BY DEF Transfer!Cancel
  <2>3. ~uploadExcused => attached = 0 /\ \A s \in Transfer!Completing' : multipart'[uploadRequest'[s].of] = "gone" /\ uploadRequest'[s].of \notin objects'
    BY <1>1, <2>1, <2>2 DEF TransferInv, TransferSentInv, Dead, Transfer!storage
  <2> QED BY <1>2, <2>2, <2>3 DEF TransferSentInv, Dead
<1> QED BY <1>2, <1>4, <1>5, <1>6, <1>7, <1>8 DEF TransferInv, AwaitInv

LEMMA BreaksKeeps ==
  ASSUME Transfer!UploadAssumption, TransferInv, NEW r \in Requests, Transfer!Breaks(r) PROVE TransferInv'
<1> DEFINE turned == [engine EXCEPT !.at = IF engine.at = "complete" THEN "send" ELSE engine.at, !.awaits = None]
<1>1. engine \in Transfer!EngineType /\ uploadRequest[r] \in Transfer!RequestType /\ RequestOk(r) /\ uploadRequest[r].waits /\ Transfer!Fault
  BY TransferTypes DEF Transfer!Breaks, TransferInv, Transfer!TypeOK, TransferRequestInv
<1>2. /\ uploadRequest' \in [Requests -> Transfer!RequestType]
      /\ uploadRequest'[r].at = uploadRequest[r].at /\ uploadRequest'[r].of = uploadRequest[r].of /\ ~uploadRequest'[r].waits /\ uploadRequest'[r].answer = uploadRequest[r].answer
      /\ \A s \in Requests \ {r} : uploadRequest'[s] = uploadRequest[s]
  BY <1>1, Zenon DEF Transfer!Breaks, TransferInv, Transfer!TypeOK, Transfer!RequestType
<1>3. turned \in Transfer!EngineType /\ turned.session = engine.session /\ turned.sent = engine.sent /\ turned.mine = engine.mine
      /\ turned.awaits = None /\ turned.found = engine.found
      /\ turned.at = IF engine.at = "complete" THEN "send" ELSE engine.at
  BY <1>1, Zenon DEF Transfer!EngineType, Transfer!Running
<1>4. engine' = turned \/ engine' = engine
  BY DEF Transfer!Breaks
<1>5. Transfer!TypeOK'
  BY <1>1, <1>2, <1>3, <1>4, TransferTypes DEF Transfer!Breaks, TransferInv, Transfer!TypeOK, Transfer!storage
<1>6. Grows /\ StoreInv'
  BY StoreStays DEF Transfer!Breaks
<1>7. EngineInv'
  <2>1. CASE engine' = turned
    BY <1>3, <2>1 DEF Transfer!Breaks, TransferInv, EngineInv, Transfer!storage, Dead
  <2>2. CASE engine' = engine
    BY <1>6, <2>2, EngineStays DEF Transfer!Breaks
  <2> QED BY <1>4, <2>1, <2>2
<1>8. TransferRequestInv'
  <2>1. r \in Transfer!Completing' <=> r \in Transfer!Completing
    BY <1>2 DEF Transfer!Completing
  <2>2. uploadRequest[r].at # "idle"
    BY <1>1 DEF RequestOk, Transfer!Idle
  <2>3. RequestOk(r)'
    BY <1>1, <1>2, <2>1, <2>2 DEF RequestOk, Transfer!Breaks, Transfer!storage, Dead
  <2> QED BY <1>2, <1>6, <2>3, RequestStays DEF TransferRequestInv
<1>9. TransferSentInv'
  <2>1. \A s \in Transfer!Completing' : s \in Transfer!Completing /\ uploadRequest'[s].of = uploadRequest[s].of
    BY <1>2 DEF Transfer!Completing
  <2>2. /\ engine'.sent = engine.sent /\ engine'.mine = engine.mine /\ engine'.session = engine.session
        /\ (engine'.at = "cancelled" <=> engine.at = "cancelled")
    <3>1. CASE engine' = turned
      <4> HIDE DEF turned
      <4>1. turned.at = "cancelled" <=> engine.at = "cancelled"
        BY <1>3
      <4> QED BY <1>3, <3>1, <4>1
    <3>2. CASE engine' = engine
      BY <3>2
    <3> QED BY <1>4, <3>1, <3>2
  <2> QED BY <1>6, <2>1, <2>2, SentStays DEF Transfer!Breaks
<1>10. AwaitInv'
  <2>1. CASE engine' = turned
    BY <1>3, <2>1 DEF AwaitInv
  <2>2. CASE engine' = engine /\ engine.awaits # r
    BY <1>2, <2>2, TransferTypes DEF TransferInv, AwaitInv
  <2> QED BY <2>1, <2>2 DEF Transfer!Breaks
<1> QED BY <1>5, <1>6, <1>7, <1>8, <1>9, <1>10 DEF TransferInv

LEMMA ReloadKeeps ==
  ASSUME Transfer!UploadAssumption, TransferInv, Transfer!Reload PROVE TransferInv'
<1> DEFINE Unwaited(r) == [uploadRequest[r] EXCEPT !.waits = FALSE]
<1>1. \A r \in Requests : /\ uploadRequest'[r] = Unwaited(r) /\ Unwaited(r) \in Transfer!RequestType
                          /\ Unwaited(r).at = uploadRequest[r].at /\ Unwaited(r).of = uploadRequest[r].of
                          /\ Unwaited(r).waits = FALSE /\ Unwaited(r).answer = uploadRequest[r].answer
  <2>1. \A r \in Requests : uploadRequest[r] \in Transfer!RequestType
    BY TransferTypes DEF TransferInv
  <2> QED BY <2>1, Zenon DEF Transfer!Reload, Transfer!RequestType
<1>2. engine' = Transfer!Off /\ (uploadExcused' <=> (uploadExcused \/ engine.sent \/ Transfer!Completing # {})) /\ Transfer!Fault
  BY Zenon DEF Transfer!Reload
<1>3. Transfer!TypeOK'
  <2>1. Transfer!Off \in Transfer!EngineType
    BY DEF Transfer!Off, Transfer!EngineType
  <2>2. uploadRequest' \in [Requests -> Transfer!RequestType]
    BY <1>1 DEF Transfer!Reload
  <2>3. uploadExcused' \in BOOLEAN
    BY DEF Transfer!Reload
  <2> QED BY <1>2, <2>1, <2>2, <2>3, TransferTypes DEF Transfer!Reload, TransferInv, Transfer!TypeOK, Transfer!storage
<1>4. Grows /\ StoreInv'
  BY <1>2 DEF Transfer!Reload, Grows, Dead, Transfer!storage, TransferInv, StoreInv
<1>5. EngineInv'
  BY <1>2 DEF Transfer!Reload, Transfer!Off, EngineInv, TransferInv, Transfer!storage
<1>6. ASSUME NEW r \in Requests PROVE RequestOk(r)'
  <2>1. RequestOk(r)
    BY DEF TransferInv, TransferRequestInv
  <2>2. r \in Transfer!Completing' <=> r \in Transfer!Completing
    BY <1>1, Zenon DEF Transfer!Completing
  <2>3. uploadRequest[r].at = "idle" => uploadRequest'[r] = Transfer!Idle
    BY <1>1, <2>1 DEF RequestOk, Transfer!Idle
  <2>4. /\ uploadRequest'[r].at = uploadRequest[r].at /\ uploadRequest'[r].of = uploadRequest[r].of /\ ~uploadRequest'[r].waits
        /\ uploadRequest'[r].answer = uploadRequest[r].answer /\ UNCHANGED <<uploadRow, Transfer!storage>> /\ (~uploadExcused' => ~uploadExcused)
    BY <1>1, <1>2, Zenon DEF Transfer!Reload
  <2> QED BY <2>1, <2>2, <2>3, <2>4 DEF RequestOk, Transfer!storage, Dead
<1>7. TransferSentInv'
  <2>1. Transfer!Completing' = Transfer!Completing
    BY <1>1, Zenon DEF Transfer!Completing
  <2>2. ~uploadExcused' => attached' = 0 /\ Transfer!Completing = {}
    BY <1>2 DEF TransferInv, TransferSentInv, Transfer!Reload
  <2> QED BY <1>2, <2>1, <2>2 DEF TransferSentInv, Transfer!Off
<1> QED BY <1>2, <1>3, <1>4, <1>5, <1>6, <1>7 DEF TransferInv, TransferRequestInv, AwaitInv, Transfer!Off

LEMMA AnswerKeeps ==
  ASSUME Transfer!UploadAssumption, TransferInv, NEW r \in Requests, Transfer!Answer(r) PROVE TransferInv'
<1>1. engine \in Transfer!EngineType /\ RequestOk(r) /\ uploadRequest[r].at = "answer" /\ r \in Transfer!Completing /\ uploadRequest[r].of \in Sessions
  BY DEF Transfer!Answer, TransferInv, Transfer!TypeOK, TransferRequestInv, RequestOk, Transfer!Completing
<1>2. /\ uploadRequest' \in [Requests -> Transfer!RequestType]
      /\ uploadRequest'[r] = Transfer!Idle /\ \A s \in Requests \ {r} : uploadRequest'[s] = uploadRequest[s]
  BY TransferTypes DEF Transfer!Answer, TransferInv, Transfer!TypeOK
<1>3. Grows /\ StoreInv'
  BY StoreStays DEF Transfer!Answer
<1>4. TransferRequestInv'
  <2>1. RequestOk(r)'
    BY <1>2 DEF RequestOk, Transfer!Idle, Transfer!Completing
  <2> QED BY <1>2, <1>3, <2>1, RequestStays DEF TransferRequestInv
<1>5. \A s \in Transfer!Completing' : s \in Transfer!Completing /\ uploadRequest'[s].of = uploadRequest[s].of
  BY <1>2 DEF Transfer!Completing, Transfer!Idle
<1>6. attached' = attached /\ UNCHANGED <<uploadRow, Transfer!storage, uploadFaults, answered, uploadExcused>>
  BY DEF Transfer!Answer
<1>7. ASSUME engine' \in Transfer!EngineType, record' \in Sessions \cup {0} PROVE Transfer!TypeOK'
  BY <1>2, <1>6, <1>7 DEF TransferInv, Transfer!TypeOK, Transfer!storage
<1>8. CASE UNCHANGED <<engine, record>> /\ ~(engine.at = "complete" /\ engine.awaits = r)
  <2>1. EngineInv' /\ TransferSentInv'
    BY <1>3, <1>5, <1>6, <1>8, EngineStays, SentStays
  <2>2. Transfer!TypeOK'
    BY <1>7, <1>8 DEF TransferInv, Transfer!TypeOK
  <2>3. AwaitInv'
    BY <1>2, <1>8, TransferTypes DEF TransferInv, EngineInv, AwaitInv
  <2> QED BY <1>3, <1>4, <2>1, <2>2, <2>3 DEF TransferInv
<1>9. ASSUME engine.at = "complete", engine.awaits = r,
             engine'.at \in {"done", "status", "failed", "send"}, engine'.awaits = None, record' \in {0, record},
             engine'.session = engine.session, engine'.sent = engine.sent, engine'.mine = engine.mine, engine' \in Transfer!EngineType
      PROVE  TransferInv'
  <2>1. EngineInv'
    BY <1>6, <1>9 DEF TransferInv, EngineInv, Transfer!storage
  <2>2. TransferSentInv'
    BY <1>3, <1>5, <1>6, <1>9, SentStays
  <2>3. Transfer!TypeOK'
    BY <1>7, <1>9 DEF TransferInv, Transfer!TypeOK
  <2> QED BY <1>3, <1>4, <1>9, <2>1, <2>2, <2>3 DEF TransferInv, AwaitInv
<1>10. CASE engine.at = "complete" /\ engine.awaits = r
  <2>1. CASE engine' = [engine EXCEPT !.at = "done", !.awaits = None] /\ record' = 0
    <3>1. /\ engine'.at = "done" /\ engine'.awaits = None /\ engine' \in Transfer!EngineType
          /\ engine'.session = engine.session /\ engine'.sent = engine.sent /\ engine'.mine = engine.mine
      BY <1>1, <2>1, Zenon DEF Transfer!EngineType
    <3> QED BY <1>9, <1>10, <2>1, <3>1
  <2>2. CASE uploadRequest[r].answer = "gone" /\ Transfer!Lost
    <3>1. ~uploadExcused' => multipart'[uploadRequest[r].of] = "gone" /\ uploadRequest[r].of \notin objects'
      BY <1>1, <1>6, <2>2 DEF RequestOk, Dead, Transfer!storage
    <3>2. uploadRequest[r].of = engine.session /\ engine.session # 0 /\ engine.at \in Transfer!Running
      BY <1>10, TransferTypes DEF TransferInv, EngineInv, AwaitInv, Transfer!Running
    <3>3. EngineInv' /\ TransferSentInv' /\ engine' \in Transfer!EngineType /\ engine'.awaits = None /\ record' \in Sessions \cup {0}
      BY <1>3, <1>5, <1>6, <2>2, <3>1, <3>2, Loses
    <3> QED BY <1>3, <1>4, <1>7, <3>3 DEF TransferInv, AwaitInv
  <2>3. ASSUME NEW step \in {"status", "failed", "send"}, engine' = [engine EXCEPT !.awaits = None, !.at = step], UNCHANGED record
        PROVE  TransferInv'
    <3>1. /\ engine'.at = step /\ engine'.awaits = None /\ engine' \in Transfer!EngineType
          /\ engine'.session = engine.session /\ engine'.sent = engine.sent /\ engine'.mine = engine.mine
      BY <1>1, <2>3, Zenon DEF Transfer!EngineType, Transfer!Running
    <3> QED BY <1>9, <1>10, <2>3, <3>1
  <2> QED BY <1>10, <2>1, <2>2, <2>3, Zenon DEF Transfer!Answer
<1> QED BY <1>8, <1>10 DEF Transfer!Answer

LEMMA TransferInitInv ==
  ASSUME Transfer!UploadAssumption, Transfer!Init PROVE TransferInv
<1>1. Transfer!TypeOK
  <2>1. Transfer!Off \in Transfer!EngineType
    BY DEF Transfer!Off, Transfer!EngineType
  <2>2. Transfer!Idle \in Transfer!RequestType
    BY DEF Transfer!Idle, Transfer!RequestType, Transfer!Steps
  <2>3. 0 \in 0 .. MaxFaults
    BY DEF Transfer!UploadAssumption
  <2> QED BY <2>1, <2>2, <2>3, Zenon DEF Transfer!Init, Transfer!TypeOK
<1>2. EngineInv /\ AwaitInv /\ TransferRequestInv /\ StoreInv /\ TransferSentInv
  BY DEF Transfer!Init, Transfer!Off, Transfer!Idle, EngineInv, AwaitInv, TransferRequestInv, RequestOk, StoreInv, TransferSentInv, Transfer!Completing, Dead
<1> QED BY <1>1, <1>2 DEF TransferInv

LEMMA TransferNextInv ==
  ASSUME Transfer!UploadAssumption, TransferInv, [Transfer!Next]_Transfer!vars PROVE TransferInv'
<1>1. CASE UNCHANGED Transfer!vars
  <2>1. Transfer!TypeOK'
    BY <1>1 DEF Transfer!vars, Transfer!storage, TransferInv, Transfer!TypeOK
  <2>2. EngineInv' /\ AwaitInv'
    BY <1>1 DEF Transfer!vars, Transfer!storage, TransferInv, EngineInv, AwaitInv, Dead
  <2>3. TransferRequestInv' /\ StoreInv' /\ TransferSentInv'
    BY <1>1 DEF Transfer!vars, Transfer!storage, TransferInv, TransferRequestInv, RequestOk, StoreInv, TransferSentInv, Transfer!Completing, Dead
  <2> QED BY <2>1, <2>2, <2>3 DEF TransferInv
<1>2. CASE Transfer!Start \/ Transfer!AskStatus \/ Transfer!Status \/ Transfer!Put \/ Transfer!Pause \/ Transfer!Reload
  BY <1>2, StartKeeps, AskStatusKeeps, StatusKeeps, PutKeeps, PauseKeeps, ReloadKeeps
<1>3. ASSUME NEW n \in Sessions, Transfer!Create(n) \/ Transfer!Reap(n) PROVE TransferInv'
  BY <1>3, CreateKeeps, ReapKeeps
<1>4. ASSUME NEW r \in Requests,
             \/ Transfer!Send(r) \/ Transfer!Answer(r) \/ Transfer!Breaks(r) \/ Transfer!Cancel(r) \/ Transfer!Discard(r)
             \/ Transfer!CompleteReads(r) \/ Transfer!CompleteLists(r) \/ Transfer!Assemble(r) \/ Transfer!Head(r) \/ Transfer!Update(r) \/ Transfer!Attach(r) \/ Transfer!RequestFails(r)
             \/ Transfer!AbortReads(r) \/ Transfer!AbortStorage(r) \/ Transfer!AbortChecks(r)
      PROVE  TransferInv'
  BY <1>4, SendKeeps, AnswerKeeps, BreaksKeeps, CancelKeeps, DiscardKeeps, CompleteReadsKeeps, CompleteListsKeeps,
     AssembleKeeps, HeadKeeps, UpdateKeeps, AttachKeeps, RequestFailsKeeps, AbortReadsKeeps, AbortStorageKeeps, AbortChecksKeeps
<1> QED BY <1>1, <1>2, <1>3, <1>4 DEF Transfer!Next

LEMMA TransferInvariant ==
  ASSUME Transfer!UploadAssumption PROVE Transfer!Spec => []TransferInv
<1>1. Transfer!Init => TransferInv
  BY TransferInitInv
<1>2. TransferInv /\ [Transfer!Next]_Transfer!vars => TransferInv'
  BY TransferNextInv
<1> QED BY <1>1, <1>2, PTL DEF Transfer!Spec

\* Every variable keeps to its set (upload.ts, upload.service.ts).
THEOREM TransferTypeCorrect ==
  ASSUME Transfer!UploadAssumption PROVE Transfer!Spec => []Transfer!TypeOK
<1>1. TransferInv => Transfer!TypeOK
  BY DEF TransferInv
<1> QED BY <1>1, TransferInvariant, PTL

\* A lesson holds only the key of a video that is stored (finishFromStoredObject).
THEOREM LessonHasItsVideo ==
  ASSUME Transfer!UploadAssumption PROVE Transfer!Spec => []Transfer!AttachedIsStored
<1>1. TransferInv => Transfer!AttachedIsStored
  BY DEF TransferInv, StoreInv, Transfer!AttachedIsStored
<1> QED BY <1>1, TransferInvariant, PTL

\* What was cancelled stays away (completeSent; the check after abortMultipartUpload).
THEOREM CancelledStaysAway ==
  ASSUME Transfer!UploadAssumption PROVE Transfer!Spec => []Transfer!CancelledStays
<1>1. ASSUME TransferInv PROVE Transfer!CancelledStays
  <2>1. 0 \notin Sessions /\ engine.mine \subseteq Sessions /\ answered \subseteq Sessions
    BY <1>1, TransferTypes DEF TransferInv, Transfer!TypeOK
  <2>2. ~uploadExcused => \A n \in answered : n \notin objects /\ attached # n
    BY <1>1, <2>1 DEF TransferInv, StoreInv, Dead
  <2>3. ~uploadExcused /\ engine.at = "cancelled" => attached \notin engine.mine
    BY <1>1, <2>1 DEF TransferInv, EngineInv, TransferSentInv
  <2> QED BY <2>2, <2>3 DEF Transfer!CancelledStays
<1>2. TransferInv => Transfer!CancelledStays
  BY <1>1
<1> QED BY <1>2, TransferInvariant, PTL
=============================================================================
