------------------------------ MODULE Sessions ------------------------------
(***************************************************************************)
(* How a browser stays signed in: the single-use refresh tokens of         *)
(* auth.service.ts (rotated in one MULTI that leaves a 30-second pointer   *)
(* from the old token to its successor), and the tabs of web/src/lib/      *)
(* api.ts, which share one cookie, take turns under a Web Lock and tell    *)
(* each other through a BroadcastChannel.  An answer can be lost after the *)
(* token was rotated: the proxy gives up after 20 s, a tab is reloaded,    *)
(* the network fails.  Browsers without Web Locks, and signing out other   *)
(* devices, are not modelled.                                              *)
(***************************************************************************)
EXTENDS Naturals, Sequences

CONSTANTS Tabs, Tokens, NoToken, Requests, MaxMail

SessionAssumption == NoToken \notin Tokens

VARIABLES
  live,     \* refresh:<token> keys
  grace,    \* refresh:grace:<token>
  issued,   \* tokens ever issued
  cookie,   \* el_refresh in the browser
  tab,      \* where each tab is: idle, waiting for the lock, refreshing or signing out under it
  told,     \* waiting tabs that another tab gave a session
  signedIn, \* tabs with an access token
  mail,     \* the BroadcastChannel, per tab
  request,  \* refresh requests at auth
  excused,  \* the session ended, or its pointer lapsed (history)
  out       \* a sign-out took effect, and nobody logged in since (history)

server == <<live, grace, issued, request>>
vars == <<live, grace, issued, cookie, tab, told, signedIn, mail, request, excused, out>>

NoRequest == [at |-> "none", of |-> NoToken, next |-> NoToken, waits |-> FALSE]
RequestType == [at : {"none", "get", "rotate", "grace", "answer"}, of : Tokens, next : Tokens \cup {NoToken}, waits : BOOLEAN]

TypeOK ==
  /\ live \subseteq issued /\ issued \subseteq Tokens
  /\ grace \in [Tokens -> issued \cup {NoToken}]
  /\ cookie \in issued \cup {NoToken}
  /\ tab \in [Tabs -> {"idle", "wait", "refresh", "leave"}]
  /\ told \subseteq Tabs /\ signedIn \subseteq Tabs
  /\ mail \in [Tabs -> Seq({"session", "logout"})]
  /\ request \in [Requests -> RequestType \cup {NoRequest}]
  /\ excused \in BOOLEAN /\ out \in BOOLEAN

Init ==
  /\ live = {} /\ issued = {} /\ cookie = NoToken
  /\ grace = [t \in Tokens |-> NoToken]
  /\ tab = [t \in Tabs |-> "idle"]
  /\ told = {} /\ signedIn = {}
  /\ mail = [t \in Tabs |-> <<>>]
  /\ request = [r \in Requests |-> NoRequest]
  /\ excused = TRUE /\ out = FALSE

Fresh(n) == n \in Tokens \ issued
Broadcasts(t, m) == mail' = [u \in Tabs |-> IF u = t THEN mail[u] ELSE Append(mail[u], m)]
RoomInMail == \A t \in Tabs : Len(mail[t]) < MaxMail

MLockFree == TRUE
LockFree == \A t \in Tabs : tab[t] \in {"idle", "wait"}

-----------------------------------------------------------------------------
(* Tabs                                                                    *)

\* login, startSession: issueRefreshToken, and setAuth in this tab.  The browser
\* may still hold a cookie: a dead one, or that of a session of another tab,
\* which stays alive at auth.
Login(t, n) ==
  /\ tab[t] = "idle" /\ Fresh(n) /\ RoomInMail
  /\ live' = live \cup {n} /\ issued' = issued \cup {n}
  /\ cookie' = n
  /\ signedIn' = signedIn \cup {t}
  /\ Broadcasts(t, "session")
  /\ excused' = FALSE /\ out' = FALSE
  /\ UNCHANGED <<grace, tab, told, request>>

\* A page load with the hint, or a 401: refreshOnce, lockedRefresh.
Want(t) ==
  /\ tab[t] = "idle" /\ cookie # NoToken
  /\ tab' = [tab EXCEPT ![t] = "wait"]
  /\ told' = told \ {t}
  /\ UNCHANGED <<server, cookie, signedIn, mail, excused, out>>

\* Under the lock: use the session another tab delivered, or send the cookie.
UseDelivered(t) ==
  /\ tab[t] = "wait" /\ LockFree /\ t \in told \cap signedIn
  /\ tab' = [tab EXCEPT ![t] = "idle"]
  /\ UNCHANGED <<server, cookie, told, signedIn, mail, excused, out>>

Send(t, r) ==
  /\ tab[t] = "wait" /\ LockFree /\ ~(t \in told \cap signedIn)
  /\ cookie # NoToken /\ request[r].at = "none"
  /\ tab' = [tab EXCEPT ![t] = "refresh"]
  /\ request' = [request EXCEPT ![r] = [at |-> "get", of |-> cookie, next |-> NoToken, waits |-> TRUE]]
  /\ UNCHANGED <<live, grace, issued, cookie, told, signedIn, mail, excused, out>>

\* No cookie: auth answers 401.
NoCookie(t) ==
  /\ tab[t] = "wait" /\ LockFree /\ ~(t \in told \cap signedIn)
  /\ cookie = NoToken
  /\ tab' = [tab EXCEPT ![t] = "idle"]
  /\ signedIn' = signedIn \ {t}
  /\ UNCHANGED <<server, cookie, told, mail, excused, out>>

\* The answer arrives: the cookie and setAuth, or clearLocalAuth.
Arrives(t, r) ==
  /\ tab[t] = "refresh" /\ request[r].at = "answer" /\ request[r].waits /\ RoomInMail
  /\ tab' = [tab EXCEPT ![t] = "idle"]
  /\ request' = [request EXCEPT ![r] = NoRequest]
  /\ \/ /\ request[r].next # NoToken
        /\ cookie' = request[r].next
        /\ signedIn' = signedIn \cup {t}
        /\ Broadcasts(t, "session")
     \/ /\ request[r].next = NoToken
        /\ signedIn' = signedIn \ {t}
        /\ UNCHANGED <<cookie, mail>>
  /\ UNCHANGED <<live, grace, issued, told, excused, out>>

\* Timeout, network failure or reload: the tab lets go of the lock; the
\* request goes on at auth.
GivesUp(t, r) ==
  /\ tab[t] = "refresh" /\ request[r].waits
  /\ tab' = [tab EXCEPT ![t] = "idle"]
  /\ request' = [request EXCEPT ![r].waits = FALSE]
  /\ UNCHANGED <<live, grace, issued, cookie, told, signedIn, mail, excused, out>>

Read(t) ==
  /\ mail[t] # <<>>
  /\ mail' = [mail EXCEPT ![t] = Tail(@)]
  /\ signedIn' = IF Head(mail[t]) = "session" THEN signedIn \cup {t} ELSE signedIn \ {t}
  /\ told' = IF Head(mail[t]) = "session" /\ tab[t] = "wait" THEN told \cup {t} ELSE told
  /\ UNCHANGED <<server, cookie, tab, excused, out>>

\* signOut holds the lock around the call and setAuth(null).
StartSignOut(t) ==
  /\ tab[t] = "idle" /\ t \in signedIn /\ LockFree
  /\ tab' = [tab EXCEPT ![t] = "leave"]
  /\ UNCHANGED <<server, cookie, told, signedIn, mail, excused, out>>

\* logout: the token, and the successor it still reaches.  The call may not
\* reach auth, and its answer, which clears the cookie, may be lost.
Reached(c) == {c, grace[c]}
SignOut(t) ==
  /\ tab[t] = "leave" /\ RoomInMail
  /\ tab' = [tab EXCEPT ![t] = "idle"]
  /\ signedIn' = signedIn \ {t}
  /\ Broadcasts(t, "logout")
  /\ \/ UNCHANGED <<live, grace, cookie, excused, out>>
     \/ /\ cookie # NoToken
        /\ live' = live \ Reached(cookie)
        /\ grace' = [grace EXCEPT ![cookie] = NoToken]
        /\ cookie' \in {cookie, NoToken}
        /\ excused' = TRUE
        /\ out' = (mail[t] = <<>> /\ (cookie' = NoToken \/ \A r \in Requests : request[r].at # "rotate"))
  /\ UNCHANGED <<issued, told, request>>

-----------------------------------------------------------------------------
(* refresh at auth: GET, then the MULTI; or the pointer and its successor   *)

Get(r) ==
  /\ request[r].at = "get"
  /\ request' = [request EXCEPT ![r].at = IF request[r].of \in live THEN "rotate" ELSE "grace"]
  /\ UNCHANGED <<live, grace, issued, cookie, tab, told, signedIn, mail, excused, out>>

Answers(r, n) == request' = [request EXCEPT ![r] =
  IF request[r].waits THEN [request[r] EXCEPT !.at = "answer", !.next = n] ELSE NoRequest]

MPointed(old, n) == grace
Pointed(old, n) == [grace EXCEPT ![old] = n]
Rotate(r, n) ==
  /\ request[r].at = "rotate" /\ Fresh(n)
  /\ live' = (live \ {request[r].of}) \cup {n}
  /\ grace' = Pointed(request[r].of, n)
  /\ issued' = issued \cup {n}
  /\ Answers(r, n)
  /\ UNCHANGED <<cookie, tab, told, signedIn, mail, excused, out>>

WithinGrace(r) ==
  /\ request[r].at = "grace"
  /\ LET s == grace[request[r].of] IN Answers(r, IF s \in live THEN s ELSE NoToken)
  /\ UNCHANGED <<live, grace, issued, cookie, tab, told, signedIn, mail, excused, out>>

\* 30 s after the rotation.  The browser whose cookie is still the old token
\* did not come back in time.
Lapse(t) ==
  /\ grace[t] # NoToken
  /\ grace' = [grace EXCEPT ![t] = NoToken]
  /\ excused' = (excused \/ cookie = t)
  /\ UNCHANGED <<live, issued, cookie, tab, told, signedIn, mail, request, out>>

Next ==
  \/ \E t \in Tabs :
       \/ \E n \in Tokens : Login(t, n)
       \/ Want(t) \/ UseDelivered(t) \/ NoCookie(t) \/ Read(t) \/ StartSignOut(t) \/ SignOut(t)
       \/ \E r \in Requests : Send(t, r) \/ Arrives(t, r) \/ GivesUp(t, r)
  \/ \E r \in Requests : Get(r) \/ WithinGrace(r) \/ \E n \in Tokens : Rotate(r, n)
  \/ \E t \in Tokens : Lapse(t)

Spec == Init /\ [][Next]_vars

-----------------------------------------------------------------------------
(* Properties                                                              *)

\* A refresh whose answer was lost costs nobody the session: the cookie is
\* live or reaches a live successor in one hop, until somebody signs out or
\* the 30 seconds pass without a retry (refresh, refreshWithinGrace, and the
\* lock of lockedRefresh).
CookieWorks == ~excused => cookie \in live \/ grace[cookie] \in live

\* Once a sign-out has reached auth and the tabs have read their messages, no
\* tab is signed in and nothing at auth answers the cookie, whatever was in
\* flight, until somebody logs in (signOut, logout).  Two cases are left out: the
\* answer that clears the cookie is lost, and an abandoned refresh was between
\* its GET and its MULTI; and a message of another tab was still on its way to
\* the tab that signed out, which would read it afterwards.
SignedOutEverywhere ==
  out => /\ cookie = NoToken \/ ~(cookie \in live \/ grace[cookie] \in live)
         /\ (\A t \in Tabs : mail[t] = <<>> /\ tab[t] = "idle") => signedIn = {}
=============================================================================
