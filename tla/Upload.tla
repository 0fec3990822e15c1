------------------------------- MODULE Upload -------------------------------
(***************************************************************************)
(* A large video on its way to a lesson: the engine in the browser         *)
(* (web/src/lib/upload.ts), the upload sessions of the course service      *)
(* (upload.service.ts), and a multipart upload at R2.  One file and one    *)
(* tab that uploads it; another tab may discard the resume record; the     *)
(* service cancels idle sessions to make room.  Requests outlive the       *)
(* answer the browser waits for.  All parts count as one; the signing of   *)
(* parts, retries within a step and progress are left out.                 *)
(***************************************************************************)
EXTENDS Naturals

CONSTANTS
  Sessions,   \* rows of upload_sessions, in the order they are made, 1 .. n
  Requests,   \* complete and DELETE requests at the service at a time
  None,
  MaxFaults   \* bound: reloads, lost answers, dead processes, failed storage calls, pauses

UploadAssumption == Sessions \subseteq Nat \ {0} /\ None \notin Requests /\ MaxFaults \in Nat

VARIABLES
  engine,     \* the ResumableUpload of the tab
  record,     \* the resume record in localStorage: a session, or 0
  row,        \* upload_sessions.status
  multipart,  \* the upload at R2
  parts,      \* sessions whose parts are all stored
  objects,    \* sessions whose object exists
  attached,   \* the session whose key the lesson holds, or 0
  request,
  faults,
  answered,   \* sessions a DELETE has called aborted (history)
  excused     \* a finished upload was taken for a lost one, or a reload forgot a complete (history)

storage == <<multipart, parts, objects>>
vars == <<engine, record, row, multipart, parts, objects, attached, request, faults, answered, excused>>

Running == {"create", "status", "listing", "parts", "send", "complete"}
EngineType == [at : Running \cup {"off", "paused", "done", "failed", "cancelled"}, session : Sessions \cup {0},
               owns : BOOLEAN, sent : BOOLEAN, found : {"none", "uploading", "completed", "aborted"}, awaits : Requests \cup {None},
               mine : SUBSET Sessions]   \* all the sessions of this ResumableUpload (history)
Steps == {"idle", "row", "list", "assemble", "head", "update", "attach", "answer", "delete", "abort", "check"}
RequestType == [at : Steps, of : Sessions \cup {0}, waits : BOOLEAN, answer : {"none", "ok", "missing", "refused", "gone", "down"}]
Off == [at |-> "off", session |-> 0, owns |-> FALSE, sent |-> FALSE, found |-> "none", awaits |-> None, mine |-> {}]
Idle == [at |-> "idle", of |-> 0, waits |-> FALSE, answer |-> "none"]

TypeOK ==
  /\ engine \in EngineType
  /\ record \in Sessions \cup {0}
  /\ row \in [Sessions -> {"none", "uploading", "completed", "aborted"}]
  /\ multipart \in [Sessions -> {"none", "open", "gone"}]
  /\ parts \subseteq Sessions /\ objects \subseteq Sessions
  /\ attached \in Sessions \cup {0}
  /\ request \in [Requests -> RequestType]
  /\ faults \in 0 .. MaxFaults
  /\ answered \subseteq Sessions
  /\ excused \in BOOLEAN

Init ==
  /\ engine = Off
  /\ record = 0
  /\ row = [n \in Sessions |-> "none"]
  /\ multipart = [n \in Sessions |-> "none"]
  /\ parts = {} /\ objects = {} /\ attached = 0
  /\ request = [r \in Requests |-> Idle]
  /\ faults = 0
  /\ answered = {} /\ excused = FALSE

Fault == faults < MaxFaults /\ faults' = faults + 1
Goes(step) == engine' = [engine EXCEPT !.at = step]
Fresh(n) == row[n] = "none" /\ \A m \in Sessions : m < n => row[m] # "none"
Aborted(n) == [row EXCEPT ![n] = IF row[n] = "uploading" THEN "aborted" ELSE row[n]]
Completing == {r \in Requests : request[r].at \in {"row", "list", "assemble", "head", "update", "attach", "answer"}}
InFlight == {r \in Requests : request[r].waits}

-----------------------------------------------------------------------------
(* The engine                                                              *)

\* start, or resume after a pause; drive() and sessionFromRecord.
Start ==
  /\ engine.at \in {"off", "paused"}
  /\ LET n == IF engine.session = 0 THEN record ELSE engine.session IN
     engine' = [engine EXCEPT !.at = IF n = 0 THEN "create" ELSE "status", !.session = n,
                              !.owns = engine.owns \/ (engine.session = 0 /\ record # 0),
                              !.mine = IF n = 0 THEN engine.mine ELSE engine.mine \cup {n}]
  /\ UNCHANGED <<record, row, storage, attached, request, faults, answered, excused>>

\* createSession, and createMultipart at the service.  The answer may be lost,
\* and so may the record.
Create(n) ==
  /\ engine.at = "create" /\ Fresh(n)
  /\ row' = [row EXCEPT ![n] = "uploading"]
  /\ multipart' = [multipart EXCEPT ![n] = "open"]
  /\ \/ \E owns \in BOOLEAN :
          /\ engine' = [engine EXCEPT !.at = "parts", !.session = n, !.owns = owns, !.mine = engine.mine \cup {n}]
          /\ record' = IF owns THEN n ELSE record
          /\ UNCHANGED faults
     \/ Fault /\ UNCHANGED <<engine, record>>
  /\ UNCHANGED <<parts, objects, attached, request, answered, excused>>

\* fetchStatus: the service reads the row, then asks storage.
AskStatus ==
  /\ engine.at = "status"
  /\ engine' = [engine EXCEPT !.at = "listing", !.found = row[engine.session]]
  /\ UNCHANGED <<record, row, storage, attached, request, faults, answered, excused>>

\* restartAfterSessionLoss: gone together with our record means discarded.
Lost ==
  IF engine.owns /\ record # engine.session
  THEN /\ engine' = [engine EXCEPT !.at = "failed", !.session = 0, !.owns = FALSE, !.found = "none", !.awaits = None]
       /\ UNCHANGED record
  ELSE /\ engine' = [engine EXCEPT !.at = "create", !.session = 0, !.owns = FALSE, !.found = "none", !.awaits = None,
                                   !.sent = engine.sent /\ InFlight # {}]
       /\ record' = 0

Status ==
  LET n == engine.session IN
  /\ engine.at = "listing"
  /\ \/ /\ engine.found = "completed"
        /\ engine' = [engine EXCEPT !.at = "send", !.found = "none"]
        /\ UNCHANGED <<record, row, excused>>
     \/ /\ engine.found = "aborted"
        /\ Lost
        /\ UNCHANGED <<row, excused>>
     \/ /\ engine.found = "uploading" /\ multipart[n] = "open"
        /\ engine' = [engine EXCEPT !.at = IF n \in parts THEN "send" ELSE "parts", !.found = "none",
                                    !.sent = engine.sent /\ (n \in parts \/ InFlight # {})]
        /\ UNCHANGED <<record, row, excused>>
     \/ /\ engine.found = "uploading" /\ multipart[n] = "gone"
        /\ row' = Aborted(n)
        /\ excused' = (excused \/ n \in objects)
        /\ Lost
  /\ UNCHANGED <<storage, attached, request, faults, answered>>

\* uploadParts; a 404 of storage sends the engine back to the status.
Put ==
  /\ engine.at = "parts"
  /\ \/ /\ multipart[engine.session] = "open"
        /\ parts' = parts \cup {engine.session}
        /\ Goes("send")
     \/ /\ multipart[engine.session] # "open"
        /\ Goes("status")
        /\ UNCHANGED parts
  /\ UNCHANGED <<record, row, multipart, objects, attached, request, faults, answered, excused>>

\* complete: from here on the upload is committed.
Send(r) ==
  /\ engine.at = "send" /\ request[r] = Idle
  /\ request' = [request EXCEPT ![r] = [at |-> "row", of |-> engine.session, waits |-> TRUE, answer |-> "none"]]
  /\ engine' = [engine EXCEPT !.at = "complete", !.sent = TRUE, !.awaits = r]
  /\ UNCHANGED <<record, row, storage, attached, faults, answered, excused>>

\* The answer, to a run that waits for it or to nobody.
Answer(r) ==
  /\ request[r].at = "answer"
  /\ request' = [request EXCEPT ![r] = Idle]
  /\ IF engine.at = "complete" /\ engine.awaits = r
     THEN \/ /\ request[r].answer = "ok"
             /\ engine' = [engine EXCEPT !.at = "done", !.awaits = None]
             /\ record' = 0
          \/ request[r].answer = "gone" /\ Lost
          \/ /\ request[r].answer \in {"missing", "refused", "down"}
             /\ engine' = [engine EXCEPT !.awaits = None,
                  !.at = CASE request[r].answer = "missing" -> "status" [] request[r].answer = "refused" -> "failed" [] OTHER -> "send"]
             /\ UNCHANGED record
     ELSE UNCHANGED <<engine, record>>
  /\ UNCHANGED <<row, storage, attached, faults, answered, excused>>

\* The connection of a request breaks; the service goes on with it.
Breaks(r) ==
  /\ request[r].waits /\ Fault
  /\ request' = [request EXCEPT ![r].waits = FALSE]
  /\ engine' = IF engine.awaits = r THEN [engine EXCEPT !.at = IF @ = "complete" THEN "send" ELSE @, !.awaits = None] ELSE engine
  /\ UNCHANGED <<record, row, storage, attached, answered, excused>>

\* pause, offline, retries exhausted.
Pause ==
  /\ engine.at \in Running /\ Fault
  /\ engine' = [engine EXCEPT !.at = "paused", !.found = "none", !.awaits = None]
  /\ UNCHANGED <<record, row, storage, attached, request, answered, excused>>

\* The page is reloaded: only the record is left.
Reload ==
  /\ engine.at \in Running \cup {"paused", "failed"} /\ Fault
  /\ engine' = Off
  /\ request' = [r \in Requests |-> [request[r] EXCEPT !.waits = FALSE]]
  /\ excused' = (excused \/ engine.sent \/ Completing # {})
  /\ UNCHANGED <<record, row, storage, attached, answered>>

Deletes(n, r) == request[r] = Idle /\ request' = [request EXCEPT ![r] = [Idle EXCEPT !.at = "delete", !.of = n]]

\* cancel, while nothing has been sent that could still attach the video.
MMayCancel == engine.at \in Running \cup {"paused"}
MayCancel == engine.at \in Running \cup {"paused"} /\ ~engine.sent
Cancel(r) ==
  /\ MayCancel
  /\ engine' = [engine EXCEPT !.at = "cancelled", !.session = 0, !.found = "none", !.awaits = None]
  /\ record' = 0
  /\ IF engine.session = 0 THEN UNCHANGED request ELSE Deletes(engine.session, r)
  /\ UNCHANGED <<row, storage, attached, faults, answered, excused>>

\* Another tab lists the record and discards it.
Discard(r) ==
  /\ record # 0
  /\ Deletes(record, r)
  /\ record' = 0
  /\ UNCHANGED <<engine, row, storage, attached, faults, answered, excused>>

-----------------------------------------------------------------------------
(* complete, at the service                                                *)

At(r, step) == request[r].at = step
To(r, step) == request' = [request EXCEPT ![r].at = step]
Says(r, answer) == request' = [request EXCEPT ![r] = IF request[r].waits THEN [@ EXCEPT !.at = "answer", !.answer = answer] ELSE Idle]

CompleteReads(r) ==
  LET n == request[r].of IN
  /\ At(r, "row")
  /\ CASE row[n] = "completed" -> To(r, "attach")
       [] row[n] = "aborted" -> Says(r, "gone")
       [] OTHER -> To(r, "list")
  /\ UNCHANGED <<engine, record, row, storage, attached, faults, answered, excused>>

CompleteLists(r) ==
  LET n == request[r].of IN
  /\ At(r, "list")
  /\ CASE multipart[n] = "gone" -> To(r, "head")
       [] multipart[n] = "open" /\ n \in parts -> To(r, "assemble")
       [] OTHER -> Says(r, "missing")
  /\ UNCHANGED <<engine, record, row, storage, attached, faults, answered, excused>>

\* completeMultipartUpload; NoSuchUpload may mean that it was done before.
Assemble(r) ==
  LET n == request[r].of IN
  /\ At(r, "assemble")
  /\ objects' = IF multipart[n] = "open" THEN objects \cup {n} ELSE objects
  /\ multipart' = [multipart EXCEPT ![n] = "gone"]
  /\ To(r, "head")
  /\ UNCHANGED <<engine, record, row, parts, attached, faults, answered, excused>>

\* finishFromStoredObject.
MStored(n) == TRUE
Stored(n) == n \in objects
Head(r) ==
  LET n == request[r].of IN
  /\ At(r, "head")
  /\ \/ Stored(n) /\ To(r, "update") /\ UNCHANGED row
     \/ ~Stored(n) /\ Says(r, "gone") /\ row' = Aborted(n)
  /\ UNCHANGED <<engine, record, storage, attached, faults, answered, excused>>

Update(r) ==
  /\ At(r, "update")
  /\ row' = [row EXCEPT ![request[r].of] = "completed"]
  /\ To(r, "attach")
  /\ UNCHANGED <<engine, record, storage, attached, faults, answered, excused>>

\* completedResult: updateLesson, which may be refused.
Attach(r) ==
  /\ At(r, "attach")
  /\ \/ attached' = request[r].of /\ Says(r, "ok")
     \/ attached # request[r].of /\ Says(r, "refused") /\ UNCHANGED attached
  /\ UNCHANGED <<engine, record, row, storage, faults, answered, excused>>

\* Storage does not answer, or the process dies.
RequestFails(r) ==
  /\ request[r].at \notin {"idle", "answer"} /\ Fault
  /\ Says(r, "down")
  /\ UNCHANGED <<engine, record, row, storage, attached, answered, excused>>

-----------------------------------------------------------------------------
(* DELETE, and the reclaiming of idle sessions                             *)

AbortReads(r) ==
  LET n == request[r].of IN
  /\ At(r, "delete")
  /\ CASE row[n] = "uploading" -> To(r, "abort") /\ UNCHANGED answered
       [] row[n] = "aborted" -> Says(r, "ok") /\ answered' = answered \cup {n}
       [] OTHER -> Says(r, "refused") /\ UNCHANGED answered
  /\ UNCHANGED <<engine, record, row, storage, attached, faults, excused>>

AbortStorage(r) ==
  /\ At(r, "abort")
  /\ multipart' = [multipart EXCEPT ![request[r].of] = "gone"]
  /\ To(r, "check")
  /\ UNCHANGED <<engine, record, row, parts, objects, attached, faults, answered, excused>>

\* A complete may have assembled the object a moment before.
TooLate(n) == n \in objects
AbortChecks(r) ==
  LET n == request[r].of IN
  /\ At(r, "check")
  /\ \/ TooLate(n) /\ Says(r, "refused") /\ UNCHANGED <<row, answered>>
     \/ ~TooLate(n) /\ Says(r, "ok") /\ row' = Aborted(n) /\ answered' = answered \cup {n}
  /\ UNCHANGED <<engine, record, storage, attached, faults, excused>>

\* reapIdleSessions, or storage's own seven days.
Reap(n) ==
  /\ row[n] = "uploading" /\ Fault
  /\ multipart' = [multipart EXCEPT ![n] = "gone"]
  /\ row' = Aborted(n)
  /\ excused' = (excused \/ n \in objects)
  /\ UNCHANGED <<engine, record, parts, objects, attached, request, answered>>

Next ==
  \/ Start \/ AskStatus \/ Status \/ Put \/ Pause \/ Reload
  \/ \E n \in Sessions : Create(n) \/ Reap(n)
  \/ \E r \in Requests :
       \/ Send(r) \/ Answer(r) \/ Breaks(r) \/ Cancel(r) \/ Discard(r)
       \/ CompleteReads(r) \/ CompleteLists(r) \/ Assemble(r) \/ Head(r) \/ Update(r) \/ Attach(r) \/ RequestFails(r)
       \/ AbortReads(r) \/ AbortStorage(r) \/ AbortChecks(r)

Spec == Init /\ [][Next]_vars

-----------------------------------------------------------------------------
(* Properties                                                              *)

\* A lesson never holds the key of a video that is not there, however completes,
\* cancels, discards and reaping overlap (finishFromStoredObject).
AttachedIsStored == (attached # 0 => attached \in objects) /\ \A n \in Sessions : row[n] = "completed" => n \in objects

\* When the engine says cancelled, or the service calls a session aborted, the
\* video does not turn up in the lesson after all (completeSent; the check after
\* abortMultipartUpload).  Two cases are left out: a reload forgets that a
\* complete was sent, and status or reaping may take an upload that storage has
\* just finished for a lost one.
CancelledStays ==
  ~excused => (engine.at = "cancelled" => attached \notin engine.mine) /\ \A n \in answered : n \notin objects /\ attached # n
=============================================================================
