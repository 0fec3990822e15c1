-------------------------- MODULE PublishingProofs --------------------------
(***************************************************************************)
(* Proofs about Publishing, for any changes, submissions, bounds and faults: *)
(* types, that an update shows learners what an officer approved, and that *)
(* what is in review is in somebody's queue.                               *)
(***************************************************************************)
EXTENDS Publishing, SequenceTheorems, TLAPS

-----------------------------------------------------------------------------
(* The inductive invariant                                                 *)

Queue == 1 .. Len(toQuality)
Under == {toQuality[i] : i \in Queue}

\* What an event was sent after is there, and what it asks for.
EventOk(e) ==
  /\ e.before \subseteq Used
  /\ e.kind = "withdrawn" <=> e.item = 0
  /\ e.item # 0 => e.item \in Used \ e.before
Events == \A e \in Under : EventOk(e)
Asked == \A s \in Submissions : item[s].status = "asked" => \E e \in Under : e.item = s

\* While no handler has failed, events come in the order they were sent, and
\* what was asked for after an event has not come before it.
Ordered == \A i, k \in Queue : i < k /\ toQuality[i].item # 0 => toQuality[i].item \in toQuality[k].before
Unpassed ==
  \A e \in Under, s \in Used :
    item[s].kind # "recheck" /\ s # e.item /\ s \notin e.before => item[s].status = "asked"
InTurn == faults = 0 => Ordered /\ Unpassed /\ \A s \in Submissions : item[s].status \notin {"overtaken", "parked"}
QueueInv == Events /\ Asked /\ InTurn

\* A running apply holds its revision: in review, approved, and what was
\* loaded is what was approved.
ApplyingHolds ==
  applying # NotApplying =>
    /\ applying.item \in Submissions /\ revision.status = "submitted"
    /\ item[applying.item].status = "approve" /\ item[applying.item].kind = "revision"
    /\ item[applying.item].number = revision.number /\ item[applying.item].content = applying.loaded

Decided ==
  /\ OpenRevision => revision.number # 0
  /\ \A s \in handled : item[s].status \in Actions
  /\ \A s \in Submissions : item[s].kind # "revision" => item[s].status # "reject"

\* The newest item of a course in review is undecided or its decision is not
\* acted on, and what will still close it was sent before it was asked for.
ClosesCourse(e) == e.kind = "course" \/ (e.kind = "withdrawn" /\ e.number = 0)
Current(s) == item[s].status \notin {"none", "withdrawn"} /\ s \notin handled /\ Newest(s)
CourseWaits(s) ==
  item[s].kind = "course" /\ Current(s) /\ \A e \in Under : ClosesCourse(e) => s \notin e.before
CourseQueued == status = "submitted" => \E s \in Submissions : CourseWaits(s)

\* The same of an update in review.
ClosesRevision(e) == e.kind = "revision" \/ (e.kind = "withdrawn" /\ e.number = revision.number)
Concerns(s) == item[s].kind = "revision" /\ item[s].number = revision.number /\ item[s].content = revision.hash
RevisionWaits(s) ==
  Concerns(s) /\ Current(s) /\ \A e \in Under : ClosesRevision(e) => s \notin e.before
RevisionQueued == revision.status = "submitted" => \E s \in Submissions : RevisionWaits(s)

Inv == TypeOK /\ QueueInv /\ ApplyingHolds /\ Decided /\ CourseQueued /\ RevisionQueued

LEMMA InitInv ==
  ASSUME PublishingAssumption, Init PROVE Inv
<1> USE DEF Init
<1>1. TypeOK
  <2>1. toQuality \in Seq(EventType)
    OBVIOUS
  <2>2. revision \in RevisionType /\ submitting \in [on : BOOLEAN, number : 0 .. MaxRevisions, hash : SUBSET Changes]
        /\ applying \in [item : Submissions \cup {0}, loaded : SUBSET Changes]
    BY DEF PublishingAssumption, RevisionType, NotSubmitting, NotApplying
  <2>3. item \in [Submissions -> ItemType]
    BY DEF PublishingAssumption, ItemType, Nothing
  <2>4. status \in {"draft", "live", "flagged", "archived"} \cup InReview /\ institutional \in BOOLEAN
        /\ staged \subseteq Changes /\ faults \in 0 .. MaxFaults
    BY DEF PublishingAssumption
  <2> QED BY <2>1, <2>2, <2>3, <2>4 DEF TypeOK
<1>2. Queue = {} /\ Under = {}
  BY DEF Queue, Under
<1>3. status # "submitted"
  BY DEF PublishingAssumption
<1>4. revision.status = "none" /\ ~OpenRevision
  BY DEF OpenRevision, OpenStatuses, InReview
<1>5. QueueInv
  BY <1>2 DEF QueueInv, Events, Asked, InTurn, Ordered, Unpassed, Nothing
<1> QED BY <1>1, <1>3, <1>4, <1>5 DEF Inv, ApplyingHolds, Decided, CourseQueued, RevisionQueued, Nothing

-----------------------------------------------------------------------------
(* The events under way                                                    *)

LEMMA UnderWay ==
  ASSUME TypeOK PROVE Under \subseteq EventType /\ Queue = DOMAIN toQuality /\ Len(toQuality) \in Nat
<1>1. toQuality \in Seq(EventType)
  BY DEF TypeOK
<1> QED BY <1>1 DEF Queue, Under

\* An event that is sent comes last.
LEMMA SendsLast ==
  ASSUME TypeOK, NEW e \in EventType, toQuality' = Append(toQuality, e)
  PROVE  /\ toQuality' \in Seq(EventType) /\ Under' = Under \cup {e}
         /\ \A i \in Queue' : /\ i \in Nat
                              /\ i \in Queue => toQuality'[i] = toQuality[i]
                              /\ i \notin Queue => toQuality'[i] = e /\ \A k \in Queue' : k <= i
<1>1. toQuality \in Seq(EventType) /\ Len(toQuality) \in Nat
  BY DEF TypeOK
<1>2. toQuality' \in Seq(EventType) /\ Len(toQuality') = Len(toQuality) + 1
      /\ toQuality'[Len(toQuality) + 1] = e /\ \A i \in 1 .. Len(toQuality) : toQuality'[i] = toQuality[i]
  BY <1>1
<1>3. Queue' = Queue \cup {Len(toQuality) + 1} /\ Len(toQuality) + 1 \notin Queue /\ \A i \in Queue' : i \in Nat /\ i <= Len(toQuality) + 1
  BY <1>1, <1>2 DEF Queue
<1>4. Under' = Under \cup {e}
  BY <1>2, <1>3 DEF Under, Queue
<1> QED BY <1>2, <1>3, <1>4 DEF Queue

LEMMA Sent ==
  ASSUME PublishingAssumption, TypeOK,
         NEW kind \in {"course", "appeal", "revision", "withdrawn"}, NEW s \in Submissions \cup {0},
         NEW n \in 0 .. MaxRevisions, Sends(kind, s, n)
  PROVE  \E e \in EventType : /\ toQuality' = Append(toQuality, e)
                              /\ e.kind = kind /\ e.item = s /\ e.number = n /\ e.before = Used
<1> DEFINE e == [kind |-> kind, item |-> s, number |-> n, before |-> Used]
<1>1. e \in EventType /\ toQuality' = Append(toQuality, e)
  BY DEF EventType, Sends, Used
<1>2. e.kind = kind /\ e.item = s /\ e.number = n /\ e.before = Used
  OBVIOUS
<1> QED BY <1>1, <1>2

\* What is left when one is taken out.
LEMMA TakenOut ==
  ASSUME TypeOK, NEW i \in Queue, toQuality' = RemoveAt(toQuality, i)
  PROVE  /\ toQuality' \in Seq(EventType) /\ Under' \subseteq Under /\ Under \subseteq Under' \cup {toQuality[i]}
         /\ i = 1 => \A j \in Queue' : j + 1 \in Queue /\ j \in Nat /\ j > 0 /\ toQuality'[j] = toQuality[j + 1]
<1> DEFINE q == toQuality
           n == Len(toQuality)
           a == SubSeq(q, 1, i - 1)
           b == SubSeq(q, i + 1, n)
<1>1. q \in Seq(EventType) /\ n \in Nat /\ i \in 1 .. n /\ \A j \in 1 .. n : q[j] \in EventType
  BY DEF TypeOK, Queue
<1> HIDE DEF q, n
<1>2. a \in Seq(EventType) /\ Len(a) = i - 1 /\ \A j \in 1 .. (i - 1) : a[j] = q[j]
  <2>1. /\ a \in Seq(EventType) /\ Len(a) = (IF 1 <= i - 1 THEN i - 1 - 1 + 1 ELSE 0)
        /\ \A j \in 1 .. (i - 1 - 1 + 1) : a[j] = q[1 + j - 1]
    <3>1. 1 \in Int /\ i - 1 \in Int /\ \A j \in 1 .. (i - 1) : q[j] \in EventType
      BY <1>1
    <3> QED BY <3>1, SubSeqProperties
  <2>2. (IF 1 <= i - 1 THEN i - 1 - 1 + 1 ELSE 0) = i - 1 /\ i - 1 - 1 + 1 = i - 1 /\ \A j \in 1 .. (i - 1) : 1 + j - 1 = j
    BY <1>1
  <2> QED BY <2>1, <2>2
<1>3. b \in Seq(EventType) /\ Len(b) = n - i /\ \A j \in 1 .. (n - i) : b[j] = q[i + j]
  <2>1. /\ b \in Seq(EventType) /\ Len(b) = (IF i + 1 <= n THEN n - (i + 1) + 1 ELSE 0)
        /\ \A j \in 1 .. (n - (i + 1) + 1) : b[j] = q[(i + 1) + j - 1]
    <3>1. i + 1 \in Int /\ n \in Int /\ \A j \in (i + 1) .. n : q[j] \in EventType
      BY <1>1
    <3> QED BY <3>1, SubSeqProperties
  <2>2. \A m \in Nat : \A k \in 1 .. m : /\ (IF k + 1 <= m THEN m - (k + 1) + 1 ELSE 0) = m - k
                                         /\ m - (k + 1) + 1 = m - k
                                         /\ \A j \in 1 .. (m - k) : (k + 1) + j - 1 = k + j
    OBVIOUS
  <2>3. (IF i + 1 <= n THEN n - (i + 1) + 1 ELSE 0) = n - i /\ n - (i + 1) + 1 = n - i /\ \A j \in 1 .. (n - i) : (i + 1) + j - 1 = i + j
    BY <1>1, <2>2, Zenon
  <2> QED BY <2>1, <2>3
<1>4. toQuality' = a \o b
  BY DEF RemoveAt, q, n
<1> HIDE DEF a, b
<1>5. /\ toQuality' \in Seq(EventType) /\ Len(toQuality') = n - 1
      /\ \A j \in 1 .. (n - 1) : toQuality'[j] = IF j < i THEN q[j] ELSE q[j + 1]
  <2>1. /\ toQuality' \in Seq(EventType) /\ Len(toQuality') = Len(a) + Len(b)
        /\ \A j \in 1 .. (Len(a) + Len(b)) : toQuality'[j] = IF j <= Len(a) THEN a[j] ELSE b[j - Len(a)]
    <3> DEFINE t == a \o b
    <3>1. /\ t \in Seq(EventType) /\ Len(t) = Len(a) + Len(b)
          /\ \A j \in 1 .. (Len(a) + Len(b)) : t[j] = IF j <= Len(a) THEN a[j] ELSE b[j - Len(a)]
      BY <1>2, <1>3, ConcatProperties
    <3> HIDE DEF t
    <3>2. toQuality' = t
      BY <1>4 DEF t
    <3> QED BY <3>1, <3>2
  <2>2. Len(a) + Len(b) = n - 1
    BY <1>1, <1>2, <1>3
  <2>3. ASSUME NEW j \in 1 .. (n - 1) PROVE toQuality'[j] = IF j < i THEN q[j] ELSE q[j + 1]
    <3>1. CASE j < i
      <4>1. j \in 1 .. (i - 1) /\ j <= Len(a) /\ j \in 1 .. (Len(a) + Len(b))
        BY <1>1, <1>2, <2>2, <3>1
      <4>2. toQuality'[j] = a[j] /\ a[j] = q[j]
        BY <1>2, <2>1, <4>1, Zenon
      <4> QED BY <3>1, <4>2
    <3>2. CASE ~(j < i)
      <4>1. j - (i - 1) \in 1 .. (n - i) /\ i + (j - (i - 1)) = j + 1 /\ ~(j <= Len(a))
        BY <1>1, <1>2, <3>2
      <4> QED BY <1>2, <1>3, <2>1, <2>2, <3>2, <4>1
    <3> QED BY <3>1, <3>2
  <2> QED BY <2>1, <2>2, <2>3
<1>6. Queue = 1 .. n /\ Queue' = 1 .. (n - 1) /\ Under = {q[j] : j \in 1 .. n} /\ Under' = {toQuality'[j] : j \in 1 .. (n - 1)}
  BY <1>5 DEF Queue, Under, q, n
<1>7. \A j \in 1 .. (n - 1) : toQuality'[j] = q[j] \/ toQuality'[j] = q[j + 1]
  BY <1>5
<1>8. Under' \subseteq Under
  BY <1>1, <1>6, <1>7
<1>9. ASSUME NEW j \in 1 .. n, j # i PROVE q[j] \in Under'
  <2>1. CASE j < i
    BY <1>1, <1>5, <1>6, <2>1
  <2>2. CASE ~(j < i)
    <3>1. j - 1 \in 1 .. (n - 1) /\ ~(j - 1 < i) /\ (j - 1) + 1 = j
      BY <1>1, <1>9, <2>2
    <3> QED BY <1>5, <1>6, <3>1
  <2> QED BY <2>1, <2>2
<1>10. Under \subseteq Under' \cup {q[i]}
  BY <1>6, <1>9
<1>11. i = 1 => \A j \in Queue' : j + 1 \in Queue /\ j \in Nat /\ j > 0 /\ toQuality'[j] = q[j + 1]
  BY <1>1, <1>5, <1>6
<1> QED BY <1>5, <1>8, <1>10, <1>11 DEF q

\* A new event leaves the rest of the queue as it is.
LEMMA QueueSent ==
  ASSUME PublishingAssumption, TypeOK, QueueInv,
         NEW kind \in {"course", "appeal", "revision", "withdrawn"}, NEW s \in Submissions \cup {0},
         NEW n \in 0 .. MaxRevisions, Sends(kind, s, n), s # 0 => Fresh(s), kind = "withdrawn" <=> s = 0,
         \A r \in Submissions \ {s} : item'[r] = item[r], s # 0 => item'[s].status = "asked",
         faults' = faults
  PROVE  /\ toQuality' \in Seq(EventType) /\ QueueInv'
         /\ \A e \in Under' : e \in Under \/ (e.kind = kind /\ e.number = n)
         /\ s # 0 => s \notin Used /\ Used' = Used \cup {s} /\ \A e \in Under' : s \notin e.before
         /\ s = 0 => Used' = Used
<1>1. PICK e \in EventType : /\ toQuality' = Append(toQuality, e)
                             /\ e.kind = kind /\ e.item = s /\ e.number = n /\ e.before = Used
  BY Sent
<1>2. /\ toQuality' \in Seq(EventType) /\ Under' = Under \cup {e}
      /\ \A i \in Queue' : /\ i \in Nat
                           /\ i \in Queue => toQuality'[i] = toQuality[i]
                           /\ i \notin Queue => toQuality'[i] = e /\ \A k \in Queue' : k <= i
  BY <1>1, SendsLast
<1>3. 0 \notin Submissions /\ s \notin Used
  <2>1. 0 \notin Submissions /\ \A r \in Submissions : r \in Nat
    BY DEF PublishingAssumption
  <2>2. s # 0 => (s \in Used <=> s < s)
    BY DEF Fresh
  <2>3. s # 0 => ~(s < s)
    BY <2>1
  <2> QED BY <2>1, <2>2, <2>3 DEF Used
<1>4. Used' = Used \cup ({s} \ {0}) /\ \A r \in Used : r # s /\ item'[r] = item[r]
  BY <1>3 DEF Used
<1>5. \A d \in Under : EventOk(d)
  BY DEF QueueInv, Events
<1>6. Events'
  <2>1. \A d \in Under : EventOk(d)'
    BY <1>4, <1>5 DEF EventOk
  <2>2. EventOk(e)'
    BY <1>1, <1>3, <1>4 DEF EventOk
  <2> QED BY <1>2, <2>1, <2>2 DEF Events
<1>7. Asked'
  BY <1>1, <1>2 DEF QueueInv, Asked
<1>8. ASSUME faults' = 0 PROVE Ordered' /\ Unpassed' /\ \A r \in Submissions : item'[r].status \notin {"overtaken", "parked"}
  <2>1. Ordered /\ Unpassed /\ \A r \in Submissions : item[r].status \notin {"overtaken", "parked"}
    BY <1>8 DEF QueueInv, InTurn
  <2>2. ASSUME NEW i \in Queue', NEW k \in Queue', i < k, toQuality'[i].item # 0
        PROVE  toQuality'[i].item \in toQuality'[k].before
    <3>1. i \in Queue /\ toQuality'[i] = toQuality[i] /\ toQuality[i] \in Under
      <4>1. i \in Queue
        BY <1>2, <2>2
      <4> QED BY <1>2, <2>2, <4>1 DEF Under
    <3>2. CASE k \in Queue
      BY <1>2, <2>1, <2>2, <3>1, <3>2 DEF Ordered
    <3>3. CASE k \notin Queue
      BY <1>1, <1>2, <1>5, <2>2, <3>1, <3>3 DEF EventOk
    <3> QED BY <3>2, <3>3
  <2>3. ASSUME NEW d \in Under', NEW r \in Used', item'[r].kind # "recheck", r # d.item, r \notin d.before
        PROVE  item'[r].status = "asked"
    <3>1. CASE r = s /\ s # 0
      BY <3>1
    <3>2. CASE r \in Used
      <4>1. d # e
        BY <1>1, <2>3, <3>2
      <4> QED BY <1>2, <1>4, <2>1, <2>3, <3>2, <4>1 DEF Unpassed
    <3> QED BY <1>4, <3>1, <3>2
  <2>4. Ordered'
    BY <2>2 DEF Ordered
  <2>5. Unpassed'
    BY <2>3 DEF Unpassed
  <2>6. \A r \in Submissions : item'[r].status \notin {"overtaken", "parked"}
    BY <1>3, <1>4, <2>1
  <2> QED BY <2>4, <2>5, <2>6
<1>9. QueueInv'
  BY <1>6, <1>7, <1>8 DEF QueueInv, InTurn
<1>10. s # 0 => \A d \in Under' : s \notin d.before
  BY <1>1, <1>2, <1>3, <1>5 DEF EventOk
<1> QED BY <1>1, <1>2, <1>3, <1>4, <1>9, <1>10

\* A fresh item is asked for.
LEMMA Asking ==
  ASSUME PublishingAssumption, TypeOK, QueueInv, NEW kind \in {"course", "appeal", "revision"}, NEW s \in Submissions,
         NEW n \in 0 .. MaxRevisions, NEW content \in SUBSET Changes, Asks(kind, s, n, content), faults' = faults
  PROVE  /\ toQuality' \in Seq(EventType) /\ item' \in [Submissions -> ItemType] /\ QueueInv'
         /\ item[s].status = "none" /\ item'[s].status = "asked" /\ item'[s].number = n /\ item'[s].content = content
         /\ item'[s].kind = (IF kind = "revision" THEN kind ELSE "course")
         /\ \A r \in Submissions \ {s} : item'[r] = item[r]
         /\ Used' = Used \cup {s} /\ s \notin Used /\ \A r \in Used : r <= s
         /\ \A e \in Under' : s \notin e.before /\ (e \in Under \/ (e.kind = kind /\ e.number = n))
<1> DEFINE new == [status |-> "asked", kind |-> IF kind = "revision" THEN kind ELSE "course", number |-> n, content |-> content]
<1>1. Fresh(s) /\ Sends(kind, s, n) /\ item' = [item EXCEPT ![s] = new]
  BY DEF Asks
<1>2. new \in ItemType /\ new.status = "asked" /\ new.number = n /\ new.content = content /\ new.kind = (IF kind = "revision" THEN kind ELSE "course")
  BY DEF ItemType
<1> HIDE DEF new
<1>3. item' \in [Submissions -> ItemType] /\ item'[s] = new /\ \A r \in Submissions \ {s} : item'[r] = item[r]
  BY <1>1, <1>2 DEF TypeOK
<1>4. s # 0 /\ kind # "withdrawn"
  BY DEF PublishingAssumption
<1>5. /\ toQuality' \in Seq(EventType) /\ QueueInv'
      /\ \A e \in Under' : e \in Under \/ (e.kind = kind /\ e.number = n)
      /\ s \notin Used /\ Used' = Used \cup {s} /\ \A e \in Under' : s \notin e.before
  BY <1>1, <1>2, <1>3, <1>4, QueueSent
<1>6. \A r \in Used : r <= s
  <2>1. \A r \in Submissions : r \in Nat
    BY DEF PublishingAssumption
  <2>2. \A r \in Used : r \in Submissions /\ r < s
    BY <1>1 DEF Fresh, Used
  <2> QED BY <2>1, <2>2
<1> QED BY <1>2, <1>3, <1>5, <1>6 DEF Used

\* A submission is taken back.
LEMMA Pulling ==
  ASSUME PublishingAssumption, TypeOK, QueueInv, NEW n \in 0 .. MaxRevisions, Pulls(n), faults' = faults
  PROVE  /\ toQuality' \in Seq(EventType) /\ QueueInv' /\ item' = item
         /\ \A e \in Under' : e \in Under \/ (e.kind = "withdrawn" /\ e.number = n)
<1>1. Sends("withdrawn", 0, n) /\ item' = item
  BY DEF Pulls
<1> QED BY <1>1, QueueSent

-----------------------------------------------------------------------------
(* What keeps the parts of the invariant                                   *)

LEMMA QueueKept ==
  ASSUME QueueInv, UNCHANGED <<toQuality, item, faults>> PROVE QueueInv'
BY DEF QueueInv, Events, EventOk, Asked, InTurn, Ordered, Unpassed, Under, Queue, Used

\* The newest item of the course stays that, and nothing new will close it.
LEMMA CourseStands ==
  ASSUME NEW s \in Submissions, CourseWaits(s),
         item'[s].kind = item[s].kind, item'[s].status \notin {"none", "withdrawn"}, s \notin handled',
         \A r \in Used' : item'[r].kind = "course" => r \in Used /\ item[r].kind = "course",
         \A e \in Under' : e \in Under \/ ~ClosesCourse(e)
  PROVE  CourseWaits(s)'
<1>1. Newest(s)'
  BY DEF CourseWaits, Current, Newest
<1> QED BY <1>1 DEF CourseWaits, Current, ClosesCourse

LEMMA RevisionStands ==
  ASSUME NEW s \in Submissions, RevisionWaits(s), revision' = revision,
         item'[s].kind = item[s].kind, item'[s].number = item[s].number, item'[s].content = item[s].content,
         item'[s].status \notin {"none", "withdrawn"}, s \notin handled',
         \A r \in Used' : item'[r].kind = "revision" => r \in Used /\ item[r].kind = "revision",
         \A e \in Under' : e \in Under \/ ~ClosesRevision(e)
  PROVE  RevisionWaits(s)'
<1>1. Newest(s)'
  BY DEF RevisionWaits, Concerns, Current, Newest
<1> QED BY <1>1 DEF RevisionWaits, Concerns, Current, ClosesRevision

\* Steps that leave the queue and the items alone.
LEMMA CourseKept ==
  ASSUME CourseQueued, UNCHANGED <<toQuality, item>>, status' = "submitted" => status = "submitted",
         \A s \in Submissions : s \in handled' => s \in handled \/ item[s].kind = "revision"
  PROVE  CourseQueued'
BY DEF CourseQueued, CourseWaits, Current, Newest, Used, ClosesCourse, Under, Queue

LEMMA RevisionKept ==
  ASSUME RevisionQueued, UNCHANGED <<toQuality, item>>,
         revision'.status = "submitted" =>
           /\ revision' = revision
           /\ \A s \in Submissions : s \in handled' => s \in handled \/ ~Concerns(s)
  PROVE  RevisionQueued'
BY DEF RevisionQueued, RevisionWaits, Concerns, Current, Newest, Used, ClosesRevision, Under, Queue

RevisionStatuses == OpenStatuses \cup {"none", "applied", "closed"}

LEMMA RevisionChanges ==
  ASSUME TypeOK, NEW t \in RevisionStatuses
  PROVE  LET r == [revision EXCEPT !.status = t] IN
         r \in RevisionType /\ r.status = t /\ r.number = revision.number /\ r.hash = revision.hash
<1>1. revision \in RevisionType
  BY DEF TypeOK
<1> QED BY <1>1 DEF RevisionType, RevisionStatuses

LEMMA RevisionOpens ==
  ASSUME PublishingAssumption, TypeOK, revision.number < MaxRevisions
  PROVE  [number |-> revision.number + 1, status |-> "draft", hash |-> {}] \in RevisionType /\ revision.number + 1 # 0
<1>1. revision.number \in Nat
  BY DEF TypeOK, RevisionType
<1>2. revision.number + 1 \in 0 .. MaxRevisions
  BY <1>1 DEF PublishingAssumption
<1> QED BY <1>1, <1>2 DEF RevisionType, OpenStatuses

-----------------------------------------------------------------------------
(* The steps: editing                                                      *)

LEMMA GateDirectInv ==
  ASSUME Inv, GateDirect PROVE Inv'
<1> USE DEF GateDirect
<1>1. TypeOK'
  BY DEF Inv, TypeOK
<1>2. ApplyingHolds' /\ Decided'
  BY DEF Inv, ApplyingHolds, Decided, OpenRevision
<1>3. QueueInv'
  BY QueueKept DEF Inv
<1>4. CourseQueued'
  BY CourseKept DEF Inv
<1>5. RevisionQueued'
  BY RevisionKept DEF Inv
<1> QED BY <1>1, <1>2, <1>3, <1>4, <1>5 DEF Inv

LEMMA GateStagedInv ==
  ASSUME PublishingAssumption, Inv, GateStaged PROVE Inv'
<1>1. /\ edit' = "staged" /\ UNCHANGED <<status, institutional, live, staged, submitting, applying, closing, toQuality, item, handled, faults>>
      /\ \/ UNCHANGED revision
         \/ /\ ~OpenRevision /\ revision.number < MaxRevisions
            /\ revision' = [number |-> revision.number + 1, status |-> "draft", hash |-> {}]
  BY DEF GateStaged, NewRevision
<1>2. /\ revision' \in RevisionType
      /\ revision' = revision \/ (revision.status # "submitted" /\ revision'.number # 0 /\ revision'.status = "draft")
  <2>1. CASE UNCHANGED revision
    BY <2>1 DEF Inv, TypeOK
  <2>2. CASE /\ ~OpenRevision /\ revision.number < MaxRevisions
             /\ revision' = [number |-> revision.number + 1, status |-> "draft", hash |-> {}]
    <3>1. revision' \in RevisionType /\ revision.number + 1 # 0
      BY <2>2, RevisionOpens DEF Inv
    <3>2. revision.status # "submitted"
      BY <2>2 DEF OpenRevision, OpenStatuses, InReview
    <3> QED BY <3>1, <3>2, <2>2
  <2> QED BY <1>1, <2>1, <2>2
<1>3. TypeOK'
  BY <1>1, <1>2 DEF Inv, TypeOK
<1>4. ApplyingHolds' /\ Decided'
  BY <1>1, <1>2 DEF Inv, ApplyingHolds, Decided, OpenRevision
<1>5. QueueInv'
  BY <1>1, QueueKept DEF Inv
<1>6. CourseQueued'
  BY <1>1, CourseKept DEF Inv
<1>7. RevisionQueued'
  BY <1>1, <1>2, RevisionKept DEF Inv
<1> QED BY <1>3, <1>4, <1>5, <1>6, <1>7 DEF Inv

LEMMA WriteInv ==
  ASSUME Inv, WriteRefused \/ \E c \in Changes : Write(c) PROVE Inv'
<1>1. /\ edit' = "none" /\ live' \subseteq Changes /\ staged' \subseteq Changes
      /\ UNCHANGED <<status, institutional, revision, submitting, applying, closing, toQuality, item, handled, faults>>
  BY DEF Inv, TypeOK, Write, WriteRefused
<1>2. TypeOK'
  BY <1>1 DEF Inv, TypeOK
<1>3. ApplyingHolds' /\ Decided'
  BY <1>1 DEF Inv, ApplyingHolds, Decided, OpenRevision
<1>4. QueueInv'
  BY <1>1, QueueKept DEF Inv
<1>5. CourseQueued'
  BY <1>1, CourseKept DEF Inv
<1>6. RevisionQueued'
  BY <1>1, RevisionKept DEF Inv
<1> QED BY <1>2, <1>3, <1>4, <1>5, <1>6 DEF Inv

-----------------------------------------------------------------------------
(* The steps: the course's own review                                      *)

\* Moves of the course that nothing is sent about.
LEMMA CourseMovesInv ==
  ASSUME Inv, InstitutionReturns \/ Restore \/ AdminRestore PROVE Inv'
<1>1. /\ status' \in {"draft", "live"} /\ live' \subseteq Changes /\ staged' \subseteq Changes
      /\ UNCHANGED <<institutional, revision, edit, submitting, applying, closing, toQuality, item, handled, faults>>
  BY DEF Inv, TypeOK, InstitutionReturns, Restore, AdminRestore, ToDraft
<1>2. TypeOK'
  BY <1>1 DEF Inv, TypeOK
<1>3. ApplyingHolds' /\ Decided'
  BY <1>1 DEF Inv, ApplyingHolds, Decided, OpenRevision
<1>4. QueueInv'
  BY <1>1, QueueKept DEF Inv
<1>5. CourseQueued'
  BY <1>1, CourseKept DEF Inv
<1>6. RevisionQueued'
  BY <1>1, RevisionKept DEF Inv
<1> QED BY <1>2, <1>3, <1>4, <1>5, <1>6 DEF Inv

LEMMA ReviewedInv ==
  ASSUME Inv, NEW s \in Submissions, NEW action \in Actions, Reviewed(s, action) PROVE Inv'
<1>1. /\ item[s].status = action /\ item[s].kind # "revision" /\ handled' = handled \cup {s}
      /\ UNCHANGED <<institutional, revision, edit, submitting, applying, toQuality, item, faults>>
  BY DEF Reviewed
<1>2. action # "reject"
  BY <1>1 DEF Inv, Decided
<1>3. /\ status' # "submitted" /\ closing' \in BOOLEAN /\ live' \subseteq Changes /\ staged' \subseteq Changes
      /\ status' \in {"draft", "live", "flagged", status}
  BY <1>1, <1>2 DEF Inv, TypeOK, Reviewed, ToDraft, Actions
<1>4. TypeOK'
  BY <1>1, <1>3 DEF Inv, TypeOK
<1>5. ApplyingHolds' /\ Decided'
  BY <1>1 DEF Inv, ApplyingHolds, Decided, OpenRevision
<1>6. QueueInv'
  BY <1>1, QueueKept DEF Inv
<1>7. CourseQueued'
  BY <1>1, <1>3 DEF CourseQueued
<1>8. RevisionQueued'
  BY <1>1, RevisionKept DEF Inv, Concerns
<1> QED BY <1>4, <1>5, <1>6, <1>7, <1>8 DEF Inv

\* The course is put in front of quality.
LEMMA CourseAsks ==
  ASSUME PublishingAssumption, Inv, NEW kind \in {"course", "appeal"}, NEW s \in Submissions, NEW content \in SUBSET Changes,
         Asks(kind, s, 0, content), status' = "submitted", live' \subseteq Changes, staged' \subseteq Changes,
         UNCHANGED <<institutional, revision, edit, submitting, applying, closing, handled, faults>>
  PROVE  Inv'
<1>1. 0 \in 0 .. MaxRevisions /\ TypeOK /\ QueueInv
  BY DEF PublishingAssumption, Inv
<1>2. /\ toQuality' \in Seq(EventType) /\ item' \in [Submissions -> ItemType] /\ QueueInv'
      /\ item[s].status = "none" /\ item'[s].status = "asked" /\ item'[s].kind = "course"
      /\ \A r \in Submissions \ {s} : item'[r] = item[r]
      /\ Used' = Used \cup {s} /\ s \notin Used /\ \A r \in Used : r <= s
      /\ \A e \in Under' : s \notin e.before /\ (e \in Under \/ (e.kind = kind /\ e.number = 0))
  BY <1>1, Asking
<1>3. TypeOK'
  BY <1>2 DEF Inv, TypeOK, InReview
<1>4. s \notin handled /\ (applying # NotApplying => applying.item # s)
  BY <1>2 DEF Inv, Decided, ApplyingHolds, Actions
<1>5. ApplyingHolds' /\ Decided'
  BY <1>2, <1>4 DEF Inv, TypeOK, ApplyingHolds, Decided, OpenRevision
<1>6. CourseWaits(s)'
  <2>1. Newest(s)'
    BY <1>2 DEF Newest, PublishingAssumption
  <2> QED BY <1>2, <1>4, <2>1 DEF CourseWaits, Current
<1>7. RevisionQueued'
  <2> SUFFICES ASSUME revision.status = "submitted" PROVE RevisionQueued'
    BY DEF RevisionQueued
  <2>1. PICK r \in Submissions : RevisionWaits(r)
    BY DEF Inv, RevisionQueued
  <2>2. r # s /\ item'[r] = item[r] /\ item[r].status \notin {"none", "withdrawn"} /\ r \notin handled
    BY <1>2, <2>1 DEF RevisionWaits, Current
  <2>3. \A q \in Used' : item'[q].kind = "revision" => q \in Used /\ item[q].kind = "revision"
    BY <1>2 DEF Used
  <2>4. \A e \in Under' : e \in Under \/ ~ClosesRevision(e)
    BY <1>2 DEF ClosesRevision
  <2>5. RevisionWaits(r)'
    BY <2>1, <2>2, <2>3, <2>4, RevisionStands
  <2> QED BY <2>5 DEF RevisionQueued
<1> QED BY <1>2, <1>3, <1>5, <1>6, <1>7 DEF Inv, CourseQueued

\* It is taken back, or goes away.
LEMMA CoursePulls ==
  ASSUME PublishingAssumption, Inv, Pulls(0), status' \in {"draft", "archived"},
         live' \subseteq Changes, staged' \subseteq Changes, closing' \in BOOLEAN,
         UNCHANGED <<institutional, revision, edit, submitting, applying, handled, faults>>
  PROVE  Inv'
<1>1. 0 \in 0 .. MaxRevisions /\ TypeOK /\ QueueInv
  BY DEF PublishingAssumption, Inv
<1>2. /\ toQuality' \in Seq(EventType) /\ QueueInv' /\ item' = item
      /\ \A e \in Under' : e \in Under \/ (e.kind = "withdrawn" /\ e.number = 0)
  BY <1>1, Pulling
<1>3. TypeOK'
  BY <1>2 DEF Inv, TypeOK
<1>4. ApplyingHolds' /\ Decided'
  BY <1>2 DEF Inv, ApplyingHolds, Decided, OpenRevision
<1>5. CourseQueued'
  BY DEF CourseQueued
<1>6. RevisionQueued'
  <2> SUFFICES ASSUME revision.status = "submitted" PROVE RevisionQueued'
    BY DEF RevisionQueued
  <2>1. PICK r \in Submissions : RevisionWaits(r)
    BY DEF Inv, RevisionQueued
  <2>2. revision.number # 0
    BY DEF Inv, Decided, OpenRevision, OpenStatuses, InReview
  <2>3. \A e \in Under' : e \in Under \/ ~ClosesRevision(e)
    BY <1>2, <2>2 DEF ClosesRevision
  <2>4. \A q \in Used' : q \in Used /\ item'[q] = item[q]
    BY <1>2 DEF Used
  <2>5. RevisionWaits(r)'
    BY <1>2, <2>1, <2>3, <2>4, RevisionStands DEF RevisionWaits, Current
  <2> QED BY <2>5 DEF RevisionQueued
<1> QED BY <1>2, <1>3, <1>4, <1>5, <1>6 DEF Inv

LEMMA SubmitInv ==
  ASSUME PublishingAssumption, Inv, NEW s \in Submissions, Submit(s) \/ InstitutionPasses(s) \/ Appeal(s) PROVE Inv'
<1>1. CASE Submit(s) /\ institutional
  <2>1. /\ status' = "institution_review" /\ live' \subseteq Changes /\ staged' \subseteq Changes
        /\ UNCHANGED <<institutional, revision, edit, submitting, applying, closing, toQuality, item, handled, faults>>
    BY <1>1 DEF Inv, TypeOK, Submit
  <2>2. TypeOK'
    BY <2>1 DEF Inv, TypeOK, InReview
  <2>3. ApplyingHolds' /\ Decided'
    BY <2>1 DEF Inv, ApplyingHolds, Decided, OpenRevision
  <2>4. QueueInv' /\ CourseQueued' /\ RevisionQueued'
    BY <2>1, QueueKept, CourseKept, RevisionKept DEF Inv
  <2> QED BY <2>2, <2>3, <2>4 DEF Inv
<1>2. live \subseteq Changes /\ staged \subseteq Changes /\ institutional \in BOOLEAN
  BY DEF Inv, TypeOK
<1>3. CASE Submit(s) /\ ~institutional
  <2>1. /\ live' \in SUBSET Changes /\ staged' = {} /\ status' = "submitted" /\ Asks("course", s, 0, live')
        /\ UNCHANGED <<institutional, revision, edit, submitting, applying, closing, handled, faults>>
    BY <1>2, <1>3 DEF Submit
  <2> QED BY <2>1, CourseAsks
<1>4. CASE InstitutionPasses(s)
  BY <1>2, <1>4, CourseAsks DEF InstitutionPasses
<1>5. CASE Appeal(s)
  BY <1>2, <1>5, CourseAsks DEF Appeal
<1> QED BY <1>1, <1>3, <1>4, <1>5

LEMMA WithdrawInv ==
  ASSUME PublishingAssumption, Inv, Withdraw PROVE Inv'
<1>1. live' \subseteq Changes /\ staged' \subseteq Changes /\ closing' \in BOOLEAN
  BY DEF Inv, TypeOK, Withdraw, ToDraft
<1> QED BY <1>1, CoursePulls DEF Withdraw, ToDraft

LEMMA ArchiveInv ==
  ASSUME PublishingAssumption, Inv, Archive PROVE Inv'
<1>1. /\ status' = "archived" /\ closing' = TRUE
      /\ UNCHANGED <<institutional, live, staged, revision, edit, submitting, applying, handled, faults>>
      /\ Pulls(0) \/ UNCHANGED <<toQuality, item>>
  BY DEF Archive
<1>2. CASE Pulls(0)
  BY <1>1, <1>2, CoursePulls DEF Inv, TypeOK
<1>3. CASE UNCHANGED <<toQuality, item>>
  <2>1. TypeOK'
    BY <1>1, <1>3 DEF Inv, TypeOK
  <2>2. ApplyingHolds' /\ Decided'
    BY <1>1, <1>3 DEF Inv, ApplyingHolds, Decided, OpenRevision
  <2>3. QueueInv' /\ CourseQueued' /\ RevisionQueued'
    BY <1>1, <1>3, QueueKept, CourseKept, RevisionKept DEF Inv
  <2> QED BY <2>1, <2>2, <2>3 DEF Inv
<1> QED BY <1>1, <1>2, <1>3

-----------------------------------------------------------------------------
(* The steps: revisions                                                    *)

\* A move of the open revision, with no apply running, that nothing is sent
\* about and that does not put it in review.
LEMMA RevisionMoves ==
  ASSUME Inv, NEW t \in RevisionStatuses \ {"submitted"}, RevisionBecomes(t),
         revision.status \in OpenStatuses, applying' = NotApplying,
         status' = status, UNCHANGED <<institutional, live, edit, closing, submitting, toQuality, item, faults>>,
         staged' \in {staged, {}},
         \/ handled' = handled
         \/ \E s \in Submissions : handled' = handled \cup {s} /\ item[s].kind = "revision" /\ item[s].status \in Actions
  PROVE  Inv'
<1>1. revision' \in RevisionType /\ revision'.status = t /\ revision'.number = revision.number
  BY RevisionChanges DEF Inv, RevisionBecomes
<1>2. handled' \subseteq Submissions /\ \A s \in handled' : s \in handled \/ (item[s].kind = "revision" /\ item[s].status \in Actions)
  BY DEF Inv, TypeOK
<1>3. applying' \in [item : Submissions \cup {0}, loaded : SUBSET Changes]
  BY DEF NotApplying
<1>4. TypeOK'
  BY <1>1, <1>2, <1>3 DEF Inv, TypeOK
<1>5. revision.number # 0
  BY DEF Inv, Decided, OpenRevision
<1>6. Decided'
  BY <1>1, <1>2, <1>5 DEF Inv, Decided
<1>7. ApplyingHolds'
  BY DEF ApplyingHolds, NotApplying
<1>8. QueueInv'
  BY QueueKept DEF Inv
<1>9. CourseQueued'
  BY <1>2, CourseKept DEF Inv
<1>10. RevisionQueued'
  BY <1>1 DEF RevisionQueued
<1> QED BY <1>4, <1>6, <1>7, <1>8, <1>9, <1>10 DEF Inv

LEMMA RevisionMovesInv ==
  ASSUME PublishingAssumption, Inv, InstitutionReturnsRevision \/ Discard \/ \E s \in Submissions : Coach(s) \/ Reject(s) PROVE Inv'
<1>1. "draft" \in RevisionStatuses \ {"submitted"} /\ "closed" \in RevisionStatuses \ {"submitted"}
  BY DEF RevisionStatuses, OpenStatuses
<1>2. CASE InstitutionReturnsRevision
  <2>1. applying = NotApplying
    BY <1>2 DEF Inv, ApplyingHolds, InstitutionReturnsRevision
  <2> QED BY <1>1, <1>2, <2>1, RevisionMoves DEF InstitutionReturnsRevision, courseVars, OpenStatuses, InReview
<1>3. CASE Discard
  BY <1>1, <1>3, RevisionMoves DEF Discard, Unlocked, OpenStatuses
<1>4. ASSUME NEW s \in Submissions, Coach(s) PROVE Inv'
  <2>1. /\ RevisionBecomes("draft") /\ revision.status \in OpenStatuses /\ applying' = NotApplying
        /\ handled' = handled \cup {s} /\ item[s].kind = "revision" /\ item[s].status \in Actions
        /\ status' = status /\ staged' = staged /\ UNCHANGED <<institutional, live, edit, closing, submitting, toQuality, item, faults>>
    BY <1>4 DEF Coach, ForRevision, Decidable, Unlocked, OpenStatuses, InReview, Actions, courseVars
  <2> QED BY <1>1, <2>1, RevisionMoves
<1>5. ASSUME NEW s \in Submissions, Reject(s) PROVE Inv'
  <2>1. /\ RevisionBecomes("closed") /\ revision.status \in OpenStatuses /\ applying' = NotApplying
        /\ handled' = handled \cup {s} /\ item[s].kind = "revision" /\ item[s].status \in Actions
        /\ status' = status /\ staged' = {} /\ UNCHANGED <<institutional, live, edit, closing, submitting, toQuality, item, faults>>
    BY <1>5 DEF Reject, ForRevision, Decidable, Unlocked, OpenStatuses, InReview, Actions
  <2> QED BY <1>1, <2>1, RevisionMoves
<1> QED BY <1>2, <1>3, <1>4, <1>5

LEMMA StaleInv ==
  ASSUME Inv, NEW s \in Submissions, Stale(s) PROVE Inv'
<1>1. /\ item[s].kind = "revision" /\ item[s].status \in Actions /\ applying = NotApplying /\ ~Decidable(s)
      /\ handled' = handled \cup {s}
      /\ UNCHANGED <<status, institutional, live, staged, edit, closing, revision, submitting, applying, toQuality, item, faults>>
  BY DEF Stale, ForRevision, Unlocked, courseVars
<1>2. TypeOK'
  BY <1>1 DEF Inv, TypeOK
<1>3. ApplyingHolds' /\ Decided'
  BY <1>1 DEF Inv, ApplyingHolds, Decided, OpenRevision
<1>4. QueueInv'
  BY <1>1, QueueKept DEF Inv
<1>5. CourseQueued'
  BY <1>1, CourseKept DEF Inv
<1>6. revision.status = "submitted" => ~Concerns(s)
  BY <1>1 DEF Decidable, Concerns
<1>7. RevisionQueued'
  BY <1>1, <1>6, RevisionKept DEF Inv
<1> QED BY <1>2, <1>3, <1>4, <1>5, <1>7 DEF Inv

LEMMA BeginSubmitInv ==
  ASSUME PublishingAssumption, Inv, BeginSubmit PROVE Inv'
<1>1. /\ submitting' = [on |-> TRUE, number |-> revision'.number, hash |-> staged]
      /\ UNCHANGED <<status, institutional, live, staged, edit, closing, applying, toQuality, item, handled, faults>>
      /\ \/ UNCHANGED revision
         \/ /\ ~OpenRevision /\ revision.number < MaxRevisions
            /\ revision' = [number |-> revision.number + 1, status |-> "draft", hash |-> {}]
  BY DEF BeginSubmit, NewRevision, courseVars
<1>2. /\ revision' \in RevisionType
      /\ revision' = revision \/ (revision.status # "submitted" /\ revision'.number # 0 /\ revision'.status = "draft")
  <2>1. CASE UNCHANGED revision
    BY <2>1 DEF Inv, TypeOK
  <2>2. CASE /\ ~OpenRevision /\ revision.number < MaxRevisions
             /\ revision' = [number |-> revision.number + 1, status |-> "draft", hash |-> {}]
    <3>1. revision' \in RevisionType /\ revision.number + 1 # 0
      BY <2>2, RevisionOpens DEF Inv
    <3>2. revision.status # "submitted"
      BY <2>2 DEF OpenRevision, OpenStatuses, InReview
    <3> QED BY <3>1, <3>2, <2>2
  <2> QED BY <1>1, <2>1, <2>2
<1>3. submitting' \in [on : BOOLEAN, number : 0 .. MaxRevisions, hash : SUBSET Changes]
  BY <1>1, <1>2 DEF RevisionType, Inv, TypeOK
<1>4. TypeOK'
  BY <1>1, <1>2, <1>3 DEF Inv, TypeOK
<1>5. ApplyingHolds' /\ Decided'
  BY <1>1, <1>2 DEF Inv, ApplyingHolds, Decided, OpenRevision
<1>6. QueueInv'
  BY <1>1, QueueKept DEF Inv
<1>7. CourseQueued'
  BY <1>1, CourseKept DEF Inv
<1>8. RevisionQueued'
  BY <1>1, <1>2, RevisionKept DEF Inv
<1> QED BY <1>4, <1>5, <1>6, <1>7, <1>8 DEF Inv

LEMMA BeginDiscardInv ==
  ASSUME PublishingAssumption, Inv, BeginDiscard PROVE Inv'
<1>1. /\ UNCHANGED <<status, institutional, live, staged, edit, closing, submitting, applying, toQuality, item, handled, faults>>
      /\ \/ UNCHANGED revision
         \/ /\ ~OpenRevision /\ revision.number < MaxRevisions
            /\ revision' = [number |-> revision.number + 1, status |-> "draft", hash |-> {}]
  BY DEF BeginDiscard, NewRevision, courseVars
<1>2. /\ revision' \in RevisionType
      /\ revision' = revision \/ (revision.status # "submitted" /\ revision'.number # 0 /\ revision'.status = "draft")
  <2>1. CASE UNCHANGED revision
    BY <2>1 DEF Inv, TypeOK
  <2>2. CASE /\ ~OpenRevision /\ revision.number < MaxRevisions
             /\ revision' = [number |-> revision.number + 1, status |-> "draft", hash |-> {}]
    <3>1. revision' \in RevisionType /\ revision.number + 1 # 0
      BY <2>2, RevisionOpens DEF Inv
    <3>2. revision.status # "submitted"
      BY <2>2 DEF OpenRevision, OpenStatuses, InReview
    <3> QED BY <3>1, <3>2, <2>2
  <2> QED BY <1>1, <2>1, <2>2
<1>4. TypeOK'
  BY <1>1, <1>2 DEF Inv, TypeOK
<1>5. ApplyingHolds' /\ Decided'
  BY <1>1, <1>2 DEF Inv, ApplyingHolds, Decided, OpenRevision
<1>6. QueueInv'
  BY <1>1, QueueKept DEF Inv
<1>7. CourseQueued'
  BY <1>1, CourseKept DEF Inv
<1>8. RevisionQueued'
  BY <1>1, <1>2, RevisionKept DEF Inv
<1> QED BY <1>4, <1>5, <1>6, <1>7, <1>8 DEF Inv

\* The open revision is put in front of quality.
LEMMA RevisionAsks ==
  ASSUME PublishingAssumption, Inv, revision.status \in OpenStatuses, NEW s \in Submissions,
         Asks("revision", s, revision.number, revision'.hash),
         revision' \in RevisionType, revision'.number = revision.number,
         submitting' \in {submitting, NotSubmitting}, applying = NotApplying,
         UNCHANGED <<status, institutional, live, staged, edit, closing, applying, handled, faults>>
  PROVE  Inv'
<1>1. revision.number \in 0 .. MaxRevisions /\ revision.number # 0 /\ revision'.hash \in SUBSET Changes /\ TypeOK /\ QueueInv
  BY DEF Inv, TypeOK, RevisionType, Decided, OpenRevision
<1>2. /\ toQuality' \in Seq(EventType) /\ item' \in [Submissions -> ItemType] /\ QueueInv'
      /\ item[s].status = "none" /\ item'[s].status = "asked" /\ item'[s].kind = "revision"
      /\ item'[s].number = revision.number /\ item'[s].content = revision'.hash
      /\ \A r \in Submissions \ {s} : item'[r] = item[r]
      /\ Used' = Used \cup {s} /\ s \notin Used /\ \A r \in Used : r <= s
      /\ \A e \in Under' : s \notin e.before /\ (e \in Under \/ (e.kind = "revision" /\ e.number = revision.number))
  BY <1>1, Asking
<1>3. submitting' \in [on : BOOLEAN, number : 0 .. MaxRevisions, hash : SUBSET Changes]
  <2>1. NotSubmitting \in [on : BOOLEAN, number : 0 .. MaxRevisions, hash : SUBSET Changes]
    BY DEF NotSubmitting, PublishingAssumption
  <2>2. submitting \in [on : BOOLEAN, number : 0 .. MaxRevisions, hash : SUBSET Changes]
    BY DEF Inv, TypeOK
  <2> QED BY <2>1, <2>2
<1>4. TypeOK'
  BY <1>2, <1>3 DEF Inv, TypeOK
<1>5. s \notin handled
  BY <1>2 DEF Inv, Decided, Actions
<1>6. ApplyingHolds' /\ Decided'
  <2>1. ApplyingHolds'
    BY DEF ApplyingHolds
  <2>2. \A r \in handled : r \in Submissions /\ r # s /\ item'[r] = item[r] /\ item[r].status \in Actions
    BY <1>1, <1>2, <1>5 DEF Inv, TypeOK, Decided
  <2>3. Decided'
    <3>1. revision'.number # 0 /\ \A r \in handled' : item'[r].status \in Actions
      BY <1>1, <2>2
    <3>2. ASSUME NEW r \in Submissions, item'[r].kind # "revision" PROVE item'[r].status # "reject"
      BY <1>2, <3>2 DEF Inv, Decided
    <3> QED BY <3>1, <3>2 DEF Decided
  <2> QED BY <2>1, <2>3
<1>7. CourseQueued'
  <2> SUFFICES ASSUME status = "submitted" PROVE CourseQueued'
    BY DEF CourseQueued
  <2>1. PICK r \in Submissions : CourseWaits(r)
    BY DEF Inv, CourseQueued
  <2>2. r # s /\ item'[r] = item[r] /\ item[r].status \notin {"none", "withdrawn"} /\ r \notin handled
    BY <1>2, <2>1 DEF CourseWaits, Current
  <2>3. \A q \in Used' : item'[q].kind = "course" => q \in Used /\ item[q].kind = "course"
    BY <1>2 DEF Used
  <2>4. \A e \in Under' : e \in Under \/ ~ClosesCourse(e)
    BY <1>2 DEF ClosesCourse
  <2>5. CourseWaits(r)'
    BY <2>1, <2>2, <2>3, <2>4, CourseStands
  <2> QED BY <2>5 DEF CourseQueued
<1>8. RevisionWaits(s)'
  <2>1. Newest(s)'
    <3>1. s <= s
      <4>1. \A r \in Submissions : r \in Nat
        BY DEF PublishingAssumption
      <4> QED BY <4>1
    <3> QED BY <1>2, <3>1 DEF Newest
  <2> QED BY <1>2, <1>5, <2>1 DEF RevisionWaits, Concerns, Current
<1> QED BY <1>2, <1>4, <1>6, <1>7, <1>8 DEF Inv, RevisionQueued

\* It is taken back, or closed.
LEMMA RevisionPulls ==
  ASSUME PublishingAssumption, Inv, revision.status \in OpenStatuses, Pulls(revision.number),
         revision' \in RevisionType, revision'.number = revision.number, revision'.status # "submitted",
         closing' \in BOOLEAN, applying = NotApplying,
         UNCHANGED <<status, institutional, live, staged, edit, submitting, applying, handled, faults>>
  PROVE  Inv'
<1>1. revision.number \in 0 .. MaxRevisions /\ revision.number # 0 /\ TypeOK /\ QueueInv
  BY DEF Inv, TypeOK, RevisionType, Decided, OpenRevision
<1>2. /\ toQuality' \in Seq(EventType) /\ QueueInv' /\ item' = item
      /\ \A e \in Under' : e \in Under \/ (e.kind = "withdrawn" /\ e.number = revision.number)
  BY <1>1, Pulling
<1>3. TypeOK'
  BY <1>2 DEF Inv, TypeOK
<1>4. ApplyingHolds' /\ Decided'
  BY <1>1, <1>2 DEF Inv, ApplyingHolds, Decided, OpenRevision
<1>5. CourseQueued'
  <2> SUFFICES ASSUME status = "submitted" PROVE CourseQueued'
    BY DEF CourseQueued
  <2>1. PICK r \in Submissions : CourseWaits(r)
    BY DEF Inv, CourseQueued
  <2>2. \A e \in Under' : e \in Under \/ ~ClosesCourse(e)
    BY <1>1, <1>2 DEF ClosesCourse
  <2>3. \A q \in Used' : q \in Used /\ item'[q] = item[q]
    BY <1>2 DEF Used
  <2>4. CourseWaits(r)'
    BY <1>2, <2>1, <2>2, <2>3, CourseStands DEF CourseWaits, Current
  <2> QED BY <2>4 DEF CourseQueued
<1>6. RevisionQueued'
  BY DEF RevisionQueued
<1> QED BY <1>2, <1>3, <1>4, <1>5, <1>6 DEF Inv

LEMMA WithdrawRevisionInv ==
  ASSUME PublishingAssumption, Inv, WithdrawRevision PROVE Inv'
<1>1. /\ revision.status \in InReview /\ applying = NotApplying
      /\ RevisionBecomes("draft") /\ Pulls(revision.number)
      /\ UNCHANGED <<status, institutional, live, staged, edit, closing, submitting, applying, handled, faults>>
  BY DEF WithdrawRevision, Unlocked, courseVars
<1>2. "draft" \in RevisionStatuses /\ revision.status \in OpenStatuses
  BY <1>1 DEF RevisionStatuses, OpenStatuses
<1>3. revision' \in RevisionType /\ revision'.number = revision.number /\ revision'.status = "draft"
  BY <1>1, <1>2, RevisionChanges DEF Inv, RevisionBecomes
<1>4. closing' \in BOOLEAN
  BY <1>1 DEF Inv, TypeOK
<1> QED BY <1>1, <1>2, <1>3, <1>4, RevisionPulls

LEMMA CloseRevisionInv ==
  ASSUME PublishingAssumption, Inv, CloseRevision PROVE Inv'
<1>1. /\ closing' = FALSE /\ applying = NotApplying
      /\ UNCHANGED <<status, institutional, live, staged, edit, submitting, applying, handled, faults>>
      /\ \/ OpenRevision /\ RevisionBecomes("closed") /\ Pulls(revision.number)
         \/ UNCHANGED <<revision, toQuality, item>>
  BY DEF CloseRevision, Unlocked
<1>2. CASE OpenRevision /\ RevisionBecomes("closed") /\ Pulls(revision.number)
  <2>1. "closed" \in RevisionStatuses /\ revision.status \in OpenStatuses
    BY <1>2 DEF RevisionStatuses, OpenRevision
  <2>2. revision' \in RevisionType /\ revision'.number = revision.number /\ revision'.status = "closed"
    BY <1>2, <2>1, RevisionChanges DEF Inv, RevisionBecomes
  <2>3. closing' \in BOOLEAN
    BY <1>1
  <2> QED BY <1>1, <1>2, <2>1, <2>2, <2>3, RevisionPulls
<1>3. CASE UNCHANGED <<revision, toQuality, item>>
  <2>1. TypeOK'
    BY <1>1, <1>3 DEF Inv, TypeOK
  <2>2. ApplyingHolds' /\ Decided'
    BY <1>1, <1>3 DEF Inv, ApplyingHolds, Decided, OpenRevision
  <2>3. QueueInv' /\ CourseQueued' /\ RevisionQueued'
    BY <1>1, <1>3, QueueKept, CourseKept, RevisionKept DEF Inv
  <2> QED BY <2>1, <2>2, <2>3 DEF Inv
<1> QED BY <1>1, <1>2, <1>3

LEMMA InstitutionPassesRevisionInv ==
  ASSUME PublishingAssumption, Inv, NEW s \in Submissions, InstitutionPassesRevision(s) PROVE Inv'
<1>1. /\ revision.status = "institution_review"
      /\ RevisionBecomes("submitted") /\ Asks("revision", s, revision.number, revision.hash)
      /\ UNCHANGED <<status, institutional, live, staged, edit, closing, submitting, applying, handled, faults>>
  BY DEF InstitutionPassesRevision, courseVars
<1>2. "submitted" \in RevisionStatuses /\ revision.status \in OpenStatuses
  BY <1>1 DEF RevisionStatuses, OpenStatuses, InReview
<1>3. revision' \in RevisionType /\ revision'.number = revision.number /\ revision'.hash = revision.hash
  BY <1>1, <1>2, RevisionChanges DEF Inv, RevisionBecomes
<1>4. applying = NotApplying /\ submitting' \in {submitting, NotSubmitting}
  BY <1>1 DEF Inv, ApplyingHolds
<1> QED BY <1>1, <1>2, <1>3, <1>4, RevisionAsks

LEMMA SubmittedRevision ==
  ASSUME TypeOK, NEW t \in RevisionStatuses, NEW h \in SUBSET Changes
  PROVE  LET r == [revision EXCEPT !.status = t, !.hash = h] IN
         r \in RevisionType /\ r.status = t /\ r.number = revision.number /\ r.hash = h
<1>1. revision \in RevisionType
  BY DEF TypeOK
<1> QED BY <1>1 DEF RevisionType, RevisionStatuses

LEMMA EndSubmitInv ==
  ASSUME PublishingAssumption, Inv, NEW s \in Submissions, EndSubmit(s) PROVE Inv'
<1>1. /\ applying = NotApplying /\ submitting' = NotSubmitting
      /\ UNCHANGED <<status, institutional, live, staged, edit, closing, applying, handled, faults>>
  BY DEF EndSubmit, Unlocked, courseVars
<1>2. submitting.hash \in SUBSET Changes /\ submitting' \in [on : BOOLEAN, number : 0 .. MaxRevisions, hash : SUBSET Changes]
  BY <1>1 DEF Inv, TypeOK, NotSubmitting, PublishingAssumption
<1>3. CASE /\ revision.status = "draft" /\ UNCHANGED <<toQuality, item>>
           /\ revision' = [revision EXCEPT !.status = "institution_review", !.hash = submitting.hash]
  <2>1. "institution_review" \in RevisionStatuses
    BY DEF RevisionStatuses, OpenStatuses, InReview
  <2>2. revision' \in RevisionType /\ revision'.status = "institution_review" /\ revision'.number = revision.number
    BY <1>2, <1>3, <2>1, SubmittedRevision DEF Inv
  <2>3. TypeOK'
    BY <1>1, <1>2, <1>3, <2>2 DEF Inv, TypeOK
  <2>4. revision.number # 0
    BY <1>3 DEF Inv, Decided, OpenRevision, OpenStatuses
  <2>5. ApplyingHolds' /\ Decided'
    BY <1>1, <1>3, <2>2, <2>4 DEF Inv, ApplyingHolds, Decided
  <2>6. QueueInv' /\ CourseQueued'
    BY <1>1, <1>3, QueueKept, CourseKept DEF Inv
  <2>7. RevisionQueued'
    BY <2>2 DEF RevisionQueued
  <2> QED BY <2>3, <2>5, <2>6, <2>7 DEF Inv
<1>4. CASE /\ revision.status = "draft" /\ Asks("revision", s, revision.number, submitting.hash)
           /\ revision' = [revision EXCEPT !.status = "submitted", !.hash = submitting.hash]
  <2>1. "submitted" \in RevisionStatuses /\ revision.status \in OpenStatuses
    BY <1>4 DEF RevisionStatuses, OpenStatuses, InReview
  <2>2. revision' \in RevisionType /\ revision'.number = revision.number /\ revision'.hash = submitting.hash
    BY <1>2, <1>4, <2>1, SubmittedRevision DEF Inv
  <2>3. submitting' \in {submitting, NotSubmitting}
    BY <1>1
  <2> QED BY <1>1, <1>4, <2>1, <2>2, <2>3, RevisionAsks
<1>5. CASE UNCHANGED <<revision, toQuality, item>>
  <2>1. TypeOK'
    BY <1>1, <1>2, <1>5 DEF Inv, TypeOK
  <2>2. ApplyingHolds' /\ Decided'
    BY <1>1, <1>5 DEF Inv, ApplyingHolds, Decided, OpenRevision
  <2>3. QueueInv' /\ CourseQueued' /\ RevisionQueued'
    BY <1>1, <1>5, QueueKept, CourseKept, RevisionKept DEF Inv
  <2> QED BY <2>1, <2>2, <2>3 DEF Inv
<1> QED BY <1>3, <1>4, <1>5 DEF EndSubmit

-----------------------------------------------------------------------------
(* The steps: applying an update                                           *)

LEMMA BeginApplyInv ==
  ASSUME PublishingAssumption, Inv, NEW s \in Submissions, BeginApply(s) PROVE Inv'
<1>1. /\ item[s].status = "approve" /\ item[s].kind = "revision" /\ applying = NotApplying /\ Decidable(s)
      /\ UNCHANGED <<status, institutional, live, staged, edit, closing, submitting, toQuality, item, faults>>
  BY DEF BeginApply, ForRevision, Unlocked, courseVars
<1>2. CASE staged = revision.hash /\ applying' = [item |-> s, loaded |-> staged] /\ UNCHANGED <<revision, handled>>
  <2>1. applying' \in [item : Submissions \cup {0}, loaded : SUBSET Changes] /\ applying'.item = s /\ applying'.loaded = staged
    BY <1>2 DEF Inv, TypeOK
  <2>2. TypeOK'
    BY <1>1, <1>2, <2>1 DEF Inv, TypeOK
  <2>3. ApplyingHolds'
    BY <1>1, <1>2, <2>1 DEF ApplyingHolds, Decidable
  <2>4. Decided'
    BY <1>1, <1>2 DEF Inv, Decided, OpenRevision
  <2>5. QueueInv' /\ CourseQueued' /\ RevisionQueued'
    BY <1>1, <1>2, QueueKept, CourseKept, RevisionKept DEF Inv
  <2> QED BY <2>2, <2>3, <2>4, <2>5 DEF Inv
<1>3. CASE RevisionBecomes("draft") /\ handled' = handled \cup {s} /\ UNCHANGED applying
  <2>1. "draft" \in RevisionStatuses \ {"submitted"} /\ revision.status \in OpenStatuses /\ "approve" \in Actions
    BY <1>1 DEF RevisionStatuses, OpenStatuses, Decidable, InReview, Actions
  <2> QED BY <1>1, <1>3, <2>1, RevisionMoves
<1> QED BY <1>2, <1>3 DEF BeginApply

LEMMA ApplyInv ==
  ASSUME Inv, Apply PROVE Inv'
<1>1. /\ applying.item \in Submissions /\ revision.status = "submitted"
      /\ item[applying.item].status = "approve" /\ item[applying.item].kind = "revision"
      /\ RevisionBecomes("applied") /\ handled' = handled \cup {applying.item} /\ applying' = NotApplying
      /\ live' = live \cup applying.loaded /\ staged' \subseteq staged
      /\ UNCHANGED <<status, institutional, edit, closing, submitting, toQuality, item, faults>>
  BY DEF Inv, ApplyingHolds, Apply, Unlocked, AppliedContent
<1>2. "applied" \in RevisionStatuses /\ revision.number # 0
  BY <1>1 DEF RevisionStatuses, Inv, Decided, OpenRevision, OpenStatuses, InReview
<1>3. revision' \in RevisionType /\ revision'.status = "applied" /\ revision'.number = revision.number
  BY <1>1, <1>2, RevisionChanges DEF Inv, RevisionBecomes
<1>4. applying' \in [item : Submissions \cup {0}, loaded : SUBSET Changes] /\ applying.loaded \subseteq Changes
  BY <1>1 DEF Inv, TypeOK, NotApplying
<1>5. TypeOK'
  BY <1>1, <1>3, <1>4 DEF Inv, TypeOK
<1>6. ApplyingHolds'
  BY <1>1 DEF ApplyingHolds
<1>7. Decided'
  BY <1>1, <1>2, <1>3 DEF Inv, Decided, Actions
<1>8. QueueInv' /\ CourseQueued'
  BY <1>1, QueueKept, CourseKept DEF Inv
<1>9. RevisionQueued'
  BY <1>3 DEF RevisionQueued
<1> QED BY <1>5, <1>6, <1>7, <1>8, <1>9 DEF Inv

LEMMA ApplyFailsInv ==
  ASSUME PublishingAssumption, Inv, ApplyFails PROVE Inv'
<1>1. /\ applying.item \in Submissions /\ revision.status = "submitted"
      /\ item[applying.item].status = "approve" /\ item[applying.item].kind = "revision"
      /\ applying' = NotApplying
      /\ UNCHANGED <<status, institutional, live, staged, edit, closing, submitting, toQuality, item, faults>>
      /\ UNCHANGED <<revision, handled>> \/ (RevisionBecomes("draft") /\ handled' = handled \cup {applying.item})
  BY DEF Inv, ApplyingHolds, ApplyFails, Unlocked, Returned, courseVars
<1>2. CASE UNCHANGED <<revision, handled>>
  <2>1. TypeOK'
    BY <1>1, <1>2 DEF Inv, TypeOK, NotApplying
  <2>2. ApplyingHolds' /\ Decided'
    BY <1>1, <1>2 DEF Inv, ApplyingHolds, Decided, OpenRevision
  <2>3. QueueInv' /\ CourseQueued' /\ RevisionQueued'
    BY <1>1, <1>2, QueueKept, CourseKept, RevisionKept DEF Inv
  <2> QED BY <2>1, <2>2, <2>3 DEF Inv
<1>3. CASE RevisionBecomes("draft") /\ handled' = handled \cup {applying.item}
  <2>1. "draft" \in RevisionStatuses \ {"submitted"} /\ revision.status \in OpenStatuses /\ "approve" \in Actions
    BY <1>1 DEF RevisionStatuses, OpenStatuses, InReview, Actions
  <2> QED BY <1>1, <1>3, <2>1, RevisionMoves
<1> QED BY <1>1, <1>2, <1>3

-----------------------------------------------------------------------------
(* The steps: quality                                                      *)

\* What quality does leaves the course, its update and the decisions alone: the
\* items keep what they are about, none is asked for, and only what waited for a
\* decision gets one or is withdrawn.
LEMMA QualityMoves ==
  ASSUME Inv, QueueInv', item' \in [Submissions -> ItemType], toQuality' \in Seq(EventType), faults' \in 0 .. MaxFaults,
         UNCHANGED <<status, institutional, live, staged, edit, closing, revision, submitting, applying, handled>>,
         Under' \subseteq Under,
         \A s \in Submissions :
           /\ item[s].status # "none" => /\ item'[s].kind = item[s].kind /\ item'[s].number = item[s].number
                                         /\ item'[s].content = item[s].content /\ item'[s].status # "none"
           /\ item[s].status = "none" => item'[s].status = "none" \/ item'[s].kind = "recheck"
           /\ item[s].status \in Actions => item'[s].status = item[s].status
           /\ item'[s].status = "reject" => item[s].status = "reject" \/ item'[s].kind = "revision"
           /\ item[s].status # "withdrawn" /\ item'[s].status = "withdrawn" =>
                \E e \in Under : s \in e.before /\ \/ item[s].kind = "course" /\ ClosesCourse(e)
                                                   \/ item[s].kind = "revision" /\ e.kind = "revision"
                                                   \/ item[s].kind = "revision" /\ e.kind = "withdrawn" /\ item[s].number = e.number
  PROVE  Inv'
<1>1. TypeOK'
  BY DEF Inv, TypeOK
<1>2. ApplyingHolds'
  BY DEF Inv, ApplyingHolds, Actions
<1>3. Decided'
  <2>1. \A s \in handled : item'[s].status \in Actions
    BY DEF Inv, TypeOK, Decided
  <2>2. \A s \in Submissions : item'[s].kind # "revision" => item'[s].status # "reject"
    <3>1. ASSUME NEW s \in Submissions, item'[s].kind # "revision", item'[s].status = "reject" PROVE FALSE
      <4>1. item[s].status = "reject"
        BY <3>1
      <4>2. item[s].kind # "revision"
        BY <3>1, <4>1
      <4> QED BY <4>1, <4>2 DEF Inv, Decided
    <3> QED BY <3>1
  <2> QED BY <2>1, <2>2 DEF Inv, Decided, OpenRevision
<1>4. \A q \in Used' : item'[q].kind # "recheck" => q \in Used /\ item[q].kind = item'[q].kind
  BY DEF Used
<1>5. CourseQueued'
  <2> SUFFICES ASSUME status = "submitted" PROVE CourseQueued'
    BY DEF CourseQueued
  <2>1. PICK r \in Submissions : CourseWaits(r)
    BY DEF Inv, CourseQueued
  <2>2. item[r].kind = "course" /\ item[r].status \notin {"none", "withdrawn"} /\ r \notin handled
        /\ \A e \in Under : ClosesCourse(e) => r \notin e.before
    BY <2>1 DEF CourseWaits, Current
  <2>3. item'[r].kind = item[r].kind /\ item'[r].status \notin {"none", "withdrawn"}
    BY <2>2
  <2>4. CourseWaits(r)'
    BY <1>4, <2>1, <2>2, <2>3, CourseStands
  <2> QED BY <2>4 DEF CourseQueued
<1>6. RevisionQueued'
  <2> SUFFICES ASSUME revision.status = "submitted" PROVE RevisionQueued'
    BY DEF RevisionQueued
  <2>1. PICK r \in Submissions : RevisionWaits(r)
    BY DEF Inv, RevisionQueued
  <2>2. /\ item[r].kind = "revision" /\ item[r].number = revision.number
        /\ item[r].status \notin {"none", "withdrawn"} /\ r \notin handled
        /\ \A e \in Under : ClosesRevision(e) => r \notin e.before
    BY <2>1 DEF RevisionWaits, Concerns, Current
  <2>3. item'[r].kind = item[r].kind /\ item'[r].number = item[r].number /\ item'[r].content = item[r].content
        /\ item'[r].status \notin {"none", "withdrawn"}
    BY <2>2 DEF ClosesRevision
  <2>4. RevisionWaits(r)'
    BY <1>4, <2>1, <2>2, <2>3, RevisionStands
  <2> QED BY <2>4 DEF RevisionQueued
<1> QED BY <1>1, <1>2, <1>3, <1>5, <1>6 DEF Inv

\* What handling an event does to an item.
LEMMA Handled ==
  ASSUME PublishingAssumption, TypeOK, NEW e \in EventType, EventOk(e), Handles(e)
  PROVE  /\ item' \in [Submissions -> ItemType] /\ Used' = Used
         /\ \A s \in Submissions :
              /\ item'[s].kind = item[s].kind /\ item'[s].number = item[s].number /\ item'[s].content = item[s].content
              /\ \/ item'[s].status = item[s].status /\ (s = e.item => item[s].status # "asked")
                 \/ s = e.item /\ item[s].status = "asked" /\ item'[s].status = "open"
                 \/ ClosedBy(e, s) /\ item'[s].status = IF s \in e.before THEN "withdrawn" ELSE "overtaken"
<1>0. \A s \in Submissions : item[s] \in ItemType
  BY DEF TypeOK
<1>1. e.kind = "withdrawn" => \A s \in Submissions : s # e.item
  BY DEF EventOk, PublishingAssumption
<1>2. CASE ~RunsOnce(e)
  <2>1. item' = item /\ \A s \in Submissions : s = e.item => item[s].status # "asked"
    BY <1>2 DEF Handles, RunsOnce
  <2> QED BY <1>0, <2>1 DEF TypeOK, Used
<1>3. CASE RunsOnce(e)
  <2> DEFINE to(s) == IF s = e.item THEN [item[s] EXCEPT !.status = "open"]
                      ELSE IF ClosedBy(e, s) THEN [item[s] EXCEPT !.status = IF s \in e.before THEN "withdrawn" ELSE "overtaken"]
                      ELSE item[s]
  <2>1. item' = [s \in Submissions |-> to(s)]
    BY <1>3 DEF Handles
  <2>2. \A s \in Submissions : s = e.item => item[s].status = "asked"
    BY <1>1, <1>3 DEF RunsOnce
  <2>3. ASSUME NEW s \in Submissions
        PROVE  /\ to(s) \in ItemType /\ to(s).kind = item[s].kind /\ to(s).number = item[s].number /\ to(s).content = item[s].content
               /\ \/ to(s).status = item[s].status /\ s # e.item
                  \/ s = e.item /\ to(s).status = "open"
                  \/ ClosedBy(e, s) /\ to(s).status = IF s \in e.before THEN "withdrawn" ELSE "overtaken"
    <3>1. CASE s = e.item
      BY <1>0, <3>1 DEF ItemType
    <3>2. CASE s # e.item /\ ClosedBy(e, s) /\ s \in e.before
      BY <1>0, <3>2 DEF ItemType
    <3>3. CASE s # e.item /\ ClosedBy(e, s) /\ s \notin e.before
      BY <1>0, <3>3 DEF ItemType
    <3>4. CASE s # e.item /\ ~ClosedBy(e, s)
      BY <1>0, <3>4
    <3> QED BY <3>1, <3>2, <3>3, <3>4
  <2> HIDE DEF to
  <2>4. item' \in [Submissions -> ItemType] /\ \A s \in Submissions : item'[s] = to(s)
    BY <2>1, <2>3
  <2>5. Used' = Used
    BY <2>2, <2>3, <2>4 DEF Used, ClosedBy
  <2> QED BY <2>2, <2>3, <2>4, <2>5
<1> QED BY <1>2, <1>3

LEMMA ReceiveInv ==
  ASSUME PublishingAssumption, Inv, NEW i \in DOMAIN toQuality, Receive(i) PROVE Inv'
<1> DEFINE e == toQuality[i]
<1>1. i \in Queue /\ e \in Under /\ e \in EventType /\ EventOk(e) /\ TypeOK
  BY UnderWay DEF Inv, QueueInv, Events, Under
<1>2. /\ Handles(e)
      /\ \/ toQuality' = RemoveAt(toQuality, i) /\ IF i = 1 THEN UNCHANGED faults ELSE Fault
         \/ UNCHANGED toQuality /\ Fault
      /\ UNCHANGED <<status, institutional, live, staged, edit, closing, revision, submitting, applying, handled>>
  BY DEF Receive, courseVars
<1>3. /\ item' \in [Submissions -> ItemType] /\ Used' = Used
      /\ \A s \in Submissions :
           /\ item'[s].kind = item[s].kind /\ item'[s].number = item[s].number /\ item'[s].content = item[s].content
           /\ \/ item'[s].status = item[s].status /\ (s = e.item => item[s].status # "asked")
              \/ s = e.item /\ item[s].status = "asked" /\ item'[s].status = "open"
              \/ ClosedBy(e, s) /\ item'[s].status = IF s \in e.before THEN "withdrawn" ELSE "overtaken"
  BY <1>1, <1>2, Handled
<1>4. /\ toQuality' \in Seq(EventType) /\ Under' \subseteq Under /\ Under \subseteq Under' \cup {e}
      /\ faults' \in 0 .. MaxFaults
      /\ faults' = 0 => faults = 0 /\ i = 1 /\ \A j \in Queue' : j + 1 \in Queue /\ j \in Nat /\ j > 0 /\ toQuality'[j] = toQuality[j + 1]
  <2>1. faults \in 0 .. MaxFaults /\ MaxFaults \in Nat
    BY DEF Inv, TypeOK, PublishingAssumption
  <2>2. Fault => faults' \in 0 .. MaxFaults /\ faults' # 0
    BY <2>1 DEF Fault
  <2>3. CASE UNCHANGED toQuality /\ Fault
    <3>1. Under' = Under /\ toQuality' \in Seq(EventType)
      BY <1>1, <2>3 DEF Under, Queue, TypeOK
    <3> QED BY <2>2, <2>3, <3>1
  <2>4. CASE toQuality' = RemoveAt(toQuality, i) /\ IF i = 1 THEN UNCHANGED faults ELSE Fault
    BY <1>1, <2>1, <2>2, <2>4, TakenOut
  <2> QED BY <1>2, <2>3, <2>4
<1>5. \A d \in Under : EventOk(d)
  BY DEF Inv, QueueInv, Events
<1>6. Events'
  BY <1>3, <1>4, <1>5 DEF Events, EventOk
<1>7. Asked'
  <2>1. ASSUME NEW s \in Submissions, item'[s].status = "asked" PROVE \E d \in Under' : d.item = s
    <3>1. item[s].status = "asked" /\ s # e.item
      BY <1>3, <2>1
    <3> QED BY <1>4, <3>1 DEF Inv, QueueInv, Asked
  <2> QED BY <2>1 DEF Asked
<1>8. ASSUME faults' = 0 PROVE Ordered' /\ Unpassed' /\ \A r \in Submissions : item'[r].status \notin {"overtaken", "parked"}
  <2>1. Ordered /\ Unpassed /\ (\A r \in Submissions : item[r].status \notin {"overtaken", "parked"}) /\ i = 1
        /\ \A j \in Queue' : j + 1 \in Queue /\ j \in Nat /\ j > 0 /\ toQuality'[j] = toQuality[j + 1]
    BY <1>4, <1>8 DEF Inv, QueueInv, InTurn
  <2>2. Ordered'
    <3> SUFFICES ASSUME NEW j \in Queue', NEW k \in Queue', j < k, toQuality'[j].item # 0
                 PROVE  toQuality'[j].item \in toQuality'[k].before
      BY DEF Ordered
    <3>1. j + 1 < k + 1
      BY <2>1
    <3> QED BY <2>1, <3>1 DEF Ordered
  <2>3. ASSUME NEW r \in Submissions, ClosedBy(e, r) PROVE r \in e.before
    <3>1. r \in Used /\ item[r].kind # "recheck" /\ r # e.item /\ item[r].status # "asked"
      BY <2>3 DEF ClosedBy, Used
    <3> QED BY <1>1, <2>1, <3>1 DEF Unpassed
  <2>4. ASSUME NEW d \in Under', NEW r \in Used', item'[r].kind # "recheck", r # d.item, r \notin d.before
        PROVE  item'[r].status = "asked"
    <3>1. PICK j \in Queue' : d = toQuality'[j]
      BY DEF Under
    <3>2. j + 1 \in Queue /\ 1 < j + 1 /\ d = toQuality[j + 1] /\ 1 \in Queue
      BY <1>1, <2>1, <3>1
    <3>3. r # e.item
      <4>1. e.item # 0 => e.item \in d.before
        BY <2>1, <3>2 DEF Ordered
      <4>2. r # 0
        BY <1>3, <2>4 DEF Used, PublishingAssumption
      <4> QED BY <2>4, <4>1, <4>2
    <3>4. r \in Used /\ item[r].status = "asked" /\ r \in Submissions
      BY <1>3, <1>4, <2>1, <2>4 DEF Unpassed, Used
    <3> QED BY <1>3, <3>3, <3>4 DEF ClosedBy
  <2>5. \A r \in Submissions : item'[r].status \notin {"overtaken", "parked"}
    BY <1>3, <2>1, <2>3
  <2> QED BY <2>2, <2>4, <2>5 DEF Unpassed
<1>9. QueueInv'
  BY <1>6, <1>7, <1>8 DEF QueueInv, InTurn
<1>10. ASSUME NEW s \in Submissions
       PROVE  /\ item[s].status # "none" => item'[s].status # "none"
              /\ item[s].status = "none" => item'[s].status = "none"
              /\ item[s].status \in Actions => item'[s].status = item[s].status
              /\ item'[s].status = "reject" => item[s].status = "reject"
              /\ item[s].status # "withdrawn" /\ item'[s].status = "withdrawn" =>
                   s \in e.before /\ \/ item[s].kind = "course" /\ ClosesCourse(e)
                                     \/ item[s].kind = "revision" /\ e.kind = "revision"
                                     \/ item[s].kind = "revision" /\ e.kind = "withdrawn" /\ item[s].number = e.number
  BY <1>3 DEF ClosedBy, ClosesCourse, Actions
<1> HIDE DEF e
<1>11. item' \in [Submissions -> ItemType] /\ toQuality' \in Seq(EventType) /\ Under' \subseteq Under /\ faults' \in 0 .. MaxFaults /\ e \in Under
  BY <1>1, <1>3, <1>4
<1> QED BY <1>2, <1>3, <1>9, <1>10, <1>11, QualityMoves

LEMMA ParkInv ==
  ASSUME PublishingAssumption, Inv, NEW i \in DOMAIN toQuality, Park(i) PROVE Inv'
<1> DEFINE e == toQuality[i]
           to(s) == IF s = e.item /\ item[s].status = "asked" THEN [item[s] EXCEPT !.status = "parked"] ELSE item[s]
<1>1. i \in Queue /\ TypeOK /\ e \in Under
  BY UnderWay DEF Inv, Under
<1>2. /\ item' = [s \in Submissions |-> to(s)] /\ toQuality' = RemoveAt(toQuality, i) /\ Fault
      /\ UNCHANGED <<status, institutional, live, staged, edit, closing, revision, submitting, applying, handled>>
  BY DEF Park, courseVars
<1>3. ASSUME NEW s \in Submissions
      PROVE  /\ to(s) \in ItemType /\ to(s).kind = item[s].kind /\ to(s).number = item[s].number /\ to(s).content = item[s].content
             /\ \/ to(s).status = item[s].status /\ (s = e.item => item[s].status # "asked")
                \/ item[s].status = "asked" /\ to(s).status = "parked"
  <2>1. item[s] \in ItemType
    BY DEF Inv, TypeOK
  <2> QED BY <2>1 DEF ItemType
<1>4. item' \in [Submissions -> ItemType] /\ \A s \in Submissions : item'[s] = to(s)
  BY <1>2, <1>3
<1> HIDE DEF to
<1>5. toQuality' \in Seq(EventType) /\ Under' \subseteq Under /\ Under \subseteq Under' \cup {e}
  BY <1>1, <1>2, TakenOut
<1>6. faults' \in 0 .. MaxFaults /\ faults' # 0
  BY <1>2 DEF Inv, TypeOK, Fault, PublishingAssumption
<1>7. QueueInv'
  <2>1. Used' = Used
    BY <1>3, <1>4 DEF Used
  <2>2. Events'
    BY <1>5, <2>1 DEF Inv, QueueInv, Events, EventOk
  <2>3. ASSUME NEW s \in Submissions, item'[s].status = "asked" PROVE \E d \in Under' : d.item = s
    <3>1. item[s].status = "asked" /\ s # e.item
      BY <1>3, <1>4, <2>3
    <3> QED BY <1>5, <3>1 DEF Inv, QueueInv, Asked
  <2> QED BY <1>6, <2>2, <2>3 DEF QueueInv, Asked, InTurn
<1>8. ASSUME NEW s \in Submissions
      PROVE  /\ item'[s].kind = item[s].kind /\ item'[s].number = item[s].number /\ item'[s].content = item[s].content
             /\ item[s].status # "none" => item'[s].status # "none"
             /\ item[s].status = "none" => item'[s].status = "none"
             /\ item[s].status \in Actions => item'[s].status = item[s].status
             /\ item'[s].status = "reject" => item[s].status = "reject"
             /\ item'[s].status = "withdrawn" => item[s].status = "withdrawn"
  BY <1>3, <1>4 DEF Actions
<1> QED BY <1>2, <1>4, <1>5, <1>6, <1>7, <1>8, QualityMoves

LEMMA RecheckInv ==
  ASSUME PublishingAssumption, Inv, NEW s \in Submissions, Recheck(s) PROVE Inv'
<1> DEFINE new == [status |-> "open", kind |-> "recheck", number |-> 0, content |-> live]
<1>1. /\ Fresh(s) /\ item' = [item EXCEPT ![s] = new]
      /\ UNCHANGED <<status, institutional, live, staged, edit, closing, revision, submitting, applying, toQuality, handled, faults>>
  BY DEF Recheck, courseVars
<1>2. item[s].status = "none" /\ s \notin Used
  <2>1. s \in Used <=> s < s
    BY <1>1 DEF Fresh
  <2>2. s \in Nat
    BY Zenon DEF PublishingAssumption
  <2>3. ~(s < s)
    BY <2>2
  <2> QED BY <2>1, <2>3 DEF Used
<1>3. new \in ItemType /\ new.status = "open" /\ new.kind = "recheck"
  BY DEF Inv, TypeOK, ItemType, PublishingAssumption
<1> HIDE DEF new
<1>4. item' \in [Submissions -> ItemType] /\ item'[s] = new /\ \A r \in Submissions \ {s} : item'[r] = item[r]
  BY <1>1, <1>3 DEF Inv, TypeOK
<1>5. Used' = Used \cup {s} /\ Under' = Under /\ Queue' = Queue /\ toQuality' \in Seq(EventType) /\ faults' \in 0 .. MaxFaults
  BY <1>1, <1>3, <1>4 DEF Inv, TypeOK, Used, Under, Queue
<1>6. QueueInv'
  <2>1. Events'
    BY <1>5 DEF Inv, QueueInv, Events, EventOk
  <2>2. Asked'
    BY <1>3, <1>4, <1>5 DEF Inv, QueueInv, Asked
  <2>3. InTurn'
    <3>1. ASSUME faults = 0 PROVE Ordered' /\ Unpassed' /\ \A r \in Submissions : item'[r].status \notin {"overtaken", "parked"}
      <4>1. Ordered /\ Unpassed /\ \A r \in Submissions : item[r].status \notin {"overtaken", "parked"}
        BY <3>1 DEF Inv, QueueInv, InTurn
      <4>2. Ordered'
        BY <1>1, <1>5, <4>1 DEF Ordered
      <4>3. Unpassed'
        BY <1>3, <1>4, <1>5, <4>1 DEF Unpassed, Used
      <4> QED BY <1>3, <1>4, <4>1, <4>2, <4>3
    <3> QED BY <1>1, <3>1 DEF InTurn
  <2> QED BY <2>1, <2>2, <2>3 DEF QueueInv
<1>7. ASSUME NEW r \in Submissions
      PROVE  /\ item[r].status # "none" => item'[r] = item[r]
             /\ item[r].status = "none" => item'[r].status = "none" \/ item'[r].kind = "recheck"
             /\ item[r].status \in Actions => item'[r].status = item[r].status
             /\ item'[r].status = "reject" => item[r].status = "reject"
             /\ item'[r].status = "withdrawn" => item[r].status = "withdrawn"
  BY <1>2, <1>3, <1>4 DEF Actions
<1> QED BY <1>1, <1>4, <1>5, <1>6, <1>7, QualityMoves

LEMMA DecideInv ==
  ASSUME PublishingAssumption, Inv, NEW s \in Submissions, NEW action \in Actions, Decide(s, action) PROVE Inv'
<1>1. /\ item[s].status = "open" /\ item' = [item EXCEPT ![s].status = action]
      /\ action = "reject" => item[s].kind = "revision"
      /\ UNCHANGED <<status, institutional, live, staged, edit, closing, revision, submitting, applying, toQuality, handled, faults>>
  BY DEF Decide, courseVars
<1>2. item \in [Submissions -> ItemType] /\ item[s] \in ItemType
  BY DEF Inv, TypeOK
<1>3. /\ item' \in [Submissions -> ItemType] /\ item'[s].status = action
      /\ item'[s].kind = item[s].kind /\ item'[s].number = item[s].number /\ item'[s].content = item[s].content
      /\ \A r \in Submissions \ {s} : item'[r] = item[r]
  <2>1. [item[s] EXCEPT !.status = action] \in ItemType
    BY <1>2 DEF ItemType
  <2> QED BY <1>1, <1>2, <2>1 DEF ItemType
<1>4. Used' = Used /\ Under' = Under /\ Queue' = Queue /\ toQuality' \in Seq(EventType) /\ faults' \in 0 .. MaxFaults
  BY <1>1, <1>3 DEF Inv, TypeOK, Used, Under, Queue, Actions
<1>5. \A r \in Submissions : item'[r].kind = item[r].kind /\ item'[r].number = item[r].number /\ item'[r].content = item[r].content
  BY <1>3
<1>6. \A r \in Submissions : /\ item'[r].status = "asked" <=> item[r].status = "asked"
                             /\ item'[r].status \in {"overtaken", "parked"} => item[r].status \in {"overtaken", "parked"}
  BY <1>1, <1>3 DEF Actions
<1>7. QueueInv'
  <2>1. Events' /\ Asked'
    BY <1>4, <1>6 DEF Inv, QueueInv, Events, EventOk, Asked
  <2>2. InTurn'
    <3>1. ASSUME faults = 0 PROVE Ordered' /\ Unpassed' /\ \A r \in Submissions : item'[r].status \notin {"overtaken", "parked"}
      <4>1. Ordered /\ Unpassed /\ \A r \in Submissions : item[r].status \notin {"overtaken", "parked"}
        BY <3>1 DEF Inv, QueueInv, InTurn
      <4>2. Ordered'
        BY <1>1, <1>4, <4>1 DEF Ordered
      <4>3. Unpassed'
        BY <1>4, <1>5, <1>6, <4>1 DEF Unpassed, Used
      <4> QED BY <1>6, <4>1, <4>2, <4>3
    <3> QED BY <1>1, <3>1 DEF InTurn
  <2> QED BY <2>1, <2>2 DEF QueueInv
<1>8. ASSUME NEW r \in Submissions
      PROVE  /\ item[r].status # "none" => item'[r].status # "none"
             /\ item[r].status = "none" => item'[r].status = "none"
             /\ item[r].status \in Actions => item'[r].status = item[r].status
             /\ item'[r].status = "reject" => item[r].status = "reject" \/ item'[r].kind = "revision"
             /\ item'[r].status = "withdrawn" => item[r].status = "withdrawn"
  BY <1>1, <1>3, <1>5 DEF Actions
<1> QED BY <1>1, <1>3, <1>4, <1>5, <1>7, <1>8, QualityMoves

LEMMA StepInv ==
  ASSUME PublishingAssumption, Inv, [Next]_vars PROVE Inv'
<1>1. CASE CourseNext
  BY <1>1, GateDirectInv, GateStagedInv, WriteInv, CourseMovesInv, ReviewedInv, SubmitInv, WithdrawInv, ArchiveInv, CloseRevisionInv
     DEF CourseNext
<1>2. CASE RevisionNext
  BY <1>2, BeginSubmitInv, BeginDiscardInv, RevisionMovesInv, WithdrawRevisionInv, ApplyInv, ApplyFailsInv, EndSubmitInv,
     InstitutionPassesRevisionInv, StaleInv, BeginApplyInv
     DEF RevisionNext
<1>3. CASE QualityNext
  BY <1>3, ReceiveInv, ParkInv, RecheckInv, DecideInv DEF QualityNext
<1>4. CASE UNCHANGED vars
  <2>1. UNCHANGED <<status, institutional, live, staged, edit, closing, revision, submitting, applying, toQuality, item, handled, faults>>
    BY <1>4 DEF vars
  <2>2. TypeOK' /\ ApplyingHolds' /\ Decided'
    BY <2>1 DEF Inv, TypeOK, ApplyingHolds, Decided, OpenRevision
  <2> QED BY <2>1, <2>2, QueueKept, CourseKept, RevisionKept DEF Inv
<1> QED BY <1>1, <1>2, <1>3, <1>4 DEF Next

-----------------------------------------------------------------------------
(* The theorems                                                            *)

LEMMA InvHolds ==
  ASSUME PublishingAssumption PROVE Spec => []Inv
<1>1. Init => Inv
  BY InitInv
<1>2. Inv /\ [Next]_vars => Inv'
  BY StepInv
<1> QED BY <1>1, <1>2, PTL DEF Spec

\* The course, its update and the queue of quality keep their types.
THEOREM TypeCorrect ==
  ASSUME PublishingAssumption PROVE Spec => []TypeOK
<1>1. Inv => TypeOK
  BY DEF Inv
<1> QED BY <1>1, InvHolds, PTL

\* For any number of updates, submissions, decisions and failed handlers: what a
\* course or an update in review was last asked for is under way or waits for a
\* decision, unless an event was parked or an older one came too late, which
\* takes a failed handler (withdrawItems, closeOpenItems, inCourseOrder,
\* returnUnapplied).
THEOREM ReviewIsQueued ==
  ASSUME PublishingAssumption PROVE Spec => []InReviewIsQueued
<1>1. ASSUME Inv, NEW s \in Submissions, Current(s) PROVE Attended(s) /\ Newest(s)
  <2>1. item[s].status \in {"asked", "parked", "open", "overtaken"} \cup Actions
    BY <1>1 DEF Inv, TypeOK, ItemType, Current
  <2>2. item[s].status = "asked" => \E i \in DOMAIN toQuality : toQuality[i].item = s
    BY <1>1, UnderWay DEF Inv, QueueInv, Asked, Under
  <2> QED BY <1>1, <2>1, <2>2 DEF Attended, Awaits, Current
<1>2. Inv => InReviewIsQueued
  <2> SUFFICES ASSUME Inv PROVE InReviewIsQueued
    OBVIOUS
  <2>1. status = "submitted" => \E s \in Submissions : item[s].kind = "course" /\ Newest(s) /\ Attended(s)
    BY <1>1 DEF Inv, CourseQueued, CourseWaits
  <2>2. revision.status = "submitted" =>
          \E s \in Submissions : /\ item[s].kind = "revision" /\ Newest(s) /\ Attended(s)
                                 /\ item[s].number = revision.number /\ item[s].content = revision.hash
    BY <1>1 DEF Inv, RevisionQueued, RevisionWaits, Concerns
  <2>3. faults = 0 => \A s \in Submissions : item[s].status \notin {"overtaken", "parked"}
    BY DEF Inv, QueueInv, InTurn
  <2> QED BY <2>1, <2>2, <2>3 DEF InReviewIsQueued
<1> QED BY <1>2, InvHolds, PTL

\* For any number of edits, submissions and decisions: an update that is applied
\* is one an officer approved, with exactly the content that was approved
\* (onRevisionReviewed, decidable, applyInTransaction).
THEOREM LearnersSeeApproved ==
  ASSUME PublishingAssumption PROVE Spec => AppliedWasApproved
<1>0. ASSUME Inv, NEW t \in {"draft", "closed", "submitted"}, RevisionBecomes(t) PROVE revision'.status # "applied"
  <2>1. t \in RevisionStatuses /\ t # "applied"
    BY <1>0 DEF RevisionStatuses, OpenStatuses, InReview
  <2> QED BY <1>0, <2>1, RevisionChanges DEF Inv, RevisionBecomes
<1>1. ASSUME Inv, Next, revision'.status = "applied", revision.status # "applied" PROVE Apply
  <2>1. CASE CourseNext
    <3>1. CASE GateStaged
      BY <1>1, <3>1 DEF GateStaged, NewRevision
    <3>2. CASE CloseRevision
      BY <1>1, <1>0, <3>2 DEF CloseRevision
    <3>3. CASE CourseNext /\ ~GateStaged /\ ~CloseRevision
      <4>1. UNCHANGED revision
        BY <3>3 DEF CourseNext, GateDirect, Write, WriteRefused, InstitutionReturns, Withdraw, Archive, Restore, AdminRestore,
           Submit, InstitutionPasses, Appeal, Reviewed
      <4> QED BY <1>1, <4>1
    <3> QED BY <2>1, <3>1, <3>2, <3>3
  <2>2. CASE RevisionNext /\ ~Apply
    <3>1. CASE BeginSubmit \/ BeginDiscard
      BY <1>1, <3>1 DEF BeginSubmit, BeginDiscard, NewRevision
    <3>2. CASE InstitutionReturnsRevision \/ WithdrawRevision \/ Discard \/ ApplyFails
      BY <1>1, <1>0, <3>2 DEF InstitutionReturnsRevision, WithdrawRevision, Discard, ApplyFails, Returned
    <3>3. CASE \E s \in Submissions : InstitutionPassesRevision(s) \/ BeginApply(s) \/ Coach(s) \/ Reject(s)
      BY <1>1, <1>0, <3>3 DEF InstitutionPassesRevision, BeginApply, Coach, Reject
    <3>4. CASE \E s \in Submissions : Stale(s)
      BY <1>1, <3>4 DEF Stale
    <3>5. ASSUME NEW s \in Submissions, EndSubmit(s) PROVE Apply
      <4>1. submitting.hash \in SUBSET Changes
        BY <1>1 DEF Inv, TypeOK
      <4>2. {"institution_review", "submitted"} \subseteq RevisionStatuses
        BY DEF RevisionStatuses, OpenStatuses, InReview
      <4>3. revision' = revision \/ revision'.status \in {"institution_review", "submitted"}
        <5>1. CASE UNCHANGED revision
          BY <5>1
        <5>2. CASE revision' = [revision EXCEPT !.status = "institution_review", !.hash = submitting.hash]
          BY <1>1, <5>2, <4>1, <4>2, SubmittedRevision DEF Inv
        <5>3. CASE revision' = [revision EXCEPT !.status = "submitted", !.hash = submitting.hash]
          BY <1>1, <5>3, <4>1, <4>2, SubmittedRevision DEF Inv
        <5> QED BY <3>5, <5>1, <5>2, <5>3 DEF EndSubmit
      <4> QED BY <1>1, <4>3
    <3> QED BY <2>2, <3>1, <3>2, <3>3, <3>4, <3>5 DEF RevisionNext
  <2>3. CASE QualityNext
    BY <1>1, <2>3 DEF QualityNext, Receive, Park, Recheck, Decide
  <2> QED BY <1>1, <2>1, <2>2, <2>3 DEF Next
<1>2. Inv /\ [Next]_vars => [AppliesApproved]_vars
  <2> SUFFICES ASSUME Inv, Next, revision'.status = "applied", revision.status # "applied"
               PROVE  \E s \in Submissions : /\ item[s].status = "approve" /\ item[s].kind = "revision"
                                             /\ item[s].number = revision.number /\ live' = live \cup item[s].content
    BY DEF AppliesApproved, vars
  <2>1. Apply
    BY <1>1
  <2> QED BY <2>1 DEF Inv, ApplyingHolds, Apply, Unlocked, AppliedContent
<1> QED BY <1>2, InvHolds, PTL DEF Spec, AppliedWasApproved
=============================================================================
