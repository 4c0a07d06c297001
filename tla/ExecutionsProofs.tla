--------------------------- MODULE ExecutionsProofs ---------------------------
(***************************************************************************)
(* Theorems about the executions API, for any number of requests, manifests,*)
(* subscribers, crashes, refused writes and refused reads.                 *)
(***************************************************************************)
EXTENDS Executions, SequenceTheorems, FiniteSetTheorems, TLAPS

Statuses == {None, "pending", "allowed", "blocked"}
Requests ==
  [in : Inputs, preflight : BOOLEAN, follows : 0 .. MaxRequests,
   pc : {"create", "check", "screen", "update"} \cup Ends,
   verdict : {"none", "blocked", "allowed"}]

\* A preflight has no row to insert or update, an update has its verdict.
PathOK(i) ==
  /\ requests[i].pc \in {"create", "update"} => ~requests[i].preflight
  /\ requests[i].pc = "update" => requests[i].verdict \in {"allowed", "blocked"}

\* A row holds a verdict only once it was answered, and then that one.
RowOK(i) ==
  \/ rows[i] \in {None, "pending"}
  \/ Answered(i) /\ rows[i] = requests[i].verdict /\ ~requests[i].preflight

\* The executions whose row is not what their handler left there.
Astray(i) ==
  /\ ~requests[i].preflight
  /\ \/ requests[i].pc \in {"check", "screen", "update"} /\ rows[i] # "pending"
     \/ Answered(i) /\ rows[i] # requests[i].verdict
AstrayIds == {i \in Ids : Astray(i)}

\* What a preflight refused without hard mode is still refused, ...
RefusalOK(i) ==
  /\ requests[i].preflight
  /\ requests[i].pc \in {"screen", "answered"}
  /\ requests[i].verdict = "blocked"
  /\ ~hardMode
  => Reasons(i, FALSE) # {}

\* ... so that what follows it gets past the checks only by a misread.
FollowsOK(i) ==
  LET pre == requests[i].follows IN
  pre # 0 =>
    /\ ~requests[i].preflight
    /\ pre \in Ids /\ requests[pre].preflight /\ Answered(pre)
    /\ requests[pre].in = requests[i].in
    /\ requests[pre].verdict = "blocked" /\ ~hardMode /\ i \notin misread =>
         /\ requests[i].pc # "screen"
         /\ requests[i].pc \in {"update", "answered"} => requests[i].verdict = "blocked"

RequestOK(i) == PathOK(i) /\ RowOK(i) /\ RefusalOK(i) /\ FollowsOK(i)

Blocked(i) ==
  Answered(i) /\ ~requests[i].preflight /\ requests[i].verdict = "blocked"

\* A connection was told of blocked executions only, ...
NewsOK(c) == \A k \in DOMAIN inbox[c] : inbox[c][k] \in Ids /\ Blocked(inbox[c][k])

\* ... and, once, of those it subscribed to.
Due(c, i) ==
  /\ clients[c].open /\ clients[c].since < i
  /\ Matches(c, requests[i].in.owner)
  /\ Blocked(i)
ToldOnce(c, i) ==
  \E k \in DOMAIN inbox[c] : \A l \in DOMAIN inbox[c] : inbox[c][l] = i <=> l = k

ExecInv ==
  /\ ExecTypeOK
  /\ \A i \in Ids : RequestOK(i)
  /\ Cardinality(AstrayIds) <= lost
  /\ \A c \in Clients : NewsOK(c) /\ \A i \in Ids : Due(c, i) => ToldOnce(c, i)
-----------------------------------------------------------------------------
LEMMA Typed ==
  ASSUME ExecTypeOK
  PROVE  /\ requests \in Seq(Requests)
         /\ rows \in Seq(Statuses)
         /\ Len(requests) \in Nat
         /\ Len(requests) <= MaxRequests
         /\ Len(rows) = Len(requests)
         /\ Ids = 1 .. Len(requests)
         /\ DOMAIN rows = Ids
         /\ \A i \in Ids : requests[i] \in Requests /\ rows[i] \in Statuses
         /\ MaxRequests \in Nat
<1>1. requests \in Seq(Requests) /\ rows \in Seq(Statuses) /\ MaxRequests \in Nat
  BY ExecutionsAssumption DEF ExecTypeOK, Requests, Statuses
<1>2. /\ Len(requests) \in Nat /\ DOMAIN requests = 1 .. Len(requests)
      /\ DOMAIN rows = 1 .. Len(rows)
      /\ \A i \in 1 .. Len(requests) : requests[i] \in Requests
      /\ \A i \in 1 .. Len(rows) : rows[i] \in Statuses
  BY <1>1, LenProperties
<1>3. QED
  BY <1>1, <1>2 DEF ExecTypeOK, Ids

\* Manifests are not taken back and time does not run back: a reason stays.
LEMMA ReasonsStay ==
  ASSUME ExecTypeOK, NEW i \in Ids,
         stored \subseteq stored', now \in Nat, now' \in Nat, now <= now',
         requests'[i].in = requests[i].in,
         Reasons(i, FALSE) # {}
  PROVE  Reasons(i, FALSE)' # {}
<1>1. PICK in \in Inputs : in = requests[i].in /\ in = requests'[i].in
  BY Typed DEF Requests
<1>2. PICK m : m = Manifest[in.intent]
  OBVIOUS
<1>3. /\ CheckedBy(i, FALSE) /\ GetManifestByHash(in.intent, FALSE) = m
      /\ CheckedBy(i, FALSE)' /\ GetManifestByHash(in.intent, FALSE)' = m
      /\ in.intent \in Hashes
  BY <1>1, <1>2 DEF Reasons, CheckedBy, GetManifestByHash, ExecTypeOK
<1>4. Expired(m) => Expired(m)'
  BY <1>2, <1>3, ExecutionsAssumption DEF Expired
<1> DEFINE amountReason == IF in.amount # None /\ in.amount > m.cap
                           THEN {"AMOUNT_EXCEEDS_CAP"} ELSE {}
           targetReason == IF in.target # None /\ m.allowed # {}
                              /\ in.target \notin m.allowed
                           THEN {"COUNTERPARTY_NOT_ALLOWED"} ELSE {}
<1>5. Reasons(i, FALSE) = amountReason \cup targetReason
                     \cup (IF Expired(m) THEN {"INTENT_EXPIRED"} ELSE {})
  BY <1>1, <1>3 DEF Reasons
<1>6. Reasons(i, FALSE)' = amountReason \cup targetReason
                     \cup (IF Expired(m)' THEN {"INTENT_EXPIRED"} ELSE {})
  BY <1>1, <1>3 DEF Reasons
<1> HIDE DEF amountReason, targetReason
<1>7. QED
  BY <1>4, <1>5, <1>6
-----------------------------------------------------------------------------
(* A step touches the requests of S; the others keep what they have. *)

NewsInv == \A c \in Clients : NewsOK(c) /\ \A i \in Ids : Due(c, i) => ToldOnce(c, i)

Touches(S) ==
  /\ ExecTypeOK'
  /\ S \subseteq Ids' /\ Ids' = Ids \cup S
  /\ \A i \in Ids \ S : requests'[i] = requests[i] /\ rows'[i] = rows[i]
  /\ \A i \in S \cap Ids : ~Answered(i)
  /\ stored \subseteq stored' /\ now <= now' /\ hardMode' = hardMode
  /\ misread \subseteq misread'

LEMMA RequestsKept ==
  ASSUME ExecInv, NEW S, Touches(S), \A i \in S : RequestOK(i)'
  PROVE  \A i \in Ids' : RequestOK(i)'
<1>1. SUFFICES ASSUME NEW i \in Ids \ S
               PROVE  RequestOK(i)'
  BY DEF Touches
<1>2. /\ requests'[i] = requests[i] /\ rows'[i] = rows[i] /\ hardMode' = hardMode
      /\ PathOK(i) /\ RowOK(i) /\ RefusalOK(i) /\ FollowsOK(i)
  BY DEF Touches, ExecInv, RequestOK
<1>3. PathOK(i)' /\ RowOK(i)'
  BY <1>2 DEF PathOK, RowOK, Answered
<1>4. RefusalOK(i)'
  <2>1. /\ ExecTypeOK /\ stored \subseteq stored' /\ now <= now'
        /\ now \in Nat /\ now' \in Nat
    BY DEF Touches, ExecInv, ExecTypeOK
  <2>2. Reasons(i, FALSE) # {} => Reasons(i, FALSE)' # {}
    BY <1>2, <2>1, ReasonsStay
  <2>3. QED
    BY <1>2, <2>2 DEF RefusalOK
<1>5. FollowsOK(i)'
  <2>1. ASSUME NEW pre, pre = requests[i].follows, pre # 0
        PROVE  pre \in Ids /\ Answered(pre) /\ requests'[pre] = requests[pre]
               /\ pre \in Ids'
    <3>1. pre \in Ids /\ Answered(pre)
      BY <1>2, <2>1 DEF FollowsOK
    <3>2. QED
      BY <3>1 DEF Touches
  <2>2. misread \subseteq misread'
    BY DEF Touches
  <2>3. QED
    BY <1>2, <2>1, <2>2 DEF FollowsOK, Answered
<1>6. QED
  BY <1>3, <1>4, <1>5 DEF RequestOK

LEMMA AstrayFinite ==
  ASSUME ExecTypeOK
  PROVE  IsFiniteSet(AstrayIds) /\ Cardinality(AstrayIds) \in Nat
<1>1. IsFiniteSet(Ids)
  BY Typed, FS_Interval
<1>2. QED
  BY <1>1, FS_Subset, FS_CardinalityType DEF AstrayIds

\* At most one more goes astray with each write that is lost.
LEMMA AstrayCounted ==
  ASSUME ExecInv, ExecTypeOK', NEW i,
         \/ AstrayIds' \subseteq AstrayIds /\ lost' = lost
         \/ AstrayIds' \subseteq AstrayIds \cup {i} /\ lost' = lost + 1
  PROVE  Cardinality(AstrayIds') <= lost'
<1>1. /\ IsFiniteSet(AstrayIds) /\ Cardinality(AstrayIds) \in Nat
      /\ IsFiniteSet(AstrayIds') /\ Cardinality(AstrayIds') \in Nat
      /\ lost \in Nat
      /\ Cardinality(AstrayIds) <= lost
  <2>1. IsFiniteSet(Ids') /\ AstrayIds' \subseteq Ids'
    <3>1. Len(requests)' \in Nat /\ Ids' = 1 .. Len(requests')
      BY LenProperties DEF ExecTypeOK, Ids
    <3>2. QED
      BY <3>1, FS_Interval DEF AstrayIds
  <2>2. QED
    BY <2>1, AstrayFinite, FS_Subset, FS_CardinalityType DEF ExecInv, ExecTypeOK
<1>2. CASE AstrayIds' \subseteq AstrayIds /\ lost' = lost
  <2>1. Cardinality(AstrayIds') <= Cardinality(AstrayIds)
    BY <1>1, <1>2, FS_Subset
  <2>2. QED
    BY <1>1, <1>2, <2>1
<1>3. CASE AstrayIds' \subseteq AstrayIds \cup {i} /\ lost' = lost + 1
  <2>1. PICK T : T = AstrayIds \cup {i}
    OBVIOUS
  <2>2. /\ IsFiniteSet(T)
        /\ Cardinality(T) = Cardinality(AstrayIds) + 1
             \/ Cardinality(T) = Cardinality(AstrayIds)
    BY <1>1, <2>1, FS_AddElement
  <2>3. Cardinality(AstrayIds') <= Cardinality(T)
    BY <1>3, <2>1, <2>2, FS_Subset
  <2>4. QED
    BY <1>1, <1>3, <2>2, <2>3
<1>4. QED
  BY <1>2, <1>3

\* A step that tells nobody anything, when it blocks nothing.
LEMMA QuietNews ==
  ASSUME ExecInv, NEW S, Touches(S),
         inbox' = inbox,
         \A c \in Clients : clients'[c] = clients[c] \/ ~clients'[c].open,
         \A i \in S : ~Blocked(i)'
  PROVE  NewsInv'
<1>1. SUFFICES ASSUME NEW c \in Clients
               PROVE  NewsOK(c)' /\ \A i \in Ids' : Due(c, i)' => ToldOnce(c, i)'
  BY DEF NewsInv
<1>2. \A i \in Ids : Blocked(i) => i \in Ids' /\ Blocked(i)'
  BY DEF Touches, Blocked, Answered
<1>3. \A i \in Ids' : Blocked(i)' => i \in Ids /\ Blocked(i) /\ requests'[i] = requests[i]
  BY DEF Touches, Blocked, Answered
<1>4. NewsOK(c)'
  BY <1>2 DEF ExecInv, NewsOK
<1>5. ASSUME NEW i \in Ids', Due(c, i)'
      PROVE  ToldOnce(c, i)'
  <2>1. i \in Ids /\ Blocked(i) /\ requests'[i] = requests[i]
    BY <1>3, <1>5 DEF Due
  <2>2. clients'[c] = clients[c]
    BY <1>5 DEF Due
  <2>3. Due(c, i)
    BY <1>5, <2>1, <2>2 DEF Due, Matches
  <2>4. QED
    BY <2>1, <2>3 DEF ExecInv, ToldOnce
<1>6. QED
  BY <1>4, <1>5
-----------------------------------------------------------------------------
(* The handlers. *)

Pcs == {"create", "check", "screen", "update"} \cup Ends
Verdicts == {"none", "blocked", "allowed"}

\* Request i is moved on, and nothing but its row changes among the rows.
Moved(i, pc, verdict) ==
  /\ requests' \in Seq(Requests) /\ Len(requests') = Len(requests)
  /\ requests'[i].pc = pc /\ requests'[i].verdict = verdict
  /\ requests'[i].in = requests[i].in
  /\ requests'[i].preflight = requests[i].preflight
  /\ requests'[i].follows = requests[i].follows
  /\ \A j \in Ids \ {i} : requests'[j] = requests[j]

LEMMA SetMoves ==
  ASSUME ExecTypeOK, NEW i \in Ids, NEW pc \in Pcs, NEW verdict \in Verdicts,
         requests' = Set(i, pc, verdict)
  PROVE  Moved(i, pc, verdict)
<1>1. PICK q : q = [requests[i] EXCEPT !.pc = pc, !.verdict = verdict]
  OBVIOUS
<1>2. /\ q \in Requests /\ q.pc = pc /\ q.verdict = verdict
      /\ q.in = requests[i].in /\ q.preflight = requests[i].preflight
      /\ q.follows = requests[i].follows
  BY <1>1, Typed DEF Requests, Pcs, Verdicts
<1>3. requests' = [requests EXCEPT ![i] = q]
  BY <1>1, Typed DEF Set
<1>4. requests \in Seq(Requests) /\ i \in 1 .. Len(requests)
  BY Typed
<1>5. /\ requests' \in Seq(Requests) /\ Len(requests') = Len(requests)
      /\ \A j \in Ids : requests'[j] = IF j = i THEN q ELSE requests[j]
  BY <1>2, <1>3, <1>4, Typed, ExceptSeq
<1>6. QED
  BY <1>2, <1>5 DEF Moved

RowMoved(i) ==
  /\ rows' \in Seq(Statuses) /\ Len(rows') = Len(rows)
  /\ \A j \in Ids \ {i} : rows'[j] = rows[j]
  /\ faults' \in 0 .. MaxFaults /\ lost' \in Nat
  /\ misread \subseteq misread' /\ misread' \subseteq 1 .. MaxRequests

LEMMA StoreMoves ==
  ASSUME ExecTypeOK, NEW i \in Ids, NEW status \in Statuses, Store(i, status),
         UNCHANGED misread
  PROVE  /\ RowMoved(i)
         /\ \/ rows'[i] = status /\ lost' = lost
            \/ rows'[i] = rows[i] /\ lost' = lost + 1
<1>1. rows \in Seq(Statuses) /\ i \in 1 .. Len(rows) /\ Ids = 1 .. Len(rows)
  BY Typed
<1>2. CASE rows' = [rows EXCEPT ![i] = status] /\ UNCHANGED <<faults, lost>>
  <2>1. /\ rows' \in Seq(Statuses) /\ Len(rows') = Len(rows)
        /\ \A j \in Ids : rows'[j] = IF j = i THEN status ELSE rows[j]
    BY <1>1, <1>2, ExceptSeq
  <2>2. QED
    BY <1>2, <2>1 DEF RowMoved, ExecTypeOK
<1>3. CASE UNCHANGED rows /\ faults < MaxFaults /\ faults' = faults + 1
           /\ lost' = lost + 1
  BY <1>1, <1>3, ExecutionsAssumption DEF RowMoved, ExecTypeOK
<1>4. QED
  BY <1>2, <1>3 DEF Store

LEMMA RowStays ==
  ASSUME ExecTypeOK, NEW i \in Ids, UNCHANGED <<rows, faults, lost, misread>>
  PROVE  RowMoved(i) /\ rows'[i] = rows[i] /\ lost' = lost
BY Typed DEF RowMoved, ExecTypeOK

\* A handler that has not ended moves its request on.
LEMMA HandlerInv ==
  ASSUME ExecInv, NEW i \in Ids, NEW pc, NEW verdict, Moved(i, pc, verdict),
         RowMoved(i),
         requests[i].pc \notin Ends, UNCHANGED <<now, hardMode, stored, clients>>,
         inbox' \in [Clients -> Seq(1 .. MaxRequests)],
         RequestOK(i)',
         \/ (Astray(i)' => Astray(i)) /\ lost' = lost
         \/ lost' = lost + 1,
         \/ inbox' = inbox /\ ~Blocked(i)'
         \/ NewsInv'
  PROVE  ExecInv'
<1>1. Ids' = Ids /\ Ids = 1 .. Len(requests)
  <2>1. DOMAIN requests' = 1 .. Len(requests')
    BY LenProperties DEF Moved
  <2>2. QED
    BY <2>1, Typed DEF ExecInv, Ids, Moved
<1>2. ExecTypeOK'
  BY DEF ExecInv, ExecTypeOK, Moved, RowMoved, Requests, Statuses
<1>3. Touches({i})
  <2>1. now <= now'
    BY DEF ExecInv, ExecTypeOK
  <2>2. ~Answered(i)
    BY DEF Answered, Ends
  <2>3. \A j \in Ids \ {i} : requests'[j] = requests[j] /\ rows'[j] = rows[j]
    BY DEF Moved, RowMoved
  <2>4. misread \subseteq misread'
    BY DEF RowMoved
  <2>5. QED
    BY <1>1, <1>2, <2>1, <2>2, <2>3, <2>4 DEF Touches
<1>4. \A j \in Ids' : RequestOK(j)'
  BY <1>3, RequestsKept
<1>5. Cardinality(AstrayIds') <= lost'
  <2>1. \A j \in Ids \ {i} : Astray(j)' <=> Astray(j)
    BY DEF Moved, RowMoved, Astray, Answered
  <2>2. AstrayIds' = {j \in Ids : Astray(j)'}
    BY <1>1 DEF AstrayIds
  <2>3. AstrayIds' \subseteq AstrayIds \cup {i}
    BY <2>1, <2>2 DEF AstrayIds
  <2>4. (Astray(i)' => Astray(i)) => AstrayIds' \subseteq AstrayIds
    BY <2>1, <2>2 DEF AstrayIds
  <2>5. QED
    BY <1>2, <2>3, <2>4, AstrayCounted
<1>6. NewsInv'
  BY <1>3, QuietNews
<1>7. QED
  BY <1>2, <1>4, <1>5, <1>6 DEF ExecInv, NewsInv

LEMMA RequestFacts ==
  ASSUME ExecInv, NEW i \in Ids
  PROVE  /\ ExecTypeOK /\ RequestOK(i)
         /\ requests[i] \in Requests /\ rows[i] \in Statuses
         /\ requests[i].in \in Inputs /\ requests[i].preflight \in BOOLEAN
         /\ requests[i].pc \in Pcs /\ requests[i].verdict \in Verdicts
BY Typed DEF ExecInv, Requests, Pcs, Verdicts

\* A request that follows another does not change what it follows.
LEMMA FollowedStays ==
  ASSUME ExecInv, NEW i \in Ids, NEW pc, NEW verdict, Moved(i, pc, verdict),
         requests[i].pc \notin Ends, hardMode' = hardMode,
         requests[i].follows # 0
  PROVE  LET pre == requests[i].follows IN
         /\ pre \in Ids /\ pre # i
         /\ requests'[pre] = requests[pre]
         /\ ~requests[i].preflight /\ requests[pre].preflight /\ Answered(pre)
         /\ requests[pre].in = requests[i].in
         /\ requests[pre].verdict = "blocked" /\ ~hardMode => Reasons(i, FALSE) # {}
<1> DEFINE pre == requests[i].follows
<1>1. /\ pre \in Ids /\ requests[pre].preflight /\ Answered(pre)
      /\ requests[pre].in = requests[i].in /\ ~requests[i].preflight
  BY RequestFacts DEF RequestOK, FollowsOK
<1>2. pre # i
  BY <1>1 DEF Answered, Ends
<1>3. RefusalOK(pre)
  BY <1>1, RequestFacts DEF RequestOK
<1>4. requests[pre].verdict = "blocked" /\ ~hardMode => Reasons(pre, FALSE) # {}
  BY <1>1, <1>3 DEF RefusalOK, Answered
<1>5. Reasons(pre, FALSE) = Reasons(i, FALSE)
  BY <1>1 DEF Reasons, CheckedBy
<1>6. QED
  BY <1>1, <1>2, <1>4, <1>5 DEF Moved

\* What is owed to FollowsOK, given where the request goes.
LEMMA FollowsMoved ==
  ASSUME ExecInv, NEW i \in Ids, NEW pc, NEW verdict, Moved(i, pc, verdict),
         requests[i].pc \notin Ends, hardMode' = hardMode,
         LET pre == requests[i].follows IN
           pre # 0 /\ requests[pre].verdict = "blocked" /\ ~hardMode /\ i \notin misread' =>
             /\ pc # "screen"
             /\ pc \in {"update", "answered"} => verdict = "blocked"
  PROVE  FollowsOK(i)'
<1>1. Ids' = Ids
  <2>1. DOMAIN requests' = 1 .. Len(requests')
    BY LenProperties DEF Moved
  <2>2. QED
    BY <2>1, Typed DEF ExecInv, Ids, Moved
<1>2. /\ requests'[i].follows = requests[i].follows
      /\ requests'[i].in = requests[i].in
      /\ requests'[i].preflight = requests[i].preflight
      /\ requests'[i].pc = pc /\ requests'[i].verdict = verdict
  BY DEF Moved
<1>3. CASE requests[i].follows = 0
  BY <1>2, <1>3 DEF FollowsOK
<1>4. CASE requests[i].follows # 0
  <2>1. PICK pre : pre = requests[i].follows
    OBVIOUS
  <2>2. /\ pre \in Ids /\ requests'[pre] = requests[pre]
        /\ ~requests[i].preflight /\ requests[pre].preflight /\ Answered(pre)
        /\ requests[pre].in = requests[i].in
    BY <1>4, <2>1, FollowedStays
  <2>3. QED
    BY <1>1, <1>2, <1>4, <2>1, <2>2 DEF FollowsOK, Answered
<1>5. QED
  BY <1>3, <1>4

LEMMA InboxTyped ==
  ASSUME ExecInv, UNCHANGED inbox
  PROVE  inbox' \in [Clients -> Seq(1 .. MaxRequests)]
BY DEF ExecInv, ExecTypeOK

LEMMA InsertInv ==
  ASSUME ExecInv, NEW i \in Ids, InsertExecution(i), hardMode' = hardMode
  PROVE  ExecInv'
<1>1. /\ requests[i].pc = "create"
      /\ Store(i, "pending")
      /\ requests' = Set(i, "check", "none")
      /\ UNCHANGED <<now, stored, clients, inbox, misread>>
  BY DEF InsertExecution
<1>2. Moved(i, "check", "none") /\ requests[i].pc \notin Ends
  BY <1>1, RequestFacts, SetMoves DEF Pcs, Verdicts, Ends
<1>3. /\ RowMoved(i)
      /\ \/ rows'[i] = "pending" /\ lost' = lost
         \/ rows'[i] = rows[i] /\ lost' = lost + 1
  BY <1>1, RequestFacts, StoreMoves DEF Statuses
<1>4. rows[i] \in {None, "pending"} /\ ~requests[i].preflight
  BY <1>1, RequestFacts DEF RequestOK, RowOK, PathOK, Answered
<1>5. requests'[i].pc = "check" /\ requests'[i].preflight = requests[i].preflight
  BY <1>2 DEF Moved
<1>6. PathOK(i)' /\ RowOK(i)' /\ RefusalOK(i)' /\ ~Blocked(i)'
  BY <1>3, <1>4, <1>5 DEF PathOK, RowOK, RefusalOK, Blocked, Answered
<1>7. FollowsOK(i)'
  BY <1>2, FollowsMoved
<1>8. ((Astray(i)' => Astray(i)) /\ lost' = lost) \/ lost' = lost + 1
  BY <1>3, <1>5 DEF Astray, Answered
<1>9. RequestOK(i)'
  BY <1>6, <1>7 DEF RequestOK
<1>10. QED
  BY <1>1, <1>2, <1>3, <1>6, <1>8, <1>9, InboxTyped, HandlerInv

LEMMA ChecksInv ==
  ASSUME ExecInv, NEW i \in Ids, RunDeterministicChecks(i), hardMode' = hardMode
  PROVE  ExecInv'
<1>1. /\ requests[i].pc = "check"
      /\ UNCHANGED <<now, stored, rows, clients, inbox, lost>>
  BY DEF RunDeterministicChecks
<1>2. PICK pc \in Pcs, verdict \in Verdicts :
        /\ requests' = Set(i, pc, verdict)
        /\ \/ pc = "failed" /\ verdict = "none"
           \/ pc = "screen" /\ verdict = "none"
              /\ (Reasons(i, FALSE) = {} \/ i \in misread')
           \/ pc = "screen" /\ verdict = "blocked" /\ requests[i].preflight
              /\ Reasons(i, FALSE) # {}
           \/ pc = "update" /\ verdict = "blocked" /\ ~requests[i].preflight
  <2>0. PICK refused \in BOOLEAN :
          /\ ReadManifest(i, refused)
          /\ requests' =
               IF Throws(i, refused) THEN Set(i, "failed", "none")
               ELSE IF Reasons(i, refused) = {} THEN Set(i, "screen", "none")
               ELSE IF requests[i].preflight THEN Set(i, "screen", "blocked")
               ELSE Set(i, "update", "blocked")
    BY DEF RunDeterministicChecks
  <2>1. CASE refused
    <3>1. i \in misread'
      BY <2>0, <2>1 DEF ReadManifest
    <3>2. ~CheckedBy(i, refused)
      BY <2>1 DEF CheckedBy, GetManifestByHash
    <3>3. requests' = Set(i, "screen", "none")
      BY <2>0, <3>2 DEF Throws, Reasons
    <3>4. QED
      BY <3>1, <3>3 DEF Pcs, Verdicts
  <2>2. CASE ~refused /\ Throws(i, FALSE)
    BY <2>0, <2>2 DEF Pcs, Verdicts, Ends
  <2>3. CASE ~refused /\ ~Throws(i, FALSE) /\ Reasons(i, FALSE) = {}
    BY <2>0, <2>3 DEF Pcs, Verdicts, Ends
  <2>4. CASE ~refused /\ ~Throws(i, FALSE) /\ Reasons(i, FALSE) # {} /\ requests[i].preflight
    BY <2>0, <2>4 DEF Pcs, Verdicts, Ends
  <2>5. CASE ~refused /\ ~Throws(i, FALSE) /\ Reasons(i, FALSE) # {} /\ ~requests[i].preflight
    BY <2>0, <2>5 DEF Pcs, Verdicts, Ends
  <2>6. QED
    BY <2>1, <2>2, <2>3, <2>4, <2>5
<1>3. Moved(i, pc, verdict) /\ requests[i].pc \notin Ends
  BY <1>1, <1>2, RequestFacts, SetMoves DEF Ends
<1>4. RowMoved(i) /\ rows'[i] = rows[i] /\ lost' = lost
  <2>1. UNCHANGED <<rows, lost>>
    BY <1>1
  <2>2. /\ faults' \in 0 .. MaxFaults
        /\ misread \subseteq misread' /\ misread' \subseteq 1 .. MaxRequests
    <3>1. PICK refused \in BOOLEAN : ReadManifest(i, refused)
      BY DEF RunDeterministicChecks
    <3>2. ExecTypeOK /\ i \in 1 .. MaxRequests
      BY Typed, RequestFacts
    <3>3. CASE refused
      <4>1. /\ faults < MaxFaults /\ faults' = faults + 1
            /\ misread' = misread \cup {i}
        BY <3>1, <3>3 DEF ReadManifest
      <4>2. faults \in 0 .. MaxFaults /\ misread \subseteq 1 .. MaxRequests /\ MaxFaults \in Nat
        BY <3>2, ExecutionsAssumption DEF ExecTypeOK
      <4>3. QED
        BY <3>2, <4>1, <4>2
    <3>4. CASE ~refused
      BY <3>1, <3>2, <3>4 DEF ReadManifest, ExecTypeOK
    <3>5. QED
      BY <3>3, <3>4
  <2>3. QED
    BY <2>1, <2>2, RequestFacts, Typed DEF RowMoved, ExecTypeOK
<1>5. /\ requests'[i].pc = pc /\ requests'[i].verdict = verdict
      /\ requests'[i].in = requests[i].in
      /\ requests'[i].preflight = requests[i].preflight
  BY <1>3 DEF Moved
<1>6. PathOK(i)' /\ RowOK(i)' /\ ~Blocked(i)'
  BY <1>1, <1>2, <1>4, <1>5, RequestFacts
     DEF RequestOK, PathOK, RowOK, Blocked, Answered
<1>7. RefusalOK(i)'
  <2>1. Reasons(i, FALSE)' = Reasons(i, FALSE)
    BY <1>1, <1>5 DEF Reasons, CheckedBy, GetManifestByHash, Expired
  <2>2. QED
    BY <1>2, <1>5, <2>1 DEF RefusalOK
<1>8. FollowsOK(i)'
  <2>1. requests[i].follows # 0 => ~requests[i].preflight
    BY RequestFacts DEF RequestOK, FollowsOK
  <2>2. LET pre == requests[i].follows IN
          pre # 0 /\ requests[pre].verdict = "blocked" /\ ~hardMode =>
            Reasons(i, FALSE) # {}
    BY <1>3, FollowedStays
  <2>3. QED
    BY <1>2, <1>3, <2>1, <2>2, FollowsMoved
<1>9. Astray(i)' => Astray(i)
  BY <1>1, <1>2, <1>4, <1>5 DEF Astray, Answered
<1>10. RequestOK(i)'
  BY <1>6, <1>7, <1>8 DEF RequestOK
<1>11. QED
  BY <1>1, <1>3, <1>4, <1>6, <1>9, <1>10, InboxTyped, HandlerInv

LEMMA ScreenInv ==
  ASSUME ExecInv, NEW i \in Ids, ScreenTrace(i), hardMode' = hardMode
  PROVE  ExecInv'
<1>1. /\ requests[i].pc = "screen"
      /\ UNCHANGED <<now, stored, rows, clients, inbox, faults, lost, misread>>
  BY DEF ScreenTrace
<1>2. PICK pc \in Pcs, verdict \in Verdicts :
        /\ requests' = Set(i, pc, verdict)
        /\ pc = IF requests[i].preflight THEN "answered" ELSE "update"
        /\ verdict \in {"blocked", "allowed"}
        /\ verdict = "blocked" /\ ~hardMode => requests[i].verdict = "blocked"
  BY DEF ScreenTrace, Pcs, Verdicts, Ends, HardModeBlock
<1>3. Moved(i, pc, verdict) /\ requests[i].pc \notin Ends
  BY <1>1, <1>2, RequestFacts, SetMoves DEF Ends
<1>4. RowMoved(i) /\ rows'[i] = rows[i] /\ lost' = lost
  BY <1>1, RequestFacts, RowStays
<1>5. /\ requests'[i].pc = pc /\ requests'[i].verdict = verdict
      /\ requests'[i].in = requests[i].in
      /\ requests'[i].preflight = requests[i].preflight
  BY <1>3 DEF Moved
<1>6. PathOK(i)' /\ RowOK(i)' /\ ~Blocked(i)'
  BY <1>1, <1>2, <1>4, <1>5, RequestFacts
     DEF RequestOK, PathOK, RowOK, Blocked, Answered
<1>7. RefusalOK(i)'
  <2>1. Reasons(i, FALSE)' = Reasons(i, FALSE)
    BY <1>1, <1>5 DEF Reasons, CheckedBy, GetManifestByHash, Expired
  <2>2. RefusalOK(i)
    BY RequestFacts DEF RequestOK
  <2>3. QED
    BY <1>1, <1>2, <1>5, <2>1, <2>2 DEF RefusalOK
<1>8. FollowsOK(i)'
  <2>1. FollowsOK(i)
    BY RequestFacts DEF RequestOK
  <2>2. QED
    BY <1>1, <1>2, <1>3, <2>1, FollowsMoved DEF FollowsOK
<1>9. Astray(i)' => Astray(i)
  BY <1>1, <1>2, <1>4, <1>5 DEF Astray, Answered
<1>10. RequestOK(i)'
  BY <1>6, <1>7, <1>8 DEF RequestOK
<1>11. QED
  BY <1>1, <1>3, <1>4, <1>6, <1>9, <1>10, InboxTyped, HandlerInv

\* Telling the subscribers of i, which just became blocked.
LEMMA EmitTells ==
  ASSUME ExecInv, NEW i \in Ids, ~Answered(i), Blocked(i)', EmitBlocked(i),
         Ids' = Ids, UNCHANGED clients,
         requests'[i].in = requests[i].in,
         \A j \in Ids \ {i} : requests'[j] = requests[j]
  PROVE  NewsInv' /\ inbox' \in [Clients -> Seq(1 .. MaxRequests)]
<1>1. i \in 1 .. MaxRequests
  BY Typed DEF ExecInv
<1>2. inbox \in [Clients -> Seq(1 .. MaxRequests)]
  BY DEF ExecInv, ExecTypeOK
<1>3. ASSUME NEW c \in Clients
      PROVE  LET told == clients[c].open /\ Matches(c, requests[i].in.owner) IN
             /\ inbox'[c] \in Seq(1 .. MaxRequests)
             /\ Len(inbox[c]) \in Nat
             /\ DOMAIN inbox[c] = 1 .. Len(inbox[c])
             /\ \A k \in 1 .. Len(inbox[c]) : inbox'[c][k] = inbox[c][k]
             /\ told => /\ DOMAIN inbox'[c] = 1 .. Len(inbox[c]) + 1
                        /\ inbox'[c][Len(inbox[c]) + 1] = i
             /\ ~told => inbox'[c] = inbox[c]
  <2>1. /\ inbox[c] \in Seq(1 .. MaxRequests)
        /\ Len(inbox[c]) \in Nat /\ DOMAIN inbox[c] = 1 .. Len(inbox[c])
    BY <1>2, LenProperties
  <2>2. CASE clients[c].open /\ Matches(c, requests[i].in.owner)
    <3>1. inbox'[c] = Append(inbox[c], i)
      BY <2>2 DEF EmitBlocked
    <3>2. QED
      BY <1>1, <2>1, <2>2, <3>1, AppendProperties
  <2>3. CASE ~(clients[c].open /\ Matches(c, requests[i].in.owner))
    <3>1. inbox'[c] = inbox[c]
      BY <2>3 DEF EmitBlocked
    <3>2. QED
      BY <2>1, <2>3, <3>1
  <2>4. QED
    BY <2>2, <2>3
<1>4. inbox' \in [Clients -> Seq(1 .. MaxRequests)]
  BY <1>3 DEF EmitBlocked
<1>5. SUFFICES ASSUME NEW c \in Clients
               PROVE  NewsOK(c)' /\ \A j \in Ids : Due(c, j)' => ToldOnce(c, j)'
  BY <1>4 DEF NewsInv
<1> DEFINE n == Len(inbox[c])
<1>6. NewsOK(c) /\ \A j \in Ids : Due(c, j) => ToldOnce(c, j)
  BY DEF ExecInv
<1>7. \A j \in Ids \ {i} : Blocked(j)' <=> Blocked(j)
  BY DEF Blocked, Answered
<1>8. ~Blocked(i) /\ \A k \in 1 .. n : inbox[c][k] # i
  BY <1>3, <1>6 DEF Blocked, NewsOK
<1>9. NewsOK(c)'
  <2>1. \A k \in 1 .. n : \E j \in Ids : j = inbox[c][k] /\ Blocked(j)'
    BY <1>3, <1>6, <1>7, <1>8 DEF NewsOK
  <2>2. DOMAIN inbox'[c] = 1 .. n
        \/ (DOMAIN inbox'[c] = 1 .. n + 1 /\ inbox'[c][n + 1] = i)
    BY <1>3
  <2>3. \A k \in DOMAIN inbox'[c] : \E j \in Ids' : j = inbox'[c][k] /\ Blocked(j)'
    BY <1>3, <2>1, <2>2
  <2>4. QED
    BY <2>3 DEF NewsOK, Blocked, Answered
<1>10. ASSUME NEW j \in Ids, Due(c, j)'
       PROVE  ToldOnce(c, j)'
  <2>1. CASE j = i
    <3>1. clients[c].open /\ Matches(c, requests[i].in.owner)
      BY <1>10, <2>1 DEF Due, Matches
    <3>2. /\ DOMAIN inbox'[c] = 1 .. n + 1
          /\ inbox'[c][n + 1] = i
          /\ \A k \in 1 .. n : inbox'[c][k] # i
      BY <1>3, <1>8, <3>1
    <3>3. n \in Nat
      BY <1>3
    <3> HIDE DEF n
    <3>4. n + 1 \in DOMAIN inbox'[c]
          /\ \A l \in DOMAIN inbox'[c] : inbox'[c][l] = i <=> l = n + 1
      BY <3>2, <3>3
    <3>5. QED
      BY <2>1, <3>4 DEF ToldOnce
  <2>2. CASE j # i
    <3>1. Due(c, j)
      BY <1>7, <1>10, <2>2 DEF Due, Matches
    <3>2. PICK k \in DOMAIN inbox[c] : \A l \in DOMAIN inbox[c] : inbox[c][l] = j <=> l = k
      BY <1>6, <3>1 DEF ToldOnce
    <3>3. DOMAIN inbox'[c] = 1 .. n
          \/ (DOMAIN inbox'[c] = 1 .. n + 1 /\ inbox'[c][n + 1] = i)
      BY <1>3
    <3>4. \A l \in DOMAIN inbox'[c] : inbox'[c][l] = j <=> l = k
      BY <1>3, <2>2, <3>2, <3>3
    <3>5. k \in DOMAIN inbox'[c]
      BY <1>3, <3>2, <3>3
    <3>6. QED
      BY <3>4, <3>5 DEF ToldOnce
  <2>3. QED
    BY <2>1, <2>2
<1>11. QED
  BY <1>9, <1>10

LEMMA UpdateInv ==
  ASSUME ExecInv, NEW i \in Ids, UpdateExecution(i), hardMode' = hardMode
  PROVE  ExecInv'
<1> DEFINE verdict == requests[i].verdict
<1>1. /\ requests[i].pc = "update"
      /\ Store(i, IF rows[i] = None THEN None ELSE verdict)
      /\ IF verdict = "blocked" THEN EmitBlocked(i) ELSE UNCHANGED inbox
      /\ UNCHANGED <<now, stored, clients, misread>>
  BY DEF UpdateExecution, RowStatus
<1>2. /\ verdict \in {"allowed", "blocked"} /\ ~requests[i].preflight
      /\ rows[i] \in {None, "pending"} /\ FollowsOK(i)
      /\ ExecTypeOK
  BY <1>1, RequestFacts DEF RequestOK, PathOK, RowOK, Answered
<1>3. Moved(i, "answered", requests[i].verdict)
  <2>1. requests' = [requests EXCEPT ![i].pc = "answered"]
    BY DEF UpdateExecution
  <2>2. requests' = Set(i, "answered", requests[i].verdict)
    <3>1. requests[i] \in Requests /\ requests \in Seq(Requests)
      BY <1>2, Typed
    <3>2. [requests[i] EXCEPT !.pc = "answered"]
            = [requests[i] EXCEPT !.pc = "answered", !.verdict = requests[i].verdict]
      BY <3>1 DEF Requests
    <3>3. QED
      BY <2>1, <3>1, <3>2 DEF Set
  <2>3. QED
    BY <1>2, <2>2, SetMoves DEF Pcs, Verdicts, Ends
<1>4. Ids' = Ids
  <2>1. DOMAIN requests' = 1 .. Len(requests')
    BY <1>3, LenProperties DEF Moved
  <2>2. QED
    BY <1>2, <1>3, <2>1, Typed DEF Ids, Moved
<1>5. /\ RowMoved(i)
      /\ \/ rows'[i] = (IF rows[i] = None THEN None ELSE verdict) /\ lost' = lost
         \/ rows'[i] = rows[i] /\ lost' = lost + 1
  BY <1>1, <1>2, StoreMoves DEF Statuses
<1>6. /\ requests'[i].pc = "answered" /\ requests'[i].verdict = verdict
      /\ requests'[i].in = requests[i].in
      /\ requests'[i].preflight = requests[i].preflight
      /\ \A j \in Ids \ {i} : requests'[j] = requests[j]
  BY <1>3 DEF Moved
<1>7. PathOK(i)' /\ RowOK(i)' /\ RefusalOK(i)'
  BY <1>2, <1>5, <1>6 DEF PathOK, RowOK, RefusalOK, Answered
<1>8. FollowsOK(i)'
  BY <1>1, <1>2, <1>3, FollowsMoved DEF FollowsOK, Ends
<1>9. ((Astray(i)' => Astray(i)) /\ lost' = lost) \/ lost' = lost + 1
  <2>1. rows[i] = None => Astray(i)
    BY <1>1, <1>2, ExecutionsAssumption DEF Astray
  <2>2. QED
    BY <1>2, <1>5, <1>6, <2>1 DEF Astray, Answered
<1>10. RequestOK(i)'
  BY <1>7, <1>8 DEF RequestOK
<1>11. /\ inbox' \in [Clients -> Seq(1 .. MaxRequests)]
       /\ (inbox' = inbox /\ ~Blocked(i)') \/ NewsInv'
  <2>1. CASE verdict = "blocked"
    <3>1. Blocked(i)' /\ ~Answered(i)
      BY <1>1, <1>2, <1>6, <2>1 DEF Blocked, Answered
    <3>2. QED
      BY <1>1, <1>4, <1>6, <2>1, <3>1, EmitTells
  <2>2. CASE verdict # "blocked"
    BY <1>1, <1>6, <2>2, InboxTyped DEF Blocked
  <2>3. QED
    BY <2>1, <2>2
<1>12. requests[i].pc \notin Ends
  BY <1>1 DEF Ends
<1>13. QED
  BY <1>1, <1>3, <1>5, <1>9, <1>10, <1>11, <1>12, HandlerInv
-----------------------------------------------------------------------------
(* The rest of the system. *)

LEMMA SubmitInv ==
  ASSUME ExecInv, NEW in \in Inputs, NEW preflight \in BOOLEAN,
         NEW follows \in {0} \cup Ids, Submit(in, preflight, follows),
         follows # 0 => /\ ~preflight
                        /\ requests[follows].preflight /\ requests[follows].in = in
                        /\ Answered(follows),
         hardMode' = hardMode
  PROVE  ExecInv'
<1>0. PICK new : new = Len(requests) + 1
  OBVIOUS
<1>1. PICK q : q = [in |-> in, preflight |-> preflight, follows |-> follows,
                    pc |-> IF preflight THEN "check" ELSE "create",
                    verdict |-> "none"]
  OBVIOUS
<1>2. /\ Len(requests) < MaxRequests
      /\ requests' = Append(requests, q)
      /\ rows' = Append(rows, None)
      /\ UNCHANGED <<now, stored, clients, inbox, faults, lost, misread>>
  BY <1>1 DEF Submit
<1>3. /\ requests \in Seq(Requests) /\ rows \in Seq(Statuses)
      /\ Len(requests) \in Nat /\ Len(rows) = Len(requests)
      /\ Ids = 1 .. Len(requests) /\ MaxRequests \in Nat
  BY Typed DEF ExecInv
<1>4. q \in Requests /\ None \in Statuses
  BY <1>1, <1>2, <1>3 DEF Requests, Statuses
<1>5. /\ requests' \in Seq(Requests) /\ rows' \in Seq(Statuses)
      /\ Len(requests') = new /\ Len(rows') = new
      /\ \A i \in Ids : requests'[i] = requests[i] /\ rows'[i] = rows[i]
      /\ requests'[new] = q /\ rows'[new] = None
  BY <1>0, <1>2, <1>3, <1>4, AppendProperties
<1>6. Ids' = 1 .. new
  BY <1>5, LenProperties DEF Ids
<1>7. Ids' = Ids \cup {new} /\ new \notin Ids /\ new # 0
  BY <1>0, <1>3, <1>6
<1>8. ExecTypeOK'
  BY <1>0, <1>2, <1>3, <1>5 DEF ExecInv, ExecTypeOK, Requests, Statuses
<1>9. Touches({new})
  <2>1. now <= now' /\ stored \subseteq stored' /\ hardMode' = hardMode /\ misread' = misread
    BY <1>2 DEF ExecInv, ExecTypeOK
  <2>2. \A i \in Ids \ {new} : requests'[i] = requests[i] /\ rows'[i] = rows[i]
    BY <1>5
  <2>3. {new} \cap Ids = {}
    BY <1>7
  <2>4. QED
    BY <1>7, <1>8, <2>1, <2>2, <2>3 DEF Touches
<1>10. /\ requests'[new].pc = IF preflight THEN "check" ELSE "create"
       /\ requests'[new].preflight = preflight /\ requests'[new].follows = follows
       /\ requests'[new].in = in
  BY <1>1, <1>5
<1>11. PathOK(new)' /\ RowOK(new)' /\ RefusalOK(new)' /\ ~Blocked(new)' /\ ~Astray(new)'
  BY <1>5, <1>10 DEF PathOK, RowOK, RefusalOK, Blocked, Answered, Astray
<1>12. FollowsOK(new)'
  <2>1. follows # 0 => /\ follows \in Ids /\ follows \in Ids'
                       /\ requests'[follows] = requests[follows]
    BY <1>5, <1>7
  <2>2. QED
    BY <1>10, <2>1 DEF FollowsOK, Answered
<1>13. \A i \in Ids' : RequestOK(i)'
  BY <1>9, <1>11, <1>12, RequestsKept DEF RequestOK
<1>14. Cardinality(AstrayIds') <= lost'
  <2>1. AstrayIds' = {i \in Ids' : Astray(i)'}
    BY DEF AstrayIds
  <2>2. \A i \in Ids : Astray(i)' => Astray(i)
    BY <1>5 DEF Astray, Answered
  <2>3. AstrayIds' \subseteq AstrayIds
    BY <1>7, <1>11, <2>1, <2>2 DEF AstrayIds
  <2>4. QED
    BY <1>2, <1>8, <2>3, AstrayCounted
<1>15. NewsInv'
  BY <1>2, <1>9, <1>11, QuietNews
<1>16. QED
  BY <1>8, <1>13, <1>14, <1>15 DEF ExecInv, NewsInv

\* Steps that leave the requests and their rows alone.
LEMMA AroundInv ==
  ASSUME ExecInv, ExecTypeOK', UNCHANGED <<requests, rows, lost, misread, hardMode>>,
         stored \subseteq stored', now <= now', NewsInv'
  PROVE  ExecInv'
<1>1. Touches({})
  BY DEF Touches, Ids
<1>2. \A i \in Ids' : RequestOK(i)'
  BY <1>1, RequestsKept
<1>3. AstrayIds' = AstrayIds
  BY DEF AstrayIds, Astray, Answered, Ids
<1>4. QED
  BY <1>2, <1>3 DEF ExecInv, NewsInv

LEMMA PostOrTickInv ==
  ASSUME ExecInv, hardMode' = hardMode,
         (\E h \in Hashes : PostManifest(h)) \/ Tick \/ UNCHANGED vars
  PROVE  ExecInv'
<1>1. /\ UNCHANGED <<requests, rows, lost, misread, clients, inbox, faults>>
      /\ stored \subseteq stored' /\ stored' \subseteq Hashes
      /\ now <= now' /\ now' \in 0 .. MaxTime
  BY ExecutionsAssumption DEF PostManifest, Tick, vars, ExecInv, ExecTypeOK
<1>2. ExecTypeOK'
  BY <1>1 DEF ExecInv, ExecTypeOK
<1>3. Touches({})
  BY <1>1, <1>2 DEF Touches, Ids
<1>4. NewsInv'
  BY <1>1, <1>3, QuietNews
<1>5. QED
  BY <1>1, <1>2, <1>4, AroundInv

LEMMA DisconnectInv ==
  ASSUME ExecInv, hardMode' = hardMode, NEW c \in Clients, Disconnect(c)
  PROVE  ExecInv'
<1>1. /\ clients' = [clients EXCEPT ![c] = Offline]
      /\ UNCHANGED <<now, stored, requests, rows, inbox, faults, lost, misread>>
  BY DEF Disconnect
<1>2. Offline \in [open : BOOLEAN, owner : Owners \cup {None}, since : 0 .. MaxRequests]
      /\ ~Offline.open
  BY ExecutionsAssumption DEF Offline
<1> HIDE DEF Offline
<1>3. ExecTypeOK' /\ now <= now'
  BY <1>1, <1>2 DEF ExecInv, ExecTypeOK
<1>4. \A b \in Clients : clients'[b] = clients[b] \/ ~clients'[b].open
  BY <1>1, <1>2 DEF ExecInv, ExecTypeOK
<1>5. Touches({})
  BY <1>1, <1>3 DEF Touches, Ids
<1>6. NewsInv'
  BY <1>1, <1>4, <1>5, QuietNews
<1>7. QED
  BY <1>1, <1>3, <1>6, AroundInv

LEMMA SubscribeInv ==
  ASSUME ExecInv, hardMode' = hardMode,
         NEW c \in Clients, NEW o \in Owners \cup {None}, Subscribe(c, o)
  PROVE  ExecInv'
<1>1. /\ clients' = [clients EXCEPT ![c] =
           [open |-> TRUE, owner |-> o, since |-> Len(requests)]]
      /\ inbox' = [inbox EXCEPT ![c] = <<>>]
      /\ UNCHANGED <<now, stored, requests, rows, faults, lost, misread>>
  BY DEF Subscribe
<1>2. /\ clients \in [Clients -> [open : BOOLEAN, owner : Owners \cup {None},
                                  since : 0 .. MaxRequests]]
      /\ inbox \in [Clients -> Seq(1 .. MaxRequests)]
      /\ Len(requests) \in 0 .. MaxRequests
      /\ Ids = 1 .. Len(requests) /\ Ids' = Ids
  BY <1>1, Typed DEF ExecInv, ExecTypeOK, Ids
<1>3. ExecTypeOK' /\ now <= now'
  <2>1. /\ clients' \in [Clients -> [open : BOOLEAN, owner : Owners \cup {None},
                                     since : 0 .. MaxRequests]]
        /\ inbox' \in [Clients -> Seq(1 .. MaxRequests)]
    BY <1>1, <1>2
  <2>2. QED
    BY <1>1, <2>1 DEF ExecInv, ExecTypeOK
<1>4. NewsInv'
  <2>1. SUFFICES ASSUME NEW b \in Clients
                 PROVE  NewsOK(b)' /\ \A i \in Ids : Due(b, i)' => ToldOnce(b, i)'
    BY <1>2 DEF NewsInv
  <2>2. CASE b = c
    <3>1. DOMAIN inbox'[c] = {} /\ clients'[c].since = Len(requests)
      BY <1>1, <1>2
    <3>2. \A i \in Ids : ~Due(c, i)'
      BY <1>2, <3>1 DEF Due
    <3>3. QED
      BY <2>2, <3>1, <3>2 DEF NewsOK
  <2>3. CASE b # c
    <3>1. clients'[b] = clients[b] /\ inbox'[b] = inbox[b]
      BY <1>1, <1>2, <2>3
    <3>2. NewsOK(b) /\ \A i \in Ids : Due(b, i) => ToldOnce(b, i)
      BY DEF ExecInv
    <3>3. requests' = requests /\ Ids' = Ids
      BY <1>1, <1>2
    <3>4. NewsOK(b)'
      BY <3>1, <3>2, <3>3 DEF NewsOK, Blocked, Answered
    <3>5. ASSUME NEW i \in Ids, Due(b, i)' PROVE ToldOnce(b, i)'
      <4>1. Due(b, i)
        BY <3>1, <3>3, <3>5 DEF Due, Blocked, Answered, Matches
      <4>2. QED
        BY <3>1, <3>2, <4>1 DEF ToldOnce
    <3>6. QED
      BY <3>4, <3>5
  <2>4. QED
    BY <2>2, <2>3
<1>5. QED
  BY <1>1, <1>3, <1>4, AroundInv

LEMMA RestartInv ==
  ASSUME ExecInv, hardMode' = hardMode, Restart
  PROVE  ExecInv'
<1> DEFINE Cut(r) == IF r.pc \in Ends THEN r ELSE [r EXCEPT !.pc = "dead"]
<1>1. /\ faults < MaxFaults /\ faults' = faults + 1
      /\ clients' = [b \in Clients |-> Offline]
      /\ requests' = [i \in Ids |-> Cut(requests[i])]
      /\ UNCHANGED <<now, stored, rows, inbox, lost, misread>>
  BY DEF Restart
<1>2. /\ Ids = 1 .. Len(requests) /\ Len(requests) \in Nat
      /\ \A i \in Ids : requests[i] \in Requests
  BY Typed DEF ExecInv
<1>3. \A i \in Ids : /\ Cut(requests[i]) \in Requests
                     /\ requests[i].pc \in Ends => Cut(requests[i]) = requests[i]
                     /\ requests[i].pc \notin Ends => Cut(requests[i]).pc = "dead"
                     /\ Cut(requests[i]).preflight = requests[i].preflight
                     /\ Cut(requests[i]).follows = requests[i].follows
                     /\ Cut(requests[i]).in = requests[i].in
  BY <1>2 DEF Requests, Ends
<1> HIDE DEF Cut
<1>4. requests' \in Seq(Requests) /\ Ids' = Ids /\ Len(requests') = Len(requests)
  <2>1. requests' \in [1 .. Len(requests) -> Requests]
    BY <1>1, <1>2, <1>3
  <2>2. requests' \in Seq(Requests)
    BY <1>2, <2>1, SeqDef
  <2>3. DOMAIN requests' = 1 .. Len(requests') /\ Len(requests') \in Nat
    BY <2>2, LenProperties
  <2>4. QED
    BY <1>2, <2>1, <2>2, <2>3 DEF Ids
<1>5. Offline \in [open : BOOLEAN, owner : Owners \cup {None}, since : 0 .. MaxRequests]
      /\ ~Offline.open
  BY ExecutionsAssumption DEF Offline
<1>6. ExecTypeOK' /\ now <= now'
  BY <1>1, <1>4, <1>5, ExecutionsAssumption DEF ExecInv, ExecTypeOK, Requests
<1>7. PICK S : S = {i \in Ids : requests[i].pc \notin Ends}
  OBVIOUS
<1>8. \A i \in S : /\ requests'[i].pc = "dead"
                   /\ requests'[i].preflight = requests[i].preflight
                   /\ requests'[i].follows = requests[i].follows
                   /\ requests'[i].in = requests[i].in
  BY <1>1, <1>3, <1>7
<1>9. \A i \in Ids \ S : requests'[i] = requests[i]
  BY <1>1, <1>3, <1>7
<1>10. Touches(S)
  BY <1>1, <1>4, <1>6, <1>7, <1>9 DEF Touches, Answered, Ends
<1>11. ASSUME NEW i \in S
       PROVE  RequestOK(i)' /\ ~Blocked(i)' /\ ~Astray(i)'
  <2>1. i \in Ids /\ RowOK(i) /\ FollowsOK(i) /\ ~Answered(i)
    BY <1>7 DEF ExecInv, RequestOK, Answered, Ends
  <2>2. PathOK(i)' /\ RowOK(i)' /\ RefusalOK(i)' /\ ~Blocked(i)' /\ ~Astray(i)'
    BY <1>1, <1>8, <2>1 DEF PathOK, RowOK, RefusalOK, Blocked, Astray, Answered
  <2>3. FollowsOK(i)'
    <3>1. ASSUME NEW pre, pre = requests[i].follows, pre # 0
          PROVE  pre \in Ids' /\ requests'[pre] = requests[pre]
      BY <1>4, <1>7, <1>9, <2>1, <3>1 DEF FollowsOK, Answered, Ends
    <3>2. QED
      BY <1>8, <2>1, <3>1 DEF FollowsOK, Answered
  <2>4. QED
    BY <2>2, <2>3 DEF RequestOK
<1>12. \A i \in Ids' : RequestOK(i)'
  BY <1>10, <1>11, RequestsKept
<1>13. Cardinality(AstrayIds') <= lost'
  <2>1. AstrayIds' = {i \in Ids : Astray(i)'}
    BY <1>4 DEF AstrayIds
  <2>2. \A i \in Ids \ S : Astray(i)' => Astray(i)
    BY <1>1, <1>9 DEF Astray, Answered
  <2>3. AstrayIds' \subseteq AstrayIds
    BY <1>11, <2>1, <2>2 DEF AstrayIds
  <2>4. QED
    BY <1>1, <1>6, <2>3, AstrayCounted
<1>14. NewsInv'
  BY <1>1, <1>5, <1>10, <1>11, QuietNews
<1>15. QED
  BY <1>6, <1>12, <1>13, <1>14 DEF ExecInv, NewsInv

LEMMA InitInv == Init => ExecInv
<1> SUFFICES ASSUME Init PROVE ExecInv
  OBVIOUS
<1>1. /\ requests = <<>> /\ rows = <<>> /\ lost = 0 /\ faults = 0 /\ misread = {} /\ now = 0
      /\ stored = {} /\ hardMode \in BOOLEAN
      /\ clients = [c \in Clients |-> Offline]
      /\ inbox = [c \in Clients |-> <<>>]
  BY DEF Init
<1>2. Len(requests) = 0 /\ Len(rows) = 0 /\ Ids = {}
  BY <1>1, EmptySeq DEF Ids
<1>3. ExecTypeOK
  <2>1. requests \in Seq(Requests) /\ rows \in Seq(Statuses)
    BY <1>1, EmptySeq
  <2>2. inbox \in [Clients -> Seq(1 .. MaxRequests)]
    BY <1>1, EmptySeq
  <2>3. Offline \in [open : BOOLEAN, owner : Owners \cup {None},
                     since : 0 .. MaxRequests]
    BY ExecutionsAssumption DEF Offline
  <2>4. QED
    BY <1>1, <1>2, <2>1, <2>2, <2>3, ExecutionsAssumption
       DEF ExecTypeOK, Requests, Statuses
<1>4. AstrayIds = {}
  BY <1>2 DEF AstrayIds
<1>5. Cardinality(AstrayIds) <= lost
  BY <1>1, <1>4, FS_EmptySet
<1>6. \A c \in Clients : NewsOK(c)
  <2>1. \A c \in Clients : DOMAIN inbox[c] = {}
    BY <1>1
  <2>2. QED
    BY <2>1 DEF NewsOK
<1>7. QED
  BY <1>2, <1>3, <1>5, <1>6 DEF ExecInv

LEMMA ExecInvInductive ==
  ASSUME ExecInv, [Next]_vars
  PROVE  ExecInv'
<1>1. CASE UNCHANGED vars
  <2>1. hardMode' = hardMode
    BY <1>1 DEF vars
  <2>2. QED
    BY <1>1, <2>1, PostOrTickInv
<1>2. CASE Next
  <2>1. Step /\ hardMode' = hardMode
    BY <1>2 DEF Next
  <2>2. ASSUME NEW in \in Inputs, PreflightExecution(in)
        PROVE  ExecInv'
    BY <2>1, <2>2, SubmitInv DEF PreflightExecution
  <2>3. ASSUME NEW in \in Inputs, NEW f \in {0} \cup Ids, SubmitExecution(in, f)
        PROVE  ExecInv'
    BY <2>1, <2>3, SubmitInv DEF SubmitExecution, Answered
  <2>4. ASSUME NEW i \in Ids, Handle(i)
        PROVE  ExecInv'
    BY <2>1, <2>4, InsertInv, ChecksInv, ScreenInv, UpdateInv DEF Handle
  <2>5. ASSUME NEW c \in Clients,
               (\E o \in Owners \cup {None} : Subscribe(c, o)) \/ Disconnect(c)
        PROVE  ExecInv'
    BY <2>1, <2>5, SubscribeInv, DisconnectInv
  <2>6. CASE (\E h \in Hashes : PostManifest(h)) \/ Tick
    BY <2>1, <2>6, PostOrTickInv
  <2>7. CASE Restart
    BY <2>1, <2>7, RestartInv
  <2>8. QED
    BY <2>1, <2>2, <2>3, <2>4, <2>5, <2>6, <2>7 DEF Step
<1>3. QED
  BY <1>1, <1>2

LEMMA ExecInvHolds == Spec => []ExecInv
BY InitInv, ExecInvInductive, PTL DEF Spec
-----------------------------------------------------------------------------
\* Requests, rows and subscriptions stay well typed, and there is a place for a
\* row for each request.
THEOREM ExecTypeCorrect == Spec => []ExecTypeOK
<1>1. ExecInv => ExecTypeOK
  BY DEF ExecInv
<1>2. QED
  BY ExecInvHolds, <1>1, PTL

\* The answers of POST /v1/executions and the rows of GET /v1/executions/:id
\* differ in no more places than writes were dropped, and only towards a row
\* that is missing or pending: a crash between update and answer, or anything
\* else the handlers interleave with, adds none.
THEOREM AnswersAreTheRows == Spec => []AnswerIsTheRow
<1>1. ExecInv => AnswerIsTheRow
  <2>1. SUFFICES ASSUME ExecInv PROVE AnswerIsTheRow
    OBVIOUS
  <2> DEFINE differ == {i \in Ids : Answered(i) /\ ~requests[i].preflight
                                    /\ GetExecution(i) # requests[i].verdict}
  <2>2. differ \subseteq AstrayIds
    BY DEF AstrayIds, Astray, GetExecution
  <2>3. \A i \in differ : rows[i] \in {"pending", None}
    BY <2>1 DEF ExecInv, RequestOK, RowOK, GetExecution
  <2>4. Cardinality(differ) <= lost
    <3>1. /\ IsFiniteSet(AstrayIds) /\ Cardinality(AstrayIds) \in Nat
          /\ Cardinality(AstrayIds) <= lost /\ lost \in Nat
      BY <2>1, AstrayFinite DEF ExecInv, ExecTypeOK
    <3> HIDE DEF differ
    <3>2. IsFiniteSet(differ) /\ Cardinality(differ) <= Cardinality(AstrayIds)
      BY <2>2, <3>1, FS_Subset
    <3>3. Cardinality(differ) \in Nat
      BY <3>2, FS_CardinalityType
    <3>4. QED
      BY <3>1, <3>2, <3>3
  <2>5. QED
    BY <2>3, <2>4 DEF AnswerIsTheRow
<1>2. QED
  BY ExecInvHolds, <1>1, PTL

\* An execution submitted after a preflight of the same input that the manifest
\* refused is refused: the checks read the manifest and the clock anew, and
\* neither can have become more permissive (executions.ts runs the same checks
\* in both handlers).  The one exception is an execution whose own read of the
\* manifest Supabase refused, which getManifestByHash answers with null.
THEOREM RefusalsLast == Spec => []BlockedPreflightStaysBlocked
<1>1. ExecInv => BlockedPreflightStaysBlocked
  BY DEF ExecInv, RequestOK, FollowsOK, Answered, BlockedPreflightStaysBlocked
<1>2. QED
  BY ExecInvHolds, <1>1, PTL

\* A connection that subscribed before a request, to its owner or to all, is
\* told of it once when it is blocked; nobody is told of anything else, and no
\* row of what was told says allowed, however connections come and go.
THEOREM BlockedAreAnnounced == Spec => []BlockedIsAnnounced
<1>1. ExecInv => BlockedIsAnnounced
  <2>1. SUFFICES ASSUME ExecInv, NEW c \in Clients
        PROVE  /\ \A i \in Ids :
                    Due(c, i) =>
                      Cardinality({k \in DOMAIN inbox[c] : inbox[c][k] = i}) = 1
               /\ \A k \in DOMAIN inbox[c] :
                    /\ requests[inbox[c][k]].verdict = "blocked"
                    /\ rows[inbox[c][k]] # "allowed"
    BY DEF BlockedIsAnnounced, Due, Matches, Blocked
  <2>2. ASSUME NEW i \in Ids, Due(c, i)
        PROVE  Cardinality({k \in DOMAIN inbox[c] : inbox[c][k] = i}) = 1
    <3>1. PICK k \in DOMAIN inbox[c] : \A l \in DOMAIN inbox[c] : inbox[c][l] = i <=> l = k
      BY <2>1, <2>2 DEF ExecInv, ToldOnce
    <3>2. {l \in DOMAIN inbox[c] : inbox[c][l] = i} = {k}
      BY <3>1
    <3>3. QED
      BY <3>2, FS_Singleton
  <2>3. ASSUME NEW k \in DOMAIN inbox[c]
        PROVE  /\ requests[inbox[c][k]].verdict = "blocked"
               /\ rows[inbox[c][k]] # "allowed"
    <3>1. inbox[c][k] \in Ids /\ Blocked(inbox[c][k]) /\ RowOK(inbox[c][k])
      BY <2>1 DEF ExecInv, NewsOK, RequestOK
    <3>2. QED
      BY <3>1, ExecutionsAssumption DEF Blocked, RowOK
  <2>4. QED
    BY <2>2, <2>3
<1>2. QED
  BY ExecInvHolds, <1>1, PTL
=============================================================================
