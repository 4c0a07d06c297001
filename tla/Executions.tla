------------------------------ MODULE Executions ------------------------------
(***************************************************************************)
(* The executions API: a request is recorded, checked against the manifest *)
(* of its intent, screened by the advisory model and answered; subscribers *)
(* are told of a blocked attempt.  Requests interleave between the awaits  *)
(* of a handler, with the clock, new manifests, new subscribers, crashes   *)
(* and reads and writes that Supabase refuses and no caller looks at.      *)
(***************************************************************************)
EXTENDS Integers, Sequences, FiniteSets

CONSTANTS
  Owners,
  Clients,     \* connections that may subscribe
  Hashes,      \* intent hashes
  Manifest,    \* Hashes -> the manifest that has the hash
  Amounts,     \* amounts of requests; Malformed is no decimal number
  Targets,
  Inputs,      \* what callers ask for; any field but the owner may be missing
  Scores,      \* injection scores of the advisory model
  HardThreshold, \* GEMINI_SCREEN_HARD_THRESHOLD
  MaxTime,     \* bound of the clock
  MaxRequests, \* bound on requests
  MaxFaults,   \* bound on crashes, refused writes and refused reads
  Malformed, None

ASSUME ExecutionsAssumption ==
  /\ Manifest \in [Hashes -> [cap : Nat, allowed : SUBSET Targets, expiry : Nat]]
  /\ Amounts \subseteq Nat \cup {Malformed}
  /\ Inputs \subseteq [owner : Owners, intent : Hashes \cup {None},
                    amount : Amounts \cup {None}, target : Targets \cup {None}]
  /\ Scores \subseteq 0 .. 100
  /\ {HardThreshold, MaxTime, MaxRequests, MaxFaults} \subseteq Nat
  /\ None \notin Owners \cup {"pending", "allowed", "blocked"}

VARIABLES
  now,
  hardMode, \* GEMINI_SCREEN_HARD_MODE, read once
  stored,   \* hashes whose manifest is in the store
  requests, \* every request: its input, where its handler is, its answer
  rows,     \* executions: the status of each request's row, or None
  clients,  \* subscribers of GET /v1/events
  inbox,    \* the blocked attempts each connection was told of, in order
  faults, lost,
  misread   \* history: the requests whose manifest was there and could not be read

vars == <<now, hardMode, stored, requests, rows, clients, inbox, faults, lost, misread>>

Ids == DOMAIN requests
Ends == {"answered", "failed", "dead"}

ExecTypeOK ==
  /\ now \in 0 .. MaxTime
  /\ hardMode \in BOOLEAN
  /\ stored \subseteq Hashes
  /\ requests \in Seq([in : Inputs, preflight : BOOLEAN, follows : 0 .. MaxRequests,
                       pc : {"create", "check", "screen", "update"} \cup Ends,
                       verdict : {"none", "blocked", "allowed"}])
  /\ rows \in Seq({None, "pending", "allowed", "blocked"})
  /\ Len(rows) = Len(requests) /\ Len(requests) <= MaxRequests
  /\ clients \in [Clients -> [open : BOOLEAN, owner : Owners \cup {None},
                              since : 0 .. MaxRequests]]
  /\ inbox \in [Clients -> Seq(1 .. MaxRequests)]
  /\ faults \in 0 .. MaxFaults
  /\ lost \in Nat
  /\ misread \subseteq 1 .. MaxRequests

Offline == [open |-> FALSE, owner |-> None, since |-> 0]

Init ==
  /\ now = 0 /\ hardMode \in BOOLEAN /\ stored = {} /\ requests = <<>> /\ rows = <<>>
  /\ clients = [c \in Clients |-> Offline]
  /\ inbox = [c \in Clients |-> <<>>]
  /\ faults = 0 /\ lost = 0 /\ misread = {}

----------------------------------------------------------------------------
(* What is decided of a request.                                           *)

\* A read that Supabase refuses passes for a manifest that is not there.
GetManifestByHash(h, refused) == IF h \in stored /\ ~refused THEN Manifest[h] ELSE None

CheckedByPreflight(i, refused) ==
  requests[i].preflight /\ GetManifestByHash(requests[i].in.intent, refused) # None
CheckedBy(i, refused) == GetManifestByHash(requests[i].in.intent, refused) # None

\* BigInt(amount) of a malformed amount throws.
Throws(i, refused) == CheckedBy(i, refused) /\ requests[i].in.amount = Malformed

Expired(m) == m.expiry < now

\* The reasons of runDeterministicChecks; without a known manifest, none.
Reasons(i, refused) ==
  LET in == requests[i].in  m == GetManifestByHash(in.intent, refused) IN
  IF ~CheckedBy(i, refused) THEN {}
  ELSE (IF in.amount # None /\ in.amount > m.cap THEN {"AMOUNT_EXCEEDS_CAP"} ELSE {})
       \cup (IF in.target # None /\ m.allowed # {} /\ in.target \notin m.allowed
             THEN {"COUNTERPARTY_NOT_ALLOWED"} ELSE {})
       \cup (IF Expired(m) THEN {"INTENT_EXPIRED"} ELSE {})

\* The advisory model's score; screenFallback scores 0 when it is unavailable.
ScreenScores == Scores \cup {0}
HardModeBlock(score) == hardMode /\ score >= HardThreshold

----------------------------------------------------------------------------
(* The handlers, from one await to the next.                               *)

Set(i, pc, verdict) == [requests EXCEPT ![i].pc = pc, ![i].verdict = verdict]

Submit(in, preflight, follows) ==
  /\ Len(requests) < MaxRequests
  /\ requests' = Append(requests, [in |-> in, preflight |-> preflight, follows |-> follows,
                                   pc |-> IF preflight THEN "check" ELSE "create",
                                   verdict |-> "none"])
  /\ rows' = Append(rows, None)
  /\ UNCHANGED <<now, stored, clients, inbox, faults, lost, misread>>

PreflightExecution(in) == Submit(in, TRUE, 0)

\* By itself, or after a preflight of the same input was answered.
SubmitExecution(in, follows) ==
  /\ follows # 0 =>
       /\ requests[follows].preflight /\ requests[follows].in = in
       /\ requests[follows].pc = "answered"
  /\ Submit(in, FALSE, follows)

\* A write that Supabase refuses goes unnoticed.
Store(i, status) ==
  \/ rows' = [rows EXCEPT ![i] = status] /\ UNCHANGED <<faults, lost>>
  \/ /\ faults < MaxFaults /\ faults' = faults + 1
     /\ lost' = lost + 1 /\ UNCHANGED rows

\* insertExecution; the request goes on as if the row were there.
InsertExecution(i) ==
  /\ requests[i].pc = "create"
  /\ Store(i, "pending")
  /\ requests' = Set(i, "check", "none")
  /\ UNCHANGED <<now, stored, clients, inbox, misread>>

\* Only the read of a manifest that is there can go wrong with a difference.
ReadManifest(i, refused) ==
  IF refused
  THEN /\ requests[i].in.intent \in stored
       /\ faults < MaxFaults /\ faults' = faults + 1
       /\ misread' = misread \cup {i}
  ELSE UNCHANGED <<faults, misread>>

RunDeterministicChecks(i) ==
  /\ requests[i].pc = "check"
  /\ \E refused \in BOOLEAN :
       /\ ReadManifest(i, refused)
       /\ requests' =
            IF Throws(i, refused) THEN Set(i, "failed", "none")
            ELSE IF Reasons(i, refused) = {} THEN Set(i, "screen", "none")
            ELSE IF requests[i].preflight THEN Set(i, "screen", "blocked")
            ELSE Set(i, "update", "blocked")
  /\ UNCHANGED <<now, stored, rows, clients, inbox, lost>>

ScreenTrace(i) ==
  /\ requests[i].pc = "screen"
  /\ \E score \in ScreenScores :
       requests' = Set(i, IF requests[i].preflight THEN "answered" ELSE "update",
                       IF requests[i].verdict = "blocked" \/ HardModeBlock(score)
                       THEN "blocked" ELSE "allowed")
  /\ UNCHANGED <<now, stored, rows, clients, inbox, faults, lost, misread>>

MatchesOwner(c, owner) == clients[c].owner = owner
Matches(c, owner) == clients[c].owner \in {None, owner}

EmitBlocked(i) ==
  inbox' = [c \in Clients |->
    IF clients[c].open /\ Matches(c, requests[i].in.owner)
    THEN Append(inbox[c], i) ELSE inbox[c]]

\* The status updateExecution writes to the row, if there is one.
RowStatusBlocked(i) == "blocked"
RowStatusUnset(i) == rows[i]
RowStatus(i) == requests[i].verdict

\* updateExecution, then at once the event and the answer.
UpdateExecution(i) ==
  /\ requests[i].pc = "update"
  /\ Store(i, IF rows[i] = None THEN None ELSE RowStatus(i))
  /\ IF requests[i].verdict = "blocked" THEN EmitBlocked(i) ELSE UNCHANGED inbox
  /\ requests' = [requests EXCEPT ![i].pc = "answered"]
  /\ UNCHANGED <<now, stored, clients, misread>>

\* The server stops: its handlers and its subscribers are gone.
Restart ==
  /\ faults < MaxFaults
  /\ faults' = faults + 1
  /\ requests' = [i \in Ids |-> IF requests[i].pc \in Ends THEN requests[i]
                                ELSE [requests[i] EXCEPT !.pc = "dead"]]
  /\ clients' = [c \in Clients |-> Offline]
  /\ UNCHANGED <<now, stored, rows, inbox, lost, misread>>

----------------------------------------------------------------------------
(* The rest of the system.                                                 *)

PostManifest(h) ==
  /\ stored' = stored \cup {h}
  /\ UNCHANGED <<now, requests, rows, clients, inbox, faults, lost, misread>>

\* With an owner, or without one for everything.
Subscribe(c, owner) ==
  /\ ~clients[c].open
  /\ clients' = [clients EXCEPT ![c] =
       [open |-> TRUE, owner |-> owner, since |-> Len(requests)]]
  /\ inbox' = [inbox EXCEPT ![c] = <<>>]
  /\ UNCHANGED <<now, stored, requests, rows, faults, lost, misread>>

Disconnect(c) ==
  /\ clients[c].open
  /\ clients' = [clients EXCEPT ![c] = Offline]
  /\ UNCHANGED <<now, stored, requests, rows, inbox, faults, lost, misread>>

Tick ==
  /\ now < MaxTime
  /\ now' = now + 1
  /\ UNCHANGED <<stored, requests, rows, clients, inbox, faults, lost, misread>>

Handle(i) ==
  InsertExecution(i) \/ RunDeterministicChecks(i) \/ ScreenTrace(i) \/ UpdateExecution(i)

Step ==
  \/ \E in \in Inputs :
       PreflightExecution(in) \/ \E f \in {0} \cup Ids : SubmitExecution(in, f)
  \/ \E i \in Ids : Handle(i)
  \/ \E h \in Hashes : PostManifest(h)
  \/ \E c \in Clients : (\E o \in Owners \cup {None} : Subscribe(c, o)) \/ Disconnect(c)
  \/ Tick \/ Restart

Next == Step /\ UNCHANGED hardMode

Spec == Init /\ [][Next]_vars
FairSpec == Spec /\ WF_vars((\E i \in Ids : Handle(i)) /\ UNCHANGED hardMode)

----------------------------------------------------------------------------
(* Properties.                                                             *)

Answered(i) == requests[i].pc = "answered"

\* GET /v1/executions/:id
GetExecution(i) == rows[i]

\* Whatever stops a handler between its calls, what a caller was told and what
\* GET /v1/executions/:id tells differ only where the store dropped a write,
\* and then the row is missing or pending, never the opposite.
AnswerIsTheRow ==
  LET differ == {i \in Ids : Answered(i) /\ ~requests[i].preflight
                             /\ GetExecution(i) # requests[i].verdict} IN
  /\ Cardinality(differ) <= lost
  /\ \A i \in differ : rows[i] \in {"pending", None}

\* An execution that follows a preflight which the manifest refused is refused,
\* whatever was stored and however much time passed in between: the only way
\* past the manifest is a read of it, by this very request, that Supabase
\* refused and runDeterministicChecks took for no manifest.
BlockedPreflightStaysBlocked ==
  \A i \in Ids \ misread : Answered(i) /\ requests[i].follows # 0 =>
    LET pre == requests[i].follows IN
    requests[pre].verdict = "blocked" /\ ~hardMode => requests[i].verdict = "blocked"

\* A subscriber to the owner's events, or to all, that was there before the
\* request is told once of a blocked execution, and of no other.
BlockedIsAnnounced ==
  \A c \in Clients :
    LET told == inbox[c] IN
    /\ \A i \in Ids :
         /\ clients[c].open /\ clients[c].since < i
         /\ clients[c].owner \in {None, requests[i].in.owner}
         /\ Answered(i) /\ ~requests[i].preflight /\ requests[i].verdict = "blocked"
         => Cardinality({k \in DOMAIN told : told[k] = i}) = 1
    /\ \A k \in DOMAIN told : requests[told[k]].verdict = "blocked" /\ rows[told[k]] # "allowed"

\* A row does not stay pending unless its request failed, its server stopped
\* or its write was dropped.
RowsSettle ==
  \A i \in 1 .. MaxRequests :
    (i \in Ids /\ rows[i] = "pending") ~>
      (i \in Ids /\ rows[i] = "pending" =>
        requests[i].pc \in {"failed", "dead"} \/ lost > 0)
===============================================================================
