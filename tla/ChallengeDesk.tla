----------------------------- MODULE ChallengeDesk -----------------------------
(***************************************************************************)
(* How an owner files a challenge: the read model and its answer whether a *)
(* receipt may be challenged, the receipt page that prepares, approves,    *)
(* files and waits, the status panel and the reviewer's queue.  Pages and  *)
(* read model see the chain through an index that lags behind it, reads    *)
(* parts of the log again and may lose a write; a page may be left or      *)
(* reloaded, a wait may be lost and anyone else may file as well.  Every   *)
(* one of a page's references also has an advisory summary.                *)
(***************************************************************************)
EXTENDS Summaries, FiniteSetsExt

CONSTANTS
  Tabs,            \* open browser tabs
  Paid,            \* receipt ids, all paid at time 0 by one agent, in order
  Over,            \* receipts above their manifest's maxSpendPerTx
  Pinned,          \* receipts whose manifest the index holds
  InitialStake, Threshold, Window, Slashed, \* stake, tier, window, amount paid
  MaxTime, MaxFilings,
  MaxUses          \* bound on filing attempts and summary loads together

Receipts == {Paid[i] : i \in DOMAIN Paid}
R(r) == [kind |-> "receipt", id |-> r]
C(n) == [kind |-> "challenge", id |-> n]

ASSUME DeskAssumption ==
  /\ Paid \in Seq(Nat)
  /\ Over \cup Pinned \subseteq Receipts
  /\ Refs = {R(r) : r \in Receipts} \cup {C(n) : n \in 1 .. MaxFilings}
  /\ {InitialStake, Threshold, Window, Slashed, MaxTime, MaxFilings, MaxUses} \subseteq Nat

VARIABLES
  now,      \* block.timestamp
  stake,    \* the agent's stake in the vault
  chain,    \* the receipt of every challenge filed, by challenge id
  cursor,   \* how much of the log the indexer has handled
  missed,   \* challenges whose verdict, when last handled, was not written
  page,     \* each tab: None, or the receipt it shows and whether it may be challenged
  attempts, \* every click of "File challenge", in order
  queue     \* challenges the review page lists as pending

indexVars == <<cursor, missed>>
deskVars == <<now, stake, chain, indexVars, page, attempts, queue>>
allVars == <<vars, deskVars>>

Ids == 1 .. MaxFilings
PendingId == 0 \* the page's "pending"
Running == {"preparing", "approving", "filing", "waiting", "indexing"}

\* One run of handleFileChallenge: where it is, whether its page was left, the
\* challenges that its answer of the read model knew (or should have, had they
\* not been misread), its transaction (and the id it was filed under), the id
\* it tracks, and what the status panel shows of it.
Attempt ==
  [tab : Tabs, receipt : Receipts, step : Running \cup {"submitted", "error", "gone"},
   left : BOOLEAN, knew : SUBSET Ids, misread : BOOLEAN, tx : {"none", "sent", "mined", "reverted"}, filed : {None} \cup Ids,
   tracks : {None, PendingId} \cup Ids, shown : {None, "unreachable", "PENDING"} \cup Statuses]

Page == [receipt : Receipts, offered : BOOLEAN]

\* The log: the receipts, then a filing and its verdict for every challenge.
LogLength == Len(Paid) + 2 * Len(chain)
FiledAt(n) == Len(Paid) + 2 * n - 1
ResolvedAt(n) == Len(Paid) + 2 * n

DeskTypeOK ==
  /\ SummariesTypeOK
  /\ now \in 0 .. MaxTime /\ stake \in 0 .. InitialStake
  /\ chain \in Seq(Receipts) /\ Len(chain) <= MaxFilings
  /\ cursor \in 0 .. LogLength /\ missed \subseteq DOMAIN chain
  /\ page \in [Tabs -> Page \cup {None}]
  /\ attempts \in Seq(Attempt)
  /\ queue \subseteq DOMAIN chain

DeskInit ==
  /\ Init
  /\ now = 0 /\ stake = InitialStake /\ chain = <<>>
  /\ cursor = 0 /\ missed = {}
  /\ page = [t \in Tabs |-> None]
  /\ attempts = <<>> /\ queue = {}

----------------------------------------------------------------------------
(* The chain.  A filing slashes and resolves in its own transaction.       *)

ContractWindow == IF stake >= Threshold THEN Window ELSE 0
Accepts(r) == r \in Over /\ now <= ContractWindow /\ stake > 0

SlashActual == Min({Slashed, stake})
File(r) ==
  /\ Len(chain) < MaxFilings
  /\ chain' = Append(chain, r)
  /\ stake' = stake - SlashActual

\* Anyone may file without the desk.
FileElsewhere(r) ==
  /\ Accepts(r) /\ File(r)
  /\ UNCHANGED <<vars, indexVars, now, page, attempts, queue>>

Tick ==
  /\ now < MaxTime /\ now' = now + 1
  /\ UNCHANGED <<vars, indexVars, stake, chain, page, attempts, queue>>

----------------------------------------------------------------------------
(* The index, which handles the log in order.                              *)

HandleLog(p) ==
  \/ \E i \in DOMAIN Paid : p = i /\ Index(R(Paid[i])) /\ UNCHANGED missed
  \/ \E n \in DOMAIN chain : p = FiledAt(n) /\ Index(C(n)) /\ UNCHANGED missed
  \/ \E n \in DOMAIN chain :
       p = ResolvedAt(n) /\ Resolve(C(n)) /\ missed' = missed \ {n}

\* The store ignores the error of a refused write: the event counts as handled.
RefusedWrite(p) ==
  /\ UNCHANGED <<evidence, cache, loads>> /\ Fault
  /\ missed' = missed \cup {n \in DOMAIN chain : p = ResolvedAt(n)}

IndexNext ==
  /\ cursor < LogLength /\ cursor' = cursor + 1
  /\ HandleLog(cursor + 1) \/ RefusedWrite(cursor + 1)
  /\ UNCHANGED <<now, stake, chain, page, attempts, queue>>

\* A restart goes on from the cursor saved last, or from an earlier block.
Restart ==
  /\ cursor' \in 0 .. cursor - 1 /\ Fault
  /\ UNCHANGED <<evidence, cache, loads, missed, now, stake, chain, page, attempts, queue>>

----------------------------------------------------------------------------
(* The read model's answers.                                               *)

HasReceipt(r) == evidence[R(r)] # None
ListReceiptsByOwner == {r \in Receipts : HasReceipt(r)}

Indexed == {n \in DOMAIN chain : evidence[C(n)] # None}
RowsOf(r) == {n \in Indexed : chain[n] = r}
FindChallengeByReceipt(r) == IF RowsOf(r) = {} THEN None ELSE Max(RowsOf(r))
StatusOf(r) == IF RowsOf(r) = {} THEN "none" ELSE evidence[C(FindChallengeByReceipt(r))]

GetOverspendInfo(r) == r \in Pinned \cap Over
WindowEndsLate == now <= Window
WindowEnds == now < Window

FeedChallengeable(r) ==
  /\ GetOverspendInfo(r) /\ WindowEnds
  /\ StatusOf(r) \notin {"FILED", "UPHELD"}

DetailChallengeable(r) ==
  /\ GetOverspendInfo(r) /\ now < Window
  /\ StatusOf(r) \in {"none", "REJECTED"}

StandsIfFiled(r) == StatusOf(r) = "FILED"
Stands(r) == StatusOf(r) \notin {"none", "REJECTED"}
Fileable(r) ==
  /\ HasReceipt(r)
  /\ now < Window
  /\ r \in Pinned /\ r \in Over
\* prepare-amount answers with calldata rather than with a reason not to file.
Eligible(r) == Fileable(r) /\ ~Stands(r)

----------------------------------------------------------------------------
(* The receipt page.                                                       *)

\* The page offers the button only to a receipt it was told is above its cap.
CanChallenge(r) == DetailChallengeable(r) /\ ~Stands(r)

\* What the page makes of GET /v1/receipts/:receiptId, fetched as it opens.
GetReceipt(r) == [receipt |-> r, offered |-> CanChallenge(r)]

OpenReceipt(t, r) ==
  /\ page[t] = None /\ r \in ListReceiptsByOwner
  /\ page' = [page EXCEPT ![t] = GetReceipt(r)]
  /\ UNCHANGED <<vars, indexVars, now, stake, chain, attempts, queue>>

Forgotten(attempt) == [attempt EXCEPT !.step = "gone", !.tracks = None, !.shown = None]
Left(attempt) ==
  IF attempt.step \in Running THEN [attempt EXCEPT !.left = TRUE] ELSE Forgotten(attempt)

\* Following a link unmounts the page: its state is gone, but a run of the
\* handler goes on.
Leave(t) ==
  /\ page[t] # None
  /\ page' = [page EXCEPT ![t] = None]
  /\ attempts' = [a \in DOMAIN attempts |->
       IF attempts[a].tab = t THEN Left(attempts[a]) ELSE attempts[a]]
  /\ UNCHANGED <<vars, indexVars, now, stake, chain, queue>>

\* A reload also ends whatever the tab was running.
Reload(t) ==
  /\ page[t] # None
  /\ page' = [page EXCEPT ![t] = None]
  /\ attempts' = [a \in DOMAIN attempts |->
       IF attempts[a].tab = t THEN Forgotten(attempts[a]) ELSE attempts[a]]
  /\ UNCHANGED <<vars, indexVars, now, stake, chain, queue>>

\* What the page itself remembers of its tab's attempts.
Of(t) == {a \in DOMAIN attempts :
            attempts[a].tab = t /\ attempts[a].step # "gone" /\ ~attempts[a].left}

\* The button: enabled while the last attempt is over, gone once it succeeded.
Enabled(t) ==
  /\ page[t].offered
  /\ \A a \in Of(t) : attempts[a].step = "error"

HandleFileChallenge(t) ==
  /\ page[t] # None /\ Enabled(t)
  /\ Len(attempts) + Len(loads) < MaxUses
  /\ attempts' = Append(attempts,
       [tab |-> t, receipt |-> page[t].receipt, step |-> "preparing", left |-> FALSE,
        knew |-> {}, misread |-> FALSE,
        tx |-> "none", filed |-> None, tracks |-> None, shown |-> None])
  /\ UNCHANGED <<vars, indexVars, now, stake, chain, page, queue>>

At(a, step) == attempts[a].step = step
Only(a, new) == attempts' = [attempts EXCEPT ![a] = new]

\* Whether the page saw an allowance large enough is left open.  A refused read
\* of the receipt's challenges finds none.
PrepareChallenge(r, misread) ==
  IF Fileable(r) /\ (misread \/ ~Stands(r)) THEN {"approving", "filing"} ELSE {"error"}
Misreads(a) == RowsOf(attempts[a].receipt) # {} /\ Fault
Prepare(a) ==
  /\ At(a, "preparing")
  /\ \E misread \in BOOLEAN :
       /\ IF misread THEN Misreads(a) ELSE UNCHANGED faults
       /\ \E step \in PrepareChallenge(attempts[a].receipt, misread) :
            Only(a, [attempts[a] EXCEPT !.step = step, !.knew = Indexed, !.misread = misread])
  /\ UNCHANGED <<evidence, cache, loads, indexVars, now, stake, chain, page, queue>>

Approve(a) ==
  /\ At(a, "approving")
  /\ Only(a, [attempts[a] EXCEPT !.step = "filing"])
  /\ UNCHANGED <<vars, indexVars, now, stake, chain, page, queue>>

SendFiling(a) ==
  /\ At(a, "filing")
  /\ Only(a, [attempts[a] EXCEPT !.step = "waiting", !.tx = "sent"])
  /\ UNCHANGED <<vars, indexVars, now, stake, chain, page, queue>>

\* The transaction is mined whatever has become of the page.
Mine(a) ==
  /\ attempts[a].tx = "sent"
  /\ \/ /\ Accepts(attempts[a].receipt) /\ File(attempts[a].receipt)
        /\ Only(a, [attempts[a] EXCEPT !.tx = "mined", !.filed = Len(chain) + 1])
     \/ /\ ~Accepts(attempts[a].receipt)
        /\ Only(a, [attempts[a] EXCEPT !.tx = "reverted"])
        /\ UNCHANGED <<stake, chain>>
  /\ UNCHANGED <<vars, indexVars, now, page, queue>>

\* A reverted transaction makes the wait throw.
Wait(a) ==
  /\ At(a, "waiting") /\ attempts[a].tx # "sent"
  /\ Only(a, [attempts[a] EXCEPT
       !.step = IF attempts[a].tx = "reverted" THEN "error" ELSE "indexing"])
  /\ UNCHANGED <<vars, indexVars, now, stake, chain, page, queue>>

\* The newest challenge of the receipt in the feed, or "pending" after forty
\* looks without one.
Hit(r) == RowsOf(r)
PollChallengeIdForReceipt(a) ==
  /\ At(a, "indexing")
  /\ LET hits == Hit(attempts[a].receipt) IN
     Only(a, [attempts[a] EXCEPT !.step = "submitted",
                !.tracks = IF hits = {} THEN PendingId ELSE Max(hits)])
  /\ UNCHANGED <<vars, indexVars, now, stake, chain, page, queue>>

\* A refused signature, an unreachable service, a lost wait, or a reload after
\* the page was left.
Halt(a) ==
  /\ attempts[a].step \in Running
  /\ Only(a, [attempts[a] EXCEPT !.step = "error"])
  /\ UNCHANGED <<vars, indexVars, now, stake, chain, page, queue>>

\* GET /v1/challenges/:challengeId.
ChallengeRow(id) == evidence[C(id)]
NormalizedDetail(s) == IF s \in {"UPHELD", "REJECTED", "FILED"} THEN s ELSE "PENDING"

\* The status panel of a page that is open: fetched again only while the
\* challenge is FILED; without a first answer, as for the id "pending", never.
GetChallenge(id) == IF id \notin Indexed THEN {} ELSE {NormalizedDetail(ChallengeRow(id))}
Refetched(s) == s \in {None, "PENDING", "FILED"}
ChallengeStatus(a) ==
  /\ At(a, "submitted") /\ ~attempts[a].left /\ Refetched(attempts[a].shown)
  /\ \E s \in GetChallenge(attempts[a].tracks) \cup (IF attempts[a].shown = None THEN {"unreachable"} ELSE {}) :
       Only(a, [attempts[a] EXCEPT !.shown = s])
  /\ UNCHANGED <<vars, indexVars, now, stake, chain, page, queue>>

----------------------------------------------------------------------------
(* The review page polls the feed.                                         *)

Normalized(s) == IF s \in {"FILED", "UPHELD", "REJECTED"} THEN s ELSE "PENDING"
Unsettled == {n \in Indexed : Normalized(evidence[C(n)]) \in {"FILED", "PENDING"}}
PendingStale == queue \cup Unsettled
Pending == Unsettled
PollReview ==
  /\ queue' = Pending
  /\ UNCHANGED <<vars, indexVars, now, stake, chain, page, attempts>>
Decidable(n) == n \in queue

\* The service signs the verdict and may send it; the arbiter refuses it, as the
\* filing resolved the challenge.
PostReviewerResolve(n) ==
  n \in DOMAIN chain /\ UNCHANGED <<vars, indexVars, now, stake, chain, page, attempts>>
HandleDecision(n) == Decidable(n) /\ PostReviewerResolve(n) /\ queue' = Pending

\* A card loads with the receipt page, or with a row of the review page.
GeminiSummaryCard(r) ==
  /\ r \in {R(page[t].receipt) : t \in {u \in Tabs : page[u] # None}} \cup {C(n) : n \in Indexed}
  /\ Len(attempts) + Len(loads) < MaxUses
  /\ Load(r) /\ UNCHANGED deskVars

Run(a) ==
  Prepare(a) \/ Approve(a) \/ SendFiling(a) \/ Wait(a) \/ PollChallengeIdForReceipt(a) \/ Halt(a)

DeskNext ==
  \/ IndexNext \/ Restart
  \/ \E n \in Ids : HandleDecision(n)
  \/ \E r \in Receipts : FileElsewhere(r) \/ \E t \in Tabs : OpenReceipt(t, r)
  \/ \E t \in Tabs : Leave(t) \/ Reload(t) \/ HandleFileChallenge(t)
  \/ \E a \in DOMAIN attempts : Run(a) \/ Mine(a) \/ ChallengeStatus(a)
  \/ \E r \in Refs : GeminiSummaryCard(r)
  \/ \E l \in DOMAIN loads : Step(l) /\ UNCHANGED deskVars
  \/ Tick \/ PollReview

DeskSpec == DeskInit /\ [][DeskNext]_allVars

\* The indexer and the review page poll for ever.
FairSpec == DeskSpec /\ WF_allVars(IndexNext) /\ WF_allVars(PollReview)

\* A page goes on with what it has begun.
DeskFairSpec ==
  /\ FairSpec
  /\ WF_allVars(\E a \in DOMAIN attempts : Run(a) \/ ChallengeStatus(a))

----------------------------------------------------------------------------
(* Properties.                                                             *)

\* A summary is shown with its own reference only, and the verdict it tells is
\* the one on record, however loads, resolutions and redelivered events
\* interleave.  Two cases are the code's own: a redelivered filing sets a
\* resolved row back until its verdict is handled again, and a verdict whose
\* write was refused stays off the row.
SummaryOfItsEvidence ==
  \A l \in DOMAIN loads : loads[l].pc = "answered" =>
    LET s == loads[l].found IN
    /\ s.ref = loads[l].ref
    /\ \A n \in DOMAIN chain : s.ref = C(n) /\ s.status \in Verdicts =>
         evidence[C(n)] = s.status \/ cursor < ResolvedAt(n) \/ n \in missed

\* The feed, the receipt page and the preparation of a challenge answer the
\* same question in three places: of an indexed receipt they never disagree.
ReadModelsAgree ==
  \A r \in ListReceiptsByOwner :
    /\ FeedChallengeable(r) <=> Eligible(r)
    /\ DetailChallengeable(r) <=> Eligible(r)

\* The arbiter lets a receipt be challenged twice.  A tab does so only after it
\* lost sight of its first attempt (an error, a reload, a page it left), and
\* neither filing was prepared with the other one on record, unless the read
\* that should have shown it was refused.
Sent(a) == attempts[a].tx # "none"
Knew(a, b) == attempts[b].filed \in attempts[a].knew /\ ~attempts[a].misread
SecondFilingIsBlind ==
  \A i, j \in DOMAIN attempts :
    /\ i < j /\ Sent(i) /\ Sent(j)
    /\ attempts[i].tab = attempts[j].tab /\ attempts[i].receipt = attempts[j].receipt
    => /\ attempts[i].step \in {"error", "gone"} \/ attempts[i].left
       /\ ~Knew(i, j) /\ ~Knew(j, i)

\* The status panel of a filing whose id was not found in time updates once the
\* indexer has caught up.
PanelUpdates ==
  []<>(\A a \in DOMAIN attempts :
         attempts[a].step = "submitted" /\ attempts[a].tracks = PendingId =>
           attempts[a].left \/ attempts[a].shown \in Statuses)

\* The review queue empties again but for verdicts whose write was refused,
\* whatever snapshots of the index filled it.
QueueDrains == []<>(queue \subseteq missed)
================================================================================
