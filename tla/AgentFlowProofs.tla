--------------------------- MODULE AgentFlowProofs ---------------------------
(***************************************************************************)
(* Theorems about the agents between the trace service and the executor,   *)
(* for any number of runs, keys, intents and mishaps.                      *)
(***************************************************************************)
EXTENDS AgentFlow, TLAPS

\* What a trace keeps once it was answered for: a row, unless the database
\* dropped it, and its bytes.
Kept(d) ==
  /\ traceRow[d] # NoAck \/ d \in lost
  /\ d \in pinned

\* A row is the ack of its own digest and follows the pin; a request past a
\* stage of the handler has what the stage left.
ServiceInv ==
  /\ \A d \in Digests : traceRow[d] # NoAck =>
       traceRow[d].contextDigest = d /\ d \in pinned
  /\ \A c \in Consumers :
       /\ post[c].pc \in {"sign", "insert", "answered"} => post[c].digest \in pinned
       /\ post[c].pc \in {"insert", "answered"} =>
            post[c].ack # NoAck /\ post[c].ack.contextDigest = post[c].digest
       /\ post[c].pc = "answered" => Kept(post[c].digest)

AsPlanned(r, req) ==
  /\ req.owner = Plan[r].owner
  /\ req.agentId = Plan[r].agentId
  /\ req.target = Plan[r].target
  /\ req.token = USDC
  /\ req.amount = Plan[r].amount
  /\ req.traceAck \in TraceAck
  /\ Kept(req.traceAck.contextDigest)

\* A run holds an answer from its preflight on; what it sends is what it
\* planned, under an ack whose trace is kept.
RunInv ==
  /\ \A r \in Runs :
       /\ run[r].pc = "upload" => run[r].intent # ZeroHash
       /\ run[r].pc \in {"preflight", "simulate", "send"} => post[r].pc = "answered"
  /\ \A tx \in mempool : AsPlanned(tx.run, tx.req)

\* No receipt is from a nonce yet to come, so that the next one is new.
ReceiptInv ==
  \A id \in DOMAIN receipts :
    /\ id[3] < execNonce[id[1]]
    /\ Kept(receipts[id].contextDigest)

FlowInv ==
  FlowTypeOK /\ ServiceInv /\ RunInv /\ ReceiptInv /\ ReportedPaymentIsReal
-----------------------------------------------------------------------------
(* The trace service. *)

\* What its steps may do to what others rely on.
ServiceKeeps ==
  /\ \A d \in Digests : Kept(d) => Kept(d)'
  /\ \A c \in Consumers : post[c].pc = "answered" => post'[c] = post[c]

Stage == {"none", "lookup", "pin", "sign", "insert", "answered", "failed"}
Posts ==
  [pc : Stage, digest : Digests, agentId : AgentIds, owner : Accounts,
   expiresAt : Nat, ack : TraceAck \cup {NoAck}]

LEMMA LookUpKeeps ==
  ASSUME ServiceTypeOK, ServiceInv, NEW c \in Consumers, LookUp(c)
  PROVE  ServiceTypeOK' /\ ServiceInv' /\ ServiceKeeps
<1> DEFINE cached == traceRow[post[c].digest]
<1>1. post \in [Consumers -> Posts] /\ post[c].digest \in Digests
  BY DEF ServiceTypeOK, Posts, Stage
<1>2. cached \in TraceAck \cup {NoAck}
  BY <1>1 DEF ServiceTypeOK
<1>3. /\ post[c].pc = "lookup"
      /\ UNCHANGED <<traceRow, pinned, signKey, lost, mishaps>>
  BY DEF LookUp
<1>4. CASE Alive(cached)
  <2>1. cached # NoAck /\ cached.contextDigest = post[c].digest
        /\ post[c].digest \in pinned
    BY <1>1, <1>4 DEF Alive, ServiceInv
  <2>2. post' = [post EXCEPT ![c] = [@ EXCEPT !.pc = "answered", !.ack = cached]]
    BY <1>4 DEF LookUp, GetTraceByDigest
  <2> HIDE DEF cached
  <2>3. post' \in [Consumers -> Posts]
    BY <1>1, <1>2, <2>2 DEF Posts, Stage
  <2>4. /\ post'[c].pc = "answered"
        /\ post'[c].ack = cached
        /\ post'[c].digest = post[c].digest
        /\ \A b \in Consumers \ {c} : post'[b] = post[b]
    BY <1>1, <2>2 DEF Posts
  <2>5. QED
    BY <1>1, <1>3, <2>1, <2>3, <2>4
       DEF ServiceTypeOK, ServiceInv, ServiceKeeps, Kept, Posts, Stage, cached
<1>5. CASE ~Alive(cached)
  <2>1. post' = [post EXCEPT ![c] = [@ EXCEPT !.pc = "pin"]]
    BY <1>5 DEF LookUp, GetTraceByDigest
  <2>2. post' \in [Consumers -> Posts]
    BY <1>1, <2>1 DEF Posts, Stage
  <2>3. post'[c].pc = "pin" /\ \A b \in Consumers \ {c} : post'[b] = post[b]
    BY <1>1, <2>1 DEF Posts
  <2>4. QED
    BY <1>1, <1>3, <2>2, <2>3
       DEF ServiceTypeOK, ServiceInv, ServiceKeeps, Kept, Posts, Stage
<1>6. QED
  BY <1>4, <1>5

LEMMA PinTraceKeeps ==
  ASSUME ServiceTypeOK, ServiceInv, now \in Nat, NEW c \in Consumers, PinTrace(c)
  PROVE  ServiceTypeOK' /\ ServiceInv' /\ ServiceKeeps
<1>1. post \in [Consumers -> Posts] /\ post[c].digest \in Digests
  BY DEF ServiceTypeOK, Posts, Stage
<1>2. now + TTL \in Nat
  BY ServiceAssumption
<1>3. /\ post[c].pc = "pin"
      /\ pinned' = pinned \cup {post[c].digest}
      /\ UNCHANGED <<traceRow, signKey, lost, mishaps>>
      /\ post' = [post EXCEPT ![c].pc = "sign", ![c].expiresAt = now + TTL]
  BY DEF PinTrace, Pin
<1>4. post' \in [Consumers -> Posts]
  BY <1>1, <1>2, <1>3 DEF Posts, Stage
<1>5. /\ post'[c].pc = "sign"
      /\ post'[c].digest = post[c].digest
      /\ \A b \in Consumers \ {c} : post'[b] = post[b]
  BY <1>1, <1>3 DEF Posts
<1>6. QED
  BY <1>1, <1>3, <1>4, <1>5
     DEF ServiceTypeOK, ServiceInv, ServiceKeeps, Kept, Posts, Stage

LEMMA SignTraceKeeps ==
  ASSUME ServiceTypeOK, ServiceInv, NEW c \in Consumers, SignTrace(c)
  PROVE  ServiceTypeOK' /\ ServiceInv' /\ ServiceKeeps
<1> DEFINE ack == SignTraceAck(post[c])
<1>1. post \in [Consumers -> Posts] /\ post[c] \in Posts
  BY DEF ServiceTypeOK, Posts, Stage
<1>2. /\ ack \in TraceAck
      /\ ack # NoAck
      /\ ack.contextDigest = post[c].digest
  BY <1>1, ServiceAssumption DEF SignTraceAck, TraceAck, Posts, ServiceTypeOK
<1>3. /\ post[c].pc = "sign"
      /\ UNCHANGED <<traceRow, pinned, signKey, lost, mishaps>>
      /\ post' = [post EXCEPT ![c].pc = "insert", ![c].ack = ack]
  BY DEF SignTrace, AfterSign
<1> HIDE DEF ack
<1>4. post' \in [Consumers -> Posts]
  BY <1>1, <1>2, <1>3 DEF Posts, Stage
<1>5. /\ post'[c].pc = "insert"
      /\ post'[c].ack = ack
      /\ post'[c].digest = post[c].digest
      /\ \A b \in Consumers \ {c} : post'[b] = post[b]
  BY <1>1, <1>3 DEF Posts
<1>6. QED
  BY <1>1, <1>2, <1>3, <1>4, <1>5
     DEF ServiceTypeOK, ServiceInv, ServiceKeeps, Kept, Posts, Stage

LEMMA StoreTraceKeeps ==
  ASSUME ServiceTypeOK, ServiceInv, NEW c \in Consumers, StoreTrace(c)
  PROVE  ServiceTypeOK' /\ ServiceInv' /\ ServiceKeeps
<1> DEFINE ack == post[c].ack
           d   == post[c].digest
<1>1. post \in [Consumers -> Posts] /\ d \in Digests
  BY DEF ServiceTypeOK, Posts, Stage
<1>2. /\ post[c].pc = "insert"
      /\ post' = [post EXCEPT ![c].pc = "answered"]
      /\ UNCHANGED <<pinned, signKey, lost, mishaps>>
  BY DEF StoreTrace
<1>3. ack \in TraceAck /\ ack # NoAck /\ ack.contextDigest = d /\ d \in pinned
  BY <1>1, <1>2 DEF ServiceInv, Posts
<1>4. traceRow' = [traceRow EXCEPT ![d] = ack]
  BY <1>3 DEF StoreTrace, InsertTrace
<1>5. post' \in [Consumers -> Posts]
  BY <1>1, <1>2 DEF Posts, Stage
<1>6. /\ post'[c].pc = "answered"
      /\ post'[c].ack = ack
      /\ post'[c].digest = d
      /\ \A b \in Consumers \ {c} : post'[b] = post[b]
  BY <1>1, <1>2 DEF Posts
<1> HIDE DEF ack, d
<1>7. /\ traceRow' \in [Digests -> TraceAck \cup {NoAck}]
      /\ traceRow'[d] = ack
      /\ \A e \in Digests \ {d} : traceRow'[e] = traceRow[e]
  BY <1>1, <1>3, <1>4 DEF ServiceTypeOK
<1>8. ServiceTypeOK'
  BY <1>2, <1>5, <1>7 DEF ServiceTypeOK, Posts, Stage
<1>9. ServiceKeeps
  BY <1>1, <1>2, <1>3, <1>6, <1>7 DEF ServiceKeeps, Kept
<1>10. ServiceInv'
  <2>1. \A e \in Digests : traceRow'[e] # NoAck =>
          traceRow'[e].contextDigest = e /\ e \in pinned'
    BY <1>2, <1>3, <1>7 DEF ServiceInv
  <2>2. traceRow'[d] # NoAck /\ d \in pinned'
    BY <1>2, <1>3, <1>7
  <2>3. \A b \in Consumers : post[b].digest \in Digests
    BY <1>1 DEF Posts
  <2>4. Kept(post[c].digest)'
    BY <1>6, <2>2 DEF Kept
  <2>5. ASSUME NEW b \in Consumers \ {c}, post[b].pc = "answered"
        PROVE  Kept(post[b].digest)'
    <3>1. Kept(post[b].digest) /\ post'[b] = post[b]
      BY <1>6, <2>5 DEF ServiceInv
    <3>2. QED
      BY <1>2, <1>3, <1>7, <2>3, <3>1 DEF Kept
  <2>6. QED
    BY <1>2, <1>3, <1>6, <2>1, <2>4, <2>5 DEF ServiceInv
<1>11. QED
  BY <1>8, <1>9, <1>10

LEMMA MishapKeeps ==
  ASSUME ServiceTypeOK, ServiceInv, NEW c \in Consumers, ServiceMishap(c)
  PROVE  ServiceTypeOK' /\ ServiceInv' /\ ServiceKeeps
<1>1. post \in [Consumers -> Posts] /\ post[c].digest \in Digests
  BY DEF ServiceTypeOK, Posts, Stage
<1>2. mishaps' \in 0 .. MaxMishaps
  BY ServiceAssumption DEF ServiceMishap, LoseTrace, FailPost, ServiceTypeOK
<1>3. CASE LoseTrace(c)
  <2>1. /\ post[c].pc = "insert"
        /\ lost' = lost \cup {post[c].digest}
        /\ post' = [post EXCEPT ![c].pc = "answered"]
        /\ UNCHANGED <<traceRow, pinned, signKey>>
    BY <1>3 DEF LoseTrace
  <2>2. post' \in [Consumers -> Posts]
    BY <1>1, <2>1 DEF Posts, Stage
  <2>3. /\ post'[c].pc = "answered"
        /\ post'[c].ack = post[c].ack
        /\ post'[c].digest = post[c].digest
        /\ \A b \in Consumers \ {c} : post'[b] = post[b]
    BY <1>1, <2>1 DEF Posts
  <2>4. QED
    BY <1>1, <1>2, <2>1, <2>2, <2>3
       DEF ServiceTypeOK, ServiceInv, ServiceKeeps, Kept, Posts, Stage
<1>4. CASE FailPost(c)
  <2>1. /\ post[c].pc \in {"lookup", "pin", "insert"}
        /\ post' = [post EXCEPT ![c].pc = "failed"]
        /\ UNCHANGED <<traceRow, pinned, signKey, lost>>
    BY <1>4 DEF FailPost
  <2>2. post' \in [Consumers -> Posts]
    BY <1>1, <2>1 DEF Posts, Stage
  <2>3. post'[c].pc = "failed" /\ \A b \in Consumers \ {c} : post'[b] = post[b]
    BY <1>1, <2>1 DEF Posts
  <2>4. QED
    BY <1>1, <1>2, <2>1, <2>2, <2>3
       DEF ServiceTypeOK, ServiceInv, ServiceKeeps, Kept, Posts, Stage
<1>5. QED
  BY <1>3, <1>4 DEF ServiceMishap

LEMMA RestartKeeps ==
  ASSUME ServiceTypeOK, ServiceInv, NEW k \in Signers, RestartService(k)
  PROVE  ServiceTypeOK' /\ ServiceInv' /\ ServiceKeeps
<1>1. post \in [Consumers -> Posts]
  BY DEF ServiceTypeOK, Posts, Stage
<1>2. /\ mishaps' \in 0 .. MaxMishaps
      /\ signKey' \in Signers
      /\ UNCHANGED <<traceRow, pinned, lost>>
  BY ServiceAssumption DEF RestartService, ServiceTypeOK
<1>3. post' = [c \in Consumers |->
         IF InFlight(c) THEN [post[c] EXCEPT !.pc = "failed"] ELSE post[c]]
  BY DEF RestartService
<1>4. post' \in [Consumers -> Posts]
  BY <1>1, <1>3 DEF Posts, Stage
<1>5. \A c \in Consumers :
        post'[c].pc = "failed" \/ (post'[c] = post[c] /\ ~InFlight(c))
  <2>1. TAKE c \in Consumers
  <2>2. CASE InFlight(c)
    <3>1. post'[c] = [post[c] EXCEPT !.pc = "failed"] /\ post[c] \in Posts
      BY <1>1, <1>3, <2>2
    <3>2. QED
      BY <3>1 DEF Posts
  <2>3. CASE ~InFlight(c)
    BY <1>3, <2>3
  <2>4. QED
    BY <2>2, <2>3
<1>6. \A c \in Consumers : post[c].pc = "answered" => ~InFlight(c)
  BY DEF InFlight
<1>7. ServiceKeeps
  BY <1>2, <1>3, <1>6 DEF ServiceKeeps, Kept
<1>8. QED
  BY <1>1, <1>2, <1>4, <1>5, <1>7
     DEF ServiceTypeOK, ServiceInv, ServiceKeeps, Kept, Posts, Stage

LEMMA ServeKeeps ==
  ASSUME ServiceTypeOK, ServiceInv, now \in Nat,
         Serve \/ Rotate
  PROVE  ServiceTypeOK' /\ ServiceInv' /\ ServiceKeeps
BY LookUpKeeps, PinTraceKeeps, SignTraceKeeps, StoreTraceKeeps, MishapKeeps,
   RestartKeeps DEF Serve, Rotate, ServiceStep
-----------------------------------------------------------------------------
(* The clients of the service. *)

LEMMA RunsHavePosts ==
  ASSUME ServiceTypeOK, NEW r \in Runs
  PROVE  /\ r \in Consumers
         /\ post \in [Consumers -> Posts]
         /\ Plan[r].owner \in Accounts
         /\ Plan[r].agentId \in AgentIds
BY FlowAssumption, AddressAssumption DEF ServiceTypeOK, Posts, Stage

LEMMA DigestsExist ==
  ASSUME NEW r \in Runs
  PROVE  (CHOOSE d \in Digests : TRUE) \in Digests
<1>1. PICK h \in IntentHashes : h # ZeroHash
  BY BootstrapAssumption, IdAssumption
<1>2. DigestOf(r, h) \in Digests
  BY <1>1, DigestAssumption
<1>3. QED
  BY <1>2

\* A post in a state that promises nothing yet.
LEMMA FreshPost ==
  ASSUME ServiceTypeOK, ServiceInv, NEW r \in Runs, NEW p \in Posts,
         p.pc \in {"none", "lookup"}, post' = [post EXCEPT ![r] = p],
         UNCHANGED <<traceRow, pinned, signKey, lost, mishaps>>
  PROVE  /\ ServiceTypeOK' /\ ServiceInv'
         /\ \A d \in Digests : Kept(d) => Kept(d)'
         /\ \A q \in Runs \ {r} : post'[q] = post[q]
<1>1. r \in Consumers /\ post \in [Consumers -> Posts]
  BY RunsHavePosts
<1>2. /\ post' \in [Consumers -> Posts]
      /\ post'[r] = p
      /\ \A b \in Consumers \ {r} : post'[b] = post[b]
  BY <1>1
<1>3. ServiceTypeOK'
  BY <1>2 DEF ServiceTypeOK, Posts, Stage
<1>4. \A d : Kept(d) <=> Kept(d)'
  BY DEF Kept
<1>5. ServiceInv'
  BY <1>1, <1>2 DEF ServiceInv, Kept
<1>6. QED
  BY <1>2, <1>3, <1>4, <1>5, FlowAssumption

LEMMA ForgetKeeps ==
  ASSUME ServiceTypeOK, ServiceInv, NEW r \in Runs, NEW gone \in BOOLEAN,
         Forget(r, gone)
  PROVE  /\ ServiceTypeOK' /\ ServiceInv'
         /\ \A d \in Digests : Kept(d) => Kept(d)'
         /\ \A q \in Runs : ~(gone /\ q = r) => post'[q] = post[q]
<1>1. CASE gone
  <2> DEFINE p == NoPost(CHOOSE d \in Digests : TRUE, ZeroAgent, Plan[r].owner)
  <2>1. p \in Posts /\ p.pc = "none"
    BY RunsHavePosts, DigestsExist, IdAssumption DEF NoPost, Posts, Stage
  <2>2. /\ post' = [post EXCEPT ![r] = p]
        /\ UNCHANGED <<traceRow, pinned, signKey, lost, mishaps>>
    BY <1>1 DEF Forget
  <2> HIDE DEF p
  <2>3. QED
    BY <1>1, <2>1, <2>2, FreshPost
<1>2. CASE ~gone
  <2>1. UNCHANGED <<traceRow, pinned, signKey, lost, mishaps, post>>
    BY <1>2 DEF Forget
  <2>2. QED
    BY <2>1 DEF ServiceTypeOK, ServiceInv, Kept
<1>3. QED
  BY <1>1, <1>2

LEMMA PostTraceKeeps ==
  ASSUME ServiceTypeOK, ServiceInv, NEW r \in Runs, NEW d \in Digests,
         PostTrace(r, d, Plan[r].agentId, Plan[r].owner)
  PROVE  /\ ServiceTypeOK' /\ ServiceInv'
         /\ \A e \in Digests : Kept(e) => Kept(e)'
         /\ \A q \in Runs \ {r} : post'[q] = post[q]
<1> DEFINE p == [NoPost(d, Plan[r].agentId, Plan[r].owner) EXCEPT !.pc = "lookup"]
<1>1. p \in Posts /\ p.pc = "lookup"
  BY RunsHavePosts DEF NoPost, Posts, Stage
<1>2. /\ post' = [post EXCEPT ![r] = p]
      /\ UNCHANGED <<traceRow, pinned, signKey, lost, mishaps>>
  BY DEF PostTrace
<1> HIDE DEF p
<1>3. QED
  BY <1>1, <1>2, FreshPost
-----------------------------------------------------------------------------
(* The runs. *)

RunStates ==
  [pc : Ended \cup {"intent", "upload", "response", "preflight", "simulate",
                    "send", "wait"},
   try : Nat, intent : IntentHashes]

\* What a step of run r, or of none, does with the service.
ServiceMoves(r) ==
  /\ ServiceTypeOK' /\ ServiceInv'
  /\ \A d \in Digests : Kept(d) => Kept(d)'
  /\ \A q \in Runs \ {r} : post[q].pc = "answered" => post'[q] = post[q]

LEMMA ServiceFrame ==
  ASSUME FlowInv, UNCHANGED serviceVars
  PROVE  \A r : ServiceMoves(r)
BY DEF FlowInv, FlowTypeOK, ServiceMoves, serviceVars, ServiceTypeOK, ServiceInv,
       Kept

\* A step of run r that mines nothing.
LEMMA RunMoves ==
  ASSUME FlowInv, NEW r \in Runs, NEW s \in RunStates,
         s.try <= MaxTries[r], run[r].try <= s.try,
         s.pc # "success",
         s.pc = "upload" => s.intent # ZeroHash,
         s.pc \in {"preflight", "simulate", "send"} => post'[r].pc = "answered",
         run' = [run EXCEPT ![r] = s],
         ServiceMoves(r), UNCHANGED <<contractVars, paid>>,
         \A tx \in mempool' :
           \/ tx \in mempool
           \/ tx.run = r /\ tx.try = s.try /\ AsPlanned(tx.run, tx.req)'
  PROVE  FlowInv'
<1> USE DEF FlowInv, ServiceMoves
<1>1. run \in [Runs -> RunStates]
  BY DEF FlowTypeOK, RunStates
<1>2. /\ run' \in [Runs -> RunStates]
      /\ run'[r] = s
      /\ \A q \in Runs \ {r} : run'[q] = run[q]
  BY <1>1
<1>3. ChainTypeOK' /\ RegistryTypeOK' /\ ExecutorTypeOK'
  BY DEF FlowTypeOK, ChainTypeOK, RegistryTypeOK, ExecutorTypeOK, contractVars,
         chainVars, registryVars, executorVars
<1>4. receipts' = receipts /\ execNonce' = execNonce /\ paid' = paid
  BY DEF contractVars, executorVars
<1>5. FlowTypeOK'
  <2>1. \A q \in Runs : run'[q].try <= MaxTries[q]
    BY <1>2 DEF FlowTypeOK
  <2>2. ASSUME NEW tx \in mempool'
        PROVE  tx.run \in Runs /\ tx.try \in 0 .. run'[tx.run].try
    <3>1. CASE tx \in mempool
      <4>1. /\ tx.run \in Runs /\ tx.try \in Nat /\ tx.try <= run[tx.run].try
            /\ run[tx.run].try \in Nat /\ run'[tx.run].try \in Nat
        BY <1>1, <1>2, <3>1 DEF FlowTypeOK, RunStates
      <4>2. run[tx.run].try <= run'[tx.run].try
        BY <1>2, <4>1
      <4>3. QED
        BY <4>1, <4>2
    <3>2. CASE tx.run = r /\ tx.try = s.try
      BY <1>2, <3>2 DEF RunStates
    <3>3. QED
      BY <3>1, <3>2
  <2>3. \A p \in paid' : p.receiptId \in DOMAIN receipts'
    BY <1>4 DEF FlowTypeOK
  <2>4. QED
    BY <1>2, <1>3, <2>1, <2>2, <2>3 DEF FlowTypeOK, RunStates
<1>6. RunInv'
  <2>1. ASSUME NEW q \in Runs
        PROVE  /\ run'[q].pc = "upload" => run'[q].intent # ZeroHash
               /\ run'[q].pc \in {"preflight", "simulate", "send"} =>
                    post'[q].pc = "answered"
    BY <1>2 DEF RunInv
  <2>2. ASSUME NEW tx \in mempool', tx \in mempool
        PROVE  AsPlanned(tx.run, tx.req)'
    BY <2>2 DEF RunInv, AsPlanned, TraceAck
  <2>3. QED
    BY <2>1, <2>2 DEF RunInv
<1>7. ReceiptInv'
  <2>1. \A id \in DOMAIN receipts : receipts[id].contextDigest \in Digests
    BY DEF FlowTypeOK, ExecutorTypeOK, ReceiptSummary
  <2>2. QED
    BY <1>4, <2>1 DEF ReceiptInv
<1>8. ReportedPaymentIsReal'
  BY <1>2, <1>4 DEF ReportedPaymentIsReal
<1>9. QED
  BY <1>5, <1>6, <1>7, <1>8

LEMMA RunIsTyped ==
  ASSUME FlowInv, NEW r \in Runs
  PROVE  /\ r \in Consumers
         /\ run \in [Runs -> RunStates]
         /\ run[r] \in RunStates
         /\ run[r].try \in Nat
         /\ run[r].try <= MaxTries[r]
         /\ MaxTries[r] \in Nat
         /\ activeIntentHash[Plan[r].owner] \in IntentHashes
         /\ ZeroHash \in IntentHashes
BY FlowAssumption, IdAssumption
   DEF FlowInv, FlowTypeOK, RunStates, RegistryTypeOK

LEMMA MempoolStays ==
  ASSUME NEW r, NEW t, mempool' = mempool
  PROVE  \A tx \in mempool' :
           \/ tx \in mempool
           \/ tx.run = r /\ tx.try = t /\ AsPlanned(tx.run, tx.req)'
OBVIOUS

LEMMA StartRunInv ==
  ASSUME FlowInv, NEW r \in Runs, StartRun(r)
  PROVE  FlowInv'
<1> DEFINE s == [pc |-> "intent", intent |-> ZeroHash,
                 try |-> IF run[r].try < MaxTries[r] THEN run[r].try + 1
                         ELSE MaxTries[r]]
<1>1. /\ s \in RunStates
      /\ s.pc = "intent"
      /\ s.try <= MaxTries[r]
      /\ run[r].try <= s.try
  BY RunIsTyped DEF RunStates
<1>2. run' = [run EXCEPT ![r] = s]
  BY DEF StartRun
<1>3. UNCHANGED serviceVars /\ UNCHANGED <<contractVars, mempool, paid, ownerTxs>>
  BY DEF StartRun, NothingElse
<1> HIDE DEF s
<1>4. ServiceMoves(r) /\ UNCHANGED <<contractVars, paid>> /\ mempool' = mempool
  BY <1>3, ServiceFrame
<1>5. QED
  BY <1>1, <1>2, <1>4, MempoolStays, RunMoves

LEMMA ReadActiveIntentHashInv ==
  ASSUME FlowInv, NEW r \in Runs, ReadActiveIntentHash(r)
  PROVE  FlowInv'
<1> DEFINE h == activeIntentHash[Plan[r].owner]
           s == [run[r] EXCEPT !.pc = IF h = ZeroHash THEN "failed" ELSE "upload",
                               !.intent = h]
<1>1. h \in IntentHashes
  BY RunIsTyped
<1>2. run' = [run EXCEPT ![r] = s]
  BY RunIsTyped DEF ReadActiveIntentHash
<1>3. UNCHANGED serviceVars /\ UNCHANGED <<contractVars, mempool, paid, ownerTxs>>
  BY DEF ReadActiveIntentHash, NothingElse
<1> HIDE DEF h
<1>4. /\ s \in RunStates
      /\ s.pc = "failed" \/ (s.pc = "upload" /\ s.intent # ZeroHash)
      /\ s.try = run[r].try
  BY <1>1, RunIsTyped DEF RunStates, Ended
<1>5. run[r].try <= s.try /\ s.try <= MaxTries[r]
  BY <1>4, RunIsTyped
<1> HIDE DEF s
<1>6. ServiceMoves(r) /\ UNCHANGED <<contractVars, paid>> /\ mempool' = mempool
  BY <1>3, ServiceFrame
<1>7. s.pc # "success" /\ s.pc \notin {"preflight", "simulate", "send"}
  BY <1>4
<1>8. QED
  BY <1>2, <1>4, <1>5, <1>6, <1>7, MempoolStays, RunMoves

\* Goto moves a run to a label of its own.
LEMMA GotoMoves ==
  ASSUME FlowInv, NEW r \in Runs,
         NEW label \in {"response", "preflight", "simulate", "send", "blocked",
                        "failed"},
         Goto(r, label)
  PROVE  \E s \in RunStates :
           /\ run' = [run EXCEPT ![r] = s]
           /\ s.pc = label
           /\ s.try = run[r].try
<1> DEFINE s == [run[r] EXCEPT !.pc = label,
                   !.intent = IF label \in Ended THEN ZeroHash ELSE @]
<1>1. run' = [run EXCEPT ![r] = s]
  BY RunIsTyped DEF Goto
<1>2. s \in RunStates /\ s.pc = label /\ s.try = run[r].try
  BY RunIsTyped DEF RunStates, Ended
<1>3. QED
  BY <1>1, <1>2

LEMMA UploadTraceInv ==
  ASSUME FlowInv, NEW r \in Runs, UploadTrace(r)
  PROVE  FlowInv'
<1>1. /\ PostTrace(r, DigestOf(r, run[r].intent), Plan[r].agentId, Plan[r].owner)
      /\ Goto(r, "response")
      /\ UNCHANGED <<contractVars, mempool, paid, ownerTxs>>
      /\ run[r].pc = "upload"
  BY DEF UploadTrace, NothingElse, At
<1>2. run[r].intent \in IntentHashes \ {ZeroHash}
  BY <1>1, RunIsTyped DEF FlowInv, RunInv, RunStates
<1>3. DigestOf(r, run[r].intent) \in Digests
  BY <1>2, DigestAssumption
<1>4. ServiceMoves(r)
  BY <1>1, <1>3, PostTraceKeeps DEF FlowInv, FlowTypeOK, ServiceMoves
<1>5. PICK s \in RunStates :
        /\ run' = [run EXCEPT ![r] = s]
        /\ s.pc = "response"
        /\ s.try = run[r].try
  BY <1>1, GotoMoves
<1>6. run[r].try <= s.try /\ s.try <= MaxTries[r]
  BY <1>5, RunIsTyped
<1>7. QED
  BY <1>1, <1>4, <1>5, <1>6, MempoolStays, RunMoves

LEMMA GoInv ==
  ASSUME FlowInv, NEW r \in Runs,
         NEW label \in {"preflight", "simulate", "send", "blocked", "failed"},
         Go(r, label),
         label \in {"preflight", "simulate", "send"} => post[r].pc = "answered",
         NothingElse
  PROVE  FlowInv'
<1>1. /\ Goto(r, label) /\ Forget(r, label \in Ended)
      /\ UNCHANGED <<contractVars, mempool, paid, ownerTxs>>
  BY DEF Go, NothingElse
<1>2. /\ ServiceMoves(r)
      /\ label \notin Ended => post'[r] = post[r]
  <2>1. CASE label \in Ended
    <3>1. Forget(r, TRUE)
      BY <1>1, <2>1 DEF Forget
    <3>2. QED
      BY <2>1, <3>1, ForgetKeeps DEF FlowInv, FlowTypeOK, ServiceMoves
  <2>2. CASE label \notin Ended
    <3>1. Forget(r, FALSE)
      BY <1>1, <2>2 DEF Forget
    <3>2. QED
      BY <3>1, ForgetKeeps DEF FlowInv, FlowTypeOK, ServiceMoves
  <2>3. QED
    BY <2>1, <2>2
<1>3. PICK s \in RunStates :
        /\ run' = [run EXCEPT ![r] = s]
        /\ s.pc = label
        /\ s.try = run[r].try
  BY <1>1, GotoMoves
<1>4. run[r].try <= s.try /\ s.try <= MaxTries[r]
  BY <1>3, RunIsTyped
<1>5. s.pc \in {"preflight", "simulate", "send"} => post'[r].pc = "answered"
  BY <1>2, <1>3 DEF Ended
<1>6. QED
  BY <1>1, <1>2, <1>3, <1>4, <1>5, MempoolStays, RunMoves

LEMMA RunStepInv ==
  ASSUME FlowInv, NEW r \in Runs,
         ReceiveAck(r) \/ Preflight(r) \/ Simulate(r)
  PROVE  FlowInv'
<1>1. CASE ReceiveAck(r)
  <2>1. NothingElse /\
        \E label \in {"preflight", "failed"} :
          Go(r, label) /\ (label = "preflight" => post[r].pc = "answered")
    BY <1>1 DEF ReceiveAck
  <2>2. QED
    BY <2>1, GoInv
<1>2. CASE Preflight(r)
  <2>1. NothingElse /\ Go(r, AfterPreflight(r)) /\ run[r].pc = "preflight"
    BY <1>2 DEF Preflight, At
  <2>2. AfterPreflight(r) \in {"simulate", "blocked", "failed"}
    BY DEF AfterPreflight
  <2>3. post[r].pc = "answered"
    BY <2>1 DEF FlowInv, RunInv
  <2>4. QED
    BY <2>1, <2>2, <2>3, GoInv
<1>3. CASE Simulate(r)
  <2>1. NothingElse /\ run[r].pc = "simulate"
        /\ \E label \in {"send", "failed"} : Go(r, label)
    BY <1>3 DEF Simulate, At
  <2>2. post[r].pc = "answered"
    BY <2>1 DEF FlowInv, RunInv
  <2>3. QED
    BY <2>1, <2>2, GoInv
<1>4. QED
  BY <1>1, <1>2, <1>3

LEMMA SendInv ==
  ASSUME FlowInv, NEW r \in Runs, Send(r)
  PROVE  FlowInv'
<1> DEFINE s == [run[r] EXCEPT !.pc = "wait", !.intent = ZeroHash]
           req == BuildExecutionRequest(r)
<1>1. /\ run[r].pc = "send"
      /\ Forget(r, TRUE)
      /\ UNCHANGED <<contractVars, paid, ownerTxs>>
      /\ mempool' = mempool \cup {[run |-> r, try |-> run[r].try, req |-> req]}
  BY DEF Send, At
<1>2. run' = [run EXCEPT ![r] = s]
  BY RunIsTyped DEF Send
<1>3. s \in RunStates /\ s.pc = "wait" /\ s.try = run[r].try
  BY RunIsTyped DEF RunStates
<1>4. ServiceMoves(r)
  BY <1>1, ForgetKeeps DEF FlowInv, FlowTypeOK, ServiceMoves
<1>5. ASSUME NEW tx \in mempool', tx \notin mempool
      PROVE  tx.run = r /\ tx.try = run[r].try /\ AsPlanned(tx.run, tx.req)'
  <2>1. post[r].pc = "answered" /\ post[r] \in Posts
    BY <1>1, RunsHavePosts DEF FlowInv, FlowTypeOK, RunInv
  <2>2. /\ post[r].ack \in TraceAck
        /\ post[r].ack.contextDigest \in Digests
        /\ Kept(post[r].ack.contextDigest)
    BY <2>1, RunIsTyped DEF FlowInv, ServiceInv, Posts
  <2>3. tx.run = r /\ tx.try = run[r].try /\ tx.req = req
    BY <1>1, <1>5
  <2>4. /\ tx.req.owner = Plan[r].owner /\ tx.req.agentId = Plan[r].agentId
        /\ tx.req.target = Plan[r].target /\ tx.req.token = USDC
        /\ tx.req.amount = Plan[r].amount /\ tx.req.traceAck = post[r].ack
    BY <2>3 DEF BuildExecutionRequest
  <2>5. QED
    BY <1>4, <2>2, <2>3, <2>4 DEF AsPlanned, ServiceMoves
<1> HIDE DEF s, req
<1>6. run[r].try <= s.try /\ s.try <= MaxTries[r]
  BY <1>3, RunIsTyped
<1>7. QED
  BY <1>1, <1>2, <1>3, <1>4, <1>5, <1>6, RunMoves

LEMMA LoseWaitInv ==
  ASSUME FlowInv, NEW r \in Runs, LoseWait(r)
  PROVE  FlowInv'
<1>1. /\ Goto(r, "failed")
      /\ UNCHANGED <<contractVars, traceRow, pinned, signKey, post, lost, mempool,
                     paid, ownerTxs>>
  BY DEF LoseWait
<1>2. PICK s \in RunStates :
        /\ run' = [run EXCEPT ![r] = s]
        /\ s.pc = "failed"
        /\ s.try = run[r].try
  BY <1>1, GotoMoves
<1>3. run[r].try <= s.try /\ s.try <= MaxTries[r]
  BY <1>2, RunIsTyped
<1>4. mishaps' \in 0 .. MaxMishaps
  BY ServiceAssumption DEF LoseWait, FlowInv, FlowTypeOK, ServiceTypeOK
<1>5. ServiceMoves(r)
  BY <1>1, <1>4 DEF FlowInv, FlowTypeOK, ServiceMoves, ServiceTypeOK, ServiceInv,
                    Kept
<1>6. QED
  BY <1>1, <1>2, <1>3, <1>5, MempoolStays, RunMoves
-----------------------------------------------------------------------------
(* What is mined. *)

LEMMA EndWaitMoves ==
  ASSUME FlowInv, NEW tx \in mempool, NEW outcome \in {"success", "failed"},
         EndWait(tx, outcome)
  PROVE  /\ run' \in [Runs -> RunStates]
         /\ \A r \in Runs :
              /\ run'[r].try = run[r].try
              /\ run'[r] = run[r]
                 \/ (run'[r].pc = outcome /\ tx.run = r /\ tx.try = run[r].try)
<1>1. tx.run \in Runs /\ run \in [Runs -> RunStates]
  BY DEF FlowInv, FlowTypeOK, RunStates
<1>2. CASE AwaitedBy(tx)
  <2>1. /\ run' = [run EXCEPT ![tx.run].pc = outcome]
        /\ tx.try = run[tx.run].try
    BY <1>2 DEF EndWait, AwaitedBy
  <2>2. run' \in [Runs -> RunStates]
    BY <1>1, <2>1 DEF RunStates, Ended
  <2>3. run'[tx.run].pc = outcome /\ run'[tx.run].try = run[tx.run].try
    BY <1>1, <2>1 DEF RunStates
  <2>4. \A r \in Runs \ {tx.run} : run'[r] = run[r]
    BY <1>1, <2>1
  <2>5. QED
    BY <2>1, <2>2, <2>3, <2>4
<1>3. CASE ~AwaitedBy(tx)
  <2>1. run' = run
    BY <1>3 DEF EndWait
  <2>2. QED
    BY <1>1, <2>1
<1>4. QED
  BY <1>2, <1>3

\* Whatever is mined, the runs and the mempool stay in order.
LEMMA MinedRuns ==
  ASSUME FlowInv, NEW tx \in mempool, NEW outcome \in {"success", "failed"},
         EndWait(tx, outcome), mempool' = mempool \ {tx}, UNCHANGED serviceVars
  PROVE  /\ RunInv'
         /\ run' \in [Runs -> RunStates]
         /\ \A r \in Runs : run'[r].try <= MaxTries[r]
         /\ \A t \in mempool' : t.run \in Runs /\ t.try \in 0 .. run'[t.run].try
<1>1. /\ run' \in [Runs -> RunStates]
      /\ \A r \in Runs :
           /\ run'[r].try = run[r].try
           /\ run'[r] = run[r] \/ run'[r].pc = outcome
  BY EndWaitMoves
<1>2. \A t \in mempool : AsPlanned(t.run, t.req)'
  BY DEF FlowInv, RunInv, AsPlanned, Kept, serviceVars
<1>3. post' = post
  BY DEF serviceVars
<1>4. RunInv'
  BY <1>1, <1>2, <1>3 DEF FlowInv, RunInv
<1>5. QED
  BY <1>1, <1>4 DEF FlowInv, FlowTypeOK

LEMMA MineRevertedInv ==
  ASSUME FlowInv, NEW tx \in mempool, MineReverted(tx)
  PROVE  FlowInv'
<1>1. /\ EndWait(tx, "failed")
      /\ mempool' = mempool \ {tx}
      /\ UNCHANGED serviceVars
      /\ UNCHANGED <<contractVars, paid>>
  BY DEF MineReverted
<1>2. /\ RunInv'
      /\ run' \in [Runs -> RunStates]
      /\ \A r \in Runs : run'[r].try <= MaxTries[r]
      /\ \A t \in mempool' : t.run \in Runs /\ t.try \in 0 .. run'[t.run].try
  BY <1>1, MinedRuns
<1>3. ServiceTypeOK' /\ ServiceInv'
  BY <1>1, ServiceFrame DEF ServiceMoves
<1>4. ChainTypeOK' /\ RegistryTypeOK' /\ ExecutorTypeOK'
  BY <1>1 DEF FlowInv, FlowTypeOK, ChainTypeOK, RegistryTypeOK, ExecutorTypeOK,
         contractVars, chainVars, registryVars, executorVars
<1>5. receipts' = receipts /\ execNonce' = execNonce /\ paid' = paid
  BY <1>1 DEF contractVars, executorVars
<1>6. FlowTypeOK'
  BY <1>2, <1>3, <1>4, <1>5 DEF FlowInv, FlowTypeOK, RunStates
<1>7. ReceiptInv'
  BY <1>1, <1>5 DEF FlowInv, ReceiptInv, Kept, serviceVars
<1>8. ReportedPaymentIsReal'
  <2>1. \A r \in Runs :
          run'[r].try = run[r].try /\ (run'[r] = run[r] \/ run'[r].pc = "failed")
    BY <1>1, EndWaitMoves
  <2>2. QED
    BY <1>5, <2>1 DEF FlowInv, ReportedPaymentIsReal
<1>9. QED
  BY <1>2, <1>3, <1>6, <1>7, <1>8 DEF FlowInv

LEMMA NowIsADay == ASSUME ChainTypeOK PROVE now \in Nat /\ DayOf(now) \in Days
BY DEF ChainTypeOK, Days

\* A payment leaves one new receipt, of what was planned, and nothing else
\* among the receipts; the contracts stay well typed.
LEMMA PaidOnce ==
  ASSUME FlowInv, NEW tx \in mempool, MinePaid(tx)
  PROVE  /\ ChainTypeOK' /\ RegistryTypeOK' /\ ExecutorTypeOK'
         /\ LoggedReceipt(tx) \notin DOMAIN receipts
         /\ DOMAIN receipts' = DOMAIN receipts \cup {LoggedReceipt(tx)}
         /\ \A id \in DOMAIN receipts : receipts'[id] = receipts[id]
         /\ receipts'[LoggedReceipt(tx)].amount = Plan[tx.run].amount
         /\ receipts'[LoggedReceipt(tx)].target = Plan[tx.run].target
         /\ receipts'[LoggedReceipt(tx)].contextDigest
              = tx.req.traceAck.contextDigest
         /\ LoggedReceipt(tx)[3] < execNonce'[LoggedReceipt(tx)[1]]
         /\ \A o \in Owners : execNonce[o] <= execNonce'[o]
<1> DEFINE req == tx.req
           id == LoggedReceipt(tx)
<1>1. ExecuteWithGuard(Plan[tx.run].sender, req) /\ UNCHANGED <<now, registryVars>>
  BY DEF MinePaid
<1>2. tx.run \in Runs /\ AsPlanned(tx.run, req)
  BY DEF FlowInv, FlowTypeOK, RunInv
<1>3. /\ req.owner \in Owners
      /\ req.owner \in Accounts
      /\ req.agentId \in AgentIds
      /\ req.target \in Accounts
      /\ req.token \in Tokens
      /\ req.amount \in Nat
      /\ req.traceAck.contextDigest \in Digests
  BY <1>2, FlowAssumption, AddressAssumption, IdAssumption DEF AsPlanned, TraceAck
<1>4. ChainTypeOK /\ RegistryTypeOK /\ ExecutorTypeOK
  BY DEF FlowInv, FlowTypeOK
<1>5. RegistryTypeOK'
  BY <1>1, <1>4 DEF RegistryTypeOK, registryVars
<1>6. ChainTypeOK'
  <2>1. /\ balance[req.owner] >= req.amount
        /\ balance' = Transfer(balance, req.owner, req.target, req.amount)
    BY <1>1 DEF ExecuteWithGuard, CanTransfer
  <2>2. balance' \in [Accounts -> Nat]
    BY <1>3, <1>4, <2>1 DEF Transfer, ChainTypeOK
  <2>3. QED
    BY <1>1, <1>4, <2>2 DEF ChainTypeOK
<1>7. /\ execNonce' = [execNonce EXCEPT ![req.owner] = @ + 1]
      /\ execNonce[req.owner] \in Nat
      /\ id = <<req.owner, req.agentId, execNonce[req.owner]>>
  BY <1>1, <1>3, <1>4
     DEF ExecuteWithGuard, ExecutorTypeOK, LoggedReceipt, ReceiptId
<1>8. receipts' = [i \in DOMAIN receipts \cup {id} |->
                     IF i = id THEN Summary(req) ELSE receipts[i]]
  BY <1>1 DEF ExecuteWithGuard, LoggedReceipt
<1>9. id \notin DOMAIN receipts
  <2>1. SUFFICES ASSUME id \in DOMAIN receipts PROVE FALSE
    OBVIOUS
  <2>2. id[3] < execNonce[id[1]]
    BY <2>1 DEF FlowInv, ReceiptInv
  <2>3. QED
    BY <1>7, <2>2
<1>10. Summary(req) \in ReceiptSummary
  BY <1>3, <1>4 DEF Summary, ReceiptSummary, ExecutorTypeOK, RegistryTypeOK,
         ChainTypeOK
<1>11. id \in ReceiptIds
  BY <1>3, <1>7 DEF ReceiptIds
<1>12. spentByDay' \in [Owners -> [Days -> Nat]]
  BY <1>1, <1>3, <1>4, NowIsADay DEF ExecuteWithGuard, SpentAfter, ExecutorTypeOK
<1>13. UNCHANGED <<delegates, traceAckSigner>>
  BY <1>1 DEF ExecuteWithGuard
<1>14. execNonce' \in [Owners -> Nat] /\ \A o \in Owners : execNonce[o] <= execNonce'[o]
  BY <1>3, <1>4, <1>7 DEF ExecutorTypeOK
<1>15. id[3] < execNonce'[id[1]]
  BY <1>3, <1>4, <1>7 DEF ExecutorTypeOK
<1> HIDE DEF id, req
<1>16. /\ DOMAIN receipts' = DOMAIN receipts \cup {id}
       /\ \A i \in DOMAIN receipts : receipts'[i] = receipts[i]
       /\ receipts'[id] = Summary(req)
  BY <1>8, <1>9
<1>17. ExecutorTypeOK'
  BY <1>4, <1>10, <1>11, <1>12, <1>13, <1>14, <1>16 DEF ExecutorTypeOK
<1>18. /\ Summary(req).amount = Plan[tx.run].amount
       /\ Summary(req).target = Plan[tx.run].target
       /\ Summary(req).contextDigest = req.traceAck.contextDigest
  BY <1>2 DEF Summary, AsPlanned
<1>19. QED
  BY <1>5, <1>6, <1>9, <1>14, <1>15, <1>16, <1>17, <1>18 DEF id, req

LEMMA MinePaidInv ==
  ASSUME FlowInv, NEW tx \in mempool, MinePaid(tx)
  PROVE  FlowInv'
<1> DEFINE id  == LoggedReceipt(tx)
           new == [run |-> tx.run, try |-> tx.try, receiptId |-> id]
<1>1. /\ EndWait(tx, "success")
      /\ mempool' = mempool \ {tx}
      /\ paid' = paid \cup {new}
      /\ UNCHANGED serviceVars
  BY DEF MinePaid
<1>2. /\ RunInv'
      /\ run' \in [Runs -> RunStates]
      /\ \A r \in Runs : run'[r].try <= MaxTries[r]
      /\ \A t \in mempool' : t.run \in Runs /\ t.try \in 0 .. run'[t.run].try
  BY <1>1, MinedRuns
<1>3. ServiceTypeOK' /\ ServiceInv' /\ \A d : Kept(d) => Kept(d)'
  BY <1>1, ServiceFrame DEF ServiceMoves, Kept, serviceVars
<1>4. /\ ChainTypeOK' /\ RegistryTypeOK' /\ ExecutorTypeOK'
      /\ id \notin DOMAIN receipts
      /\ DOMAIN receipts' = DOMAIN receipts \cup {id}
      /\ \A i \in DOMAIN receipts : receipts'[i] = receipts[i]
      /\ receipts'[id].amount = Plan[tx.run].amount
      /\ receipts'[id].target = Plan[tx.run].target
      /\ receipts'[id].contextDigest = tx.req.traceAck.contextDigest
      /\ id[3] < execNonce'[id[1]]
      /\ \A o \in Owners : execNonce[o] <= execNonce'[o]
  BY PaidOnce
<1>5. new.run = tx.run /\ new.try = tx.try /\ new.receiptId = id
  OBVIOUS
<1> HIDE DEF id, new
<1>6. \A p \in paid : p.receiptId \in DOMAIN receipts
  BY DEF FlowInv, FlowTypeOK
<1>7. FlowTypeOK'
  BY <1>1, <1>2, <1>3, <1>4, <1>5, <1>6 DEF FlowTypeOK, RunStates
<1>8. ReceiptInv'
  <2>1. Kept(tx.req.traceAck.contextDigest)
    BY DEF FlowInv, RunInv, AsPlanned
  <2>2. ASSUME NEW i \in DOMAIN receipts
        PROVE  i[3] < execNonce'[i[1]]
    <3>1. i[3] \in Nat /\ i[1] \in Owners /\ i[3] < execNonce[i[1]]
      BY DEF FlowInv, FlowTypeOK, ExecutorTypeOK, ReceiptInv, ReceiptIds
    <3>2. execNonce[i[1]] \in Nat /\ execNonce'[i[1]] \in Nat
      BY <1>4, <3>1 DEF FlowInv, FlowTypeOK, ExecutorTypeOK
    <3>3. QED
      BY <1>4, <3>1, <3>2
  <2>3. \A i \in DOMAIN receipts : Kept(receipts[i].contextDigest)
    BY DEF FlowInv, ReceiptInv
  <2>4. \A i \in DOMAIN receipts' :
          i[3] < execNonce'[i[1]] /\ Kept(receipts'[i].contextDigest)
    BY <1>4, <2>1, <2>2, <2>3
  <2>5. QED
    BY <1>3, <2>4 DEF ReceiptInv
<1>9. ReportedPaymentIsReal'
  <2>1. ASSUME NEW r \in Runs, run'[r].pc = "success"
        PROVE  \E p \in paid' :
                 /\ p.run = r /\ p.try = run'[r].try
                 /\ receipts'[p.receiptId].amount = Plan[r].amount
                 /\ receipts'[p.receiptId].target = Plan[r].target
    <3>1. /\ run'[r].try = run[r].try
          /\ run'[r] = run[r] \/ (tx.run = r /\ tx.try = run[r].try)
      BY <1>1, EndWaitMoves
    <3>2. CASE run'[r] = run[r]
      <4>1. PICK p \in paid :
              /\ p.run = r /\ p.try = run[r].try
              /\ receipts[p.receiptId].amount = Plan[r].amount
              /\ receipts[p.receiptId].target = Plan[r].target
        BY <2>1, <3>2 DEF FlowInv, ReportedPaymentIsReal
      <4>2. QED
        BY <1>1, <1>4, <1>6, <3>1, <4>1
    <3>3. CASE tx.run = r /\ tx.try = run[r].try
      BY <1>1, <1>4, <1>5, <3>1, <3>3
    <3>4. QED
      BY <3>1, <3>2, <3>3
  <2>2. \A p, q \in paid' : p.receiptId = q.receiptId => p = q
    BY <1>1, <1>4, <1>5, <1>6 DEF FlowInv, ReportedPaymentIsReal
  <2>3. QED
    BY <2>1, <2>2 DEF ReportedPaymentIsReal
<1>10. QED
  BY <1>2, <1>3, <1>7, <1>8, <1>9 DEF FlowInv
-----------------------------------------------------------------------------
(* What goes on around the runs. *)

\* Steps that touch neither the runs nor the receipts.
LEMMA FlowFrame ==
  ASSUME FlowInv, ChainTypeOK', RegistryTypeOK', ExecutorTypeOK',
         ServiceTypeOK', ServiceInv', ServiceKeeps,
         UNCHANGED <<run, mempool, paid, receipts, execNonce>>
  PROVE  FlowInv'
<1> USE DEF FlowInv
<1>1. FlowTypeOK'
  BY DEF FlowTypeOK
<1>2. RunInv'
  <2>1. \A tx \in mempool : AsPlanned(tx.run, tx.req)'
    <3>1. TAKE tx \in mempool
    <3>2. AsPlanned(tx.run, tx.req) /\ tx.req.traceAck.contextDigest \in Digests
      BY DEF RunInv, AsPlanned, TraceAck
    <3>3. QED
      BY <3>2 DEF AsPlanned, ServiceKeeps
  <2>2. \A r \in Runs : post[r].pc = "answered" => post'[r] = post[r]
    BY FlowAssumption DEF ServiceKeeps
  <2>3. QED
    BY <2>1, <2>2 DEF RunInv
<1>3. ReceiptInv'
  <2>1. \A id \in DOMAIN receipts : receipts[id].contextDigest \in Digests
    BY DEF FlowTypeOK, ExecutorTypeOK, ReceiptSummary
  <2>2. QED
    BY <2>1 DEF ReceiptInv, ServiceKeeps
<1>4. ReportedPaymentIsReal'
  BY DEF ReportedPaymentIsReal
<1>5. QED
  BY <1>1, <1>2, <1>3, <1>4

LEMMA ServiceStays ==
  ASSUME FlowInv, UNCHANGED serviceVars
  PROVE  ServiceTypeOK' /\ ServiceInv' /\ ServiceKeeps
<1>1. ServiceTypeOK' /\ ServiceInv'
  BY ServiceFrame DEF ServiceMoves
<1>2. ServiceKeeps
  BY DEF ServiceKeeps, Kept, serviceVars
<1>3. QED
  BY <1>1, <1>2

LEMMA OwnerTxInv ==
  ASSUME FlowInv, OwnerTx
  PROVE  FlowInv'
<1>1. UNCHANGED <<chainVars, serviceVars, run, mempool, paid>>
  BY DEF OwnerTx
<1>2. ServiceTypeOK' /\ ServiceInv' /\ ServiceKeeps
  BY <1>1, ServiceStays
<1>3. ChainTypeOK'
  BY <1>1 DEF FlowInv, FlowTypeOK, ChainTypeOK, chainVars
<1>4. /\ RegistryTypeOK' /\ ExecutorTypeOK'
      /\ UNCHANGED <<receipts, execNonce>>
  <2>1. RegistryTypeOK /\ ExecutorTypeOK
    BY DEF FlowInv, FlowTypeOK
  <2>2. CASE \E o \in Owners, h \in IntentHashes, cfg \in IntentConfigs :
               CommitIntent(o, h, cfg) /\ UNCHANGED executorVars
    <3>1. PICK o \in Owners, h \in IntentHashes, cfg \in IntentConfigs :
            CommitIntent(o, h, cfg) /\ UNCHANGED executorVars
      BY <2>2
    <3>2. cfg \in IntentConfig /\ cfg.nonce \in Nat
      BY InputAssumption DEF IntentConfig
    <3>3. /\ activeIntentHash' \in [Owners -> IntentHashes]
          /\ lastNonce' \in [Owners -> Nat]
      BY <2>1, <3>1, <3>2 DEF CommitIntent, RegistryTypeOK
    <3>4. intentConfig' \in [IntentHashes -> IntentConfig \cup {NoConfig}]
      BY <2>1, <3>1, <3>2 DEF CommitIntent, RegistryTypeOK
    <3>5. QED
      BY <2>1, <3>1, <3>3, <3>4 DEF RegistryTypeOK, ExecutorTypeOK, executorVars
  <2>3. CASE \E o \in Owners : RevokeIntent(o) /\ UNCHANGED executorVars
    BY <2>1, <2>3, IdAssumption
       DEF RevokeIntent, RegistryTypeOK, ExecutorTypeOK, executorVars
  <2>4. CASE \E o \in Owners, a \in AgentIds, d \in Delegates, b \in BOOLEAN :
               SetAgentDelegate(o, a, d, b) /\ UNCHANGED registryVars
    BY <2>1, <2>4
       DEF SetAgentDelegate, RegistryTypeOK, ExecutorTypeOK, registryVars
  <2>5. QED
    BY <2>2, <2>3, <2>4 DEF OwnerTx
<1>5. QED
  BY <1>1, <1>2, <1>3, <1>4, FlowFrame

LEMMA AroundInv ==
  ASSUME FlowInv, FollowRotation \/ NextBlock \/ UNCHANGED vars
  PROVE  FlowInv'
<1>1. UNCHANGED serviceVars /\ UNCHANGED <<run, mempool, paid, receipts, execNonce>>
  BY DEF FollowRotation, NextBlock, SetTraceAckSigner, vars, flowVars,
         contractVars, executorVars
<1>2. ServiceTypeOK' /\ ServiceInv' /\ ServiceKeeps
  BY <1>1, ServiceStays
<1>3. ChainTypeOK'
  BY NumberAssumption
     DEF FlowInv, FlowTypeOK, ChainTypeOK, FollowRotation, NextBlock, Tick, vars,
         contractVars, chainVars
<1>4. RegistryTypeOK'
  BY DEF FlowInv, FlowTypeOK, RegistryTypeOK, FollowRotation, NextBlock, vars,
         contractVars, registryVars
<1>5. ExecutorTypeOK'
  BY DEF FlowInv, FlowTypeOK, ExecutorTypeOK, FollowRotation, SetTraceAckSigner,
         NextBlock, vars, contractVars, executorVars, ServiceTypeOK
<1>6. QED
  BY <1>1, <1>2, <1>3, <1>4, <1>5, FlowFrame

LEMMA ServedInv ==
  ASSUME FlowInv, Serve \/ Rotate
  PROVE  FlowInv'
<1>1. UNCHANGED <<contractVars, flowVars>>
  BY DEF Serve, Rotate
<1>2. ServiceTypeOK' /\ ServiceInv' /\ ServiceKeeps
  BY ServeKeeps DEF FlowInv, FlowTypeOK, ChainTypeOK
<1>3. ChainTypeOK' /\ RegistryTypeOK' /\ ExecutorTypeOK'
  BY <1>1 DEF FlowInv, FlowTypeOK, ChainTypeOK, RegistryTypeOK, ExecutorTypeOK,
         contractVars, chainVars, registryVars, executorVars
<1>4. UNCHANGED <<run, mempool, paid, receipts, execNonce>>
  BY <1>1 DEF contractVars, executorVars, flowVars
<1>5. QED
  BY <1>2, <1>3, <1>4, FlowFrame

LEMMA InitInv == Init => FlowInv
<1> SUFFICES ASSUME Init PROVE FlowInv
  OBVIOUS
<1>1. /\ FirstHash \in IntentHashes
      /\ FirstIntent \in IntentConfig
      /\ FirstIntent.nonce = 1
  BY BootstrapAssumption, IdAssumption, InputAssumption DEF FirstHash, FirstIntent
<1>2. ChainTypeOK
  BY BalanceAssumption, NumberAssumption DEF Init, ChainInit, ChainTypeOK
<1>3. RegistryTypeOK
  BY <1>1, IdAssumption DEF Init, Bootstrapped, RegistryTypeOK
<1>4. ServiceTypeOK /\ ServiceInv
  <2>1. signKey \in Signers
    BY ServiceAssumption DEF Init, ServiceInit
  <2>2. ASSUME NEW c \in Consumers
        PROVE  post[c] \in Posts /\ post[c].pc = "none"
    <3>1. c \in Runs /\ Plan[c].owner \in Owners
      BY FlowAssumption
    <3>2. (CHOOSE d \in Digests : TRUE) \in Digests
          /\ (CHOOSE o \in Owners : TRUE) \in Accounts
      BY <3>1, DigestsExist, AddressAssumption
    <3>3. post[c] = NoPost(CHOOSE d \in Digests : TRUE, ZeroAgent,
                           CHOOSE o \in Owners : TRUE)
      BY DEF Init, ServiceInit
    <3>4. QED
      BY <3>2, <3>3, IdAssumption DEF NoPost, Posts, Stage
  <2>3. post \in [Consumers -> Posts]
    BY <2>2 DEF Init, ServiceInit
  <2>4. /\ traceRow = [d \in Digests |-> NoAck]
        /\ pinned = {} /\ lost = {} /\ mishaps = 0
    BY DEF Init, ServiceInit
  <2>5. QED
    BY <2>1, <2>2, <2>3, <2>4, ServiceAssumption
       DEF ServiceTypeOK, ServiceInv, Posts, Stage
<1>5. ExecutorTypeOK
  BY <1>4, FlowAssumption DEF Init, Bootstrapped, ExecutorTypeOK, ServiceTypeOK
<1>6. /\ run = [r \in Runs |-> [pc |-> "off", try |-> 0, intent |-> ZeroHash]]
      /\ mempool = {} /\ paid = {} /\ DOMAIN receipts = {}
  BY DEF Init
<1>7. FlowTypeOK
  BY <1>2, <1>3, <1>4, <1>5, <1>6, FlowAssumption, IdAssumption
     DEF FlowTypeOK, Ended
<1>8. RunInv /\ ReceiptInv /\ ReportedPaymentIsReal
  BY <1>6 DEF RunInv, ReceiptInv, ReportedPaymentIsReal
<1>9. QED
  BY <1>4, <1>7, <1>8 DEF FlowInv

LEMMA FlowInvInductive ==
  ASSUME FlowInv, [Next]_vars
  PROVE  FlowInv'
<1>1. ASSUME NEW r \in Runs, StartRun(r) \/ RunStep(r) \/ LoseWait(r)
      PROVE  FlowInv'
  BY <1>1, StartRunInv, ReadActiveIntentHashInv, UploadTraceInv, RunStepInv,
     SendInv, LoseWaitInv DEF RunStep
<1>2. CASE MineTx
  BY <1>2, MinePaidInv, MineRevertedInv DEF MineTx
<1>3. CASE OwnerTx
  BY <1>3, OwnerTxInv
<1>4. CASE FollowRotation \/ NextBlock \/ UNCHANGED vars
  BY <1>4, AroundInv
<1>5. CASE Serve \/ Rotate
  BY <1>5, ServedInv
<1>6. QED
  BY <1>1, <1>2, <1>3, <1>4, <1>5 DEF Next

LEMMA FlowInvHolds == Spec => []FlowInv
BY InitInv, FlowInvInductive, PTL DEF Spec
-----------------------------------------------------------------------------
\* Agents, service, contracts and everything in flight between them stay well
\* typed, and no transaction in the mempool is ahead of the run that sent it.
THEOREM FlowTypeCorrect == Spec => []FlowTypeOK
<1>1. FlowInv => FlowTypeOK
  BY DEF FlowInv
<1>2. QED
  BY FlowInvHolds, <1>1, PTL

\* The trace behind every receipt was pinned, and its row was written unless the
\* database dropped it without a word (server.ts inserts after it signs): an
\* answer leaves the service only once both are settled, and no overlap of
\* posts, retries, rotations and restarts lets an ack out earlier.
THEOREM EveryReceiptIsReplayable == Spec => []ReceiptIsReplayable
<1>1. FlowInv => ReceiptIsReplayable
  BY DEF FlowInv, ReceiptInv, Kept, ReceiptIsReplayable
<1>2. QED
  BY FlowInvHolds, <1>1, PTL

\* A run reports success only with a mined payment of its own try, of the amount
\* and to the target it planned, and no two payments share a receipt (the
\* executor's per-owner nonce): true of any number of runs, tries and
\* transactions left in the mempool by waits that were given up.
THEOREM ReportedPaymentsAreReal == Spec => []ReportedPaymentIsReal
<1>1. FlowInv => ReportedPaymentIsReal
  BY DEF FlowInv
<1>2. QED
  BY FlowInvHolds, <1>1, PTL
=============================================================================
