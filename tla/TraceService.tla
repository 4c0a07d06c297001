----------------------------- MODULE TraceService -----------------------------
(***************************************************************************)
(* POST /v1/traces: pin a decision trace, sign a TraceAck for it and keep  *)
(* both; a later post of the same digest is answered from the table while  *)
(* the stored ack lives.  Each await of the handler ends a step, so the    *)
(* requests of several consumers interleave.  The digest of a trace stands *)
(* for its bytes, and the URI is a function of the bytes.                  *)
(***************************************************************************)
EXTENDS Chain

CONSTANTS
  Consumers,    \* clients of the service, with one request at a time each
  TTL,          \* TRACE_ACK_TTL_SECONDS
  NoAck,
  MaxMishaps    \* bound on failed requests, lost writes and restarts

ASSUME ServiceAssumption ==
  /\ TTL \in Nat
  /\ NoAck \notin TraceAck
  /\ Signers # {}
  /\ MaxMishaps \in Nat

VARIABLES
  traceRow,  \* the traces table: the ack stored with each digest
  pinned,    \* digests whose bytes the pinner holds
  signKey,   \* the key this process signs with
  post,      \* the request of each consumer
  lost,      \* traces the database did not keep, without throwing (Supabase)
  mishaps

serviceVars == <<traceRow, pinned, signKey, post, lost, mishaps>>

NoPost(d, a, o) ==
  [pc |-> "none", digest |-> d, agentId |-> a, owner |-> o,
   expiresAt |-> 0, ack |-> NoAck]

ServiceTypeOK ==
  /\ traceRow \in [Digests -> TraceAck \cup {NoAck}]
  /\ pinned \subseteq Digests
  /\ signKey \in Signers
  /\ post \in [Consumers ->
       [pc : {"none", "lookup", "pin", "sign", "insert", "answered", "failed"},
        digest : Digests, agentId : AgentIds, owner : Accounts,
        expiresAt : Nat, ack : TraceAck \cup {NoAck}]]
  /\ lost \subseteq Digests
  /\ mishaps \in 0 .. MaxMishaps

ServiceInit ==
  /\ traceRow = [d \in Digests |-> NoAck]
  /\ pinned = {}
  /\ signKey = (CHOOSE k \in Signers : TRUE)
  /\ post = [c \in Consumers |->
       NoPost(CHOOSE d \in Digests : TRUE, ZeroAgent, CHOOSE o \in Owners : TRUE)]
  /\ lost = {} /\ mishaps = 0

InFlight(c) == post[c].pc \in {"lookup", "pin", "sign", "insert"}

\* The body is well formed and its digest is that of its trace; anything else
\* is refused and changes nothing.
PostTrace(c, d, a, o) ==
  /\ ~InFlight(c)
  /\ post' = [post EXCEPT ![c] = [NoPost(d, a, o) EXCEPT !.pc = "lookup"]]
  /\ UNCHANGED <<traceRow, pinned, signKey, lost, mishaps>>

GetTraceByDigest(d) == traceRow[d]

AliveOrNot(ack) == ack # NoAck
Alive(ack) == ack # NoAck /\ ack.expiresAt > now

\* The key of the table is the digest alone; a hit answers with the stored ack.
LookUp(c) ==
  LET cached == GetTraceByDigest(post[c].digest) IN
  /\ post[c].pc = "lookup"
  /\ post' = [post EXCEPT ![c] =
       IF Alive(cached) THEN [@ EXCEPT !.pc = "answered", !.ack = cached]
       ELSE [@ EXCEPT !.pc = "pin"]]
  /\ UNCHANGED <<traceRow, pinned, signKey, lost, mishaps>>

Pin(d) == pinned' = pinned \cup {d}

PinTrace(c) ==
  /\ post[c].pc = "pin"
  /\ Pin(post[c].digest)
  /\ post' = [post EXCEPT ![c].pc = "sign", ![c].expiresAt = now + TTL]
  /\ UNCHANGED <<traceRow, signKey, lost, mishaps>>

SignTraceAck(p) ==
  [contextDigest |-> p.digest, expiresAt |-> p.expiresAt, signer |-> signKey,
   agentId |-> p.agentId, owner |-> p.owner]

AfterSignUnstored == "answered"
AfterSign == "insert"

SignTrace(c) ==
  /\ post[c].pc = "sign"
  /\ post' = [post EXCEPT ![c].pc = AfterSign, ![c].ack = SignTraceAck(post[c])]
  /\ UNCHANGED <<traceRow, pinned, signKey, lost, mishaps>>

\* A row that is there is overwritten.
InsertTrace(ack) == [traceRow EXCEPT ![ack.contextDigest] = ack]

StoreTrace(c) ==
  /\ post[c].pc = "insert"
  /\ traceRow' = InsertTrace(post[c].ack)
  /\ post' = [post EXCEPT ![c].pc = "answered"]
  /\ UNCHANGED <<pinned, signKey, lost, mishaps>>

\* supabase-js reports the error in a result nobody looks at.
LoseTrace(c) ==
  /\ post[c].pc = "insert"
  /\ mishaps < MaxMishaps
  /\ mishaps' = mishaps + 1
  /\ lost' = lost \cup {post[c].digest}
  /\ post' = [post EXCEPT ![c].pc = "answered"]
  /\ UNCHANGED <<traceRow, pinned, signKey>>

\* The pinner or the database throws: asyncHandler answers 500.
FailPost(c) ==
  /\ post[c].pc \in {"lookup", "pin", "insert"}
  /\ mishaps < MaxMishaps
  /\ mishaps' = mishaps + 1
  /\ post' = [post EXCEPT ![c].pc = "failed"]
  /\ UNCHANGED <<traceRow, pinned, signKey, lost>>

\* The environment is read once: a new key takes a restart.
RestartService(k) ==
  /\ mishaps < MaxMishaps
  /\ mishaps' = mishaps + 1
  /\ signKey' = k
  /\ post' = [c \in Consumers |->
       IF InFlight(c) THEN [post[c] EXCEPT !.pc = "failed"] ELSE post[c]]
  /\ UNCHANGED <<traceRow, pinned, lost>>

ServiceStep(c) ==
  \/ LookUp(c)
  \/ PinTrace(c)
  \/ SignTrace(c)
  \/ StoreTrace(c)

ServiceMishap(c) ==
  \/ LoseTrace(c)
  \/ FailPost(c)
=============================================================================
