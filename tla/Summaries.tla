------------------------------- MODULE Summaries -------------------------------
(***************************************************************************)
(* Advisory summaries of receipts and challenges, generated on the first   *)
(* load and cached for the later ones.  Challenges are resolved meanwhile, *)
(* and the indexer may write what it has written before.  The provider is  *)
(* Supabase, of whose answers nobody looks at the error: a refused read    *)
(* finds nothing, a refused write is lost.                                 *)
(***************************************************************************)
EXTENDS Naturals, Sequences

CONSTANTS
  Refs,      \* receipts and challenges by kind and reference id
  Verdicts,
  Decided,   \* what the log says of each challenge
  MaxLoads,  \* bound on loads
  MaxFaults, \* bound on refused calls of the store, and on the indexer's restarts
  None

ASSUME SummariesAssumption ==
  /\ Refs \subseteq [kind : {"receipt", "challenge"}, id : Nat]
  /\ Verdicts \subseteq {"UPHELD", "REJECTED"}
  /\ Decided \in [Refs -> Verdicts]
  /\ MaxLoads \in Nat /\ MaxFaults \in Nat
  /\ None \notin Nat \cup {"FILED", "UPHELD", "REJECTED"}

VARIABLES
  evidence, \* what the store holds of a reference: None, or its status
  cache,    \* gemini_summaries
  loads,    \* every load: its reference, where it is, its answer
  faults

vars == <<evidence, cache, loads, faults>>

Statuses == {"FILED"} \cup Verdicts
Kinds == {r.kind : r \in Refs}
RefIds == {r.id : r \in Refs}

\* A summary: of whom it tells what; told apart by the load that generated it.
\* When the model is unavailable a fallback tells nothing.
Summary == [ref : Refs, status : Statuses \cup {"unavailable"}, by : 1 .. MaxLoads]

SummariesTypeOK ==
  /\ evidence \in [Refs -> Statuses \cup {None}]
  /\ cache \in [Kinds \X RefIds -> Summary \cup {None}]
  /\ loads \in Seq([ref : Refs, pc : {"cache", "evidence", "store", "answered", "missing"},
                    found : Summary \cup {None}])
  /\ faults \in 0 .. MaxFaults

Init ==
  /\ evidence = [r \in Refs |-> None]
  /\ cache = [k \in Kinds \X RefIds |-> None]
  /\ loads = <<>>
  /\ faults = 0

Fault == faults < MaxFaults /\ faults' = faults + 1

\* One row for each kind and reference.
KeyByKind(r) == <<r.kind, (CHOOSE q \in Refs : q.kind = r.kind).id>>
Key(r) == <<r.kind, r.id>>

\* The indexer's upserts.  A redelivered event writes the row's first status
\* again; a verdict is an update, which finds a row or does nothing.
Index(r) ==
  /\ evidence' = [evidence EXCEPT ![r] = "FILED"]
  /\ UNCHANGED <<cache, loads, faults>>
Resolve(r) ==
  /\ evidence' = IF evidence[r] = None THEN evidence ELSE [evidence EXCEPT ![r] = Decided[r]]
  /\ UNCHANGED <<cache, loads, faults>>

Move(l, pc, found) == loads' = [loads EXCEPT ![l].pc = pc, ![l].found = found]

Load(r) ==
  /\ Len(loads) < MaxLoads
  /\ loads' = Append(loads, [ref |-> r, pc |-> "cache", found |-> None])
  /\ UNCHANGED <<evidence, cache, faults>>

GetCachedSummary(l) ==
  /\ loads[l].pc = "cache"
  /\ LET hit == cache[Key(loads[l].ref)] IN
     \/ hit # None /\ Move(l, "answered", hit) /\ UNCHANGED faults
     \/ hit = None /\ Move(l, "evidence", None) /\ UNCHANGED faults
     \/ hit # None /\ Move(l, "evidence", None) /\ Fault
  /\ UNCHANGED <<evidence, cache>>

Exists(r) == evidence[r] # None

\* The evidence, then the model's summary of it or the fallback.
GenerateSummary(l) ==
  /\ loads[l].pc = "evidence"
  /\ LET r == loads[l].ref IN
     \/ ~Exists(r) /\ Move(l, "missing", None) /\ UNCHANGED faults
     \/ Exists(r) /\ Move(l, "missing", None) /\ Fault
     \/ /\ Exists(r) /\ UNCHANGED faults
        /\ \E status \in {evidence[r], "unavailable"} :
             Move(l, "store", [ref |-> r, status |-> status, by |-> l])
  /\ UNCHANGED <<evidence, cache>>

\* An upsert: the last load to finish wins.
Cached(l) == [cache EXCEPT ![Key(loads[l].ref)] = loads[l].found]
CacheSummary(l) ==
  /\ loads[l].pc = "store"
  /\ \/ cache' = Cached(l) /\ UNCHANGED faults
     \/ UNCHANGED cache /\ Fault
  /\ Move(l, "answered", loads[l].found)
  /\ UNCHANGED evidence

Step(l) == GetCachedSummary(l) \/ GenerateSummary(l) \/ CacheSummary(l)

================================================================================
