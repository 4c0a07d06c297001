------------------------------- MODULE DeskProofs -------------------------------
(***************************************************************************)
(* Theorems about Summaries and ChallengeDesk, for every value of their    *)
(* constants.                                                              *)
(***************************************************************************)
EXTENDS ChallengeDesk, FiniteSetTheorems, WellFoundedInduction, SequenceTheorems, TLAPS

\* A row is none, as filed or as decided: it may go back, but it never goes away.
RowInv == \A r \in Refs : evidence[r] \in {None, "FILED", Decided[r]}
RowsStay == \A r \in Refs : evidence[r] # None => evidence'[r] # None

\* What a summary tells as a verdict was decided, of a row the store holds.
Told(s) == s.status \in Verdicts => evidence[s.ref] # None /\ s.status = Decided[s.ref]

CacheInv ==
  \A k \in Kinds \X RefIds : cache[k] # None => Key(cache[k].ref) = k /\ Told(cache[k])

\* A load holds a summary of its own reference once it has one.
LoadInv ==
  \A l \in DOMAIN loads : loads[l].pc \in {"store", "answered"} =>
    /\ loads[l].found \in Summary
    /\ loads[l].found.ref = loads[l].ref
    /\ Told(loads[l].found)

SumInv == SummariesTypeOK /\ Len(loads) <= MaxLoads /\ RowInv /\ CacheInv /\ LoadInv

\* Once the log was read past a verdict, the row tells it, unless its write was
\* refused.
RowsCurrent ==
  \A n \in DOMAIN chain : ResolvedAt(n) <= cursor /\ n \notin missed =>
    evidence[C(n)] \in {None, Decided[C(n)]}

\* A tab tries again only after its earlier attempts are over or out of sight.
Past(attempt) == attempt.step \in {"error", "gone"} \/ attempt.left
OrderInv ==
  \A i, j \in DOMAIN attempts :
    i < j /\ attempts[i].tab = attempts[j].tab => Past(attempts[i])

FiledInv ==
  \A a \in DOMAIN attempts : attempts[a].filed # None =>
    attempts[a].filed \in DOMAIN chain /\ chain[attempts[a].filed] = attempts[a].receipt

\* What a filing was prepared with held no challenge of its receipt, as far as
\* it was read.
KnewNone(attempt, filings) ==
  "REJECTED" \notin Verdicts /\ ~attempt.misread =>
    (attempt.step \in {"approving", "filing"} \/ attempt.tx # "none" =>
       \A n \in attempt.knew : n \in DOMAIN filings /\ filings[n] # attempt.receipt)
KnewInv == \A a \in DOMAIN attempts : KnewNone(attempts[a], chain)

\* An attempt that is being prepared has sent nothing.
Fresh(attempt) == attempt.step = "preparing" => attempt.tx = "none"
FreshInv == \A a \in DOMAIN attempts : Fresh(attempts[a])

DeskInv == SumInv /\ DeskTypeOK /\ RowsCurrent /\ OrderInv /\ FiledInv /\ KnewInv /\ FreshInv

----------------------------------------------------------------------------
(* The summaries.                                                          *)

LoadType == [ref : Refs, pc : {"cache", "evidence", "store", "answered", "missing"},
             found : Summary \cup {None}]

LEMMA SumTyped ==
  ASSUME SumInv
  PROVE  /\ evidence \in [Refs -> Statuses \cup {None}]
         /\ cache \in [Kinds \X RefIds -> Summary \cup {None}]
         /\ loads \in Seq(LoadType) /\ Len(loads) \in Nat /\ DOMAIN loads = 1 .. Len(loads)
         /\ \A l \in DOMAIN loads : loads[l] \in LoadType
         /\ RowInv /\ faults \in 0 .. MaxFaults
<1>1. loads \in Seq(LoadType)
  BY DEF SumInv, SummariesTypeOK, LoadType
<1>2. Len(loads) \in Nat /\ DOMAIN loads = 1 .. Len(loads)
  BY <1>1, LenProperties
<1>3. \A l \in 1 .. Len(loads) : loads[l] \in LoadType
  BY <1>1, ElementOfSeq
<1> QED  BY <1>1, <1>2, <1>3 DEF SumInv, SummariesTypeOK

\* The key of the cache tells references apart.
LEMMA KeyIsOwn ==
  ASSUME SummariesAssumption, NEW q \in Refs, NEW r \in Refs
  PROVE  /\ Key(r) \in Kinds \X RefIds
         /\ Key(q) = Key(r) => q = r
<1>1. /\ q \in [kind : {"receipt", "challenge"}, id : Nat]
      /\ r \in [kind : {"receipt", "challenge"}, id : Nat]
  BY DEF SummariesAssumption
<1>2. r.kind \in Kinds /\ r.id \in RefIds
  BY DEF Kinds, RefIds
<1> QED  BY <1>1, <1>2 DEF Key

LEMMA FaultCounts ==
  ASSUME SummariesAssumption, SumInv, Fault \/ UNCHANGED faults
  PROVE  faults' \in 0 .. MaxFaults
<1>1. faults \in 0 .. MaxFaults /\ MaxFaults \in Nat
  BY SumTyped DEF SummariesAssumption
<1>2. CASE Fault
  BY <1>1, <1>2 DEF Fault
<1>3. CASE UNCHANGED faults
  BY <1>1, <1>3
<1> QED  BY <1>2, <1>3

\* A summary stays true while no row goes away.
LEMMA ToldStays ==
  ASSUME RowsStay, NEW s \in Summary, Told(s)
  PROVE  s.status \in Verdicts => evidence'[s.ref] # None /\ s.status = Decided[s.ref]
<1>1. s.ref \in Refs
  BY DEF Summary
<1> QED  BY <1>1 DEF Told, RowsStay

LEMMA EvidenceMoves ==
  ASSUME SummariesAssumption, SumInv, RowsStay, RowInv',
         evidence' \in [Refs -> Statuses \cup {None}], UNCHANGED <<cache, loads>>,
         Fault \/ UNCHANGED faults
  PROVE  SumInv'
<1>0. /\ cache \in [Kinds \X RefIds -> Summary \cup {None}]
      /\ \A l \in DOMAIN loads : loads[l] \in LoadType
  BY SumTyped
<1>1. SummariesTypeOK' /\ Len(loads') <= MaxLoads
  BY FaultCounts DEF SumInv, SummariesTypeOK
<1>2. ASSUME NEW k \in Kinds \X RefIds, cache[k] # None
      PROVE  /\ Key(cache[k].ref) = k
             /\ cache[k].status \in Verdicts =>
                  evidence'[cache[k].ref] # None /\ cache[k].status = Decided[cache[k].ref]
  <2>1. cache[k] \in Summary /\ Told(cache[k]) /\ Key(cache[k].ref) = k
    BY <1>0, <1>2 DEF SumInv, CacheInv
  <2> QED  BY <2>1, ToldStays
<1>3. ASSUME NEW l \in DOMAIN loads, loads[l].pc \in {"store", "answered"}
      PROVE  /\ loads[l].found \in Summary /\ loads[l].found.ref = loads[l].ref
             /\ loads[l].found.status \in Verdicts =>
                  /\ evidence'[loads[l].found.ref] # None
                  /\ loads[l].found.status = Decided[loads[l].found.ref]
  <2>1. loads[l].found \in Summary /\ Told(loads[l].found) /\ loads[l].found.ref = loads[l].ref
    BY <1>3 DEF SumInv, LoadInv
  <2> QED  BY <2>1, ToldStays
<1>4. CacheInv'
  BY <1>2 DEF CacheInv, Told, Key
<1>5. LoadInv'
  BY <1>3 DEF LoadInv, Told
<1> QED  BY <1>1, <1>4, <1>5 DEF SumInv

LEMMA RowWritten ==
  ASSUME SummariesAssumption, SumInv, NEW r \in Refs, NEW status \in {"FILED", Decided[r]},
         evidence' = [evidence EXCEPT ![r] = status], UNCHANGED <<cache, loads, faults>>
  PROVE  SumInv'
<1>1. evidence \in [Refs -> Statuses \cup {None}] /\ RowInv
  BY SumTyped
<1>2. status \in Statuses /\ status # None
  BY DEF Statuses, SummariesAssumption
<1>3. evidence' \in [Refs -> Statuses \cup {None}]
  BY <1>1, <1>2
<1>4. RowsStay /\ RowInv'
  BY <1>1, <1>2 DEF RowsStay, RowInv
<1> QED  BY <1>3, <1>4, EvidenceMoves

LEMMA SumStays ==
  ASSUME SummariesAssumption, SumInv, UNCHANGED <<evidence, cache, loads>>,
         Fault \/ UNCHANGED faults
  PROVE  SumInv'
<1>1. RowsStay /\ RowInv' /\ evidence' \in [Refs -> Statuses \cup {None}]
  BY SumTyped DEF RowsStay, RowInv
<1> QED  BY <1>1, EvidenceMoves

LEMMA IndexStep ==
  ASSUME SummariesAssumption, SumInv, NEW r \in Refs, Index(r) \/ Resolve(r)
  PROVE  SumInv'
<1>1. CASE Index(r)
  BY <1>1, RowWritten DEF Index
<1>2. CASE Resolve(r) /\ evidence[r] # None
  BY <1>2, RowWritten DEF Resolve
<1>3. CASE Resolve(r) /\ evidence[r] = None
  BY <1>3, SumStays DEF Resolve
<1> QED  BY <1>1, <1>2, <1>3

LEMMA LoadStep ==
  ASSUME SummariesAssumption, SumInv, NEW r \in Refs, Load(r)
  PROVE  SumInv'
<1> DEFINE q == [ref |-> r, pc |-> "cache", found |-> None]
<1>1. q \in LoadType /\ q.pc = "cache"
  BY DEF LoadType
<1>2. loads' = Append(loads, q) /\ Len(loads) < MaxLoads /\ UNCHANGED <<evidence, cache, faults>>
  BY DEF Load
<1> HIDE DEF q
<1>3. /\ loads \in Seq(LoadType) /\ Len(loads) \in Nat /\ DOMAIN loads = 1 .. Len(loads)
      /\ MaxLoads \in Nat
  BY SumTyped DEF SummariesAssumption
<1>4. /\ loads' \in Seq(LoadType) /\ Len(loads') = Len(loads) + 1
      /\ \A l \in 1 .. Len(loads) : loads'[l] = loads[l]
      /\ loads'[Len(loads) + 1] = q
  BY <1>1, <1>2, <1>3, AppendProperties
<1>5. DOMAIN loads' = 1 .. Len(loads) + 1
  BY <1>3, <1>4, LenProperties
<1>6. SummariesTypeOK' /\ Len(loads') <= MaxLoads
  BY <1>2, <1>3, <1>4 DEF SumInv, SummariesTypeOK, LoadType
<1>7. CacheInv' /\ RowInv'
  BY <1>2 DEF SumInv, CacheInv, RowInv, Told, Key
<1>8. LoadInv'
  <2>1. \A l \in DOMAIN loads' : loads'[l].pc \in {"store", "answered"} =>
          l \in DOMAIN loads /\ loads'[l] = loads[l]
    BY <1>1, <1>3, <1>4, <1>5
  <2> QED  BY <1>2, <2>1 DEF SumInv, LoadInv, Told
<1> QED  BY <1>6, <1>7, <1>8 DEF SumInv

LEMMA OneLoad ==
  ASSUME SummariesAssumption, SumInv, NEW l \in DOMAIN loads, NEW q \in LoadType,
         loads' = [loads EXCEPT ![l] = q], UNCHANGED evidence,
         q.pc \in {"store", "answered"} =>
           q.found \in Summary /\ q.found.ref = q.ref /\ Told(q.found)
  PROVE  /\ loads' \in Seq(LoadType) /\ Len(loads') = Len(loads)
         /\ LoadInv'
<1>1. loads \in Seq(LoadType) /\ Len(loads) \in Nat /\ DOMAIN loads = 1 .. Len(loads)
  BY SumTyped
<1>2. /\ [loads EXCEPT ![l] = q] \in Seq(LoadType) /\ Len([loads EXCEPT ![l] = q]) = Len(loads)
      /\ \A j \in 1 .. Len(loads) : [loads EXCEPT ![l] = q][j] = IF j = l THEN q ELSE loads[j]
  BY <1>1, ExceptSeq
<1>3. /\ loads' \in Seq(LoadType) /\ Len(loads') = Len(loads)
      /\ \A j \in 1 .. Len(loads) : loads'[j] = IF j = l THEN q ELSE loads[j]
  BY <1>2, Zenon
<1>4. DOMAIN loads' = DOMAIN loads
  BY <1>1, <1>3, LenProperties
<1>5. \A j \in DOMAIN loads' : loads'[j].pc \in {"store", "answered"} =>
        loads'[j].found \in Summary /\ loads'[j].found.ref = loads'[j].ref /\ Told(loads'[j].found)
  BY <1>1, <1>3, <1>4 DEF SumInv, LoadInv
<1>6. LoadInv'
  BY <1>5 DEF LoadInv, Told
<1> QED  BY <1>3, <1>6

LEMMA SummaryStep ==
  ASSUME SummariesAssumption, SumInv, NEW l \in DOMAIN loads, Step(l)
  PROVE  SumInv'
<1> DEFINE r == loads[l].ref
<1>0. /\ evidence \in [Refs -> Statuses \cup {None}]
      /\ cache \in [Kinds \X RefIds -> Summary \cup {None}]
      /\ loads[l] \in LoadType /\ r \in Refs /\ Key(r) \in Kinds \X RefIds
      /\ DOMAIN loads = 1 .. Len(loads) /\ Len(loads) \in Nat /\ Len(loads) <= MaxLoads /\ MaxLoads \in Nat
  BY SumTyped, KeyIsOwn DEF LoadType, SumInv, SummariesAssumption
<1>1. ASSUME NEW pc \in {"evidence", "store", "answered", "missing"}, NEW found \in Summary \cup {None},
             Move(l, pc, found), UNCHANGED evidence,
             pc \in {"store", "answered"} => found \in Summary /\ found.ref = r /\ Told(found)
      PROVE  loads' \in Seq(LoadType) /\ Len(loads') = Len(loads) /\ LoadInv'
  <2> DEFINE q == [loads[l] EXCEPT !.pc = pc, !.found = found]
  <2>1. q \in LoadType /\ q.pc = pc /\ q.found = found /\ q.ref = r
    BY <1>0 DEF LoadType
  <2>2. loads' = [loads EXCEPT ![l] = q]
    BY <1>1 DEF Move
  <2> HIDE DEF q
  <2> QED  BY <1>1, <2>1, <2>2, OneLoad
<1>1a. ASSUME UNCHANGED <<evidence, cache>>, Fault \/ UNCHANGED faults,
              loads' \in Seq(LoadType) /\ Len(loads') = Len(loads) /\ LoadInv'
       PROVE  SumInv'
  <2>1. SummariesTypeOK' /\ Len(loads') <= MaxLoads
    BY <1>1a, FaultCounts DEF SumInv, SummariesTypeOK, LoadType
  <2>2. CacheInv' /\ RowInv'
    BY <1>1a DEF SumInv, CacheInv, RowInv, Told, Key
  <2> QED  BY <1>1a, <2>1, <2>2 DEF SumInv
<1>2. CASE GetCachedSummary(l)
  <2>1. UNCHANGED <<evidence, cache>> /\ (Fault \/ UNCHANGED faults)
    BY <1>2 DEF GetCachedSummary
  <2>2. CASE cache[Key(r)] # None /\ Move(l, "answered", cache[Key(r)])
    <3>2. /\ cache[Key(r)] \in Summary /\ Told(cache[Key(r)])
          /\ cache[Key(r)].ref \in Refs /\ Key(cache[Key(r)].ref) = Key(r)
      BY <1>0, <2>2 DEF SumInv, CacheInv, Summary
    <3>3. cache[Key(r)].ref = r
      BY <1>0, <3>2, KeyIsOwn
    <3>4. loads' \in Seq(LoadType) /\ Len(loads') = Len(loads) /\ LoadInv'
      BY <1>1, <2>1, <2>2, <3>2, <3>3
    <3> QED  BY <1>1a, <2>1, <3>4
  <2>3. CASE Move(l, "evidence", None)
    <3>1. loads' \in Seq(LoadType) /\ Len(loads') = Len(loads) /\ LoadInv'
      BY <1>1, <2>1, <2>3
    <3> QED  BY <1>1a, <2>1, <3>1
  <2> QED  BY <1>2, <2>2, <2>3 DEF GetCachedSummary
<1>3. CASE GenerateSummary(l)
  <2>1. UNCHANGED <<evidence, cache>> /\ (Fault \/ UNCHANGED faults)
    BY <1>3 DEF GenerateSummary
  <2>2. CASE Move(l, "missing", None)
    <3>1. loads' \in Seq(LoadType) /\ Len(loads') = Len(loads) /\ LoadInv'
      BY <1>1, <2>1, <2>2
    <3> QED  BY <1>1a, <2>1, <3>1
  <2>3. CASE Exists(r) /\ \E status \in {evidence[r], "unavailable"} :
               Move(l, "store", [ref |-> r, status |-> status, by |-> l])
    <3>1. PICK status \in {evidence[r], "unavailable"} :
            Move(l, "store", [ref |-> r, status |-> status, by |-> l])
      BY <2>3
    <3> DEFINE found == [ref |-> r, status |-> status, by |-> l]
    <3>2. evidence[r] \in Statuses /\ l \in 1 .. MaxLoads
      BY <1>0, <2>3 DEF Exists
    <3>3. found \in Summary /\ found.ref = r /\ found.status = status
      BY <1>0, <3>1, <3>2 DEF Summary
    <3>4. Told(found)
      <4>1. evidence[r] \in {"FILED", Decided[r]} /\ evidence[r] # None
        BY <1>0, <2>3 DEF Exists, SumInv, RowInv
      <4>2. "FILED" \notin Verdicts /\ "unavailable" \notin Verdicts
        BY DEF SummariesAssumption
      <4> HIDE DEF found
      <4> QED  BY <3>1, <3>3, <4>1, <4>2 DEF Told
    <3>5. Move(l, "store", found)
      BY <3>1
    <3> HIDE DEF found
    <3>6. loads' \in Seq(LoadType) /\ Len(loads') = Len(loads) /\ LoadInv'
      BY <1>1, <2>1, <3>3, <3>4, <3>5
    <3> QED  BY <1>1a, <2>1, <3>6
  <2> QED  BY <1>3, <2>2, <2>3 DEF GenerateSummary
<1>4. CASE CacheSummary(l)
  <2> DEFINE found == loads[l].found
  <2>1. /\ UNCHANGED evidence /\ Move(l, "answered", found) /\ loads[l].pc = "store"
        /\ Fault \/ UNCHANGED faults
    BY <1>4 DEF CacheSummary
  <2>2. found \in Summary /\ found.ref = r /\ Told(found)
    BY <2>1 DEF SumInv, LoadInv
  <2>3. loads' \in Seq(LoadType) /\ Len(loads') = Len(loads) /\ LoadInv'
    <3> HIDE DEF found
    <3> QED  BY <1>1, <2>1, <2>2
  <2>4. CASE UNCHANGED cache
    BY <1>1a, <2>1, <2>3, <2>4
  <2>5. CASE cache' = Cached(l)
    <3>1. cache' = [cache EXCEPT ![Key(r)] = found]
      BY <2>5 DEF Cached
    <3> HIDE DEF found
    <3>2. cache' \in [Kinds \X RefIds -> Summary \cup {None}]
      BY <1>0, <2>2, <3>1
    <3>3. ASSUME NEW k \in Kinds \X RefIds, cache'[k] # None
          PROVE  Key(cache'[k].ref) = k /\ Told(cache'[k])
      <4>1. CASE k = Key(r)
        BY <1>0, <2>2, <3>1, <4>1
      <4>2. CASE k # Key(r)
        <5>1. cache'[k] = cache[k]
          BY <1>0, <3>1, <4>2
        <5> QED  BY <3>3, <5>1 DEF SumInv, CacheInv
      <4> QED  BY <4>1, <4>2
    <3>4. CacheInv' /\ RowInv'
      BY <2>1, <3>3 DEF CacheInv, Told, Key, SumInv, RowInv
    <3>5. SummariesTypeOK' /\ Len(loads') <= MaxLoads
      BY <2>1, <2>3, <3>2, FaultCounts DEF SumInv, SummariesTypeOK, LoadType
    <3> QED  BY <2>3, <3>4, <3>5 DEF SumInv
  <2> QED  BY <1>4, <2>4, <2>5 DEF CacheSummary
<1> QED  BY <1>2, <1>3, <1>4 DEF Step

----------------------------------------------------------------------------
(* The largest of some naturals, and the challenge of a receipt.           *)

\* Of the sets of elements larger than one of T, a smallest is empty.
LEMMA MaxIsLargest ==
  ASSUME NEW T, T \subseteq Nat, IsFiniteSet(T), T # {}
  PROVE  Max(T) \in T /\ \A y \in T : Max(T) >= y
<1> DEFINE Above(x) == {y \in T : y > x}
           Family == {Above(x) : x \in T}
<1>1. IsWellFoundedOn(StrictSubsetOrdering(T), FiniteSubsetsOf(T))
  BY FS_StrictSubsetOrderingWellFounded
<1>2. Family \subseteq FiniteSubsetsOf(T) /\ Family # {}
  <2>1. \A x \in T : Above(x) \subseteq T /\ IsFiniteSet(Above(x))
    BY FS_Subset
  <2> QED  BY <2>1 DEF FiniteSubsetsOf
<1>3. PICK U \in Family : \A V \in Family : ~ (<<V, U>> \in StrictSubsetOrdering(T))
  <2> HIDE DEF Family
  <2> QED  BY <1>1, <1>2, WFMin
<1>4. PICK x \in T : U = Above(x)
  OBVIOUS
<1>5. ASSUME NEW y \in T, y > x PROVE FALSE
  <2>1. ASSUME NEW z \in T, z > y PROVE z > x
    <3>1. x \in Nat /\ y \in Nat /\ z \in Nat
      BY <1>4, <1>5, <2>1
    <3> QED  BY <1>5, <2>1, <3>1
  <2>1a. Above(y) \subseteq Above(x)
    BY <2>1
  <2>2. y \in Above(x) /\ y \notin Above(y)
    <3>1. y \in Nat
      BY <1>5
    <3>2. ~(y > y)
      BY <3>1
    <3> QED  BY <1>5, <3>2
  <2>3. Above(y) \in Family /\ Above(y) \in SUBSET T /\ Above(x) \in SUBSET T /\ IsFiniteSet(Above(x)) /\ IsFiniteSet(Above(y))
    BY FS_Subset
  <2>4. <<Above(y), Above(x)>> \in StrictSubsetOrdering(T)
    BY <2>1a, <2>2, <2>3 DEF StrictSubsetOrdering
  <2> QED  BY <1>3, <1>4, <2>3, <2>4
<1>6. \A y \in T : x >= y
  BY <1>5
<1> QED  BY <1>6 DEF Max

AttemptsTyped == attempts \in Seq(Attempt) /\ DOMAIN attempts = 1 .. Len(attempts) /\ Len(attempts) \in Nat

LEMMA DeskTyped ==
  ASSUME DeskAssumption, DeskInv
  PROVE  /\ chain \in Seq(Receipts) /\ DOMAIN chain = 1 .. Len(chain) /\ Len(chain) \in Nat
         /\ Len(chain) <= MaxFilings /\ MaxFilings \in Nat /\ DOMAIN chain \subseteq Ids
         /\ \A n \in DOMAIN chain : chain[n] \in Receipts
         /\ AttemptsTyped /\ \A a \in DOMAIN attempts : attempts[a] \in Attempt
         /\ \A n \in Ids : C(n) \in Refs
         /\ \A r \in Receipts : R(r) \in Refs
         /\ evidence \in [Refs -> Statuses \cup {None}]
         /\ Len(Paid) \in Nat /\ cursor \in 0 .. LogLength /\ missed \subseteq DOMAIN chain
<1>1. chain \in Seq(Receipts) /\ Len(chain) <= MaxFilings /\ MaxFilings \in Nat /\ attempts \in Seq(Attempt)
  BY DEF DeskInv, DeskTypeOK, DeskAssumption
<1>2. /\ Len(chain) \in Nat /\ DOMAIN chain = 1 .. Len(chain)
      /\ Len(attempts) \in Nat /\ DOMAIN attempts = 1 .. Len(attempts)
  BY <1>1, LenProperties
<1>3. /\ \A n \in 1 .. Len(chain) : chain[n] \in Receipts
      /\ \A a \in 1 .. Len(attempts) : attempts[a] \in Attempt
  BY <1>1, ElementOfSeq
<1>4. DOMAIN chain \subseteq Ids
  BY <1>1, <1>2 DEF Ids
<1>5. (\A n \in Ids : C(n) \in Refs) /\ (\A r \in Receipts : R(r) \in Refs)
  BY DEF DeskAssumption, Ids
<1>6. Len(Paid) \in Nat /\ cursor \in 0 .. LogLength /\ missed \subseteq DOMAIN chain
  BY LenProperties DEF DeskInv, DeskTypeOK, DeskAssumption
<1> QED  BY <1>1, <1>2, <1>3, <1>4, <1>5, <1>6, SumTyped DEF AttemptsTyped, DeskInv

LEMMA RowsFacts ==
  ASSUME SummariesAssumption, DeskAssumption, DeskInv, NEW r \in Receipts
  PROVE  /\ Indexed \subseteq Ids /\ RowsOf(r) \subseteq Indexed
         /\ \A n \in Indexed : evidence[C(n)] \in Statuses
         /\ RowsOf(r) # {} => Max(RowsOf(r)) \in RowsOf(r)
         /\ RowsOf(r) = {} => StatusOf(r) = "none"
         /\ RowsOf(r) # {} => StatusOf(r) \in Statuses
<1>1. Indexed \subseteq Ids /\ RowsOf(r) \subseteq Indexed
  BY DeskTyped DEF Indexed, RowsOf
<1>2. \A n \in Indexed : evidence[C(n)] \in Statuses
  BY <1>1, DeskTyped DEF Indexed
<1>3. RowsOf(r) # {} => Max(RowsOf(r)) \in RowsOf(r)
  <2>1. IsFiniteSet(Ids) /\ Ids \subseteq Nat
    <3>1. MaxFilings \in Int /\ 1 \in Int
      BY DeskTyped
    <3>2. IsFiniteSet(1 .. MaxFilings)
      BY <3>1, FS_Interval, Zenon
    <3> QED  BY <3>1, <3>2 DEF Ids
  <2>2. RowsOf(r) \subseteq Nat /\ IsFiniteSet(RowsOf(r))
    BY <1>1, <2>1, FS_Subset
  <2> QED  BY <2>2, MaxIsLargest
<1>4. RowsOf(r) # {} => StatusOf(r) \in Statuses
  BY <1>1, <1>2, <1>3 DEF StatusOf, FindChallengeByReceipt
<1>5. RowsOf(r) = {} => StatusOf(r) = "none"
  BY DEF StatusOf
<1> QED  BY <1>1, <1>2, <1>3, <1>4, <1>5

LEMMA AnswersAgree ==
  ASSUME SummariesAssumption, DeskAssumption, DeskInv
  PROVE  ReadModelsAgree
<1> SUFFICES ASSUME NEW r \in ListReceiptsByOwner
             PROVE  (FeedChallengeable(r) <=> Eligible(r)) /\ (DetailChallengeable(r) <=> Eligible(r))
  BY DEF ReadModelsAgree
<1>1. r \in Receipts /\ HasReceipt(r)
  BY DEF ListReceiptsByOwner
<1>2. StatusOf(r) \in {"none", "FILED", "UPHELD", "REJECTED"}
  BY <1>1, RowsFacts DEF Statuses, SummariesAssumption
<1> QED  BY <1>1, <1>2
     DEF FeedChallengeable, DetailChallengeable, Eligible, Fileable, GetOverspendInfo, WindowEnds, Stands

----------------------------------------------------------------------------
(* The attempts.                                                           *)

\* The log of filings only grows.
ChainGrows ==
  /\ chain' \in Seq(Receipts) /\ Len(chain') <= MaxFilings
  /\ DOMAIN chain \subseteq DOMAIN chain'
  /\ \A n \in DOMAIN chain : chain'[n] = chain[n]

LEMMA ChainStays ==
  ASSUME DeskAssumption, DeskInv, UNCHANGED chain
  PROVE  ChainGrows
BY DeskTyped DEF ChainGrows

\* A filing takes the next number, and no more than the stake.
LEMMA FileGrows ==
  ASSUME DeskAssumption, DeskInv, NEW r \in Receipts, File(r)
  PROVE  /\ ChainGrows /\ stake' \in 0 .. InitialStake
         /\ Len(chain) + 1 \in Ids /\ Len(chain) + 1 \in DOMAIN chain'
         /\ chain'[Len(chain) + 1] = r
<1>1. /\ chain \in Seq(Receipts) /\ DOMAIN chain = 1 .. Len(chain) /\ Len(chain) \in Nat
      /\ MaxFilings \in Nat /\ Len(chain) < MaxFilings /\ chain' = Append(chain, r)
  BY DeskTyped DEF File
<1>2. /\ chain' \in Seq(Receipts) /\ Len(chain') = Len(chain) + 1
      /\ \A n \in 1 .. Len(chain) : chain'[n] = chain[n]
      /\ chain'[Len(chain) + 1] = r
  BY <1>1, AppendProperties
<1>3. DOMAIN chain' = 1 .. Len(chain) + 1
  BY <1>1, <1>2, LenProperties
<1>4. ChainGrows
  BY <1>1, <1>2, <1>3 DEF ChainGrows
<1>5. stake' \in 0 .. InitialStake
  <2>1. stake \in 0 .. InitialStake /\ InitialStake \in Nat /\ Slashed \in Nat /\ stake' = stake - SlashActual
    BY DEF DeskInv, DeskTypeOK, DeskAssumption, File
  <2>2. SlashActual \in 0 .. stake
    <3>1. \E x \in {Slashed, stake} : \A y \in {Slashed, stake} : x =< y
      BY <2>1
    <3>2. SlashActual \in {Slashed, stake} /\ \A y \in {Slashed, stake} : SlashActual =< y
      BY <3>1 DEF SlashActual, Min
    <3> QED  BY <2>1, <3>2
  <2> QED  BY <2>1, <2>2
<1>6. Len(chain) + 1 \in Ids
  BY <1>1 DEF Ids
<1> QED  BY <1>1, <1>2, <1>3, <1>4, <1>5, <1>6

\* What stays true of an attempt while filings are added.
AttemptInv(attempt, filings) ==
  /\ attempt.filed # None => attempt.filed \in DOMAIN filings /\ filings[attempt.filed] = attempt.receipt
  /\ KnewNone(attempt, filings)
  /\ Fresh(attempt)

LEMMA AttemptStays ==
  ASSUME ChainGrows, NEW a \in DOMAIN attempts, DeskInv
  PROVE  AttemptInv(attempts[a], chain')
<1>1. /\ attempts[a].filed # None =>
           attempts[a].filed \in DOMAIN chain /\ chain[attempts[a].filed] = attempts[a].receipt
      /\ KnewNone(attempts[a], chain) /\ Fresh(attempts[a])
  BY DEF DeskInv, FiledInv, KnewInv, FreshInv
<1> QED  BY <1>1 DEF AttemptInv, KnewNone, ChainGrows

\* The desk's own part of the invariant.
AttemptsFine ==
  /\ attempts' \in Seq(Attempt)
  /\ (OrderInv /\ FiledInv /\ KnewInv /\ FreshInv)'

LEMMA AttemptsStay ==
  ASSUME DeskAssumption, DeskInv, ChainGrows, UNCHANGED attempts
  PROVE  AttemptsFine
<1>1. attempts \in Seq(Attempt)
  BY DeskTyped DEF AttemptsTyped
<1>2. \A a \in DOMAIN attempts : AttemptInv(attempts[a], chain')
  BY AttemptStays
<1>3. FiledInv'
  BY <1>2 DEF AttemptInv, FiledInv
<1>4. KnewInv' /\ FreshInv'
  BY <1>2 DEF AttemptInv, KnewInv, FreshInv
<1>5. OrderInv'
  BY DEF DeskInv, OrderInv
<1> QED  BY <1>1, <1>3, <1>4, <1>5 DEF AttemptsFine

\* One attempt goes on.
LEMMA AttemptMoves ==
  ASSUME DeskAssumption, DeskInv, ChainGrows, NEW a \in DOMAIN attempts, NEW q \in Attempt,
         Only(a, q), q.tab = attempts[a].tab, AttemptInv(q, chain'),
         Past(attempts[a]) => Past(q)
  PROVE  AttemptsFine
<1>1. AttemptsTyped /\ attempts' = [attempts EXCEPT ![a] = q]
  BY DeskTyped DEF Only
<1>2. /\ [attempts EXCEPT ![a] = q] \in Seq(Attempt) /\ Len([attempts EXCEPT ![a] = q]) = Len(attempts)
      /\ \A i \in 1 .. Len(attempts) : [attempts EXCEPT ![a] = q][i] = IF i = a THEN q ELSE attempts[i]
  BY <1>1, ExceptSeq DEF AttemptsTyped
<1>3. /\ attempts' \in Seq(Attempt) /\ Len(attempts') = Len(attempts)
      /\ \A i \in 1 .. Len(attempts) : attempts'[i] = IF i = a THEN q ELSE attempts[i]
  BY <1>1, <1>2, Zenon
<1>4. DOMAIN attempts' = DOMAIN attempts /\ DOMAIN attempts = 1 .. Len(attempts)
  BY <1>1, <1>3, LenProperties DEF AttemptsTyped
<1>5. \A i \in DOMAIN attempts :
        /\ attempts'[i].tab = attempts[i].tab
        /\ Past(attempts[i]) => Past(attempts'[i])
        /\ AttemptInv(attempts'[i], chain')
  BY <1>3, <1>4, AttemptStays
<1>6. OrderInv'
  BY <1>4, <1>5 DEF DeskInv, OrderInv
<1>7. FiledInv'
  BY <1>4, <1>5 DEF AttemptInv, FiledInv
<1>8. KnewInv' /\ FreshInv'
  BY <1>4, <1>5 DEF AttemptInv, KnewInv, FreshInv
<1> QED  BY <1>3, <1>6, <1>7, <1>8 DEF AttemptsFine

\* A step of one attempt that neither files nor learns anything.
LEMMA AttemptSteps ==
  ASSUME DeskAssumption, DeskInv, UNCHANGED chain, NEW a \in DOMAIN attempts, NEW q \in Attempt,
         Only(a, q), q.tab = attempts[a].tab, q.receipt = attempts[a].receipt,
         q.filed = attempts[a].filed, q.knew = attempts[a].knew, q.misread = attempts[a].misread,
         q.step # "preparing",
         q.step \in {"approving", "filing"} \/ q.tx # "none" =>
           attempts[a].step \in {"approving", "filing"} \/ attempts[a].tx # "none",
         Past(attempts[a]) => Past(q)
  PROVE  AttemptsFine
<1>1. ChainGrows
  BY ChainStays
<1>2. AttemptInv(attempts[a], chain')
  BY <1>1, AttemptStays
<1>3. AttemptInv(q, chain')
  BY <1>2 DEF AttemptInv, KnewNone, Fresh
<1> QED  BY <1>1, <1>3, AttemptMoves

LEMMA ClickStep ==
  ASSUME SummariesAssumption, DeskAssumption, DeskInv, NEW t \in Tabs, HandleFileChallenge(t)
  PROVE  AttemptsFine
<1> DEFINE q == [tab |-> t, receipt |-> page[t].receipt, step |-> "preparing", left |-> FALSE,
                 knew |-> {}, misread |-> FALSE,
                 tx |-> "none", filed |-> None, tracks |-> None, shown |-> None]
<1>1. /\ page[t].receipt \in Receipts /\ Enabled(t) /\ attempts' = Append(attempts, q)
      /\ UNCHANGED chain
  <2>1. page[t] \in Page
    BY DEF HandleFileChallenge, DeskInv, DeskTypeOK
  <2> QED  BY <2>1 DEF HandleFileChallenge, Page
<1>2. q \in Attempt /\ q.tab = t /\ AttemptInv(q, chain')
  BY <1>1 DEF Attempt, Running, AttemptInv, KnewNone, Fresh
<1> HIDE DEF q
<1>3. attempts \in Seq(Attempt) /\ DOMAIN attempts = 1 .. Len(attempts) /\ Len(attempts) \in Nat
  BY DeskTyped DEF AttemptsTyped
<1>4. /\ attempts' \in Seq(Attempt) /\ Len(attempts') = Len(attempts) + 1
      /\ \A i \in 1 .. Len(attempts) : attempts'[i] = attempts[i]
      /\ attempts'[Len(attempts) + 1] = q
  BY <1>1, <1>2, <1>3, AppendProperties
<1>5. DOMAIN attempts' = 1 .. Len(attempts) + 1
  BY <1>3, <1>4, LenProperties
<1>6. \A i \in DOMAIN attempts : attempts[i].tab = t => Past(attempts[i])
  BY <1>1 DEF Enabled, Of, Past
<1>7. OrderInv'
  <2>1. ASSUME NEW i \in DOMAIN attempts', NEW j \in DOMAIN attempts', i < j,
               attempts'[i].tab = attempts'[j].tab
        PROVE  Past(attempts'[i])
    <3>1. i \in 1 .. Len(attempts) /\ attempts'[i] = attempts[i]
      BY <1>3, <1>4, <1>5, <2>1
    <3>2. CASE j = Len(attempts) + 1
      BY <1>2, <1>3, <1>4, <1>6, <2>1, <3>1, <3>2
    <3>3. CASE j # Len(attempts) + 1
      <4>1. j \in 1 .. Len(attempts) /\ attempts'[j] = attempts[j]
        BY <1>3, <1>4, <1>5, <3>3
      <4> QED  BY <1>3, <2>1, <3>1, <4>1 DEF DeskInv, OrderInv
    <3> QED  BY <3>2, <3>3
  <2> QED  BY <2>1 DEF OrderInv
<1>8. \A i \in DOMAIN attempts' : AttemptInv(attempts'[i], chain')
  <2>1. ChainGrows
    BY <1>1, ChainStays
  <2>2. \A i \in DOMAIN attempts : AttemptInv(attempts[i], chain')
    BY <2>1, AttemptStays
  <2>3. ASSUME NEW i \in DOMAIN attempts' PROVE AttemptInv(attempts'[i], chain')
    <3>1. CASE i = Len(attempts) + 1
      BY <1>2, <1>4, <3>1
    <3>2. CASE i # Len(attempts) + 1
      <4>1. i \in 1 .. Len(attempts) /\ attempts'[i] = attempts[i]
        BY <1>3, <1>4, <1>5, <3>2
      <4> QED  BY <1>3, <2>2, <4>1
    <3> QED  BY <3>1, <3>2
  <2> QED  BY <2>3
<1>9. FiledInv' /\ KnewInv' /\ FreshInv'
  BY <1>8 DEF AttemptInv, FiledInv, KnewInv, FreshInv
<1> QED  BY <1>4, <1>7, <1>9 DEF AttemptsFine

\* A page that was left or reloaded: its attempts are out of sight or over.
LEMMA TabStep ==
  ASSUME DeskAssumption, DeskInv, NEW t \in Tabs, Leave(t) \/ Reload(t)
  PROVE  AttemptsFine
<1>1. /\ DOMAIN attempts' = DOMAIN attempts /\ UNCHANGED chain
      /\ \A a \in DOMAIN attempts :
           attempts'[a] \in {attempts[a], Left(attempts[a]), Forgotten(attempts[a])}
      /\ attempts' = [a \in DOMAIN attempts |-> attempts'[a]]
  <2>1. CASE Leave(t)
    BY <2>1 DEF Leave
  <2>2. CASE Reload(t)
    BY <2>2 DEF Reload
  <2> QED  BY <2>1, <2>2
<1>2. /\ AttemptsTyped /\ \A a \in DOMAIN attempts : attempts[a] \in Attempt
      /\ ChainGrows
  BY <1>1, DeskTyped, ChainStays
<1>3. ASSUME NEW a \in DOMAIN attempts
      PROVE  /\ attempts'[a] \in Attempt /\ attempts'[a].tab = attempts[a].tab
             /\ Past(attempts[a]) => Past(attempts'[a])
             /\ AttemptInv(attempts'[a], chain')
  <2>1. AttemptInv(attempts[a], chain') /\ attempts[a] \in Attempt
    BY <1>2, AttemptStays
  <2>2. CASE attempts'[a] = Forgotten(attempts[a])
    <3> DEFINE q == Forgotten(attempts[a])
    <3>1. /\ q \in Attempt /\ q.tab = attempts[a].tab /\ q.receipt = attempts[a].receipt
          /\ q.knew = attempts[a].knew /\ q.misread = attempts[a].misread
          /\ q.tx = attempts[a].tx /\ q.filed = attempts[a].filed
          /\ q.step = "gone"
      BY <2>1 DEF Attempt, Forgotten
    <3> HIDE DEF q
    <3>3. AttemptInv(q, chain') /\ Past(q)
      BY <2>1, <3>1 DEF AttemptInv, KnewNone, Fresh, Past
    <3> QED  BY <2>2, <3>1, <3>3 DEF q
  <2>3. CASE attempts'[a] = [attempts[a] EXCEPT !.left = TRUE]
    <3> DEFINE q == [attempts[a] EXCEPT !.left = TRUE]
    <3>1. /\ q \in Attempt /\ q.tab = attempts[a].tab /\ q.receipt = attempts[a].receipt
          /\ q.knew = attempts[a].knew /\ q.misread = attempts[a].misread
          /\ q.tx = attempts[a].tx /\ q.filed = attempts[a].filed
          /\ q.step = attempts[a].step /\ q.left
      BY <2>1 DEF Attempt
    <3>2. attempts'[a] = q
      BY <2>3
    <3> HIDE DEF q
    <3>3. AttemptInv(q, chain') /\ Past(q)
      BY <2>1, <3>1 DEF AttemptInv, KnewNone, Fresh, Past
    <3> QED  BY <3>1, <3>2, <3>3
  <2>4. CASE attempts'[a] = attempts[a]
    BY <2>1, <2>4
  <2> QED  BY <1>1, <2>2, <2>3, <2>4 DEF Left
<1>4. attempts' \in Seq(Attempt)
  <2>1. attempts' \in [1 .. Len(attempts) -> Attempt]
    BY <1>1, <1>2, <1>3 DEF AttemptsTyped
  <2> QED  BY <1>2, <2>1, SeqDef DEF AttemptsTyped
<1>5. OrderInv'
  BY <1>1, <1>3 DEF DeskInv, OrderInv
<1>6. FiledInv' /\ KnewInv' /\ FreshInv'
  BY <1>1, <1>3 DEF AttemptInv, FiledInv, KnewInv, FreshInv
<1> QED  BY <1>4, <1>5, <1>6 DEF AttemptsFine

\* What a preparation lets through it knows no challenge of.
LEMMA PrepareStep ==
  ASSUME SummariesAssumption, DeskAssumption, DeskInv, NEW a \in DOMAIN attempts, Prepare(a)
  PROVE  AttemptsFine
<1> DEFINE r == attempts[a].receipt
<1>1. PICK misread \in BOOLEAN : \E step \in PrepareChallenge(r, misread) :
        Only(a, [attempts[a] EXCEPT !.step = step, !.knew = Indexed, !.misread = misread])
  BY DEF Prepare
<1>1a. PICK step \in PrepareChallenge(r, misread) :
        Only(a, [attempts[a] EXCEPT !.step = step, !.knew = Indexed, !.misread = misread])
  BY <1>1
<1>2. attempts[a] \in Attempt /\ r \in Receipts /\ attempts[a].step = "preparing" /\ UNCHANGED chain
  BY DeskTyped DEF Prepare, At, Attempt
<1>3. /\ Indexed \subseteq Ids /\ RowsOf(r) \subseteq Indexed /\ Indexed \subseteq DOMAIN chain
      /\ RowsOf(r) # {} => StatusOf(r) \in Statuses
  BY <1>2, RowsFacts DEF Indexed
<1>4. step \in {"approving", "filing", "error"} /\ (step # "error" => misread \/ ~Stands(r))
  BY DEF PrepareChallenge
<1> DEFINE q == [attempts[a] EXCEPT !.step = step, !.knew = Indexed, !.misread = misread]
<1>5. /\ q \in Attempt /\ q.tab = attempts[a].tab /\ q.receipt = r /\ q.knew = Indexed
      /\ q.step = step /\ q.tx = attempts[a].tx /\ q.filed = attempts[a].filed
      /\ q.left = attempts[a].left /\ q.misread = misread
  BY <1>2, <1>3, <1>4 DEF Attempt, Running
<1>6. Only(a, q) /\ ChainGrows
  BY <1>1a, <1>2, ChainStays
<1> HIDE DEF q
<1>7. attempts[a].tx = "none"
  BY <1>2 DEF DeskInv, FreshInv, Fresh
<1>8. KnewNone(q, chain')
  <2> SUFFICES ASSUME "REJECTED" \notin Verdicts, ~misread, step # "error", NEW n \in Indexed
               PROVE  n \in DOMAIN chain /\ chain[n] # r
    BY <1>2, <1>4, <1>5, <1>7 DEF KnewNone
  <2>1. StatusOf(r) \notin {"FILED", "UPHELD"} /\ Statuses \subseteq {"FILED", "UPHELD"}
    BY <1>4 DEF Stands, Statuses, SummariesAssumption
  <2>2. RowsOf(r) = {}
    BY <1>3, <2>1
  <2> QED  BY <1>3, <2>2 DEF RowsOf
<1>9. AttemptInv(q, chain') /\ (Past(attempts[a]) => Past(q))
  BY <1>2, <1>4, <1>5, <1>8 DEF AttemptInv, DeskInv, FiledInv, Fresh, Past
<1> QED  BY <1>2, <1>5, <1>6, <1>9, AttemptMoves

LEMMA MineStep ==
  ASSUME DeskAssumption, DeskInv, NEW a \in DOMAIN attempts, Mine(a)
  PROVE  AttemptsFine /\ ChainGrows /\ stake' \in 0 .. InitialStake
<1> DEFINE r == attempts[a].receipt
<1>1. /\ attempts[a] \in Attempt /\ r \in Receipts /\ attempts[a].tx = "sent"
      /\ stake \in 0 .. InitialStake
  BY DeskTyped DEF Mine, Attempt, DeskInv, DeskTypeOK
<1>2. CASE File(r) /\ Only(a, [attempts[a] EXCEPT !.tx = "mined", !.filed = Len(chain) + 1])
  <2> DEFINE q == [attempts[a] EXCEPT !.tx = "mined", !.filed = Len(chain) + 1]
  <2>1. /\ ChainGrows /\ stake' \in 0 .. InitialStake
        /\ Len(chain) + 1 \in Ids /\ Len(chain) + 1 \in DOMAIN chain'
        /\ chain'[Len(chain) + 1] = r
    BY <1>1, <1>2, FileGrows
  <2>2. /\ q \in Attempt /\ q.tab = attempts[a].tab /\ q.receipt = r /\ q.knew = attempts[a].knew
        /\ q.step = attempts[a].step /\ q.tx = "mined" /\ q.filed = Len(chain) + 1
        /\ q.left = attempts[a].left /\ q.misread = attempts[a].misread
    BY <1>1, <2>1 DEF Attempt
  <2>3. Only(a, q)
    BY <1>2
  <2> HIDE DEF q
  <2>4. AttemptInv(attempts[a], chain')
    BY <2>1, AttemptStays
  <2>5. AttemptInv(q, chain') /\ (Past(attempts[a]) => Past(q))
    BY <1>1, <2>1, <2>2, <2>4 DEF AttemptInv, KnewNone, Fresh, Past
  <2> QED  BY <2>1, <2>2, <2>3, <2>5, AttemptMoves
<1>3. CASE Only(a, [attempts[a] EXCEPT !.tx = "reverted"]) /\ UNCHANGED <<stake, chain>>
  <2> DEFINE q == [attempts[a] EXCEPT !.tx = "reverted"]
  <2>1. /\ q \in Attempt /\ q.tab = attempts[a].tab /\ q.receipt = r /\ q.knew = attempts[a].knew
        /\ q.step = attempts[a].step /\ q.tx = "reverted" /\ q.filed = attempts[a].filed
        /\ q.left = attempts[a].left /\ q.misread = attempts[a].misread
    BY <1>1 DEF Attempt
  <2>2. Only(a, q)
    BY <1>3
  <2> HIDE DEF q
  <2>3. ChainGrows
    BY <1>3, ChainStays
  <2>4. AttemptInv(attempts[a], chain')
    BY <2>3, AttemptStays
  <2>5. AttemptInv(q, chain') /\ (Past(attempts[a]) => Past(q))
    BY <1>1, <2>1, <2>4 DEF AttemptInv, KnewNone, Fresh, Past
  <2> QED  BY <1>1, <1>3, <2>1, <2>2, <2>3, <2>5, AttemptMoves
<1> QED  BY <1>2, <1>3 DEF Mine

\* The other steps of an attempt.
LEMMA PageSteps ==
  ASSUME SummariesAssumption, DeskAssumption, DeskInv, NEW a \in DOMAIN attempts,
         Approve(a) \/ SendFiling(a) \/ Wait(a) \/ PollChallengeIdForReceipt(a) \/ Halt(a) \/ ChallengeStatus(a)
  PROVE  AttemptsFine
<1>1. attempts[a] \in Attempt /\ attempts[a].receipt \in Receipts
  BY DeskTyped DEF Attempt
<1>2. CASE Approve(a)
  <2> DEFINE q == [attempts[a] EXCEPT !.step = "filing"]
  <2>1. /\ q \in Attempt /\ q.tab = attempts[a].tab /\ q.receipt = attempts[a].receipt
        /\ q.left = attempts[a].left /\ q.misread = attempts[a].misread
        /\ q.filed = attempts[a].filed /\ q.knew = attempts[a].knew /\ q.tx = attempts[a].tx
        /\ q.step = "filing"
    BY <1>1 DEF Attempt, Running
  <2>2. Only(a, q) /\ attempts[a].step = "approving" /\ UNCHANGED chain
    BY <1>2 DEF Approve, At
  <2> HIDE DEF q
  <2> QED  BY <2>1, <2>2, AttemptSteps DEF Past
<1>3. CASE SendFiling(a)
  <2> DEFINE q == [attempts[a] EXCEPT !.step = "waiting", !.tx = "sent"]
  <2>1. /\ q \in Attempt /\ q.tab = attempts[a].tab /\ q.receipt = attempts[a].receipt
        /\ q.left = attempts[a].left /\ q.misread = attempts[a].misread
        /\ q.filed = attempts[a].filed /\ q.knew = attempts[a].knew
        /\ q.step = "waiting"
    BY <1>1 DEF Attempt, Running
  <2>2. Only(a, q) /\ attempts[a].step = "filing" /\ UNCHANGED chain
    BY <1>3 DEF SendFiling, At
  <2> HIDE DEF q
  <2> QED  BY <2>1, <2>2, AttemptSteps DEF Past
<1>4. CASE Wait(a)
  <2>1. PICK step \in {"error", "indexing"} :
          step = IF attempts[a].tx = "reverted" THEN "error" ELSE "indexing"
    OBVIOUS
  <2> DEFINE q == [attempts[a] EXCEPT !.step = step]
  <2>2. /\ q \in Attempt /\ q.tab = attempts[a].tab /\ q.receipt = attempts[a].receipt
        /\ q.left = attempts[a].left /\ q.misread = attempts[a].misread
        /\ q.filed = attempts[a].filed /\ q.knew = attempts[a].knew /\ q.tx = attempts[a].tx
        /\ q.step = step
    BY <1>1 DEF Attempt, Running
  <2>3. Only(a, q) /\ attempts[a].step = "waiting" /\ UNCHANGED chain
    BY <1>4, <2>1 DEF Wait, At
  <2> HIDE DEF q
  <2> QED  BY <2>1, <2>2, <2>3, AttemptSteps DEF Past
<1>5. CASE PollChallengeIdForReceipt(a)
  <2>1. PICK id \in {PendingId} \cup Ids :
          id = IF RowsOf(attempts[a].receipt) = {} THEN PendingId ELSE Max(RowsOf(attempts[a].receipt))
    BY <1>1, RowsFacts
  <2> DEFINE q == [attempts[a] EXCEPT !.step = "submitted", !.tracks = id]
  <2>2. /\ q \in Attempt /\ q.tab = attempts[a].tab /\ q.receipt = attempts[a].receipt
        /\ q.left = attempts[a].left /\ q.misread = attempts[a].misread
        /\ q.filed = attempts[a].filed /\ q.knew = attempts[a].knew /\ q.tx = attempts[a].tx
        /\ q.step = "submitted"
    BY <1>1 DEF Attempt
  <2>3. Only(a, q) /\ attempts[a].step = "indexing" /\ UNCHANGED chain
    BY <1>5, <2>1 DEF PollChallengeIdForReceipt, At, Hit
  <2> HIDE DEF q
  <2> QED  BY <2>2, <2>3, AttemptSteps DEF Past
<1>6. CASE Halt(a)
  <2> DEFINE q == [attempts[a] EXCEPT !.step = "error"]
  <2>1. /\ q \in Attempt /\ q.tab = attempts[a].tab /\ q.receipt = attempts[a].receipt
        /\ q.left = attempts[a].left /\ q.misread = attempts[a].misread
        /\ q.filed = attempts[a].filed /\ q.knew = attempts[a].knew /\ q.tx = attempts[a].tx
        /\ q.step = "error"
    BY <1>1 DEF Attempt
  <2>2. Only(a, q) /\ UNCHANGED chain
    BY <1>6 DEF Halt
  <2> HIDE DEF q
  <2> QED  BY <2>1, <2>2, AttemptSteps DEF Past
<1>7. CASE ChallengeStatus(a)
  <2>1. PICK s \in GetChallenge(attempts[a].tracks) \cup
                     (IF attempts[a].shown = None THEN {"unreachable"} ELSE {}) :
          Only(a, [attempts[a] EXCEPT !.shown = s])
    BY <1>7 DEF ChallengeStatus
  <2>2. s \in {"unreachable", "PENDING"} \cup Statuses
    <3>1. CASE s = "unreachable"
      BY <3>1
    <3>2. CASE s # "unreachable"
      <4>1. s \in GetChallenge(attempts[a].tracks)
        BY <2>1, <3>2
      <4>2. attempts[a].tracks \in Indexed /\ s = NormalizedDetail(ChallengeRow(attempts[a].tracks))
        BY <4>1 DEF GetChallenge
      <4>3. evidence[C(attempts[a].tracks)] \in Statuses
        BY <1>1, <4>2, RowsFacts
      <4> QED  BY <4>2, <4>3 DEF NormalizedDetail, ChallengeRow
    <3> QED  BY <3>1, <3>2
  <2> DEFINE q == [attempts[a] EXCEPT !.shown = s]
  <2>3. /\ q \in Attempt /\ q.tab = attempts[a].tab /\ q.receipt = attempts[a].receipt
        /\ q.left = attempts[a].left /\ q.misread = attempts[a].misread
        /\ q.filed = attempts[a].filed /\ q.knew = attempts[a].knew /\ q.tx = attempts[a].tx
        /\ q.step = attempts[a].step
    BY <1>1, <2>2 DEF Attempt
  <2>4. Only(a, q) /\ attempts[a].step = "submitted" /\ UNCHANGED chain
    BY <1>7, <2>1 DEF ChallengeStatus, At
  <2> HIDE DEF q
  <2> QED  BY <2>3, <2>4, AttemptSteps DEF Past
<1> QED  BY <1>2, <1>3, <1>4, <1>5, <1>6, <1>7

----------------------------------------------------------------------------
(* Every step of the desk.                                                 *)

\* The indexer's part of the invariant.
IndexFine ==
  /\ cursor' \in 0 .. Len(Paid) + 2 * Len(chain') /\ missed' \subseteq DOMAIN chain'
  /\ \A n \in DOMAIN chain' : ResolvedAt(n) <= cursor' /\ n \notin missed' =>
       evidence'[C(n)] \in {None, Decided[C(n)]}

\* A filing is beyond the cursor when it is added.
LEMMA IndexStays ==
  ASSUME SummariesAssumption, DeskAssumption, DeskInv, ChainGrows, UNCHANGED <<evidence, cursor, missed>>
  PROVE  IndexFine
<1>1. /\ Len(chain) \in Nat /\ Len(Paid) \in Nat /\ DOMAIN chain = 1 .. Len(chain)
      /\ cursor \in 0 .. Len(Paid) + 2 * Len(chain) /\ missed \subseteq DOMAIN chain
  BY DeskTyped DEF LogLength
<1>2. Len(chain') \in Nat /\ DOMAIN chain' = 1 .. Len(chain') /\ DOMAIN chain \subseteq DOMAIN chain'
  BY LenProperties DEF ChainGrows
<1>3. Len(chain) <= Len(chain')
  <2>1. CASE Len(chain) = 0
    BY <1>1, <1>2, <2>1
  <2>2. CASE Len(chain) # 0
    <3>1. Len(chain) \in DOMAIN chain
      BY <1>1, <2>2
    <3> QED  BY <1>1, <1>2, <3>1
  <2> QED  BY <2>1, <2>2
<1>4. cursor' \in 0 .. Len(Paid) + 2 * Len(chain')
  BY <1>1, <1>2, <1>3
<1>5. ASSUME NEW n \in DOMAIN chain', ResolvedAt(n) <= cursor', n \notin missed'
      PROVE  evidence'[C(n)] \in {None, Decided[C(n)]}
  <2>1. n \in DOMAIN chain
    BY <1>1, <1>2, <1>5 DEF ResolvedAt
  <2> QED  BY <1>5, <2>1 DEF DeskInv, RowsCurrent
<1> QED  BY <1>1, <1>2, <1>4, <1>5 DEF IndexFine

\* What a write to one row leaves of the others.
LEMMA OtherRows ==
  ASSUME SummariesAssumption, DeskAssumption, DeskInv, NEW q \in Refs, Index(q) \/ Resolve(q),
         NEW r \in Refs, r # q
  PROVE  evidence'[r] = evidence[r]
BY DeskTyped DEF Index, Resolve

\* Every event has a place of its own in the log.
LEMMA Places ==
  ASSUME DeskAssumption, NEW n \in Nat, NEW m \in Nat
  PROVE  /\ ResolvedAt(n) \in Int /\ FiledAt(n) \in Int
         /\ ResolvedAt(n) = ResolvedAt(m) => n = m
         /\ ResolvedAt(n) # FiledAt(m)
         /\ FiledAt(n) < ResolvedAt(n)
<1>1. Len(Paid) \in Nat
  BY LenProperties DEF DeskAssumption
<1>2. \A k \in Int : 2 * n # 2 * m - 1 + k - k
  OBVIOUS
<1> QED  BY <1>1, <1>2 DEF ResolvedAt, FiledAt

LEMMA IndexNextStep ==
  ASSUME SummariesAssumption, DeskAssumption, DeskInv, IndexNext
  PROVE  SumInv' /\ IndexFine
<1>1. /\ Len(chain) \in Nat /\ Len(Paid) \in Nat /\ DOMAIN chain = 1 .. Len(chain)
      /\ cursor \in 0 .. Len(Paid) + 2 * Len(chain) /\ missed \subseteq DOMAIN chain
      /\ \A n \in DOMAIN chain : n \in Nat /\ C(n) \in Refs
      /\ evidence \in [Refs -> Statuses \cup {None}] /\ SumInv
  BY DeskTyped DEF LogLength, DeskInv
<1>2. /\ cursor' = cursor + 1 /\ cursor < LogLength /\ UNCHANGED chain
      /\ HandleLog(cursor + 1) \/ RefusedWrite(cursor + 1)
  BY DEF IndexNext
<1>3. cursor' \in 0 .. Len(Paid) + 2 * Len(chain')
  BY <1>1, <1>2 DEF LogLength
<1>4. \A n \in DOMAIN chain : ResolvedAt(n) <= cursor /\ n \notin missed =>
        evidence[C(n)] \in {None, Decided[C(n)]}
  BY DEF DeskInv, RowsCurrent
<1>5. \A n \in DOMAIN chain : ResolvedAt(n) <= cursor' /\ ResolvedAt(n) # cursor + 1 => ResolvedAt(n) <= cursor
  <2>1. cursor \in Int /\ cursor' = cursor + 1
    BY <1>1, <1>2
  <2>2. \A n \in DOMAIN chain : ResolvedAt(n) \in Int
    BY <1>1, Places
  <2> QED  BY <2>1, <2>2
<1>6. CASE \E i \in DOMAIN Paid : cursor + 1 = i /\ Index(R(Paid[i])) /\ UNCHANGED missed
  <2>1. PICK i \in DOMAIN Paid : cursor + 1 = i /\ Index(R(Paid[i])) /\ UNCHANGED missed
    BY <1>6
  <2>2. R(Paid[i]) \in Refs
    BY DeskTyped DEF Receipts
  <2>3. SumInv'
    BY <1>1, <2>1, <2>2, IndexStep
  <2>4. ASSUME NEW n \in DOMAIN chain, ResolvedAt(n) <= cursor', n \notin missed
        PROVE  evidence'[C(n)] \in {None, Decided[C(n)]}
    <3>1. i \in 1 .. Len(Paid)
      BY LenProperties DEF DeskAssumption
    <3>2. ResolvedAt(n) # cursor + 1
      BY <1>1, <2>1, <3>1 DEF ResolvedAt
    <3>3. C(n) # R(Paid[i])
      BY DEF C, R
    <3> QED  BY <1>1, <1>4, <1>5, <2>1, <2>2, <2>4, <3>2, <3>3, OtherRows
  <2> QED  BY <1>1, <1>2, <1>3, <2>1, <2>3, <2>4 DEF IndexFine
<1>7. CASE \E n \in DOMAIN chain : cursor + 1 = FiledAt(n) /\ Index(C(n)) /\ UNCHANGED missed
  <2>1. PICK m \in DOMAIN chain : cursor + 1 = FiledAt(m) /\ Index(C(m)) /\ UNCHANGED missed
    BY <1>7
  <2>3. SumInv'
    BY <1>1, <2>1, IndexStep
  <2>4. ASSUME NEW n \in DOMAIN chain, ResolvedAt(n) <= cursor', n \notin missed
        PROVE  evidence'[C(n)] \in {None, Decided[C(n)]}
    <3>1. n # m /\ ResolvedAt(n) # cursor + 1
      <4>1. cursor \in Int /\ n \in Nat /\ m \in Nat /\ cursor' = FiledAt(m)
        BY <1>1, <1>2, <2>1
      <4>2. /\ ResolvedAt(n) \in Int /\ FiledAt(m) \in Int /\ ResolvedAt(n) # FiledAt(m)
            /\ FiledAt(m) < ResolvedAt(m)
        BY <4>1, Places
      <4> QED  BY <1>2, <2>4, <4>1, <4>2
    <3>3. C(n) # C(m)
      BY <3>1 DEF C
    <3> QED  BY <1>1, <1>4, <1>5, <2>1, <2>4, <3>1, <3>3, OtherRows
  <2> QED  BY <1>1, <1>2, <1>3, <2>1, <2>3, <2>4 DEF IndexFine
<1>8. CASE \E n \in DOMAIN chain :
             cursor + 1 = ResolvedAt(n) /\ Resolve(C(n)) /\ missed' = missed \ {n}
  <2>1. PICK m \in DOMAIN chain : cursor + 1 = ResolvedAt(m) /\ Resolve(C(m)) /\ missed' = missed \ {m}
    BY <1>8
  <2>3. SumInv'
    BY <1>1, <2>1, IndexStep
  <2>4. ASSUME NEW n \in DOMAIN chain, ResolvedAt(n) <= cursor', n \notin missed'
        PROVE  evidence'[C(n)] \in {None, Decided[C(n)]}
    <3>1. CASE n = m
      BY <1>1, <2>1, <3>1 DEF Resolve
    <3>2. CASE n # m
      <4>1. ResolvedAt(n) # cursor + 1
        BY <1>1, <2>1, <3>2, Places
      <4>2. C(n) # C(m)
        BY <3>2 DEF C
      <4> QED  BY <1>1, <1>4, <1>5, <2>1, <2>4, <3>2, <4>1, <4>2, OtherRows
    <3> QED  BY <3>1, <3>2
  <2> QED  BY <1>1, <1>2, <1>3, <2>1, <2>3, <2>4 DEF IndexFine
<1>9. CASE RefusedWrite(cursor + 1)
  <2>1. /\ UNCHANGED <<evidence, cache, loads>> /\ Fault
        /\ missed' = missed \cup {n \in DOMAIN chain : cursor + 1 = ResolvedAt(n)}
    BY <1>9 DEF RefusedWrite
  <2>2. SumInv'
    BY <1>1, <2>1, SumStays
  <2>3. ASSUME NEW n \in DOMAIN chain, ResolvedAt(n) <= cursor', n \notin missed'
        PROVE  evidence'[C(n)] \in {None, Decided[C(n)]}
    BY <1>4, <1>5, <2>1, <2>3
  <2> QED  BY <1>1, <1>2, <1>3, <2>1, <2>2, <2>3 DEF IndexFine
<1> QED  BY <1>2, <1>6, <1>7, <1>8, <1>9 DEF HandleLog

LEMMA RestartStep ==
  ASSUME SummariesAssumption, DeskAssumption, DeskInv, Restart
  PROVE  SumInv' /\ IndexFine
<1>1. /\ Len(chain) \in Nat /\ Len(Paid) \in Nat /\ DOMAIN chain = 1 .. Len(chain)
      /\ cursor \in 0 .. Len(Paid) + 2 * Len(chain) /\ missed \subseteq DOMAIN chain
  BY DeskTyped DEF LogLength
<1>2. /\ cursor' \in 0 .. cursor - 1 /\ Fault
      /\ UNCHANGED <<evidence, cache, loads, missed, chain>>
  BY DEF Restart
<1>3. SumInv'
  BY <1>2, SumStays DEF DeskInv
<1>4. cursor' \in 0 .. Len(Paid) + 2 * Len(chain')
  BY <1>1, <1>2
<1>5. \A n \in DOMAIN chain : ResolvedAt(n) <= cursor' => ResolvedAt(n) <= cursor
  BY <1>1, <1>2 DEF ResolvedAt
<1> QED  BY <1>1, <1>2, <1>3, <1>4, <1>5 DEF IndexFine, DeskInv, RowsCurrent

LEMMA DeskFrame ==
  ASSUME DeskAssumption, DeskInv, SumInv', IndexFine, AttemptsFine, ChainGrows,
         stake' \in 0 .. InitialStake, now' \in 0 .. MaxTime,
         page' \in [Tabs -> Page \cup {None}],
         queue' \subseteq DOMAIN chain
  PROVE  DeskInv'
<1>1. SummariesTypeOK'
  BY DEF SumInv
<1>2. DeskTypeOK'
  BY <1>1 DEF DeskTypeOK, ChainGrows, AttemptsFine, IndexFine, LogLength
<1>3. RowsCurrent'
  BY DEF IndexFine, RowsCurrent, ResolvedAt, C
<1> QED  BY <1>2, <1>3 DEF DeskInv, AttemptsFine

\* What a step leaves as it is.
LEMMA RestStays ==
  ASSUME DeskInv
  PROVE  /\ UNCHANGED stake => stake' \in 0 .. InitialStake
         /\ UNCHANGED now => now' \in 0 .. MaxTime
         /\ UNCHANGED page => page' \in [Tabs -> Page \cup {None}]
         /\ UNCHANGED queue => queue' \subseteq DOMAIN chain
         /\ Pending \subseteq DOMAIN chain
BY DEF DeskInv, DeskTypeOK, Pending, Unsettled, Indexed

LEMMA OnlySummaries ==
  ASSUME SummariesAssumption, DeskAssumption, DeskInv, SumInv', IndexFine,
         UNCHANGED <<now, stake, chain, page, attempts, queue>>
  PROVE  DeskInv'
BY ChainStays, AttemptsStay, RestStays, DeskFrame

LEMMA OnlyAttempts ==
  ASSUME SummariesAssumption, DeskAssumption, DeskInv, AttemptsFine, Fault \/ UNCHANGED faults,
         UNCHANGED <<evidence, cache, loads, cursor, missed, now, stake, chain, page, queue>>
  PROVE  DeskInv'
<1>1. SumInv'
  BY SumStays DEF DeskInv
<1> QED  BY <1>1, ChainStays, IndexStays, RestStays, DeskFrame

\* The summaries alone write no row.
LEMMA RowsUntouched ==
  ASSUME SummariesAssumption, DeskAssumption, DeskInv, UNCHANGED <<evidence, chain, cursor, missed>>
  PROVE  IndexFine
BY ChainStays, IndexStays

LEMMA DeskStep ==
  ASSUME SummariesAssumption, DeskAssumption, DeskInv, [DeskNext]_allVars
  PROVE  DeskInv'
<1>0. SumInv
  BY DEF DeskInv
<1>1. CASE UNCHANGED allVars
  <2>1. /\ UNCHANGED <<evidence, cache, loads, faults>> /\ UNCHANGED <<cursor, missed>>
        /\ UNCHANGED <<now, stake, chain, page, attempts, queue>>
    BY <1>1 DEF allVars, vars, deskVars, indexVars
  <2>2. SumInv' /\ IndexFine
    BY <1>0, <2>1, SumStays, RowsUntouched
  <2> QED  BY <2>1, <2>2, OnlySummaries
<1>2. CASE IndexNext
  BY <1>2, IndexNextStep, OnlySummaries DEF IndexNext
<1>3. CASE Restart
  BY <1>3, RestartStep, OnlySummaries DEF Restart
<1>4. ASSUME NEW r \in Refs, GeminiSummaryCard(r) PROVE DeskInv'
  <2>1. Load(r) /\ UNCHANGED <<now, stake, chain, page, attempts, queue>> /\ UNCHANGED <<cursor, missed>>
    BY <1>4 DEF GeminiSummaryCard, deskVars, indexVars
  <2>2. SumInv' /\ IndexFine
    BY <1>0, <2>1, LoadStep, RowsUntouched DEF Load
  <2> QED  BY <2>1, <2>2, OnlySummaries
<1>5. ASSUME NEW l \in DOMAIN loads, Step(l), UNCHANGED deskVars PROVE DeskInv'
  <2>1. UNCHANGED <<now, stake, chain, page, attempts, queue>> /\ UNCHANGED <<cursor, missed>>
    BY <1>5 DEF deskVars, indexVars
  <2>2. UNCHANGED evidence
    BY <1>5 DEF Step, GetCachedSummary, GenerateSummary, CacheSummary
  <2>3. SumInv' /\ IndexFine
    BY <1>0, <1>5, <2>1, <2>2, SummaryStep, RowsUntouched
  <2> QED  BY <2>1, <2>3, OnlySummaries
<1>6. ASSUME NEW r \in Receipts, FileElsewhere(r) PROVE DeskInv'
  <2>1. /\ UNCHANGED <<evidence, cache, loads, faults>> /\ UNCHANGED <<cursor, missed>>
        /\ UNCHANGED <<now, page, attempts, queue>> /\ File(r)
    BY <1>6 DEF FileElsewhere, vars, indexVars
  <2>3. ChainGrows /\ stake' \in 0 .. InitialStake
    BY <2>1, FileGrows
  <2>2. SumInv' /\ IndexFine
    BY <1>0, <2>1, <2>3, SumStays, IndexStays
  <2>4. AttemptsFine
    BY <2>1, <2>3, AttemptsStay
  <2> QED  BY <2>1, <2>2, <2>3, <2>4, RestStays, DeskFrame
<1>7. ASSUME NEW a \in DOMAIN attempts, Mine(a) PROVE DeskInv'
  <2>1. /\ UNCHANGED <<evidence, cache, loads, faults>> /\ UNCHANGED <<cursor, missed>>
        /\ UNCHANGED <<now, page, queue>>
    BY <1>7 DEF Mine, vars, indexVars
  <2>2. AttemptsFine /\ ChainGrows /\ stake' \in 0 .. InitialStake
    BY <1>7, MineStep
  <2>3. SumInv' /\ IndexFine
    BY <1>0, <2>1, <2>2, SumStays, IndexStays
  <2> QED  BY <2>1, <2>2, <2>3, RestStays, DeskFrame
<1>8. ASSUME NEW a \in DOMAIN attempts, Run(a) \/ ChallengeStatus(a) PROVE DeskInv'
  <2>1. /\ UNCHANGED <<evidence, cache, loads, cursor, missed, now, stake, chain, page, queue>>
        /\ Fault \/ UNCHANGED faults
    <3>1. CASE Prepare(a)
      BY <3>1 DEF Prepare, Misreads, indexVars
    <3>2. CASE (Run(a) /\ ~Prepare(a)) \/ ChallengeStatus(a)
      BY <3>2 DEF Run, Approve, SendFiling, Wait, PollChallengeIdForReceipt, Halt, ChallengeStatus, vars, indexVars
    <3> QED  BY <1>8, <3>1, <3>2
  <2>2. AttemptsFine
    BY <1>8, PrepareStep, PageSteps DEF Run
  <2> QED  BY <2>1, <2>2, OnlyAttempts
<1>9. ASSUME NEW t \in Tabs, HandleFileChallenge(t) PROVE DeskInv'
  <2>1. UNCHANGED <<evidence, cache, loads, cursor, missed, now, stake, chain, page, queue>> /\ UNCHANGED faults
    BY <1>9 DEF HandleFileChallenge, vars, indexVars
  <2> QED  BY <1>9, <2>1, ClickStep, OnlyAttempts
<1>10. ASSUME NEW t \in Tabs, NEW r \in Receipts, OpenReceipt(t, r) PROVE DeskInv'
  <2>1. /\ UNCHANGED <<evidence, cache, loads, faults>> /\ UNCHANGED <<cursor, missed>>
        /\ UNCHANGED <<now, stake, chain, attempts, queue>> /\ page' = [page EXCEPT ![t] = GetReceipt(r)]
    BY <1>10 DEF OpenReceipt, vars, indexVars
  <2>2. GetReceipt(r) \in Page
    <3>1. CanChallenge(r) \in BOOLEAN
      BY DEF CanChallenge, DetailChallengeable
    <3> QED  BY <3>1 DEF GetReceipt, Page
  <2>3. page' \in [Tabs -> Page \cup {None}]
    BY <2>1, <2>2 DEF DeskInv, DeskTypeOK
  <2>4. SumInv' /\ IndexFine
    BY <1>0, <2>1, SumStays, RowsUntouched
  <2>5. ChainGrows /\ AttemptsFine
    BY <2>1, ChainStays, AttemptsStay
  <2> QED  BY <2>1, <2>3, <2>4, <2>5, RestStays, DeskFrame
<1>11. ASSUME NEW t \in Tabs, Leave(t) \/ Reload(t) PROVE DeskInv'
  <2>1. /\ UNCHANGED <<evidence, cache, loads, faults>> /\ UNCHANGED <<cursor, missed>>
        /\ UNCHANGED <<now, stake, chain, queue>> /\ page' = [page EXCEPT ![t] = None]
    BY <1>11 DEF Leave, Reload, vars, indexVars
  <2>2. page' \in [Tabs -> Page \cup {None}]
    BY <2>1 DEF DeskInv, DeskTypeOK
  <2>3. SumInv' /\ IndexFine
    BY <1>0, <2>1, SumStays, RowsUntouched
  <2>4. ChainGrows /\ AttemptsFine
    BY <1>11, <2>1, ChainStays, TabStep
  <2> QED  BY <2>1, <2>2, <2>3, <2>4, RestStays, DeskFrame
<1>12. CASE Tick
  <2>1. /\ UNCHANGED <<evidence, cache, loads, faults>> /\ UNCHANGED <<cursor, missed>>
        /\ UNCHANGED <<stake, chain, page, attempts, queue>>
    BY <1>12 DEF Tick, vars, indexVars
  <2>2. now' \in 0 .. MaxTime
    BY <1>12 DEF Tick, DeskInv, DeskTypeOK, DeskAssumption
  <2>3. SumInv' /\ IndexFine
    BY <1>0, <2>1, SumStays, RowsUntouched
  <2> QED  BY <2>1, <2>2, <2>3, ChainStays, AttemptsStay, RestStays, DeskFrame
<1>13. ASSUME PollReview \/ \E n \in Ids : HandleDecision(n) PROVE DeskInv'
  <2>1. /\ UNCHANGED <<evidence, cache, loads, faults>> /\ UNCHANGED <<cursor, missed>>
        /\ UNCHANGED <<now, stake, chain, page, attempts>> /\ queue' = Pending
    BY <1>13 DEF PollReview, HandleDecision, PostReviewerResolve, vars, indexVars
  <2>2. queue' \subseteq DOMAIN chain
    BY <2>1, RestStays
  <2>3. SumInv' /\ IndexFine
    BY <1>0, <2>1, SumStays, RowsUntouched
  <2> QED  BY <2>1, <2>2, <2>3, ChainStays, AttemptsStay, RestStays, DeskFrame
<1> QED  BY <1>1, <1>2, <1>3, <1>4, <1>5, <1>6, <1>7, <1>8, <1>9, <1>10, <1>11, <1>12, <1>13 DEF DeskNext

LEMMA DeskStart ==
  ASSUME SummariesAssumption, DeskAssumption, DeskInit
  PROVE  DeskInv
<1>1. /\ loads \in Seq(LoadType) /\ Len(loads) = 0 /\ DOMAIN loads = {}
      /\ chain \in Seq(Receipts) /\ Len(chain) = 0 /\ DOMAIN chain = {}
      /\ attempts \in Seq(Attempt) /\ DOMAIN attempts = {}
  BY EmptySeq DEF DeskInit, Init
<1>2. SummariesTypeOK
  BY <1>1 DEF SummariesTypeOK, DeskInit, Init, LoadType, SummariesAssumption
<1>3. SumInv
  BY <1>1, <1>2 DEF SumInv, RowInv, CacheInv, LoadInv, DeskInit, Init, SummariesAssumption
<1>4. cursor \in 0 .. LogLength
  <2>1. Len(Paid) \in Nat
    BY LenProperties DEF DeskAssumption
  <2> QED  BY <1>1, <2>1 DEF LogLength, DeskInit
<1>5. DeskTypeOK
  BY <1>1, <1>2, <1>4 DEF DeskTypeOK, DeskInit, DeskAssumption
<1> QED  BY <1>1, <1>3, <1>5 DEF DeskInv, RowsCurrent, OrderInv, FiledInv, KnewInv, FreshInv

\* Of two filings of one receipt neither was prepared knowing the other.
LEMMA NeitherKnew ==
  ASSUME SummariesAssumption, DeskAssumption, DeskInv, "REJECTED" \notin Verdicts,
         NEW i \in DOMAIN attempts, NEW j \in DOMAIN attempts, Sent(i),
         attempts[i].receipt = attempts[j].receipt
  PROVE  ~Knew(i, j)
<1> SUFFICES ASSUME attempts[j].filed \in attempts[i].knew, ~attempts[i].misread
             PROVE  FALSE
  BY DEF Knew
<1>1. attempts[i] \in Attempt
  BY DeskTyped
<1>2. attempts[j].filed # None
  BY <1>1 DEF Attempt, Ids, SummariesAssumption, DeskAssumption
<1>3. chain[attempts[j].filed] = attempts[j].receipt
  BY <1>2 DEF DeskInv, FiledInv
<1>4. \A n \in attempts[i].knew : chain[n] # attempts[i].receipt
  BY DEF DeskInv, KnewInv, KnewNone, Sent
<1> QED  BY <1>3, <1>4

LEMMA SecondIsBlind ==
  ASSUME SummariesAssumption, DeskAssumption, DeskInv, "REJECTED" \notin Verdicts
  PROVE  SecondFilingIsBlind
<1> SUFFICES ASSUME NEW i \in DOMAIN attempts, NEW j \in DOMAIN attempts, i < j, Sent(i), Sent(j),
                    attempts[i].tab = attempts[j].tab, attempts[i].receipt = attempts[j].receipt
             PROVE  Past(attempts[i]) /\ ~Knew(i, j) /\ ~Knew(j, i)
  BY DEF SecondFilingIsBlind, Past
<1>1. Past(attempts[i])
  BY DEF DeskInv, OrderInv
<1> QED  BY <1>1, NeitherKnew

\* What was read past, and not lost, is on record.
LEMMA SummaryTrue ==
  ASSUME SummariesAssumption, DeskAssumption, DeskInv
  PROVE  SummaryOfItsEvidence
<1> SUFFICES ASSUME NEW l \in DOMAIN loads, loads[l].pc = "answered"
             PROVE  /\ loads[l].found.ref = loads[l].ref
                    /\ \A n \in DOMAIN chain :
                         loads[l].found.ref = C(n) /\ loads[l].found.status \in Verdicts =>
                           \/ evidence[C(n)] = loads[l].found.status
                           \/ cursor < ResolvedAt(n) \/ n \in missed
  BY DEF SummaryOfItsEvidence
<1>1. loads[l].found.ref = loads[l].ref /\ Told(loads[l].found)
  BY DEF DeskInv, SumInv, LoadInv
<1>2. ASSUME NEW n \in DOMAIN chain, loads[l].found.ref = C(n), loads[l].found.status \in Verdicts,
             ~(cursor < ResolvedAt(n)), n \notin missed
      PROVE  evidence[C(n)] = loads[l].found.status
  <2>1. ResolvedAt(n) <= cursor
    <3>1. ResolvedAt(n) \in Int /\ cursor \in Int
      BY DeskTyped DEF ResolvedAt
    <3> QED  BY <1>2, <3>1
  <2>2. evidence[C(n)] \in {None, Decided[C(n)]}
    BY <1>2, <2>1 DEF DeskInv, RowsCurrent
  <2> QED  BY <1>1, <1>2, <2>2 DEF Told
<1> QED  BY <1>1, <1>2

LEMMA DeskInvariant == DeskSpec => []DeskInv
<1>1. DeskInit => DeskInv
  BY DeskStart, SummariesAssumption, DeskAssumption
<1>2. DeskInv /\ [DeskNext]_allVars => DeskInv'
  BY DeskStep, SummariesAssumption, DeskAssumption
<1> QED  BY <1>1, <1>2, PTL DEF DeskSpec

\* The pages, the index and the summaries hold what their types say.
THEOREM DeskTypeCorrect == DeskSpec => []DeskTypeOK
<1>1. DeskInv => DeskTypeOK
  BY DEF DeskInv
<1> QED  BY <1>1, DeskInvariant, PTL

\* A summary that was answered is of its own reference, and a verdict it tells
\* is on record, however loads, resolutions, restarts and refused calls race:
\* except while the log is read again, or where the verdict's write was refused.
THEOREM SummariesAreTrue == DeskSpec => []SummaryOfItsEvidence
<1>1. DeskInv => SummaryOfItsEvidence
  BY SummaryTrue, SummariesAssumption, DeskAssumption
<1> QED  BY <1>1, DeskInvariant, PTL

\* Feed, receipt page and preparation never answer differently, whatever they
\* can see of the chain, and whichever way a challenge was decided.
THEOREM AnswersAgreeAlways == DeskSpec => []ReadModelsAgree
<1>1. DeskInv => ReadModelsAgree
  BY AnswersAgree, SummariesAssumption, DeskAssumption
<1> QED  BY <1>1, DeskInvariant, PTL

\* A tab that files for a receipt twice had lost sight of its first attempt, and
\* was told of neither filing when it prepared the other.  A filing is upheld in
\* its own transaction: of a rejected one the desk would, rightly, allow a second
\* with the first in sight.
THEOREM SecondFiling ==
  ASSUME "REJECTED" \notin Verdicts
  PROVE  DeskSpec => []SecondFilingIsBlind
<1>1. DeskInv => SecondFilingIsBlind
  BY SecondIsBlind, SummariesAssumption, DeskAssumption
<1> QED  BY <1>1, DeskInvariant, PTL
===============================================================================
