------------------------------ MODULE VaultProofs ------------------------------
(***************************************************************************)
(* Theorems about VaultProtocol, for every value of its constants.         *)
(***************************************************************************)
EXTENDS VaultProperties, FiniteSetTheorems, WellFoundedInduction, TLAPS

----------------------------------------------------------------------------
(* What adding up a function over a finite set does.  The sums of the      *)
(* community modules are a recursive function over the subsets of the set; *)
(* that there is one such function, and only one, is proved by taking a    *)
(* smallest subset for which it would fail.                                *)

Pick(T) == CHOOSE x \in T : TRUE

\* g holds the sums of f over the subsets of S.
Adds(g, f, S) ==
  g = [T \in SUBSET S |-> IF T = {} THEN 0 ELSE f[Pick(T)] + g[T \ {Pick(T)}]]

LEMMA SumIsFold ==
  ASSUME NEW f, NEW S
  PROVE  SumFunctionOnSet(f, S) = (CHOOSE g : Adds(g, f, S))[S]
BY DEF SumFunctionOnSet, FoldFunctionOnSet, MapThenFoldSet, Adds, Pick

LEMMA PickIn == \A T : T # {} => Pick(T) \in T
BY DEF Pick

LEMMA SmallestSubset ==
  ASSUME NEW S, IsFiniteSet(S), NEW Bad \in SUBSET (SUBSET S), Bad # {}
  PROVE  \E T \in Bad : \A U \in SUBSET T : U # T => U \notin Bad
<1>1. IsWellFoundedOn(StrictSubsetOrdering(S), FiniteSubsetsOf(S))
  BY FS_StrictSubsetOrderingWellFounded
<1>2. Bad \subseteq FiniteSubsetsOf(S)
  BY FS_Subset DEF FiniteSubsetsOf
<1>3. \E T \in Bad : \A U \in Bad : ~ (<<U, T>> \in StrictSubsetOrdering(S))
  BY <1>1, <1>2, WFMin
<1>4. QED
  BY <1>3 DEF StrictSubsetOrdering

LEMMA SumsAgree ==
  ASSUME NEW S, IsFiniteSet(S), NEW f, NEW g, NEW h, NEW T \in SUBSET S,
         Adds(g, f, S), Adds(h, f, T)
  PROVE  \A U \in SUBSET T : g[U] = h[U]
<1> DEFINE Bad == {U \in SUBSET T : g[U] # h[U]}
<1>1. SUFFICES ASSUME Bad # {} PROVE FALSE
  OBVIOUS
<1>2. IsFiniteSet(T)
  BY FS_Subset
<1>3. PICK U \in Bad : \A V \in SUBSET U : V # U => V \notin Bad
  <2> HIDE DEF Bad
  <2>1. Bad \in SUBSET (SUBSET T)
    BY DEF Bad
  <2>2. QED
    BY <1>1, <1>2, <2>1, SmallestSubset
<1>4. CASE U = {}
  BY <1>4 DEF Adds
<1>5. CASE U # {}
  <2>1. Pick(U) \in U
    BY <1>5, PickIn
  <2>2. g[U \ {Pick(U)}] = h[U \ {Pick(U)}]
    BY <1>3, <2>1
  <2>3. g[U] = f[Pick(U)] + g[U \ {Pick(U)}] /\ h[U] = f[Pick(U)] + h[U \ {Pick(U)}]
    BY <1>5 DEF Adds
  <2>4. QED
    BY <2>2, <2>3
<1>6. QED
  BY <1>4, <1>5

\* One more element: the sums over the subsets of T, from those over its
\* proper subsets.
LEMMA SumsExist ==
  ASSUME NEW S, IsFiniteSet(S), NEW f
  PROVE  \A T \in SUBSET S : \E g : Adds(g, f, T)
<1> DEFINE Bad == {T \in SUBSET S : ~ \E g : Adds(g, f, T)}
<1>1. SUFFICES ASSUME Bad # {} PROVE FALSE
  OBVIOUS
<1>2. PICK T \in Bad : \A U \in SUBSET T : U # T => U \notin Bad
  <2> HIDE DEF Bad
  <2>1. Bad \in SUBSET (SUBSET S)
    BY DEF Bad
  <2>2. QED
    BY <1>1, <2>1, SmallestSubset
<1> DEFINE sum == [U \in SUBSET T |-> (CHOOSE g : Adds(g, f, U))[U]]
<1>3. ASSUME NEW U \in SUBSET T, U # T
      PROVE  sum[U] = IF U = {} THEN 0 ELSE f[Pick(U)] + sum[U \ {Pick(U)}]
  <2> DEFINE gU == CHOOSE g : Adds(g, f, U)
             V  == U \ {Pick(U)}
             gV == CHOOSE g : Adds(g, f, V)
  <2>1. \E g : Adds(g, f, U)
    BY <1>2, <1>3
  <2>2. Adds(gU, f, U)
    BY <2>1
  <2>3. V \in SUBSET T /\ V # T
    BY <1>3
  <2>4. \E g : Adds(g, f, V)
    BY <1>2, <2>3
  <2>5. Adds(gV, f, V)
    BY <2>4
  <2>6. sum[U] = gU[U] /\ sum[V] = gV[V]
    BY <2>3
  <2> HIDE DEF gU, gV, V, sum
  <2>7. IsFiniteSet(U)
    BY FS_Subset
  <2>8. V \in SUBSET U
    BY DEF V
  <2>9. gU[V] = gV[V]
    BY <2>2, <2>5, <2>7, <2>8, SumsAgree
  <2>10. gU[U] = IF U = {} THEN 0 ELSE f[Pick(U)] + gU[U \ {Pick(U)}]
    BY <2>2 DEF Adds
  <2>11. QED
    BY <2>6, <2>9, <2>10 DEF V
<1> DEFINE g == [U \in SUBSET T |->
                   IF U # T THEN sum[U]
                   ELSE IF T = {} THEN 0 ELSE f[Pick(T)] + sum[T \ {Pick(T)}]]
<1>4. ASSUME NEW U \in SUBSET T
      PROVE  g[U] = IF U = {} THEN 0 ELSE f[Pick(U)] + g[U \ {Pick(U)}]
  <2> HIDE DEF sum
  <2>1. U \ {Pick(U)} \in SUBSET T
    OBVIOUS
  <2>2. U # {} => U \ {Pick(U)} # T
    BY PickIn
  <2>3. U # {} => g[U \ {Pick(U)}] = sum[U \ {Pick(U)}]
    BY <2>1, <2>2
  <2>4. CASE U # T
    BY <1>3, <2>3, <2>4
  <2>5. CASE U = T
    BY <2>3, <2>5
  <2>6. QED
    BY <2>4, <2>5
<1>5. Adds(g, f, T)
  <2>1. g = [U \in SUBSET T |-> g[U]]
    OBVIOUS
  <2> HIDE DEF g
  <2>2. QED
    BY <1>4, <2>1 DEF Adds
<1>6. QED
  BY <1>5

\* The equation of the sum.
LEMMA SumEquation ==
  ASSUME NEW S, IsFiniteSet(S), NEW f
  PROVE  /\ S = {} => SumFunctionOnSet(f, S) = 0
         /\ S # {} => SumFunctionOnSet(f, S) = f[Pick(S)] + SumFunctionOnSet(f, S \ {Pick(S)})
<1> DEFINE g(T) == CHOOSE g : Adds(g, f, T)
           V == S \ {Pick(S)}
<1>1. Adds(g(S), f, S) /\ Adds(g(V), f, V)
  <2>1. \E h : Adds(h, f, S)
    BY SumsExist
  <2>2. \E h : Adds(h, f, V)
    BY SumsExist
  <2>3. QED
    BY <2>1, <2>2
<1>2. SumFunctionOnSet(f, S) = g(S)[S] /\ SumFunctionOnSet(f, V) = g(V)[V]
  BY SumIsFold
<1> HIDE DEF g
<1>3. g(S)[V] = g(V)[V]
  BY <1>1, SumsAgree
<1>4. g(S)[S] = IF S = {} THEN 0 ELSE f[Pick(S)] + g(S)[V]
  BY <1>1 DEF Adds
<1>5. QED
  BY <1>2, <1>3, <1>4

\* The sum does not depend on the order of adding: any element may come first.
LEMMA SumRemove ==
  ASSUME NEW S, IsFiniteSet(S), NEW f, \A x \in S : f[x] \in Int
  PROVE  /\ SumFunctionOnSet(f, S) \in Int
         /\ \A x \in S :
              SumFunctionOnSet(f, S) = f[x] + SumFunctionOnSet(f, S \ {x})
<1> DEFINE sum(T) == SumFunctionOnSet(f, T)
           Ok(T) == /\ sum(T) \in Int
                    /\ \A x \in T : sum(T) = f[x] + sum(T \ {x})
           Bad == {T \in SUBSET S : ~ Ok(T)}
<1>1. SUFFICES ASSUME Bad # {} PROVE FALSE
  <2>1. Bad = {} => Ok(S)
    OBVIOUS
  <2>2. QED
    BY <2>1
<1>2. PICK T \in Bad : \A U \in SUBSET T : U # T => U \notin Bad
  <2> HIDE DEF Bad
  <2>1. Bad \in SUBSET (SUBSET S)
    BY DEF Bad
  <2>2. QED
    BY <1>1, <2>1, SmallestSubset
<1>3. \A U \in SUBSET T : U # T => Ok(U)
  BY <1>2
<1>4. ~ Ok(T) /\ T \in SUBSET S
  BY <1>2
<1>5. IsFiniteSet(T)
  BY <1>4, FS_Subset
<1> HIDE DEF Bad
<1>6. ASSUME NEW U \in SUBSET T
      PROVE  /\ U = {} => sum(U) = 0
             /\ U # {} => /\ sum(U) = f[Pick(U)] + sum(U \ {Pick(U)})
                          /\ Pick(U) \in U
  BY <1>5, SumEquation, PickIn, FS_Subset
<1> HIDE DEF sum
<1>7. CASE T = {}
  BY <1>4, <1>6, <1>7
<1>8. CASE T # {}
  <2> DEFINE p == Pick(T)
  <2>1. p \in T /\ sum(T) = f[p] + sum(T \ {p})
    BY <1>6, <1>8
  <2> HIDE DEF p
  <2>2. f[p] \in Int /\ sum(T \ {p}) \in Int
    BY <1>3, <1>4, <2>1
  <2>3. ASSUME NEW x \in T, x # p
        PROVE  sum(T) = f[x] + sum(T \ {x})
    <3>1. /\ sum(T \ {p}) = f[x] + sum((T \ {p}) \ {x})
          /\ sum((T \ {p}) \ {x}) \in Int
      <4>1. T \ {p} \in SUBSET T /\ T \ {p} # T /\ x \in T \ {p}
        BY <2>1, <2>3
      <4>2. (T \ {p}) \ {x} \in SUBSET T /\ (T \ {p}) \ {x} # T
        BY <2>1
      <4>3. QED
        BY <1>3, <4>1, <4>2
    <3>2. sum(T \ {x}) = f[p] + sum((T \ {x}) \ {p})
      <4>1. T \ {x} \in SUBSET T /\ T \ {x} # T /\ p \in T \ {x}
        BY <2>1, <2>3
      <4>2. QED
        BY <1>3, <4>1
    <3>3. (T \ {x}) \ {p} = (T \ {p}) \ {x}
      OBVIOUS
    <3>4. sum((T \ {x}) \ {p}) = sum((T \ {p}) \ {x})
      BY <3>3, Zenon
    <3>5. f[x] \in Int
      BY <1>4
    <3>6. QED
      BY <2>1, <2>2, <3>1, <3>2, <3>4, <3>5
  <2>4. sum(T) \in Int
    BY <2>1, <2>2
  <2>5. Ok(T)
    BY <2>1, <2>3, <2>4
  <2>6. QED
    BY <1>4, <2>5
<1>9. QED
  BY <1>7, <1>8

\* Only the values on the set matter.
LEMMA SumSame ==
  ASSUME NEW S, IsFiniteSet(S), NEW f, NEW h, \A x \in S : f[x] = h[x]
  PROVE  SumFunctionOnSet(f, S) = SumFunctionOnSet(h, S)
<1> DEFINE Bad == {T \in SUBSET S : SumFunctionOnSet(f, T) # SumFunctionOnSet(h, T)}
<1>1. SUFFICES ASSUME Bad # {} PROVE FALSE
  OBVIOUS
<1>2. PICK T \in Bad : \A U \in SUBSET T : U # T => U \notin Bad
  <2> HIDE DEF Bad
  <2>1. Bad \in SUBSET (SUBSET S)
    BY DEF Bad
  <2>2. QED
    BY <1>1, <2>1, SmallestSubset
<1>3. IsFiniteSet(T)
  BY FS_Subset
<1>4. CASE T = {}
  BY <1>3, <1>4, SumEquation
<1>5. CASE T # {}
  <2>1. Pick(T) \in T
    BY <1>5, PickIn
  <2>2. SumFunctionOnSet(f, T \ {Pick(T)}) = SumFunctionOnSet(h, T \ {Pick(T)})
    BY <1>2, <2>1
  <2>3. QED
    BY <1>3, <1>5, <2>1, <2>2, SumEquation
<1>6. QED
  BY <1>4, <1>5

\* Adding to a value at one point adds as much to the sum.
LEMMA SumChange ==
  ASSUME NEW S, IsFiniteSet(S), NEW f, \A x \in S : f[x] \in Int,
         NEW h, NEW a \in S, NEW d \in Int, h[a] = f[a] + d,
         \A x \in S \ {a} : h[x] = f[x]
  PROVE  SumFunctionOnSet(h, S) = SumFunctionOnSet(f, S) + d
<1>1. IsFiniteSet(S \ {a})
  BY FS_RemoveElement
<1>2. SumFunctionOnSet(h, S \ {a}) = SumFunctionOnSet(f, S \ {a})
  BY <1>1, SumSame
<1>3. SumFunctionOnSet(f, S \ {a}) \in Int
  BY <1>1, SumRemove
<1>4. \A x \in S : h[x] \in Int
  OBVIOUS
<1>5. SumFunctionOnSet(f, S) = f[a] + SumFunctionOnSet(f, S \ {a})
  BY SumRemove
<1>6. SumFunctionOnSet(h, S) = h[a] + SumFunctionOnSet(h, S \ {a})
  BY <1>4, SumRemove
<1>7. f[a] \in Int
  OBVIOUS
<1>8. QED
  BY <1>2, <1>3, <1>5, <1>6, <1>7

\* One more element adds its value.
LEMMA SumAdd ==
  ASSUME NEW S, IsFiniteSet(S), NEW a, a \notin S,
         NEW f, \A x \in S \cup {a} : f[x] \in Int
  PROVE  SumFunctionOnSet(f, S \cup {a}) = SumFunctionOnSet(f, S) + f[a]
<1>1. IsFiniteSet(S \cup {a})
  BY FS_AddElement
<1>2. (S \cup {a}) \ {a} = S
  OBVIOUS
<1>3. SumFunctionOnSet(f, S \cup {a}) = f[a] + SumFunctionOnSet(f, (S \cup {a}) \ {a})
  BY <1>1, SumRemove
<1>4. SumFunctionOnSet(f, S \cup {a}) = f[a] + SumFunctionOnSet(f, S)
  BY <1>2, <1>3, Zenon
<1>5. SumFunctionOnSet(f, S) \in Int /\ f[a] \in Int
  BY SumRemove
<1>6. QED
  BY <1>4, <1>5

\* Values that are not negative add up to none.
LEMMA SumNat ==
  ASSUME NEW S, IsFiniteSet(S), NEW f, \A x \in S : f[x] \in Nat
  PROVE  SumFunctionOnSet(f, S) \in Nat
<1> DEFINE Bad == {T \in SUBSET S : SumFunctionOnSet(f, T) \notin Nat}
<1>1. SUFFICES ASSUME Bad # {} PROVE FALSE
  OBVIOUS
<1>2. PICK T \in Bad : \A U \in SUBSET T : U # T => U \notin Bad
  <2> HIDE DEF Bad
  <2>1. Bad \in SUBSET (SUBSET S)
    BY DEF Bad
  <2>2. QED
    BY <1>1, <2>1, SmallestSubset
<1>3. IsFiniteSet(T)
  BY FS_Subset
<1>4. CASE T = {}
  <2>1. SumFunctionOnSet(f, T) = 0
    BY <1>3, <1>4, SumEquation
  <2>2. QED
    BY <2>1
<1>5. CASE T # {}
  <2>1. Pick(T) \in T
    BY <1>5, PickIn
  <2>2. SumFunctionOnSet(f, T \ {Pick(T)}) \in Nat
    BY <1>2, <2>1
  <2>3. SumFunctionOnSet(f, T) = f[Pick(T)] + SumFunctionOnSet(f, T \ {Pick(T)})
    BY <1>3, <1>5, SumEquation
  <2>4. f[Pick(T)] \in Nat
    BY <2>1
  <2>5. QED
    BY <2>2, <2>3, <2>4
<1>6. QED
  BY <1>4, <1>5

LEMMA SumZero ==
  ASSUME NEW S, IsFiniteSet(S), NEW f, \A x \in S : f[x] = 0
  PROVE  SumFunctionOnSet(f, S) = 0
<1> DEFINE Bad == {T \in SUBSET S : SumFunctionOnSet(f, T) # 0}
<1>1. SUFFICES ASSUME Bad # {} PROVE FALSE
  OBVIOUS
<1>2. PICK T \in Bad : \A U \in SUBSET T : U # T => U \notin Bad
  <2> HIDE DEF Bad
  <2>1. Bad \in SUBSET (SUBSET S)
    BY DEF Bad
  <2>2. QED
    BY <1>1, <2>1, SmallestSubset
<1>3. IsFiniteSet(T)
  BY FS_Subset
<1>4. CASE T = {}
  BY <1>3, <1>4, SumEquation
<1>5. CASE T # {}
  <2>1. Pick(T) \in T
    BY <1>5, PickIn
  <2>2. SumFunctionOnSet(f, T \ {Pick(T)}) = 0 /\ f[Pick(T)] = 0
    BY <1>2, <2>1
  <2>3. SumFunctionOnSet(f, T) = f[Pick(T)] + SumFunctionOnSet(f, T \ {Pick(T)})
    BY <1>3, <1>5, SumEquation
  <2>4. QED
    BY <2>2, <2>3
<1>6. QED
  BY <1>4, <1>5

----------------------------------------------------------------------------
(* The protocol.                                                           *)

LEMMA NowIsADay ==
  ASSUME NEW t \in 1 .. MaxTime
  PROVE  DayOf(t) \in Days
BY DEF Days

\* A transfer the sender can afford keeps every balance a natural number.
LEMMA TransferType ==
  ASSUME NEW bal \in [Accounts -> Nat], NEW from \in Accounts,
         NEW to \in Accounts, NEW amount \in Nat, bal[from] >= amount
  PROVE  Transfer(bal, from, to, amount) \in [Accounts -> Nat]
BY DEF Transfer

LEMMA InitTypeOK == Init => TypeOK
<1> SUFFICES ASSUME Init PROVE TypeOK
  OBVIOUS
<1> USE AddressAssumption, IdAssumption, NumberAssumption
<1>1. ChainTypeOK
  BY BalanceAssumption DEF Init, ChainInit, ChainTypeOK
<1>2. RegistryTypeOK
  BY DEF Init, RegistryInit, RegistryTypeOK
<1>3. VaultTypeOK /\ AgentTypeOK
  BY DEF Init, VaultInit, VaultTypeOK, AgentInit, AgentTypeOK
<1>4. ExecutorTypeOK
  BY DEF Init, ExecutorInit, ExecutorTypeOK
<1>5. ArbiterTypeOK
  BY DEF Init, ArbiterInit, ArbiterTypeOK, ZeroChallenge, Challenge, ChallengeIds
<1>6. QED
  BY <1>1, <1>2, <1>3, <1>4, <1>5 DEF TypeOK

\* A component whose variables do not change stays well typed.
LEMMA TypeFrame ==
  /\ ChainTypeOK /\ UNCHANGED chainVars => ChainTypeOK'
  /\ RegistryTypeOK /\ UNCHANGED registryVars => RegistryTypeOK'
  /\ VaultTypeOK /\ UNCHANGED vaultVars => VaultTypeOK'
  /\ AgentTypeOK /\ UNCHANGED agentVars => AgentTypeOK'
  /\ ExecutorTypeOK /\ UNCHANGED executorVars => ExecutorTypeOK'
  /\ ArbiterTypeOK /\ UNCHANGED arbiterVars => ArbiterTypeOK'
<1>1. ChainTypeOK /\ UNCHANGED chainVars => ChainTypeOK'
  BY DEF ChainTypeOK, chainVars
<1>2. RegistryTypeOK /\ UNCHANGED registryVars => RegistryTypeOK'
  BY DEF RegistryTypeOK, registryVars
<1>3. VaultTypeOK /\ UNCHANGED vaultVars => VaultTypeOK'
  BY DEF VaultTypeOK, vaultVars
<1>4. AgentTypeOK /\ UNCHANGED agentVars => AgentTypeOK'
  BY DEF AgentTypeOK, agentVars
<1>5. ExecutorTypeOK /\ UNCHANGED executorVars => ExecutorTypeOK'
  BY DEF ExecutorTypeOK, executorVars
<1>6. ArbiterTypeOK /\ UNCHANGED arbiterVars => ArbiterTypeOK'
  BY DEF ArbiterTypeOK, arbiterVars
<1>7. QED
  BY <1>1, <1>2, <1>3, <1>4, <1>5, <1>6

\* The transactions that touch one contract's state and no balance.
LEMMA SimpleTxTypeOK ==
  ASSUME TypeOK,
         \/ CommitIntentTx \/ RevokeIntentTx \/ SetWiringTx \/ RegisterAgentTx
         \/ SetAgentDelegateTx \/ SetTraceAckSignerTx \/ SetReviewerSignerTx
         \/ NextBlock \/ UNCHANGED vars
  PROVE  TypeOK'
<1> USE DEF TypeOK
<1>1. CASE CommitIntentTx
  <2>1. PICK sender \in Owners, h \in IntentHashes, cfg \in IntentConfigs :
          /\ CommitIntent(sender, h, cfg)
          /\ UNCHANGED <<chainVars, vaultVars, agentVars, executorVars,
                         arbiterVars>>
    BY <1>1 DEF CommitIntentTx
  <2>2. cfg \in IntentConfig /\ cfg.nonce \in Nat
    BY InputAssumption DEF IntentConfig
  <2>3. activeIntentHash' \in [Owners -> IntentHashes]
    BY <2>1 DEF CommitIntent, RegistryTypeOK
  <2>4. lastNonce' \in [Owners -> Nat]
    BY <2>1, <2>2 DEF CommitIntent, RegistryTypeOK
  <2>5. intentConfig' \in [IntentHashes -> IntentConfig \cup {NoConfig}]
    BY <2>1, <2>2 DEF CommitIntent, RegistryTypeOK
  <2>6. RegistryTypeOK'
    BY <2>3, <2>4, <2>5 DEF RegistryTypeOK
  <2>7. QED
    BY <2>1, <2>6, TypeFrame
<1>2. CASE RevokeIntentTx
  <2>1. PICK sender \in Owners :
          /\ RevokeIntent(sender)
          /\ UNCHANGED <<chainVars, vaultVars, agentVars, executorVars,
                         arbiterVars>>
    BY <1>2 DEF RevokeIntentTx
  <2>2. RegistryTypeOK'
    BY <2>1, IdAssumption DEF RevokeIntent, RegistryTypeOK
  <2>3. QED
    BY <2>1, <2>2, TypeFrame
<1>3. CASE SetWiringTx
  <2>1. VaultTypeOK'
    BY <1>3 DEF SetWiringTx, SetWiring, VaultTypeOK
  <2>2. QED
    BY <1>3, <2>1, TypeFrame DEF SetWiringTx
<1>4. CASE RegisterAgentTx
  <2>1. AgentTypeOK'
    BY <1>4, AddressAssumption DEF RegisterAgentTx, RegisterAgent, AgentTypeOK
  <2>2. QED
    BY <1>4, <2>1, TypeFrame DEF RegisterAgentTx
<1>5. CASE SetAgentDelegateTx
  <2>1. ExecutorTypeOK'
    BY <1>5 DEF SetAgentDelegateTx, SetAgentDelegate, ExecutorTypeOK
  <2>2. QED
    BY <1>5, <2>1, TypeFrame DEF SetAgentDelegateTx
<1>6. CASE SetTraceAckSignerTx
  <2>1. ExecutorTypeOK'
    BY <1>6 DEF SetTraceAckSignerTx, SetTraceAckSigner, ExecutorTypeOK
  <2>2. QED
    BY <1>6, <2>1, TypeFrame DEF SetTraceAckSignerTx
<1>7. CASE SetReviewerSignerTx
  <2>1. ArbiterTypeOK'
    BY <1>7 DEF SetReviewerSignerTx, SetReviewerSigner, ArbiterTypeOK
  <2>2. QED
    BY <1>7, <2>1, TypeFrame DEF SetReviewerSignerTx
<1>8. CASE NextBlock
  <2>1. ChainTypeOK'
    BY <1>8, NumberAssumption DEF NextBlock, Tick, ChainTypeOK
  <2>2. QED
    BY <1>8, <2>1, TypeFrame DEF NextBlock
<1>9. CASE UNCHANGED vars
  BY <1>9, TypeFrame DEF vars
<1>10. QED
  BY <1>1, <1>2, <1>3, <1>4, <1>5, <1>6, <1>7, <1>8, <1>9

LEMMA SlashActualType ==
  ASSUME VaultTypeOK, NEW a \in AgentIds, NEW n \in Nat
  PROVE  /\ SlashActual(a, n) \in Nat
         /\ SlashActual(a, n) <= n
         /\ SlashActual(a, n) <= stake[a]
BY DEF VaultTypeOK, SlashActual

LEMMA StakeTxTypeOK == ASSUME TypeOK, StakeTx PROVE TypeOK'
<1> USE DEF TypeOK
<1>1. PICK sender \in Operators, a \in AgentIds, amount \in Stakes :
        /\ Stake(sender, a, amount)
        /\ UNCHANGED <<now, registryVars, executorVars, arbiterVars>>
  BY DEF StakeTx
<1>2. sender \in Accounts /\ StakeVaultAddr \in Accounts /\ amount \in Nat
  BY AddressAssumption, InputAssumption
<1>3. balance' \in [Accounts -> Nat]
  BY <1>1, <1>2, TransferType DEF Stake, Deposit, CanTransfer, ChainTypeOK
<1>4. stake' \in [AgentIds -> Nat] /\ wired' = wired /\ operator' = operator
  BY <1>1, <1>2 DEF Stake, Deposit, VaultTypeOK
<1>5. QED
  BY <1>1, <1>3, <1>4
     DEF ChainTypeOK, RegistryTypeOK, VaultTypeOK, AgentTypeOK, ExecutorTypeOK,
         ArbiterTypeOK, registryVars, executorVars, arbiterVars

LEMMA ExecuteTxTypeOK == ASSUME TypeOK, ExecuteWithGuardTx PROVE TypeOK'
<1> USE DEF TypeOK
<1>1. PICK sender \in Delegates, req \in Request :
        /\ ExecuteWithGuard(sender, req)
        /\ UNCHANGED <<now, registryVars, vaultVars, agentVars, arbiterVars>>
  BY DEF ExecuteWithGuardTx
<1>2. /\ req.owner \in Owners
      /\ req.owner \in Accounts
      /\ req.agentId \in AgentIds
      /\ req.target \in Accounts
      /\ req.token \in Tokens
      /\ req.amount \in Nat
      /\ req.traceAck.contextDigest \in Digests
  BY AddressAssumption, InputAssumption DEF Request, TraceAck
<1>3. balance' \in [Accounts -> Nat]
  BY <1>1, <1>2, TransferType DEF ExecuteWithGuard, CanTransfer, ChainTypeOK
<1>4. spentByDay' \in [Owners -> [Days -> Nat]]
  BY <1>1, <1>2, NowIsADay
     DEF ExecuteWithGuard, SpentAfter, ExecutorTypeOK, ChainTypeOK
<1>5. execNonce' \in [Owners -> Nat]
  BY <1>1, <1>2 DEF ExecuteWithGuard, ExecutorTypeOK
<1>6. /\ DOMAIN receipts' \subseteq ReceiptIds
      /\ \A id \in DOMAIN receipts' : receipts'[id] \in ReceiptSummary
  <2> DEFINE new == ReceiptId(req.owner, req.agentId, execNonce[req.owner])
  <2>1. new \in ReceiptIds
    BY <1>2 DEF ReceiptId, ReceiptIds, ExecutorTypeOK
  <2>2. Summary(req) \in ReceiptSummary
    BY <1>2 DEF Summary, ReceiptSummary, ExecutorTypeOK, RegistryTypeOK,
                ChainTypeOK
  <2>3. receipts' = [i \in DOMAIN receipts \cup {new} |->
                       IF i = new THEN Summary(req) ELSE receipts[i]]
    BY <1>1 DEF ExecuteWithGuard
  <2> HIDE DEF new
  <2>4. QED
    BY <2>1, <2>2, <2>3 DEF ExecutorTypeOK
<1>7. UNCHANGED <<delegates, traceAckSigner>>
  BY <1>1 DEF ExecuteWithGuard
<1>8. QED
  BY <1>1, <1>3, <1>4, <1>5, <1>6, <1>7
     DEF ChainTypeOK, RegistryTypeOK, VaultTypeOK, AgentTypeOK, ExecutorTypeOK,
         ArbiterTypeOK, registryVars, vaultVars, agentVars, arbiterVars

\* What a call to slash does to the stakes and to the ledger, whenever its
\* guards hold and its amount is a number.
LEMMA SlashType ==
  ASSUME VaultTypeOK,
         NEW bal \in [Accounts -> Nat], NEW a \in AgentIds,
         NEW to \in Accounts, NEW n \in Nat, Slash(bal, a, to, n)
  PROVE  /\ stake' \in [AgentIds -> Nat]
         /\ SlashPays(bal, a, to, n) \in [Accounts -> Nat]
<1>1. SlashActual(a, n) \in Nat /\ SlashActual(a, n) <= stake[a]
  BY SlashActualType
<1>2. StakeVaultAddr \in Accounts /\ bal[StakeVaultAddr] >= SlashActual(a, n)
  BY AddressAssumption DEF Slash, CanTransfer
<1>3. SlashPays(bal, a, to, n) \in [Accounts -> Nat]
  BY <1>1, <1>2, TransferType DEF SlashPays
<1>4. stake' \in [AgentIds -> Nat]
  BY <1>1 DEF Slash, VaultTypeOK
<1>5. QED
  BY <1>3, <1>4

LEMMA AppendType ==
  ASSUME NEW S, NEW s \in Seq(S), NEW e \in S
  PROVE  Append(s, e) \in Seq(S)
OBVIOUS

LEMMA FileTxTypeOK == ASSUME TypeOK, FileAmountViolationTx PROVE TypeOK'
<1> USE DEF TypeOK
<1>1. PICK sender \in Challengers, rid \in DOMAIN receipts :
        /\ FileAmountViolation(sender, rid)
        /\ UNCHANGED <<now, wired, registryVars, agentVars, executorVars>>
  BY DEF FileAmountViolationTx
<1> DEFINE r       == GetReceipt(rid)
           id      == nextId + 1
           bonded  == Transfer(balance, sender, ArbiterAddr, CHALLENGE_BOND)
           slashed == SlashPays(bonded, r.agentId, r.owner, r.amount)
           actual  == SlashActual(r.agentId, r.amount)
<1>2. /\ r \in ReceiptSummary
      /\ rid \in ReceiptIds
      /\ r.owner \in Accounts
      /\ r.agentId \in AgentIds
      /\ r.amount \in Nat
  BY AddressAssumption DEF GetReceipt, ExecutorTypeOK, ReceiptSummary
<1>3. id \in ChallengeIds /\ id \in 0 .. MaxChallenges
  BY <1>1, NumberAssumption DEF FileAmountViolation, ChallengeIds, ArbiterTypeOK
<1>4. /\ sender \in Accounts
      /\ ArbiterAddr \in Accounts
      /\ CHALLENGE_BOND \in Nat
  BY AddressAssumption, NumberAssumption
<1>5. bonded \in [Accounts -> Nat]
  BY <1>1, <1>4, TransferType
     DEF FileAmountViolation, CanTransfer, ChainTypeOK
<1>6. Slash(bonded, r.agentId, r.owner, r.amount)
  BY <1>1 DEF FileAmountViolation
<1>7. stake' \in [AgentIds -> Nat] /\ slashed \in [Accounts -> Nat]
  <2> HIDE DEF bonded, r
  <2>1. QED
    BY <1>2, <1>5, <1>6, SlashType
<1>8. balance' \in [Accounts -> Nat]
  <2>1. /\ CanTransfer(slashed, ArbiterAddr, sender, CHALLENGE_BOND)
        /\ balance' = BondRefund(slashed, sender)
    BY <1>1 DEF FileAmountViolation
  <2> HIDE DEF slashed
  <2>2. QED
    BY <2>1, <1>4, <1>7, TransferType DEF CanTransfer, BondRefund
<1>9. /\ nextId' \in 0 .. MaxChallenges
      /\ challenges' \in [ChallengeIds -> Challenge]
  <2>1. /\ nextId' = id
        /\ challenges' = [challenges EXCEPT ![id] =
             [receiptId |-> rid, challenger |-> sender, resolved |-> TRUE]]
    BY <1>1 DEF FileAmountViolation
  <2> HIDE DEF id
  <2>2. QED
    BY <2>1, <1>2, <1>3 DEF ArbiterTypeOK, Challenge
<1>10. events' \in Seq(ArbiterEvent)
  <2>1. events' = Append(Append(events, FiledEvent(id, rid, sender)),
                         ResolvedEvent(id, TRUE, actual))
    BY <1>1 DEF FileAmountViolation
  <2>2. actual \in Nat
    <3> HIDE DEF r
    <3>1. QED
      BY <1>2, SlashActualType
  <2> HIDE DEF id, actual
  <2>3. /\ FiledEvent(id, rid, sender) \in ArbiterEvent
        /\ ResolvedEvent(id, TRUE, actual) \in ArbiterEvent
    BY <1>2, <1>3, <2>2 DEF FiledEvent, ResolvedEvent, ArbiterEvent
  <2>4. QED
    BY <2>1, <2>3, AppendType DEF ArbiterTypeOK
<1>11. reviewerSigner' = reviewerSigner
  BY <1>1 DEF FileAmountViolation
<1>12. QED
  BY <1>1, <1>7, <1>8, <1>9, <1>10, <1>11
     DEF ChainTypeOK, RegistryTypeOK, VaultTypeOK, AgentTypeOK, ExecutorTypeOK,
         ArbiterTypeOK, registryVars, agentVars, executorVars

\* A zero receipt names the zero address, which the token refuses to pay.
LEMMA SlashNeedsAReceipt ==
  ASSUME NEW rid, NEW n,
         Slash(balance, GetReceipt(rid).agentId, GetReceipt(rid).owner, n)
  PROVE  rid \in DOMAIN receipts
BY DEF Slash, CanTransfer, GetReceipt

LEMMA ResolveTxTypeOK == ASSUME TypeOK, ResolveByReviewerTx PROVE TypeOK'
<1> USE DEF TypeOK
<1>1. PICK id \in ChallengeIds, uphold \in BOOLEAN, amount \in Payments,
           s \in Signers :
        /\ ResolveByReviewer(id, uphold, amount, s)
        /\ UNCHANGED <<now, wired, registryVars, agentVars, executorVars>>
  BY DEF ResolveByReviewerTx
<1> DEFINE r      == GetReceipt(challenges[id].receiptId)
           payout == IF uphold THEN SlashActual(r.agentId, amount) ELSE 0
<1>2. r.agentId \in AgentIds /\ amount \in Nat
  BY IdAssumption, InputAssumption
     DEF GetReceipt, ExecutorTypeOK, ReceiptSummary
<1>3. stake' \in [AgentIds -> Nat] /\ balance' \in [Accounts -> Nat]
  <2>1. CASE ~uphold
    BY <1>1, <2>1 DEF ResolveByReviewer, VaultTypeOK, ChainTypeOK
  <2>2. CASE uphold
    <3>1. /\ Slash(balance, r.agentId, r.owner, amount)
          /\ balance' = SlashPays(balance, r.agentId, r.owner, amount)
      BY <1>1, <2>2 DEF ResolveByReviewer
    <3>2. r.owner \in Accounts
      BY <3>1, SlashNeedsAReceipt, AddressAssumption
         DEF GetReceipt, ExecutorTypeOK, ReceiptSummary
    <3> HIDE DEF r
    <3>3. QED
      BY <1>2, <3>1, <3>2, SlashType DEF ChainTypeOK
  <2>3. QED
    BY <2>1, <2>2
<1>4. challenges' \in [ChallengeIds -> Challenge]
  BY <1>1 DEF ResolveByReviewer, ArbiterTypeOK, Challenge
<1>5. events' \in Seq(ArbiterEvent)
  <2>1. events' = Append(events, ResolvedEvent(id, uphold, payout))
    BY <1>1 DEF ResolveByReviewer
  <2>2. payout \in Nat
    <3> HIDE DEF r
    <3>1. QED
      BY <1>2, SlashActualType
  <2> HIDE DEF payout
  <2>3. ResolvedEvent(id, uphold, payout) \in ArbiterEvent
    BY <2>2 DEF ResolvedEvent, ArbiterEvent
  <2>4. QED
    BY <2>1, <2>3, AppendType DEF ArbiterTypeOK
<1>6. UNCHANGED <<reviewerSigner, nextId>>
  BY <1>1 DEF ResolveByReviewer
<1>7. QED
  BY <1>1, <1>3, <1>4, <1>5, <1>6
     DEF ChainTypeOK, RegistryTypeOK, VaultTypeOK, AgentTypeOK, ExecutorTypeOK,
         ArbiterTypeOK, registryVars, agentVars, executorVars

\* Every state of the contracts is well typed: no balance and no stake ever
\* goes below zero, whatever sequence of transactions succeeds.
THEOREM TypeCorrect == Spec => []TypeOK
<1>1. TypeOK /\ [Next]_vars => TypeOK'
  BY SimpleTxTypeOK, StakeTxTypeOK, ExecuteTxTypeOK, FileTxTypeOK,
     ResolveTxTypeOK DEF Next
<1>2. QED
  BY InitTypeOK, <1>1, PTL DEF Spec
-----------------------------------------------------------------------------
(* Which transactions touch which part of the state. *)

LEMMA RegistryFrame ==
  ASSUME [Next]_vars
  PROVE  CommitIntentTx \/ RevokeIntentTx \/ UNCHANGED registryVars
BY DEF Next, vars, SetWiringTx, RegisterAgentTx, StakeTx, SetAgentDelegateTx,
       ExecuteWithGuardTx, SetTraceAckSignerTx, FileAmountViolationTx,
       ResolveByReviewerTx, SetReviewerSignerTx, NextBlock

LEMMA ReceiptFrame ==
  ASSUME [Next]_vars
  PROVE  ExecuteWithGuardTx \/ UNCHANGED <<receipts, execNonce, spentByDay>>
BY DEF Next, vars, executorVars, CommitIntentTx, RevokeIntentTx, SetWiringTx,
       RegisterAgentTx, StakeTx, SetAgentDelegateTx, SetAgentDelegate,
       SetTraceAckSignerTx, SetTraceAckSigner, FileAmountViolationTx,
       ResolveByReviewerTx, SetReviewerSignerTx, NextBlock

LEMMA TimeFrame ==
  ASSUME TypeOK, [Next]_vars
  PROVE  now' \in Nat /\ now \in Nat /\ now <= now'
BY DEF TypeOK, ChainTypeOK, Next, vars, chainVars, CommitIntentTx,
       RevokeIntentTx, SetWiringTx, RegisterAgentTx, StakeTx,
       SetAgentDelegateTx, ExecuteWithGuardTx, SetTraceAckSignerTx,
       FileAmountViolationTx, ResolveByReviewerTx, SetReviewerSignerTx,
       NextBlock, Tick
-----------------------------------------------------------------------------
LEMMA RegistryInvInductive ==
  ASSUME TypeOK, RegistryInv, [Next]_vars
  PROVE  RegistryInv'
<1> USE DEF TypeOK, RegistryTypeOK, RegistryInv, Committed
<1>1. CASE CommitIntentTx
  <2>1. PICK sender \in Owners, h \in IntentHashes, cfg \in IntentConfigs :
          CommitIntent(sender, h, cfg)
    BY <1>1 DEF CommitIntentTx
  <2>2. cfg \in IntentConfig /\ cfg # NoConfig
    BY InputAssumption, NoConfigAssumption
  <2>3. /\ intentConfig[h] = NoConfig
        /\ cfg.owner = sender
        /\ cfg.token = USDC
        /\ cfg.nonce > lastNonce[sender]
        /\ cfg.nonce \in Nat
    BY <2>1, <2>2 DEF CommitIntent, HashUnused, FreshNonce, IntentConfig
  <2>4. /\ intentConfig' = [intentConfig EXCEPT ![h] = cfg]
        /\ activeIntentHash' = [activeIntentHash EXCEPT ![sender] = h]
        /\ lastNonce' = [lastNonce EXCEPT ![sender] = cfg.nonce]
    BY <2>1 DEF CommitIntent
  <2>5. ASSUME NEW g \in IntentHashes, Committed(g)'
        PROVE  /\ intentConfig'[g].owner \in Owners
               /\ intentConfig'[g].token = USDC
               /\ intentConfig'[g].nonce <= lastNonce'[intentConfig'[g].owner]
    <3>1. CASE g = h
      BY <2>3, <2>4, <3>1
    <3>2. CASE g # h
      <4>1. intentConfig'[g] = intentConfig[g] /\ Committed(g)
        BY <2>4, <2>5, <3>2
      <4>2. intentConfig[g].nonce \in Nat
        BY <4>1 DEF IntentConfig
      <4>3. QED
        BY <2>3, <2>4, <4>1, <4>2
    <3>3. QED
      BY <3>1, <3>2
  <2>6. ASSUME NEW o \in Owners, activeIntentHash'[o] # ZeroHash
        PROVE  /\ Committed(activeIntentHash[o])'
               /\ intentConfig'[activeIntentHash'[o]].owner = o
               /\ intentConfig'[activeIntentHash'[o]].nonce = lastNonce'[o]
    BY <2>2, <2>3, <2>4, <2>6
  <2>7. QED
    BY <2>5, <2>6
<1>2. CASE RevokeIntentTx
  BY <1>2 DEF RevokeIntentTx, RevokeIntent
<1>3. CASE UNCHANGED registryVars
  BY <1>3 DEF registryVars
<1>4. QED
  BY <1>1, <1>2, <1>3, RegistryFrame

\* The registry never falls back to an older intent of an owner, for any number
\* of owners, hashes, configs, revocations and replacements.
THEOREM NewestIntentIsActive == Spec => []ActiveIntentIsNewest
<1>1. Init => RegistryInv
  BY DEF Init, RegistryInit, RegistryInv, Committed
<1>2. TypeOK /\ RegistryInv /\ [Next]_vars => RegistryInv'
  BY RegistryInvInductive
<1>3. TypeOK /\ RegistryInv => ActiveIntentIsNewest
  BY DEF TypeOK, RegistryTypeOK, RegistryInv, Committed, ActiveIntentIsNewest
<1>4. QED
  BY <1>1, <1>2, <1>3, TypeCorrect, PTL DEF Spec
-----------------------------------------------------------------------------
\* What one execution does, in the terms the invariants speak of.
Executed(o, a, amount) ==
  LET id  == ReceiptId(o, a, execNonce[o])
      new == receipts'[id]
      cfg == intentConfig[activeIntentHash[o]]
  IN /\ id \notin DOMAIN receipts
     /\ DOMAIN receipts' = DOMAIN receipts \cup {id}
     /\ \A i \in DOMAIN receipts : receipts'[i] = receipts[i]
     /\ new.owner = o /\ new.agentId = a /\ new.nonce = execNonce[o]
     /\ new.timestamp = now /\ new.amount = amount
     /\ new.intentHash = activeIntentHash[o]
     /\ Committed(activeIntentHash[o])
     /\ cfg.owner = o
     /\ new.token = cfg.token
     /\ new.target \in cfg.allowedCounterparties
     /\ now < cfg.expiry
     /\ execNonce' = [execNonce EXCEPT ![o] = @ + 1]
     /\ spentByDay' = [spentByDay EXCEPT ![o][DayOf(now)] =
                         spentByDay[o][DayOf(now)] + amount]
     /\ spentByDay[o][DayOf(now)] + amount <= cfg.maxSpendPerDay
     /\ UNCHANGED <<now, registryVars>>

LEMMA ExecuteEffect ==
  ASSUME TypeOK, RegistryInv, HistoryInv, ExecuteWithGuardTx
  PROVE  \E o \in Owners, a \in AgentIds, amount \in Nat :
           Executed(o, a, amount)
<1>1. PICK sender \in Delegates, req \in Request :
        /\ ExecuteWithGuard(sender, req)
        /\ UNCHANGED <<now, registryVars, vaultVars, agentVars, arbiterVars>>
  BY DEF ExecuteWithGuardTx
<1> DEFINE o   == req.owner
           id  == ReceiptId(o, req.agentId, execNonce[o])
           cfg == intentConfig[activeIntentHash[o]]
<1>2. o \in Owners /\ req.agentId \in AgentIds /\ req.amount \in Nat
  BY InputAssumption DEF Request
<1>3. /\ req.token = USDC
      /\ activeIntentHash[o] # ZeroHash
      /\ now < cfg.expiry
      /\ req.target \in cfg.allowedCounterparties
      /\ spentByDay[o][DayOf(now)] + req.amount <= cfg.maxSpendPerDay
  BY <1>1 DEF ExecuteWithGuard, CheckGuard, Unexpired, WithinDayCap, SpentAfter
<1>4. Committed(activeIntentHash[o]) /\ cfg.owner = o /\ cfg.token = USDC
  BY <1>2, <1>3 DEF RegistryInv, Committed, TypeOK, RegistryTypeOK
<1>5. id \notin DOMAIN receipts
  <2>1. SUFFICES ASSUME id \in DOMAIN receipts PROVE FALSE
    OBVIOUS
  <2> DEFINE r == receipts[id]
  <2>2. id = ReceiptId(r.owner, r.agentId, r.nonce) /\ r.nonce < execNonce[r.owner]
    BY <2>1 DEF HistoryInv
  <2>3. r.owner = o /\ r.nonce = execNonce[o]
    <3> HIDE DEF r
    <3>1. QED
      BY <2>2 DEF ReceiptId
  <2>4. execNonce[o] \in Nat
    BY <1>2 DEF TypeOK, ExecutorTypeOK
  <2>5. QED
    BY <2>2, <2>3, <2>4
<1>6. /\ DOMAIN receipts' = DOMAIN receipts \cup {id}
      /\ \A i \in DOMAIN receipts : receipts'[i] = receipts[i]
      /\ receipts'[id] = Summary(req)
  BY <1>1, <1>5 DEF ExecuteWithGuard
<1>7. /\ Summary(req).owner = o
      /\ Summary(req).agentId = req.agentId
      /\ Summary(req).nonce = execNonce[o]
      /\ Summary(req).timestamp = now
      /\ Summary(req).amount = req.amount
      /\ Summary(req).intentHash = activeIntentHash[o]
      /\ Summary(req).token = req.token
      /\ Summary(req).target = req.target
  BY DEF Summary
<1>8. /\ execNonce' = [execNonce EXCEPT ![o] = @ + 1]
      /\ spentByDay' = [spentByDay EXCEPT ![o][DayOf(now)] =
                          spentByDay[o][DayOf(now)] + req.amount]
  BY <1>1 DEF ExecuteWithGuard, SpentAfter
<1>9. QED
  <2>1. Executed(o, req.agentId, req.amount)
    <3> HIDE DEF id
    <3>1. UNCHANGED <<now, registryVars>>
      BY <1>1
    <3>2. QED
      BY <1>3, <1>4, <1>5, <1>6, <1>7, <1>8, <3>1 DEF Executed, id
  <2>2. QED
    BY <1>2, <2>1

LEMMA HistoryInvInductive ==
  ASSUME TypeOK, RegistryInv, HistoryInv, [Next]_vars
  PROVE  HistoryInv'
<1>1. CASE ExecuteWithGuardTx
  <2>1. PICK o \in Owners, a \in AgentIds, amount \in Nat :
          Executed(o, a, amount)
    BY <1>1, ExecuteEffect
  <2> DEFINE id == ReceiptId(o, a, execNonce[o])
  <2> USE DEF Executed
  <2>2. /\ \A p \in Owners : execNonce[p] \in Nat /\ execNonce'[p] \in Nat
        /\ \A p \in Owners : execNonce[p] <= execNonce'[p]
        /\ execNonce'[o] = execNonce[o] + 1
        /\ \A p \in Owners : p # o => execNonce'[p] = execNonce[p]
        /\ now \in Nat
    BY <2>1 DEF TypeOK, ExecutorTypeOK, ChainTypeOK
  <2>3. ASSUME NEW i \in DOMAIN receipts'
        PROVE  /\ i = ReceiptId(receipts'[i].owner, receipts'[i].agentId,
                                receipts'[i].nonce)
               /\ receipts'[i].nonce < execNonce'[receipts'[i].owner]
               /\ receipts'[i].timestamp <= now'
    <3>1. CASE i = id
      BY <2>1, <2>2, <3>1
    <3>2. CASE i \in DOMAIN receipts
      <4>1. /\ receipts[i].owner \in Owners
            /\ receipts[i].nonce \in Nat
            /\ receipts[i].timestamp \in Nat
        BY <3>2 DEF TypeOK, ExecutorTypeOK, ReceiptSummary
      <4>2. QED
        BY <2>1, <2>2, <3>2, <4>1 DEF HistoryInv
    <3>3. QED
      BY <2>1, <3>1, <3>2
  <2>4. ASSUME NEW p \in Owners, NEW n \in Nat, n < execNonce'[p]
        PROVE  \E b \in AgentIds : ReceiptId(p, b, n) \in DOMAIN receipts'
    <3>1. CASE n < execNonce[p]
      BY <2>1, <3>1 DEF HistoryInv
    <3>2. CASE ~(n < execNonce[p])
      <4>1. p = o /\ n = execNonce[o]
        BY <2>2, <2>4, <3>2
      <4>2. QED
        BY <2>1, <4>1
    <3>3. QED
      BY <3>1, <3>2
  <2>5. QED
    BY <2>3, <2>4 DEF HistoryInv
<1>2. CASE UNCHANGED <<receipts, execNonce, spentByDay>>
  <2>1. now \in Nat /\ now' \in Nat /\ now <= now'
    BY TimeFrame
  <2>2. \A i \in DOMAIN receipts : receipts[i].timestamp \in Nat
    BY DEF TypeOK, ExecutorTypeOK, ReceiptSummary
  <2>3. QED
    BY <1>2, <2>1, <2>2 DEF HistoryInv
<1>3. QED
  BY <1>1, <1>2, ReceiptFrame

\* A committed config and a written receipt stay what they are.
LEMMA EvidenceStep ==
  ASSUME TypeOK, RegistryInv, HistoryInv, [Next]_vars
  PROVE  /\ \A id \in DOMAIN receipts :
              id \in DOMAIN receipts' /\ receipts'[id] = receipts[id]
         /\ \A h \in IntentHashes :
              Committed(h) => intentConfig'[h] = intentConfig[h]
<1>1. ASSUME NEW id \in DOMAIN receipts
      PROVE  id \in DOMAIN receipts' /\ receipts'[id] = receipts[id]
  <2>1. CASE ExecuteWithGuardTx
    <3>1. PICK o \in Owners, a \in AgentIds, amount \in Nat :
            Executed(o, a, amount)
      BY <2>1, ExecuteEffect
    <3>2. /\ DOMAIN receipts \subseteq DOMAIN receipts'
          /\ \A i \in DOMAIN receipts : receipts'[i] = receipts[i]
      BY <3>1 DEF Executed
    <3>3. QED
      BY <3>2
  <2>2. CASE UNCHANGED <<receipts, execNonce, spentByDay>>
    BY <2>2
  <2>3. QED
    BY <2>1, <2>2, ReceiptFrame
<1>2. ASSUME NEW h \in IntentHashes, Committed(h)
      PROVE  intentConfig'[h] = intentConfig[h]
  <2>1. CASE CommitIntentTx
    <3>1. PICK g \in IntentHashes, cfg \in IntentConfigs :
            /\ intentConfig[g] = NoConfig
            /\ intentConfig' = [intentConfig EXCEPT ![g] = cfg]
      BY <2>1 DEF CommitIntentTx, CommitIntent, HashUnused
    <3>2. g # h
      BY <1>2, <3>1 DEF Committed
    <3>3. QED
      BY <3>1, <3>2 DEF TypeOK, RegistryTypeOK
  <2>2. CASE RevokeIntentTx
    BY <2>2 DEF RevokeIntentTx, RevokeIntent
  <2>3. CASE UNCHANGED registryVars
    BY <2>3 DEF registryVars
  <2>4. QED
    BY <2>1, <2>2, <2>3, RegistryFrame
<1>3. QED
  BY <1>1, <1>2

LEMMA InitInvs == Init => RegistryInv /\ HistoryInv
BY DEF Init, RegistryInit, ExecutorInit, RegistryInv, HistoryInv, Committed

LEMMA InvsHold == Spec => [](TypeOK /\ RegistryInv /\ HistoryInv)
<1>1. TypeOK /\ RegistryInv /\ HistoryInv /\ [Next]_vars
        => RegistryInv' /\ HistoryInv'
  BY RegistryInvInductive, HistoryInvInductive
<1>2. QED
  BY <1>1, InitInvs, TypeCorrect, PTL DEF Spec

\* Receipts and committed configs, the evidence of every later dispute, are
\* never altered or removed.
THEOREM EvidenceStaysFinal == Spec => EvidenceIsFinal
<1>1. TypeOK /\ RegistryInv /\ HistoryInv /\ [Next]_vars
        => [/\ \A id \in DOMAIN receipts :
                 id \in DOMAIN receipts' /\ receipts'[id] = receipts[id]
            /\ \A h \in IntentHashes :
                 Committed(h) => intentConfig'[h] = intentConfig[h]]_vars
  BY EvidenceStep
<1>2. QED
  BY <1>1, InvsHold, PTL DEF Spec, EvidenceIsFinal

\* A payment is judged by the intent it ran under: that intent stays on record,
\* was the payer's own and allowed target, time and day amount.
THEOREM ReceiptsAreHonoured == Spec => []ReceiptsHonourTheirIntent
<1>1. Init => ReceiptsHonourTheirIntent
  BY DEF Init, ExecutorInit, ReceiptsHonourTheirIntent
<1>2. ASSUME TypeOK, RegistryInv, HistoryInv, ReceiptsHonourTheirIntent,
             [Next]_vars
      PROVE  ReceiptsHonourTheirIntent'
  <2> SUFFICES ASSUME NEW i \in DOMAIN receipts'
               PROVE  LET r   == receipts'[i]
                          cfg == intentConfig'[r.intentHash]
                      IN /\ cfg # NoConfig
                         /\ cfg.owner = r.owner
                         /\ cfg.token = r.token
                         /\ r.target \in cfg.allowedCounterparties
                         /\ r.timestamp < cfg.expiry
                         /\ r.amount <= cfg.maxSpendPerDay
    BY <1>2 DEF ReceiptsHonourTheirIntent, ConfigOf, Committed
  <2>0. /\ TypeOK /\ RegistryInv /\ HistoryInv /\ [Next]_vars
       /\ ReceiptsHonourTheirIntent
    BY <1>2
  <2>1. CASE i \in DOMAIN receipts
    <3>1. receipts'[i] = receipts[i] /\ receipts[i].intentHash \in IntentHashes
      BY <2>0, <2>1, EvidenceStep DEF TypeOK, ExecutorTypeOK, ReceiptSummary
    <3>2. Committed(receipts[i].intentHash)
      BY <2>0, <2>1 DEF ReceiptsHonourTheirIntent
    <3>3. intentConfig'[receipts[i].intentHash]
            = intentConfig[receipts[i].intentHash]
      BY <2>0, <3>1, <3>2, EvidenceStep
    <3>4. QED
      BY <2>0, <2>1, <3>1, <3>3 DEF ReceiptsHonourTheirIntent, ConfigOf, Committed
  <2>2. CASE i \notin DOMAIN receipts
    <3>1. ExecuteWithGuardTx
      BY <2>0, <2>2, ReceiptFrame
    <3>2. PICK o \in Owners, a \in AgentIds, amount \in Nat :
            Executed(o, a, amount)
      BY <2>0, <3>1, ExecuteEffect
    <3> DEFINE cfg == intentConfig[activeIntentHash[o]]
    <3> USE DEF Executed
    <3>3. cfg.maxSpendPerDay \in Nat /\ spentByDay[o][DayOf(now)] \in Nat
      BY <2>0, <3>2, NowIsADay
         DEF TypeOK, RegistryTypeOK, ExecutorTypeOK, ChainTypeOK, Committed,
             IntentConfig
    <3>4. QED
      BY <2>2, <3>2, <3>3 DEF registryVars, Committed
  <2>3. QED
    BY <2>0, <2>1, <2>2
<1>3. QED
  BY <1>1, <1>2, InvsHold, PTL DEF Spec
-----------------------------------------------------------------------------
(* The day counter and the payment history. *)

LEMMA DayTotalInductive ==
  ASSUME TypeOK, RegistryInv, HistoryInv, ReceiptsHonourTheirIntent,
         DayTotalWithinCap, [Next]_vars
  PROVE  DayTotalWithinCap'
<1> SUFFICES ASSUME NEW o \in Owners, NEW d \in Days, spentByDay'[o][d] > 0
             PROVE  \E id \in DOMAIN receipts' :
                      LET cfg == intentConfig'[receipts'[id].intentHash]
                      IN /\ receipts'[id].owner = o
                         /\ DayOf(receipts'[id].timestamp) = d
                         /\ cfg.owner = o
                         /\ spentByDay'[o][d] <= cfg.maxSpendPerDay
  BY DEF DayTotalWithinCap, ReceiptIdsOf, ConfigOf
\* a day the step does not spend on keeps its counter and its witness
<1>1. CASE spentByDay'[o][d] = spentByDay[o][d]
  <2>1. PICK id \in DOMAIN receipts :
          /\ receipts[id].owner = o
          /\ DayOf(receipts[id].timestamp) = d
          /\ intentConfig[receipts[id].intentHash].owner = o
          /\ spentByDay[o][d] <= intentConfig[receipts[id].intentHash].maxSpendPerDay
    BY <1>1 DEF DayTotalWithinCap, ReceiptIdsOf, ConfigOf
  <2>2. id \in DOMAIN receipts' /\ receipts'[id] = receipts[id]
    BY EvidenceStep
  <2>3. Committed(receipts[id].intentHash) /\ receipts[id].intentHash \in IntentHashes
    BY DEF ReceiptsHonourTheirIntent, TypeOK, ExecutorTypeOK, ReceiptSummary
  <2>4. intentConfig'[receipts[id].intentHash] = intentConfig[receipts[id].intentHash]
    BY <2>3, EvidenceStep
  <2>5. QED
    BY <1>1, <2>1, <2>2, <2>4
\* a payment is the witness for the day it is made on
<1>2. CASE spentByDay'[o][d] # spentByDay[o][d]
  <2>1. ExecuteWithGuardTx
    BY <1>2, ReceiptFrame
  <2>2. PICK p \in Owners, a \in AgentIds, amount \in Nat :
          Executed(p, a, amount)
    BY <2>1, ExecuteEffect
  <2> DEFINE new == ReceiptId(p, a, execNonce[p])
  <2>3. DayOf(now) \in Days
    BY NowIsADay DEF TypeOK, ChainTypeOK
  <2>4. /\ p = o /\ d = DayOf(now)
        /\ spentByDay'[o][d] = spentByDay[o][d] + amount
    BY <1>2, <2>2, <2>3 DEF Executed, TypeOK, ExecutorTypeOK
  <2>5. /\ new \in DOMAIN receipts'
        /\ receipts'[new].owner = o
        /\ receipts'[new].timestamp = now
        /\ receipts'[new].intentHash = activeIntentHash[o]
        /\ intentConfig' = intentConfig
        /\ intentConfig[activeIntentHash[o]].owner = o
        /\ spentByDay[o][d] + amount
             <= intentConfig[activeIntentHash[o]].maxSpendPerDay
    BY <2>2, <2>4 DEF Executed, registryVars
  <2> HIDE DEF new
  <2>6. QED
    BY <2>4, <2>5
<1>3. QED
  BY <1>1, <1>2

\* The day cap holds on every day and for every owner, over all agents and
\* through any replacement of the intent within the day.
THEOREM DayCapHolds == Spec => []DayTotalWithinCap
<1>1. Init => DayTotalWithinCap
  BY DEF Init, ExecutorInit, DayTotalWithinCap
<1>2. TypeOK /\ RegistryInv /\ HistoryInv /\ ReceiptsHonourTheirIntent
        /\ DayTotalWithinCap /\ [Next]_vars => DayTotalWithinCap'
  BY DayTotalInductive
<1>3. QED
  BY <1>1, <1>2, InvsHold, ReceiptsAreHonoured, PTL DEF Spec

\* The part of the history an execution extends: nonces are not shared, and
\* a later nonce is not an earlier time.
NonceOrder ==
  \A i, j \in DOMAIN receipts :
    receipts[i].owner = receipts[j].owner =>
      /\ receipts[i].nonce = receipts[j].nonce => i = j
      /\ receipts[i].nonce < receipts[j].nonce =>
           receipts[i].timestamp <= receipts[j].timestamp

LEMMA NonceOrderInductive ==
  ASSUME TypeOK, RegistryInv, HistoryInv, NonceOrder, [Next]_vars
  PROVE  NonceOrder'
<1>1. CASE UNCHANGED <<receipts, execNonce, spentByDay>>
  BY <1>1 DEF NonceOrder
<1>2. CASE ExecuteWithGuardTx
  <2>1. PICK o \in Owners, a \in AgentIds, amount \in Nat :
          Executed(o, a, amount)
    BY <1>2, ExecuteEffect
  <2> DEFINE new == ReceiptId(o, a, execNonce[o])
  <2>2. /\ DOMAIN receipts' = DOMAIN receipts \cup {new}
        /\ \A i \in DOMAIN receipts : receipts'[i] = receipts[i]
        /\ receipts'[new].owner = o
        /\ receipts'[new].nonce = execNonce[o]
        /\ receipts'[new].timestamp = now
    BY <2>1 DEF Executed
  <2>3. \A i \in DOMAIN receipts :
          /\ receipts[i].nonce \in Nat /\ receipts[i].timestamp \in Nat
          /\ receipts[i].owner = o => receipts[i].nonce < execNonce[o]
          /\ receipts[i].timestamp <= now
    BY DEF HistoryInv, TypeOK, ExecutorTypeOK, ReceiptSummary
  <2>4. execNonce[o] \in Nat /\ now \in Nat
    BY DEF TypeOK, ExecutorTypeOK, ChainTypeOK
  <2> HIDE DEF new
  <2>5. SUFFICES ASSUME NEW i \in DOMAIN receipts', NEW j \in DOMAIN receipts',
                        receipts'[i].owner = receipts'[j].owner
                 PROVE  /\ receipts'[i].nonce = receipts'[j].nonce => i = j
                        /\ receipts'[i].nonce < receipts'[j].nonce =>
                             receipts'[i].timestamp <= receipts'[j].timestamp
    BY DEF NonceOrder
  <2>6. CASE i \in DOMAIN receipts /\ j \in DOMAIN receipts
    BY <2>2, <2>5, <2>6 DEF NonceOrder
  <2>7. CASE i = new \/ j = new
    BY <2>2, <2>3, <2>4, <2>5, <2>7
  <2>8. QED
    BY <2>2, <2>6, <2>7
<1>3. QED
  BY <1>1, <1>2, ReceiptFrame

LEMMA HistoryFromInvs ==
  ASSUME TypeOK, HistoryInv, NonceOrder
  PROVE  ReceiptsFormOneHistory
<1> SUFFICES ASSUME NEW o \in Owners
             PROVE  LET mine == {id \in DOMAIN receipts : receipts[id].owner = o}
                    IN {receipts[id].nonce : id \in mine} = 0 .. (execNonce[o] - 1)
  BY DEF ReceiptsFormOneHistory, NonceOrder
<1>1. execNonce[o] \in Nat
  BY DEF TypeOK, ExecutorTypeOK
<1>2. ASSUME NEW id \in DOMAIN receipts, receipts[id].owner = o
      PROVE  receipts[id].nonce \in 0 .. (execNonce[o] - 1)
  BY <1>1, <1>2 DEF HistoryInv, TypeOK, ExecutorTypeOK, ReceiptSummary
<1>3. ASSUME NEW n \in 0 .. (execNonce[o] - 1)
      PROVE  \E id \in DOMAIN receipts :
               receipts[id].owner = o /\ receipts[id].nonce = n
  <2>1. n \in Nat /\ n < execNonce[o]
    BY <1>1
  <2>2. PICK a \in AgentIds : ReceiptId(o, a, n) \in DOMAIN receipts
    BY <2>1 DEF HistoryInv
  <2> DEFINE id == ReceiptId(o, a, n)
             r  == receipts[id]
  <2>3. id = ReceiptId(r.owner, r.agentId, r.nonce)
    BY <2>2 DEF HistoryInv
  <2>4. r.owner = o /\ r.nonce = n
    <3> HIDE DEF r
    <3>1. QED
      BY <2>3 DEF ReceiptId
  <2>5. QED
    BY <2>2, <2>4
<1>4. QED
  BY <1>2, <1>3

\* An owner's receipts are one gapless history in time order, whichever agents
\* and delegates paid.
THEOREM OneHistory == Spec => []ReceiptsFormOneHistory
<1>1. Init => NonceOrder
  BY DEF Init, ExecutorInit, NonceOrder
<1>2. TypeOK /\ RegistryInv /\ HistoryInv /\ NonceOrder /\ [Next]_vars
        => NonceOrder'
  BY NonceOrderInductive
<1>3. TypeOK /\ HistoryInv /\ NonceOrder => ReceiptsFormOneHistory
  BY HistoryFromInvs
<1>4. QED
  BY <1>1, <1>2, <1>3, InvsHold, PTL DEF Spec

-----------------------------------------------------------------------------
(* The day counter as a sum. *)

\* An execution adds one receipt, so there are only ever finitely many.
ReceiptsFinite == IsFiniteSet(DOMAIN receipts)

LEMMA ReceiptsFiniteInductive ==
  ASSUME TypeOK, RegistryInv, HistoryInv, ReceiptsFinite, [Next]_vars
  PROVE  ReceiptsFinite'
<1>1. CASE ExecuteWithGuardTx
  <2>1. PICK o \in Owners, a \in AgentIds, amount \in Nat :
          Executed(o, a, amount)
    BY <1>1, ExecuteEffect
  <2>2. DOMAIN receipts' = DOMAIN receipts \cup {ReceiptId(o, a, execNonce[o])}
    BY <2>1 DEF Executed
  <2>3. QED
    BY <2>2, FS_AddElement DEF ReceiptsFinite
<1>2. CASE UNCHANGED <<receipts, execNonce, spentByDay>>
  BY <1>2 DEF ReceiptsFinite
<1>3. QED
  BY <1>1, <1>2, ReceiptFrame

LEMMA SpentInductive ==
  ASSUME TypeOK, RegistryInv, HistoryInv, ReceiptsFinite,
         SpentIsWhatReceiptsSay, [Next]_vars
  PROVE  SpentIsWhatReceiptsSay'
<1>1. CASE UNCHANGED <<receipts, execNonce, spentByDay>>
  BY <1>1 DEF SpentIsWhatReceiptsSay, Amounts, ReceiptIdsOf
<1>2. CASE ExecuteWithGuardTx
  <2>1. PICK p \in Owners, a \in AgentIds, amount \in Nat :
          Executed(p, a, amount)
    BY <1>2, ExecuteEffect
  <2> DEFINE new == ReceiptId(p, a, execNonce[p])
  <2>2. /\ new \notin DOMAIN receipts
        /\ DOMAIN receipts' = DOMAIN receipts \cup {new}
        /\ \A i \in DOMAIN receipts : receipts'[i] = receipts[i]
        /\ receipts'[new].owner = p
        /\ receipts'[new].timestamp = now
        /\ receipts'[new].amount = amount
        /\ spentByDay' = [spentByDay EXCEPT ![p][DayOf(now)] =
                            spentByDay[p][DayOf(now)] + amount]
    BY <2>1 DEF Executed
  <2>3. /\ DayOf(now) \in Days
        /\ spentByDay \in [Owners -> [Days -> Nat]]
        /\ \A i \in DOMAIN receipts : receipts[i].amount \in Nat
    BY NowIsADay DEF TypeOK, ChainTypeOK, ExecutorTypeOK, ReceiptSummary
  <2> HIDE DEF new
  <2>4. SUFFICES ASSUME NEW o \in Owners, NEW d \in Days
                 PROVE  spentByDay'[o][d] =
                          SumFunctionOnSet(Amounts', ReceiptIdsOf(o, d)')
    BY DEF SpentIsWhatReceiptsSay
  <2> DEFINE old == ReceiptIdsOf(o, d)
  <2>5. /\ old \subseteq DOMAIN receipts
        /\ IsFiniteSet(old)
    BY FS_Subset DEF ReceiptsFinite, ReceiptIdsOf
  <2>6. /\ \A i \in old : Amounts[i] = receipts[i].amount
        /\ \A i \in old : Amounts'[i] = Amounts[i]
        /\ Amounts'[new] = amount
    BY <2>2, <2>5 DEF Amounts
  <2>7. SumFunctionOnSet(Amounts', old) = SumFunctionOnSet(Amounts, old)
    BY <2>5, <2>6, SumSame
  <2>8. spentByDay[o][d] = SumFunctionOnSet(Amounts, old)
    BY DEF SpentIsWhatReceiptsSay
  <2>9. CASE o = p /\ d = DayOf(now)
    <3>1. ReceiptIdsOf(o, d)' = old \cup {new}
      BY <2>2, <2>9 DEF ReceiptIdsOf
    <3>2. new \notin old
      BY <2>2, <2>5
    <3>3. \A i \in old \cup {new} : Amounts'[i] \in Int
      BY <2>3, <2>5, <2>6
    <3> HIDE DEF old
    <3>4. SumFunctionOnSet(Amounts', old \cup {new})
            = SumFunctionOnSet(Amounts', old) + Amounts'[new]
      BY <2>5, <3>2, <3>3, SumAdd
    <3>5. spentByDay'[o][d] = spentByDay[o][d] + amount
      BY <2>2, <2>3, <2>9
    <3>6. QED
      BY <2>6, <2>7, <2>8, <3>1, <3>4, <3>5
  <2>10. CASE ~ (o = p /\ d = DayOf(now))
    <3>1. ReceiptIdsOf(o, d)' = old
      BY <2>2, <2>10 DEF ReceiptIdsOf
    <3>2. spentByDay'[o][d] = spentByDay[o][d]
      BY <2>2, <2>3, <2>10
    <3>3. QED
      BY <2>7, <2>8, <3>1, <3>2
  <2>11. QED
    BY <2>9, <2>10
<1>3. QED
  BY <1>1, <1>2, ReceiptFrame

\* The counter the day cap is enforced with is the sum of the day's receipts:
\* no payment escapes it, and none is counted twice or on another day.
THEOREM SpentIsTheSum == Spec => []SpentIsWhatReceiptsSay
<1>1. Init => ReceiptsFinite /\ SpentIsWhatReceiptsSay
  <2> SUFFICES ASSUME Init PROVE ReceiptsFinite /\ SpentIsWhatReceiptsSay
    OBVIOUS
  <2>1. DOMAIN receipts = {}
    BY DEF Init, ExecutorInit
  <2>2. ReceiptsFinite
    BY <2>1, FS_EmptySet DEF ReceiptsFinite
  <2>3. ASSUME NEW o \in Owners, NEW d \in Days
        PROVE  spentByDay[o][d] = SumFunctionOnSet(Amounts, ReceiptIdsOf(o, d))
    <3>1. ReceiptIdsOf(o, d) = {}
      BY <2>1 DEF ReceiptIdsOf
    <3>2. SumFunctionOnSet(Amounts, {}) = 0
      BY FS_EmptySet, SumEquation
    <3>3. spentByDay[o][d] = 0
      BY DEF Init, ExecutorInit
    <3>4. QED
      BY <3>1, <3>2, <3>3
  <2>4. QED
    BY <2>2, <2>3 DEF SpentIsWhatReceiptsSay
<1>2. TypeOK /\ RegistryInv /\ HistoryInv /\ ReceiptsFinite
        /\ SpentIsWhatReceiptsSay /\ [Next]_vars
      => ReceiptsFinite' /\ SpentIsWhatReceiptsSay'
  BY ReceiptsFiniteInductive, SpentInductive
<1>3. QED
  BY <1>1, <1>2, InvsHold, PTL DEF Spec
=============================================================================
