------------------------ MODULE ReconciliationProofs ------------------------
(***************************************************************************)
(* Proofs about Reconciliation, for every batch of any size, every set of  *)
(* invented UTRs and every LLM, and about Metrics, for every batch the     *)
(* generator can make.                                                     *)
(***************************************************************************)
EXTENDS ReconciliationRefinement, Metrics, SequenceTheorems, FiniteSetTheorems,
        WellFoundedInduction, TLAPS

-----------------------------------------------------------------------------
(* Totals.                                                                 *)

Pick(s) == CHOOSE x \in s : TRUE

\* The recursion behind Total, as a relation between a set and the function
\* that gives the total of each of its subsets.
IsSum(statement, S, f) ==
  f = [s \in SUBSET S |-> IF s = {} THEN 0
                          ELSE statement[Pick(s)].amount + f[s \ {Pick(s)}]]

LEMMA TotalIsSum ==
  ASSUME NEW statement, NEW ks
  PROVE  Total(statement, ks) = (CHOOSE f : IsSum(statement, ks, f))[ks]
BY DEF Total, MapThenSumSet, MapThenFoldSet, IsSum, Pick

LEMMA PickIsMember ==
  ASSUME NEW s, s # {}
  PROVE  Pick(s) \in s
BY DEF Pick

\* Of the sets with a property, all of them finite, one has no proper subset
\* with it: what induction over finite sets comes to without an operator.
LEMMA SmallestSet ==
  ASSUME NEW S, IsFiniteSet(S), NEW T \in SUBSET (SUBSET S), T # {}
  PROVE  \E s \in T : \A r \in SUBSET s : r # s => r \notin T
<1>1. IsWellFoundedOn(StrictSubsetOrdering(S), FiniteSubsetsOf(S))
  BY FS_StrictSubsetOrderingWellFounded
<1>2. FiniteSubsetsOf(S) = SUBSET S
  BY FS_FiniteSubsetsOfFinite
<1>3. PICK s \in T : \A r \in T : ~(<<r, s>> \in StrictSubsetOrdering(S))
  BY <1>1, <1>2, WFMin
<1> QED
  BY <1>3 DEF StrictSubsetOrdering

\* Two such functions agree where both are defined.
LEMMA SumsAgree ==
  ASSUME NEW statement, NEW S, NEW R \in SUBSET S, IsFiniteSet(R), NEW f, NEW g,
         IsSum(statement, S, f), IsSum(statement, R, g)
  PROVE  \A s \in SUBSET R : f[s] = g[s]
<1> DEFINE T == {s \in SUBSET R : f[s] # g[s]}
<1> SUFFICES ASSUME T # {} PROVE FALSE
  OBVIOUS
<1>1. PICK s \in T : \A r \in SUBSET s : r # s => r \notin T
  <2>1. T \in SUBSET (SUBSET R)
    OBVIOUS
  <2> HIDE DEF T
  <2> QED
    BY <2>1, SmallestSet
<1>2. \A x \in SUBSET R :
        /\ f[x] = IF x = {} THEN 0
                  ELSE statement[Pick(x)].amount + f[x \ {Pick(x)}]
        /\ g[x] = IF x = {} THEN 0
                  ELSE statement[Pick(x)].amount + g[x \ {Pick(x)}]
  BY DEF IsSum
<1>3. CASE s = {}
  BY <1>2, <1>3
<1>4. CASE s # {}
  <2>1. Pick(s) \in s
    BY <1>4, PickIsMember
  <2>2. f[s \ {Pick(s)}] = g[s \ {Pick(s)}]
    BY <1>1, <2>1
  <2> QED
    BY <1>2, <1>4, <2>2
<1> QED
  BY <1>3, <1>4

LEMMA SumExists ==
  ASSUME NEW statement, NEW S, IsFiniteSet(S)
  PROVE  \E f : IsSum(statement, S, f)
<1> DEFINE T == {s \in SUBSET S : ~ \E f : IsSum(statement, s, f)}
<1> SUFFICES ASSUME T # {} PROVE FALSE
  OBVIOUS
<1>1. PICK s \in T : \A r \in SUBSET s : r # s => r \notin T
  <2>1. T \in SUBSET (SUBSET S)
    OBVIOUS
  <2> HIDE DEF T
  <2> QED
    BY <2>1, SmallestSet
<1>2. IsFiniteSet(s)
  BY FS_Subset
<1> DEFINE sum(r) == CHOOSE f : IsSum(statement, r, f)
           total(r) == IF r = {} THEN 0
                       ELSE statement[Pick(r)].amount + sum(r \ {Pick(r)})[r \ {Pick(r)}]
           h == [r \in SUBSET s |-> total(r)]
<1>3. \A r \in SUBSET s : r # s => IsSum(statement, r, sum(r))
  BY <1>1
<1>4. \A r \in SUBSET s : r # s => sum(r)[r] = total(r)
  <2> SUFFICES ASSUME NEW r \in SUBSET s, r # s PROVE sum(r)[r] = total(r)
    OBVIOUS
  <2>1. IsSum(statement, r, sum(r))
    BY <1>3
  <2>2. CASE r = {}
    BY <2>1, <2>2 DEF IsSum
  <2>3. CASE r # {}
    <3> DEFINE t == r \ {Pick(r)}
    <3>1. t \in SUBSET r /\ t # s /\ t \in SUBSET s
      BY <2>3, PickIsMember
    <3>2. IsSum(statement, t, sum(t))
      BY <1>3, <3>1
    <3>3. IsFiniteSet(t)
      BY <1>2, <3>1, FS_Subset
    <3>4. t \in SUBSET t
      OBVIOUS
    <3>5. sum(r)[t] = sum(t)[t]
      <4> DEFINE f == sum(r)
                 g == sum(t)
      <4>1. IsSum(statement, r, f) /\ IsSum(statement, t, g)
        BY <2>1, <3>2
      <4> HIDE DEF f, g
      <4>2. \A x \in SUBSET t : f[x] = g[x]
        BY <3>1, <3>3, <4>1, SumsAgree
      <4>3. f[t] = g[t]
        BY <3>4, <4>2
      <4> QED
        BY <4>3 DEF f, g
    <3> HIDE DEF sum
    <3>6. sum(r)[r] = statement[Pick(r)].amount + sum(r)[t]
      BY <2>1, <2>3 DEF IsSum
    <3> QED
      BY <2>3, <3>5, <3>6
  <2> QED
    BY <2>2, <2>3
<1>5. \A r \in SUBSET s :
        h[r] = IF r = {} THEN 0 ELSE statement[Pick(r)].amount + h[r \ {Pick(r)}]
  <2> SUFFICES ASSUME NEW r \in SUBSET s, r # {}
               PROVE  total(r) = statement[Pick(r)].amount + h[r \ {Pick(r)}]
    <3> HIDE DEF sum
    <3>1. \A r \in SUBSET s : h[r] = total(r)
      OBVIOUS
    <3>2. {} \in SUBSET s => total({}) = 0
      OBVIOUS
    <3> HIDE DEF h
    <3>3. \A r \in SUBSET s : r = {} => h[r] = 0
      BY <3>1, <3>2
    <3> HIDE DEF total
    <3> QED
      BY <3>1, <3>3
  <2>1. r \ {Pick(r)} \in SUBSET s /\ r \ {Pick(r)} # s
    BY PickIsMember
  <2>2. h[r \ {Pick(r)}] = sum(r \ {Pick(r)})[r \ {Pick(r)}]
    BY <1>4, <2>1
  <2> QED
    BY <2>2
<1>6. IsSum(statement, s, h)
  <2> HIDE DEF total
  <2>1. h = [r \in SUBSET s |-> h[r]]
    OBVIOUS
  <2> HIDE DEF h
  <2> QED
    BY <1>5, <2>1 DEF IsSum
<1> QED
  BY <1>1, <1>6

\* A total of whole amounts is a whole amount.
LEMMA TotalIsInt ==
  ASSUME NEW statement, NEW ks, IsFiniteSet(ks),
         \A k \in ks : statement[k].amount \in Int
  PROVE  Total(statement, ks) \in Int
<1> DEFINE f == CHOOSE f : IsSum(statement, ks, f)
           T == {s \in SUBSET ks : f[s] \notin Int}
<1>1. IsSum(statement, ks, f)
  BY SumExists
<1>2. Total(statement, ks) = f[ks]
  BY TotalIsSum
<1> HIDE DEF f
<1> SUFFICES ASSUME T # {} PROVE FALSE
  BY <1>2
<1>3. PICK s \in T : \A r \in SUBSET s : r # s => r \notin T
  <2>1. T \in SUBSET (SUBSET ks)
    OBVIOUS
  <2> HIDE DEF T
  <2> QED
    BY <2>1, SmallestSet
<1>4. f[s] = IF s = {} THEN 0 ELSE statement[Pick(s)].amount + f[s \ {Pick(s)}]
  BY <1>1 DEF IsSum
<1>5. s # {}
  BY <1>4
<1>6. Pick(s) \in s
  BY <1>5, PickIsMember
<1>7. f[s \ {Pick(s)}] \in Int
  BY <1>3, <1>6
<1>8. statement[Pick(s)].amount \in Int
  BY <1>6
<1> QED
  BY <1>4, <1>5, <1>7, <1>8

LEMMA TotalUnfolds ==
  ASSUME NEW statement, NEW S, IsFiniteSet(S)
  PROVE  Total(statement, S) = IF S = {} THEN 0
                               ELSE statement[Pick(S)].amount + Total(statement, S \ {Pick(S)})
<1> DEFINE R == S \ {Pick(S)}
           f == CHOOSE f : IsSum(statement, S, f)
           g == CHOOSE g : IsSum(statement, R, g)
<1>1. IsFiniteSet(R) /\ R \in SUBSET S
  BY FS_Subset
<1>2. IsSum(statement, S, f) /\ IsSum(statement, R, g)
  BY <1>1, SumExists
<1>3. Total(statement, S) = f[S] /\ Total(statement, R) = g[R]
  BY TotalIsSum
<1> HIDE DEF f, g
<1>4. \A s \in SUBSET R : f[s] = g[s]
  BY <1>1, <1>2, SumsAgree
<1>5. f[S] = IF S = {} THEN 0 ELSE statement[Pick(S)].amount + f[R]
  BY <1>2 DEF IsSum
<1> QED  BY <1>3, <1>4, <1>5

\* Any row can be taken out of a total, not only the one it began with.
LEMMA TotalWithout ==
  ASSUME NEW statement, NEW S, IsFiniteSet(S), \A k \in S : statement[k].amount \in Int,
         NEW x \in S
  PROVE  Total(statement, S) = Total(statement, S \ {x}) + statement[x].amount
<1> DEFINE sum(s) == Total(statement, s)
           T == {s \in SUBSET S : \E y \in s : sum(s) # sum(s \ {y}) + statement[y].amount}
<1> SUFFICES ASSUME T # {} PROVE FALSE
  OBVIOUS
<1>1. PICK s \in T : \A r \in SUBSET s : r # s => r \notin T
  <2>1. T \in SUBSET (SUBSET S)
    OBVIOUS
  <2> HIDE DEF T
  <2> QED  BY <2>1, SmallestSet
<1>2. PICK y \in s : sum(s) # sum(s \ {y}) + statement[y].amount
  OBVIOUS
<1> DEFINE z == Pick(s)
<1>3. z \in s
  BY PickIsMember
<1>4. \A r \in SUBSET S : IsFiniteSet(r) /\ sum(r) \in Int
  <2> SUFFICES ASSUME NEW r \in SUBSET S PROVE IsFiniteSet(r) /\ sum(r) \in Int
    OBVIOUS
  <2>1. IsFiniteSet(r)
    BY FS_Subset
  <2> QED  BY <2>1, TotalIsInt
<1>5. sum(s) = statement[z].amount + sum(s \ {z})
  BY <1>4, <1>3, TotalUnfolds
<1> HIDE DEF z, sum
<1>6. statement[y].amount \in Int /\ statement[z].amount \in Int
  BY <1>2, <1>3
<1>7. z # y
  <2>1. s \in SUBSET S
    OBVIOUS
  <2>2. sum(s \ {z}) \in Int
    BY <1>4, <2>1
  <2> HIDE DEF T
  <2>3. ASSUME z = y PROVE FALSE
    <3>1. sum(s) = statement[y].amount + sum(s \ {y}) /\ sum(s \ {y}) \in Int
      BY <1>5, <2>2, <2>3
    <3>2. sum(s) = sum(s \ {y}) + statement[y].amount
      BY <1>6, <3>1
    <3> QED  BY <1>2, <3>2
  <2> QED  BY <2>3
<1>8. sum(s \ {z}) = sum((s \ {z}) \ {y}) + statement[y].amount
  BY <1>1, <1>2, <1>3, <1>7
<1>9. sum(s \ {y}) = sum((s \ {y}) \ {z}) + statement[z].amount
  BY <1>1, <1>2, <1>3, <1>7
<1>10. (s \ {z}) \ {y} = (s \ {y}) \ {z}
  OBVIOUS
<1>11. sum((s \ {y}) \ {z}) \in Int
  BY <1>4
<1> HIDE DEF T
<1>12. ASSUME NEW rest \in Int, rest = sum((s \ {y}) \ {z}) PROVE FALSE
  <2>1. sum(s \ {z}) = rest + statement[y].amount /\ sum(s \ {y}) = rest + statement[z].amount
    BY <1>8, <1>9, <1>10, <1>12
  <2>2. sum(s) = sum(s \ {y}) + statement[y].amount
    BY <1>5, <1>6, <2>1
  <2> QED  BY <1>2, <2>2
<1> QED  BY <1>11, <1>12

LEMMA TotalOfOne ==
  ASSUME NEW statement, NEW k, statement[k].amount \in Int
  PROVE  Total(statement, {k}) = statement[k].amount
<1>1. IsFiniteSet({k}) /\ {k} \ {k} = {} /\ IsFiniteSet({})
  BY FS_Singleton, FS_EmptySet
<1>2. Total(statement, {k}) = Total(statement, {k} \ {k}) + statement[k].amount
  BY <1>1, TotalWithout
<1>3. Total(statement, {}) = 0
  BY <1>1, TotalUnfolds
<1> QED
  BY <1>1, <1>2, <1>3

\* Rows of some least amount, one or more of them, come to that amount.
LEMMA TotalAtLeast ==
  ASSUME NEW statement, NEW S, IsFiniteSet(S), S # {}, NEW least \in Nat,
         \A k \in S : statement[k].amount \in Int /\ statement[k].amount >= least
  PROVE  Total(statement, S) >= least
<1> DEFINE sum(s) == Total(statement, s)
           T == {s \in SUBSET S : s # {} /\ ~(sum(s) >= least)}
<1> SUFFICES ASSUME T # {} PROVE FALSE
  OBVIOUS
<1>1. PICK s \in T : \A r \in SUBSET s : r # s => r \notin T
  <2>1. T \in SUBSET (SUBSET S)
    OBVIOUS
  <2> HIDE DEF T
  <2> QED
    BY <2>1, SmallestSet
<1>2. PICK z \in s : TRUE
  OBVIOUS
<1>3. IsFiniteSet(s) /\ s \in SUBSET S /\ ~(sum(s) >= least)
  BY <1>1, FS_Subset
<1>4. sum(s) = sum(s \ {z}) + statement[z].amount
  BY <1>3, TotalWithout
<1>5. statement[z].amount \in Int /\ statement[z].amount >= least
  BY <1>3
<1>6. CASE s \ {z} = {}
  <2>1. sum(s \ {z}) = 0
    BY <1>6, FS_EmptySet, TotalUnfolds
  <2> HIDE DEF sum
  <2> QED
    BY <1>3, <1>4, <1>5, <2>1
<1>7. CASE s \ {z} # {}
  <2>1. sum(s \ {z}) >= least
    BY <1>1, <1>7
  <2>2. IsFiniteSet(s \ {z}) /\ \A k \in s \ {z} : statement[k].amount \in Int
    BY <1>3, FS_Subset
  <2>3. sum(s \ {z}) \in Int
    BY <2>2, TotalIsInt
  <2> HIDE DEF sum
  <2> QED
    BY <1>3, <1>4, <1>5, <2>1, <2>3
<1> QED
  BY <1>6, <1>7

\* A set of rows with one row in it is that row, or comes to at least another
\* row more.
LEMMA TotalBeyond ==
  ASSUME NEW statement, NEW S, IsFiniteSet(S), NEW least \in Nat, NEW x \in S,
         \A k \in S : statement[k].amount \in Int /\ statement[k].amount >= least
  PROVE  /\ Total(statement, S) \in Int
         /\ \/ S = {x} /\ Total(statement, S) = statement[x].amount
            \/ Total(statement, S) >= statement[x].amount + least
<1> DEFINE rest == Total(statement, S \ {x})
           total == Total(statement, S)
<1>1. total = rest + statement[x].amount /\ statement[x].amount \in Int
  BY TotalWithout
<1>2. IsFiniteSet(S \ {x}) /\ \A k \in S \ {x} : statement[k].amount \in Int /\ statement[k].amount >= least
  BY FS_Subset
<1>3. rest \in Int /\ total \in Int
  BY <1>2, TotalIsInt
<1>4. CASE S = {x}
  BY <1>3, <1>4, TotalOfOne
<1>5. CASE S # {x}
  <2>1. S \ {x} # {}
    BY <1>5
  <2>2. rest >= least
    BY <1>2, <2>1, TotalAtLeast
  <2> HIDE DEF rest, total
  <2> QED
    BY <1>1, <1>3, <2>2 DEF total
<1> QED
  BY <1>4, <1>5

-----------------------------------------------------------------------------
(* The operators the actions are built from.                               *)

LEMMA LeastOfTwo ==
  ASSUME NEW m \in Int, NEW n \in Int
  PROVE  Least({m, n}) \in {m, n} /\ Least({m, n}) <= m /\ Least({m, n}) <= n
<1>1. \E x \in {m, n} : \A y \in {m, n} : x <= y
  <2>1. CASE m <= n
    BY <2>1
  <2>2. CASE ~(m <= n)
    BY <2>2
  <2> QED
    BY <2>1, <2>2
<1> QED
  BY <1>1 DEF Least

\* A demo run asks for no more records for the agent than it has room for, or
\* than there are, and for one if there is one.
LEMMA AgentWantBounds ==
  ASSUME NEW size \in Nat, NEW waiting \in Nat
  PROVE  /\ AgentWant(size, waiting) \in Nat
         /\ AgentWant(size, waiting) <= size
         /\ size > 0 /\ waiting > 0 => AgentWant(size, waiting) > 0
<1> DEFINE floor == IF size \div 3 > 2 THEN size \div 3 ELSE 2
           S == {floor, waiting, size}
<1>1. floor \in Nat /\ floor > 0
  OBVIOUS
<1> HIDE DEF floor
<1>2. \E x \in S : \A y \in S : x <= y
  <2>1. CASE floor <= waiting /\ floor <= size
    BY <1>1, <2>1
  <2>2. CASE waiting <= floor /\ waiting <= size
    BY <1>1, <2>2
  <2>3. CASE size <= floor /\ size <= waiting
    BY <1>1, <2>3
  <2> QED
    BY <1>1, <2>1, <2>2, <2>3
<1>3. Least(S) \in S /\ \A y \in S : Least(S) <= y
  BY <1>2 DEF Least
<1>4. AgentWant(size, waiting) = Least(S)
  BY DEF AgentWant, floor
<1> QED
  BY <1>1, <1>3, <1>4

\* Take yields a prefix.
LEMMA TakePrefix ==
  ASSUME NEW S, NEW seq \in Seq(S), NEW n \in Int
  PROVE  /\ Take(seq, n) \in Seq(S)
         /\ Len(Take(seq, n)) <= Len(seq)
         /\ n \in Nat => Len(Take(seq, n)) <= n
         /\ n > 0 /\ seq # <<>> => Take(seq, n) # <<>>
         /\ \A i \in DOMAIN Take(seq, n) : i \in DOMAIN seq /\ Take(seq, n)[i] = seq[i]
<1> DEFINE l == Least({n, Len(seq)})
<1>1. Len(seq) \in Nat /\ DOMAIN seq = 1..Len(seq)
  BY LenProperties
<1>2. l \in Int /\ l <= Len(seq)
  <2>1. Len(seq) \in Int
    BY <1>1
  <2>2. l \in {n, Len(seq)} /\ l <= n /\ l <= Len(seq)
    BY <2>1, LeastOfTwo
  <2> QED
    BY <2>1, <2>2
<1> HIDE DEF l
<1>3. \A i \in 1..l : seq[i] \in S
  BY <1>1, <1>2, ElementOfSeq
<1>4. /\ SubSeq(seq, 1, l) \in Seq(S)
      /\ Len(SubSeq(seq, 1, l)) = IF 1 <= l THEN l ELSE 0
      /\ \A i \in 1..l : SubSeq(seq, 1, l)[i] = seq[i]
  <2>1. /\ SubSeq(seq, 1, l) \in Seq(S)
        /\ Len(SubSeq(seq, 1, l)) = IF 1 <= l THEN l - 1 + 1 ELSE 0
        /\ \A i \in 1..(l - 1 + 1) : SubSeq(seq, 1, l)[i] = seq[1 + i - 1]
    BY <1>2, <1>3, SubSeqProperties
  <2> QED
    BY <1>2, <2>1
<1>5. DOMAIN SubSeq(seq, 1, l) = 1..Len(SubSeq(seq, 1, l))
  BY <1>4, LenProperties
<1>6. \A i \in 1..Len(SubSeq(seq, 1, l)) : i \in 1..l /\ i \in 1..Len(seq)
  BY <1>1, <1>2, <1>4
<1>7. Take(seq, n) = SubSeq(seq, 1, l)
  BY DEF Take, l
<1>8. Len(SubSeq(seq, 1, l)) <= Len(seq)
  BY <1>1, <1>2, <1>4
<1>9. l <= n /\ (l = n \/ l = Len(seq))
  <2>1. Len(seq) \in Int
    BY <1>1
  <2> QED
    BY <2>1, LeastOfTwo DEF l
<1>10. n \in Nat => Len(SubSeq(seq, 1, l)) <= n
  <2>1. CASE 1 <= l
    BY <1>2, <1>4, <1>9, <2>1
  <2>2. CASE ~(1 <= l)
    BY <1>4, <2>2
  <2> QED
    BY <2>1, <2>2
<1>11. n > 0 /\ seq # <<>> => SubSeq(seq, 1, l) # <<>>
  <2> SUFFICES ASSUME n > 0, seq # <<>> PROVE SubSeq(seq, 1, l) # <<>>
    OBVIOUS
  <2>1. Len(seq) > 0
    BY <1>1, EmptySeq
  <2>2. 1 <= l
    <3>1. CASE l = n
      BY <3>1
    <3>2. CASE l = Len(seq)
      BY <1>1, <2>1, <3>2
    <3> QED
      BY <1>9, <3>1, <3>2
  <2>3. Len(SubSeq(seq, 1, l)) > 0
    BY <1>2, <1>4, <2>2
  <2> QED
    BY <1>4, <2>3, EmptySeq
<1> QED
  BY <1>1, <1>4, <1>5, <1>6, <1>7, <1>8, <1>10, <1>11

\* The deterministic stage explains an amount from the pool only.
LEMMA ExplainedFromPool ==
  ASSUME NEW g, NEW statement, NEW free, NEW window
  PROVE  UNION Explanations(g, statement, free, window) \subseteq free
BY DEF Explanations, Dated, kSubset

\* What is claimed leaves the pool.
LEMMA ClaimLeavesPool ==
  ASSUME NEW claimed \in SUBSET pool, NEW utrs,
         \A k \in claimed : bank[k].utr \in utrs
  PROVE  /\ Without(pool, utrs) \subseteq pool
         /\ claimed \cap Without(pool, utrs) = {}
BY DEF Without

-----------------------------------------------------------------------------
(* Types.                                                                  *)

Decision == [
  txn      : {gateway[i].txn : i \in DOMAIN gateway},
  status   : {"matched", "exception"},
  utrs     : SUBSET (Utrs \cup Invented),
  checked  : SUBSET DOMAIN bank,
  method   : {"deterministic", "agent_verified", "none"},
  verifier : {"deterministic", "llm", "none"},
  type     : ALL_TYPES \cup AgentTypes \cup {"none"}]

\* TypeOK, with the two lists of decisions typed one by one.
Typed ==
  /\ batch \in Batches
  /\ phase \in {"validate", "deterministic", "agent", "done", "raised"}
  /\ next \in 1..(Len(gateway) + 1)
  /\ pool \subseteq DOMAIN bank
  /\ step \in 0..(MAX_STEPS - 1)
  /\ queue \in Seq(DOMAIN gateway)
  /\ matched \in Seq(Decision)
  /\ exceptions \in Seq(Decision)

LEMMA Sequences ==
  ASSUME batch \in Batches
  PROVE  /\ Len(gateway) \in Nat /\ DOMAIN gateway = 1..Len(gateway)
         /\ batch.sample \in Nat
<1>1. IsSequence(gateway) /\ batch.sample \in Nat
  BY BatchAssumption DEF gateway
<1> QED
  BY <1>1, LenProperties DEF IsSequence

\* The batch never changes, nor does anything that depends on it alone.
LEMMA SameBatch ==
  ASSUME UNCHANGED batch
  PROVE  /\ gateway' = gateway /\ bank' = bank /\ Utrs' = Utrs
         /\ Decision' = Decision
<1>1. gateway' = gateway /\ bank' = bank
  BY DEF gateway, bank
<1>2. Utrs' = Utrs
  BY <1>1 DEF Utrs
<1> QED
  BY <1>1, <1>2 DEF Decision

LEMMA ExceptionType ==
  ASSUME NEW i \in DOMAIN gateway, NEW type \in ALL_TYPES \cup AgentTypes
  PROVE  Exception(i, type) \in Decision
BY DEF Exception, Decision

LEMMA MatchedType ==
  ASSUME NEW i \in DOMAIN gateway, NEW utrs \in SUBSET (Utrs \cup Invented),
         NEW checked \in SUBSET DOMAIN bank,
         NEW method \in {"deterministic", "agent_verified"},
         NEW verifier \in {"deterministic", "llm", "none"}
  PROVE  Matched(i, utrs, checked, method, verifier) \in Decision
BY DEF Matched, Decision

LEMMA VerdictMethod ==
  ASSUME NEW g, NEW statement, NEW ks, NEW answer
  PROVE  Verdict(g, statement, ks, answer).method \in {"deterministic", "llm"}
BY DEF Verdict

LEMMA HeadOfQueue ==
  ASSUME Typed, queue # <<>>
  PROVE  Head(queue) \in DOMAIN gateway /\ Tail(queue) \in Seq(DOMAIN gateway)
BY HeadTailProperties DEF Typed

LEMMA TypedGivesTypeOK == Typed => TypeOK
<1> SUFFICES ASSUME Typed PROVE TypeOK
  OBVIOUS
<1>1. Decisions \in Seq(Decision)
  BY ConcatProperties DEF Typed, Decisions
<1>2. \A n \in DOMAIN Decisions : Decisions[n] \in Decision
  BY <1>1, LenProperties, ElementOfSeq
<1>3. \A d \in {Decisions[n] : n \in DOMAIN Decisions} :
        d.checked \subseteq DOMAIN bank /\ d.utrs \subseteq Utrs \cup Invented
  BY <1>2 DEF Decision
<1> QED
  BY <1>3 DEF Typed, TypeOK

LEMMA InitTyped == Init => Typed
<1> SUFFICES ASSUME Init PROVE Typed
  OBVIOUS
<1>1. Len(gateway) \in Nat
  BY Sequences DEF Init
<1>2. 1 \in 1..(Len(gateway) + 1)
  BY <1>1
<1> QED
  BY <1>2 DEF Init, Typed, bank, MAX_STEPS

\* What a new decision does to the lists.
LEMMA AppendDecision ==
  ASSUME NEW seq \in Seq(Decision), NEW d \in Decision
  PROVE  Append(seq, d) \in Seq(Decision)
OBVIOUS

\* The pool's rows a proposal names, and the two ways the verifier decides it.
Proposed(utrs) == {k \in pool : bank[k].utr \in utrs}

Accepts(utrs, verifier) ==
  /\ matched' = Append(matched,
       Matched(Head(queue), utrs, Proposed(utrs), "agent_verified", verifier))
  /\ pool' = Without(pool, utrs)
  /\ UNCHANGED exceptions

Rejects ==
  /\ exceptions' = Append(exceptions, Exception(Head(queue), "VERIFIER_REJECTED"))
  /\ UNCHANGED <<matched, pool>>

LEMMA VerifiedProposal ==
  ASSUME ProposeMatch
  PROVE  \/ Rejects
         \/ \E utrs \in SUBSET (Utrs \cup Invented), answer \in {"accept", "reject"} :
              /\ Verdict(gateway[Head(queue)], bank, Proposed(utrs), answer).accepted
              /\ Accepts(utrs,
                   Verdict(gateway[Head(queue)], bank, Proposed(utrs), answer).method)
BY DEF ProposeMatch, Proposed, Accepts, Rejects

LEMMA ProposeMatchOutcomes ==
  ASSUME ProposeMatch
  PROVE  \E utrs \in SUBSET (Utrs \cup Invented), verifier \in {"deterministic", "llm"} :
           Accepts(utrs, verifier) \/ Rejects
BY VerifiedProposal, VerdictMethod

LEMMA NextTyped == Typed /\ [Next]_vars => Typed'
<1> SUFFICES ASSUME Typed, [Next]_vars PROVE Typed'
  OBVIOUS
<1>1. CASE UNCHANGED vars
  BY <1>1 DEF Typed, vars, gateway, bank, Decision, Utrs
<1>2. ASSUME UNCHANGED batch,
             phase' \in {"validate", "deterministic", "agent", "done", "raised"},
             next' \in 1..(Len(gateway) + 1), pool' \subseteq DOMAIN bank,
             step' \in 0..(MAX_STEPS - 1), queue' \in Seq(DOMAIN gateway),
             matched' \in Seq(Decision), exceptions' \in Seq(Decision)
      PROVE  Typed'
  BY <1>2, SameBatch DEF Typed
<1>3. CASE ValidateInput
  BY <1>2, <1>3 DEF ValidateInput, Typed
<1>4. CASE Resolve
  <2> DEFINE explanations == Explanations(gateway[next], bank, pool, batch.window)
             chosen == UNION explanations
             utrs == {bank[k].utr : k \in chosen}
             new == Matched(next, utrs, chosen, "deterministic", "none")
  <2>1. next \in DOMAIN gateway /\ next + 1 \in 1..(Len(gateway) + 1)
    BY <1>4, Sequences DEF Resolve, Typed
  <2>2. chosen \subseteq pool
    BY ExplainedFromPool
  <2>3. chosen \in SUBSET DOMAIN bank /\ utrs \in SUBSET (Utrs \cup Invented)
    BY <2>2 DEF Typed, Utrs
  <2>4. new \in Decision
    BY <2>1, <2>3, MatchedType
  <2>5. Exception(next, "AMBIGUOUS_MULTIPLE_CANDIDATES") \in Decision
    BY <2>1, ExceptionType DEF ALL_TYPES
  <2>6. Append(queue, next) \in Seq(DOMAIN gateway)
    BY <2>1 DEF Typed
  <2>7. Without(pool, utrs) \subseteq DOMAIN bank
    BY DEF Without, Typed
  <2>8. /\ UNCHANGED batch
        /\ UNCHANGED <<phase, step>>
        /\ next' = next + 1
    BY <1>4 DEF Resolve
  <2>9. \/ /\ matched' = Append(matched, new)
           /\ pool' = Without(pool, utrs)
           /\ UNCHANGED <<exceptions, queue>>
        \/ /\ exceptions' = Append(exceptions,
                               Exception(next, "AMBIGUOUS_MULTIPLE_CANDIDATES"))
           /\ UNCHANGED <<matched, pool, queue>>
        \/ /\ queue' = Append(queue, next)
           /\ UNCHANGED <<matched, exceptions, pool>>
    BY <1>4 DEF Resolve
  <2> HIDE DEF new, utrs
  <2>10. matched' \in Seq(Decision) /\ exceptions' \in Seq(Decision)
    BY <2>4, <2>5, <2>9, AppendDecision DEF Typed
  <2>11. queue' \in Seq(DOMAIN gateway) /\ pool' \subseteq DOMAIN bank
    BY <2>6, <2>7, <2>9 DEF Typed
  <2> QED
    BY <1>2, <2>1, <2>8, <2>10, <2>11 DEF Typed
<1>5. CASE StartAgentStage
  <2>1. queue' \in Seq(DOMAIN gateway) /\ matched' \in Seq(Decision)
        /\ exceptions' \in Seq(Decision)
    <3>1. CASE IsDemo
      <4> DEFINE want == AgentWant(batch.sample, Len(queue))
      <4>1. want \in Int /\ batch.sample - want \in Int
        <5>1. Len(queue) \in Nat /\ batch.sample \in Nat
          BY Sequences, LenProperties DEF Typed
        <5>2. want \in Nat
          BY <5>1, AgentWantBounds
        <5> HIDE DEF want
        <5> QED
          BY <5>1, <5>2
      <4> HIDE DEF want
      <4>2. Take(queue, want) \in Seq(DOMAIN gateway)
        BY <4>1, TakePrefix DEF Typed
      <4>3. Take(matched, batch.sample - want) \in Seq(Decision)
        BY <4>1, TakePrefix DEF Typed
      <4>4. /\ queue' = Take(queue, want)
            /\ matched' = Take(matched, batch.sample - want)
            /\ exceptions' = <<>>
        BY <1>5, <3>1 DEF StartAgentStage, want
      <4>5. <<>> \in Seq(Decision)
        BY EmptySeq
      <4> QED
        BY <4>2, <4>3, <4>4, <4>5
    <3>2. CASE ~IsDemo
      BY <1>5, <3>2 DEF StartAgentStage, Typed
    <3> QED
      BY <3>1, <3>2
  <2>2. UNCHANGED <<batch, next, pool, step>> /\ phase' = "agent"
    BY <1>5 DEF StartAgentStage
  <2> QED
    BY <1>2, <2>1, <2>2 DEF Typed
<1>6. CASE Continue
  <2>1. CASE step + 1 < MAX_STEPS
    BY <1>2, <1>6, <2>1 DEF Continue, Typed, MAX_STEPS
  <2>2. CASE ~(step + 1 < MAX_STEPS)
    <3>1. Exception(Head(queue), "NO_CANDIDATE_FOUND") \in Decision
      BY <1>6, HeadOfQueue, ExceptionType DEF Continue, Asking, ALL_TYPES
    <3>2. /\ exceptions' = Append(exceptions, Exception(Head(queue), "NO_CANDIDATE_FOUND"))
          /\ Settle /\ UNCHANGED <<pool, matched>>
      BY <1>6, <2>2 DEF Continue
    <3>3. exceptions' \in Seq(Decision)
      BY <3>1, <3>2, AppendDecision DEF Typed
    <3>4. queue' \in Seq(DOMAIN gateway)
      BY <1>6, <3>2, HeadOfQueue DEF Continue, Asking, Settle
    <3> QED
      BY <1>2, <3>2, <3>3, <3>4 DEF Settle, Typed, MAX_STEPS
  <2> QED
    BY <2>1, <2>2
<1>7. CASE ProposeMatch
  <2>1. PICK utrs \in SUBSET (Utrs \cup Invented),
             verifier \in {"deterministic", "llm"} :
          \/ Accepts(utrs, verifier) \/ Rejects
    BY <1>7, ProposeMatchOutcomes
  <2>2. Settle /\ queue # <<>>
    BY <1>7 DEF ProposeMatch, Asking
  <2>3. queue' \in Seq(DOMAIN gateway) /\ Head(queue) \in DOMAIN gateway
    BY <2>2, HeadOfQueue DEF Settle
  <2>4. CASE Accepts(utrs, verifier)
    <3>1. Proposed(utrs) \in SUBSET DOMAIN bank
      BY DEF Proposed, Typed
    <3>2. Matched(Head(queue), utrs, Proposed(utrs), "agent_verified", verifier) \in Decision
      BY <2>3, <3>1, MatchedType
    <3>3. matched' \in Seq(Decision)
      BY <2>4, <3>2, AppendDecision DEF Accepts, Typed
    <3>4. pool' \subseteq DOMAIN bank
      BY <2>4 DEF Accepts, Without, Typed
    <3> QED
      BY <1>2, <2>2, <2>3, <2>4, <3>3, <3>4 DEF Accepts, Settle, Typed, MAX_STEPS
  <2>5. CASE Rejects
    <3>1. Exception(Head(queue), "VERIFIER_REJECTED") \in Decision
      BY <2>3, ExceptionType DEF ALL_TYPES
    <3>2. exceptions' \in Seq(Decision)
      BY <2>5, <3>1, AppendDecision DEF Rejects, Typed
    <3> QED
      BY <1>2, <2>2, <2>3, <2>5, <3>2 DEF Rejects, Settle, Typed, MAX_STEPS
  <2> QED
    BY <2>1, <2>4, <2>5
<1>8. CASE ReportException
  <2>1. Settle /\ queue # <<>> /\ UNCHANGED <<matched, pool>>
    BY <1>8 DEF ReportException, Asking
  <2>2. queue' \in Seq(DOMAIN gateway) /\ Head(queue) \in DOMAIN gateway
    BY <2>1, HeadOfQueue DEF Settle
  <2>3. PICK type \in AgentTypes :
          exceptions' = Append(exceptions, Exception(Head(queue), type))
    BY <1>8 DEF ReportException
  <2>4. exceptions' \in Seq(Decision)
    BY <2>2, <2>3, ExceptionType, AppendDecision DEF Typed
  <2> QED
    BY <1>2, <2>1, <2>2, <2>4 DEF Settle, Typed, MAX_STEPS
<1>9. CASE AgentRaises
  BY <1>2, <1>9 DEF AgentRaises, Typed
<1>10. CASE Finish
  BY <1>2, <1>10 DEF Finish, Typed
<1> QED
  BY <1>1, <1>3, <1>4, <1>5, <1>6, <1>7, <1>8, <1>9, <1>10 DEF Next, Answer

\* Every reachable state is well formed: positions stay within the batch, the
\* step budget is kept, and each decision is about a transaction of the batch.
THEOREM TypeCorrect == Spec => []TypeOK
<1>1. Init => Typed
  BY InitTyped
<1>2. Typed /\ [Next]_vars => Typed'
  BY NextTyped
<1>3. Typed => TypeOK
  BY TypedGivesTypeOK
<1> QED
  BY <1>1, <1>2, <1>3, PTL DEF Spec

LEMMA FiniteBank ==
  ASSUME Typed
  PROVE  IsFiniteSet(DOMAIN bank)
<1>1. IsSequence(bank)
  BY BatchAssumption DEF bank, Typed
<1>2. Len(bank) \in Nat /\ DOMAIN bank = 1..Len(bank)
  BY <1>1, LenProperties DEF IsSequence
<1> QED
  BY <1>2, FS_Interval

\* What the sampling between the stages keeps are prefixes.
LEMMA SampleIsPrefix ==
  ASSUME Typed, StartAgentStage
  PROVE  /\ \A n \in DOMAIN matched' : n \in DOMAIN matched /\ matched'[n] = matched[n]
         /\ \A n \in DOMAIN exceptions' :
              n \in DOMAIN exceptions /\ exceptions'[n] = exceptions[n]
<1>1. CASE IsDemo
  <2> DEFINE want == AgentWant(batch.sample, Len(queue))
  <2>1. Len(queue) \in Nat /\ batch.sample \in Nat
    BY Sequences, LenProperties DEF Typed
  <2>2. want \in Nat
    BY <2>1, AgentWantBounds
  <2>3. matched' = Take(matched, batch.sample - want) /\ exceptions' = <<>>
    BY <1>1 DEF StartAgentStage
  <2> HIDE DEF want
  <2>4. batch.sample - want \in Int
    BY <2>1, <2>2
  <2> QED
    BY <2>3, <2>4, TakePrefix DEF Typed
<1>2. CASE ~IsDemo
  BY <1>2 DEF StartAgentStage
<1> QED
  BY <1>1, <1>2

\* A decision is in one of the two lists.
LEMMA DecisionIsListed ==
  ASSUME Typed, NEW n \in DOMAIN Decisions
  PROVE  \/ \E m \in DOMAIN matched : Decisions[n] = matched[m]
         \/ \E m \in DOMAIN exceptions : Decisions[n] = exceptions[m]
<1>1. /\ Len(matched) \in Nat /\ DOMAIN matched = 1..Len(matched)
      /\ Len(exceptions) \in Nat /\ DOMAIN exceptions = 1..Len(exceptions)
  BY LenProperties DEF Typed
<1>2. /\ DOMAIN Decisions = 1..(Len(matched) + Len(exceptions))
      /\ \A m \in 1..(Len(matched) + Len(exceptions)) :
           Decisions[m] = IF m <= Len(matched) THEN matched[m]
                          ELSE exceptions[m - Len(matched)]
  BY <1>1, ConcatProperties, LenProperties DEF Typed, Decisions
<1>3. CASE n <= Len(matched)
  BY <1>1, <1>2, <1>3
<1>4. CASE ~(n <= Len(matched))
  <2>1. n - Len(matched) \in DOMAIN exceptions
    BY <1>1, <1>2, <1>4
  <2> QED
    BY <1>2, <1>4, <2>1
<1> QED
  BY <1>3, <1>4

\* What the deterministic stage does with the next record.
LEMMA ResolveOutcomes ==
  ASSUME Typed, Resolve
  PROVE  \/ \E d \in Decision : /\ d.txn = gateway[next].txn
                                /\ matched' = Append(matched, d)
                                /\ UNCHANGED <<exceptions, queue>>
         \/ \E d \in Decision : /\ d.txn = gateway[next].txn
                                /\ exceptions' = Append(exceptions, d)
                                /\ UNCHANGED <<matched, queue>>
         \/ queue' = Append(queue, next) /\ UNCHANGED <<matched, exceptions>>
<1> DEFINE explanations == Explanations(gateway[next], bank, pool, batch.window)
           chosen == UNION explanations
           utrs == {bank[k].utr : k \in chosen}
           found == Matched(next, utrs, chosen, "deterministic", "none")
           ambiguous == Exception(next, "AMBIGUOUS_MULTIPLE_CANDIDATES")
<1>1. next \in DOMAIN gateway
  BY Sequences DEF Resolve, Typed
<1>2. chosen \subseteq pool
  BY ExplainedFromPool
<1>3. found \in Decision /\ found.txn = gateway[next].txn
  BY <1>1, <1>2, MatchedType DEF Typed, Utrs, Matched
<1>4. ambiguous \in Decision /\ ambiguous.txn = gateway[next].txn
  BY <1>1, ExceptionType DEF ALL_TYPES, Exception
<1>5. \/ matched' = Append(matched, found) /\ UNCHANGED <<exceptions, queue>>
      \/ exceptions' = Append(exceptions, ambiguous) /\ UNCHANGED <<matched, queue>>
      \/ queue' = Append(queue, next) /\ UNCHANGED <<matched, exceptions>>
  BY DEF Resolve
<1> HIDE DEF found, ambiguous
<1> QED
  BY <1>3, <1>4, <1>5

\* A set of positions has a last one: the smallest of the sets of later ones is
\* empty.
LEMMA MaxExists ==
  ASSUME NEW n \in Nat, NEW S \in SUBSET (1..n), S # {}
  PROVE  \E x \in S : \A y \in S : x >= y
<1> DEFINE later(x) == {y \in S : y > x}
           T == {later(x) : x \in S}
<1>1. IsFiniteSet(S)
  <2>1. IsFiniteSet(1..n)
    BY FS_Interval
  <2> QED
    BY <2>1, FS_Subset
<1>2. T \in SUBSET (SUBSET S) /\ T # {}
  OBVIOUS
<1> HIDE DEF T
<1>3. PICK s \in T : \A r \in SUBSET s : r # s => r \notin T
  BY <1>1, <1>2, SmallestSet
<1>4. PICK x \in S : s = later(x)
  BY DEF T
<1>5. ASSUME NEW y \in s PROVE FALSE
  <2>1. /\ y \in S /\ y > x /\ x \in Int /\ y \in Int
        /\ \A z \in S : z \in Int
    BY <1>4
  <2>2. later(y) \in SUBSET s /\ y \notin later(y)
    <3>1. \A z \in later(y) : z \in S /\ z > x /\ z # y
      BY <2>1
    <3>2. \A z \in S : z > x => z \in s
      BY <1>4
    <3> QED
      BY <3>1, <3>2
  <2>3. later(y) \in T
    BY <2>1 DEF T
  <2> QED
    BY <1>3, <1>5, <2>2, <2>3
<1> QED
  BY <1>4, <1>5

\* build_demo_sample (api/jobs.py) keeps to the size it was asked for, and
\* keeps a record for the agent whenever one is waiting.
THEOREM SampleKeepsToSize == Spec => DemoSample
<1>1. Typed /\ [Next]_vars =>
        [phase = "deterministic" /\ phase' = "agent" /\ IsDemo =>
           /\ Len(matched') + Len(exceptions') + Len(queue') <= batch.sample
           /\ queue # <<>> => queue' # <<>>]_vars
  <2> SUFFICES ASSUME Typed, Next, phase = "deterministic", phase' = "agent", IsDemo
               PROVE  /\ Len(matched') + Len(exceptions') + Len(queue') <= batch.sample
                      /\ queue # <<>> => queue' # <<>>
    OBVIOUS
  <2> DEFINE want == AgentWant(batch.sample, Len(queue))
  <2>1. StartAgentStage
    BY DEF Next, Answer, ValidateInput, Resolve, Continue, ProposeMatch,
           ReportException, AgentRaises, Finish, Asking
  <2>2. /\ queue' = Take(queue, want) /\ matched' = Take(matched, batch.sample - want)
        /\ exceptions' = <<>>
    BY <2>1 DEF StartAgentStage
  <2>3. /\ Len(queue) \in Nat /\ batch.sample \in Nat /\ batch.sample > 0
        /\ queue # <<>> => Len(queue) > 0
    BY Sequences, LenProperties, EmptySeq DEF Typed, IsDemo
  <2>4. /\ want \in Nat /\ want <= batch.sample
        /\ queue # <<>> => want > 0
    BY <2>3, AgentWantBounds
  <2> HIDE DEF want
  <2>5. batch.sample - want \in Nat
    BY <2>3, <2>4
  <2>6. /\ Len(queue') <= want /\ Len(queue') \in Nat
        /\ queue # <<>> => queue' # <<>>
    BY <2>2, <2>4, TakePrefix, LenProperties DEF Typed
  <2>7. Len(matched') <= batch.sample - want /\ Len(matched') \in Nat
    BY <2>2, <2>5, TakePrefix, LenProperties DEF Typed
  <2>8. Len(exceptions') = 0
    BY <2>2, EmptySeq
  <2> QED
    BY <2>3, <2>4, <2>6, <2>7, <2>8
<1>2. Init => Typed
  BY InitTyped
<1>3. Typed /\ [Next]_vars => Typed'
  BY NextTyped
<1> QED
  BY <1>1, <1>2, <1>3, PTL DEF Spec, DemoSample

-----------------------------------------------------------------------------
(* No settlement row supports two matches.                                 *)

\* A match that takes rows of the pool, and takes them out of it.
LEMMA ClaimKeepsDisjoint ==
  ASSUME Typed, DisjointClaims, UNCHANGED batch, NEW d \in Decision, NEW utrs,
         d.checked \subseteq pool,
         \A k \in d.checked : bank[k].utr \in utrs,
         matched' = Append(matched, d), pool' = Without(pool, utrs)
  PROVE  DisjointClaims'
<1>1. pool' \subseteq pool /\ d.checked \cap pool' = {}
  BY ClaimLeavesPool
<1>2. /\ DOMAIN matched = 1..Len(matched) /\ Len(matched) \in Nat
      /\ DOMAIN matched' = 1..(Len(matched) + 1)
      /\ \A n \in 1..Len(matched) : matched'[n] = matched[n]
      /\ matched'[Len(matched) + 1] = d
  BY LenProperties DEF Typed
<1>3. \A n \in 1..(Len(matched) + 1) : n \in 1..Len(matched) \/ n = Len(matched) + 1
  BY <1>2
<1>4. \A n \in 1..Len(matched) :
        matched[n].checked \cap pool = {} /\ matched[n].checked \cap d.checked = {}
  BY <1>2 DEF DisjointClaims
<1>5. \A n \in DOMAIN matched' : matched'[n].checked \cap pool' = {}
  BY <1>1, <1>2, <1>3, <1>4
<1>6. \A m, n \in DOMAIN matched' :
        m # n => matched'[m].checked \cap matched'[n].checked = {}
  BY <1>2, <1>3, <1>4 DEF DisjointClaims
<1> QED
  BY <1>5, <1>6 DEF DisjointClaims

LEMMA NextDisjoint ==
  Typed /\ DisjointClaims /\ [Next]_vars => DisjointClaims'
<1> SUFFICES ASSUME Typed, DisjointClaims, [Next]_vars PROVE DisjointClaims'
  OBVIOUS
<1>1. ASSUME UNCHANGED <<matched, pool>> PROVE DisjointClaims'
  BY <1>1 DEF DisjointClaims
<1>2. CASE UNCHANGED vars
  BY <1>1, <1>2 DEF vars
<1>3. CASE ValidateInput
  BY <1>1, <1>3 DEF ValidateInput
<1>4. CASE Resolve
  <2> DEFINE explanations == Explanations(gateway[next], bank, pool, batch.window)
             chosen == UNION explanations
             utrs == {bank[k].utr : k \in chosen}
             new == Matched(next, utrs, chosen, "deterministic", "none")
  <2>1. CASE matched' = Append(matched, new) /\ pool' = Without(pool, utrs)
    <3>1. chosen \subseteq pool
      BY ExplainedFromPool
    <3>2. next \in DOMAIN gateway
      BY <1>4, Sequences DEF Resolve, Typed
    <3>3. new \in Decision
      BY <3>1, <3>2, MatchedType DEF Typed, Utrs
    <3>4. new.checked = chosen
      BY DEF Matched
    <3>5. \A k \in chosen : bank[k].utr \in utrs
      OBVIOUS
    <3>6. UNCHANGED batch
      BY <1>4 DEF Resolve
    <3> HIDE DEF new, utrs, chosen
    <3> QED
      BY <2>1, <3>1, <3>3, <3>4, <3>5, <3>6, ClaimKeepsDisjoint
  <2>2. CASE UNCHANGED <<matched, pool>>
    BY <1>1, <2>2
  <2> QED
    BY <1>4, <2>1, <2>2 DEF Resolve
<1>5. CASE StartAgentStage
  <2>1. pool' = pool
    BY <1>5 DEF StartAgentStage
  <2>2. \A n \in DOMAIN matched' : n \in DOMAIN matched /\ matched'[n] = matched[n]
    BY <1>5, SampleIsPrefix
  <2> QED
    BY <2>1, <2>2 DEF DisjointClaims
<1>6. CASE Continue
  BY <1>1, <1>6 DEF Continue
<1>7. CASE ProposeMatch
  <2>1. PICK utrs \in SUBSET (Utrs \cup Invented),
             verifier \in {"deterministic", "llm"} :
          \/ Accepts(utrs, verifier) \/ Rejects
    BY <1>7, ProposeMatchOutcomes
  <2>2. CASE Accepts(utrs, verifier)
    <3> DEFINE new == Matched(Head(queue), utrs, Proposed(utrs), "agent_verified",
                       verifier)
    <3>1. UNCHANGED batch /\ Head(queue) \in DOMAIN gateway
      BY <1>7, HeadOfQueue DEF ProposeMatch, Asking, Settle
    <3>2. Proposed(utrs) \subseteq pool
          /\ \A k \in Proposed(utrs) : bank[k].utr \in utrs
      BY DEF Proposed
    <3>3. new \in Decision
      BY <3>1, <3>2, MatchedType DEF Typed
    <3>4. new.checked = Proposed(utrs)
      BY DEF Matched
    <3>5. matched' = Append(matched, new) /\ pool' = Without(pool, utrs)
      BY <2>2 DEF Accepts
    <3> HIDE DEF new
    <3> QED
      BY <3>1, <3>2, <3>3, <3>4, <3>5, ClaimKeepsDisjoint
  <2>3. CASE Rejects
    BY <1>1, <2>3 DEF Rejects
  <2> QED
    BY <2>1, <2>2, <2>3
<1>8. CASE ReportException
  BY <1>1, <1>8 DEF ReportException
<1>9. CASE AgentRaises
  BY <1>1, <1>9 DEF AgentRaises
<1>10. CASE Finish
  BY <1>1, <1>10 DEF Finish
<1> QED
  BY <1>2, <1>3, <1>4, <1>5, <1>6, <1>7, <1>8, <1>9, <1>10 DEF Next, Answer

\* run_deterministic_stage and run_agent_stage never let one settlement row
\* support two matches, whatever the LLM proposes: the rows a match was checked
\* against were free, and stay out of the pool for good.
THEOREM ClaimsAreDisjoint == Spec => []DisjointClaims
<1>1. Init => Typed /\ DisjointClaims
  BY InitTyped DEF Init, DisjointClaims
<1>2. Typed /\ DisjointClaims /\ [Next]_vars => Typed' /\ DisjointClaims'
  BY NextTyped, NextDisjoint
<1> QED
  BY <1>1, <1>2, PTL DEF Spec
-----------------------------------------------------------------------------
(* What a decision rests on.                                               *)

\* The grounds of match d of the record at position i of batch b, while the
\* rows of free are unclaimed: what the stage that made it checked.
Grounds(b, d, i, free) ==
  LET g == b.gateway[i]
      total == Total(b.bank, d.checked)
  IN  /\ d.txn = g.txn
      /\ d.status = "matched"
      /\ d.checked # {}
      /\ d.method = "agent_verified" =>
           /\ total <= g.net + AMOUNT_EPSILON
           /\ ~GrossMismatch(g.net, total)
           /\ \A k \in d.checked : b.bank[k].date >= g.date
      /\ "deterministic" \in {d.method, d.verifier} =>
           /\ Near(total, g.net)
           /\ \E k \in d.checked : Mentions(g, b.bank[k])
      /\ d.method = "deterministic" =>
           Explanations(g, b.bank, free \cup d.checked, b.window) = {d.checked}

LEMMA RivalsOnlyLeave ==
  ASSUME NEW g, NEW statement, NEW window, NEW free, NEW fewer,
         fewer \subseteq free,
         \A ks \in Explanations(g, statement, free, window) : ks \subseteq fewer
  PROVE  Explanations(g, statement, fewer, window)
           = Explanations(g, statement, free, window)
<1> DEFINE dated(rows) == Dated(g, statement, rows, window)
           exact(n, rows) == {ks \in kSubset(n, dated(rows)) : Near(Total(statement, ks), g.net)}
<1>1. \A rows : Explanations(g, statement, rows, window)
                  = IF exact(1, rows) # {} THEN exact(1, rows) ELSE exact(2, rows)
  BY DEF Explanations
<1>2. /\ exact(1, fewer) = {ks \in exact(1, free) : ks \subseteq fewer}
      /\ exact(2, fewer) = {ks \in exact(2, free) : ks \subseteq fewer}
  BY DEF Dated, kSubset
<1> HIDE DEF exact
<1>3. CASE exact(1, free) # {}
  <2>1. Explanations(g, statement, free, window) = exact(1, free)
    BY <1>1, <1>3
  <2>2. exact(1, fewer) = exact(1, free)
    BY <1>2, <2>1
  <2> QED
    BY <1>1, <1>3, <2>1, <2>2
<1>4. CASE exact(1, free) = {}
  <2>1. Explanations(g, statement, free, window) = exact(2, free)
    BY <1>1, <1>4
  <2>2. exact(1, fewer) = {}
    BY <1>2, <1>4
  <2>3. exact(2, fewer) = exact(2, free)
    BY <1>2, <2>1
  <2> QED
    BY <1>1, <2>1, <2>2, <2>3
<1> QED
  BY <1>3, <1>4

LEMMA FewerRivals ==
  ASSUME NEW b, NEW d, NEW i, NEW free, NEW fewer \in SUBSET free,
         Grounds(b, d, i, free)
  PROVE  Grounds(b, d, i, fewer)
<1>1. CASE d.method = "deterministic"
  <2>1. fewer \cup d.checked \subseteq free \cup d.checked
        /\ d.checked \subseteq fewer \cup d.checked
    OBVIOUS
  <2>2. Explanations(b.gateway[i], b.bank, free \cup d.checked, b.window) = {d.checked}
    BY <1>1 DEF Grounds
  <2>3. Explanations(b.gateway[i], b.bank, fewer \cup d.checked, b.window) = {d.checked}
    BY <2>1, <2>2, RivalsOnlyLeave
  <2> QED
    BY <2>3 DEF Grounds
<1>2. CASE d.method # "deterministic"
  BY <1>2 DEF Grounds
<1> QED
  BY <1>1, <1>2

LEMMA SoleExplanation ==
  ASSUME NEW g, NEW statement, NEW window, NEW free, IsFiniteSet(free),
         Resolution(Explanations(g, statement, free, window)) = "matched",
         NEW chosen, chosen = UNION Explanations(g, statement, free, window)
  PROVE  /\ Explanations(g, statement, free, window) = {chosen}
         /\ chosen \subseteq free
         /\ Near(Total(statement, chosen), g.net)
         /\ \E k \in chosen : Mentions(g, statement[k])
<1> DEFINE E == Explanations(g, statement, free, window)
<1>1. E \in SUBSET SUBSET free
  BY DEF Explanations, Dated, kSubset
<1>2. IsFiniteSet(E)
  BY <1>1, FS_SUBSET, FS_Subset
<1>3. Cardinality(E) = 1
  BY DEF Resolution
<1>4. PICK c : E = {c}
  BY <1>2, <1>3, FS_Singleton
<1>5. chosen = c /\ c \in E
  BY <1>4
<1>6. /\ Near(Total(statement, c), g.net)
      /\ Cardinality(c) \in {1, 2}
      /\ \A k \in c : Mentions(g, statement[k])
  BY <1>5 DEF Explanations, Dated, kSubset
<1>7. c # {}
  BY <1>6, FS_EmptySet
<1> QED
  BY <1>1, <1>4, <1>5, <1>6, <1>7

LEMMA AcceptedProposal ==
  ASSUME NEW g, NEW statement, NEW ks, NEW answer,
         Verdict(g, statement, ks, answer).accepted,
         IsFiniteSet(ks), g.net \in Int, g.date \in Int,
         \A k \in ks : statement[k].amount \in Int /\ statement[k].date \in Int
  PROVE  /\ ks # {}
         /\ Total(statement, ks) <= g.net + AMOUNT_EPSILON
         /\ ~GrossMismatch(g.net, Total(statement, ks))
         /\ \A k \in ks : statement[k].date >= g.date
         /\ Verdict(g, statement, ks, answer).method = "deterministic" =>
              /\ Near(Total(statement, ks), g.net)
              /\ \E k \in ks : Mentions(g, statement[k])
<1> DEFINE total == Total(statement, ks)
           precheck == Precheck(g, statement, ks)
           confirmed == Near(total, g.net) /\ \E k \in ks : Mentions(g, statement[k])
<1>1. total \in Int
  BY TotalIsInt
<1>2. ks # {} /\ precheck \in {"accept", "ask"}
  BY DEF Verdict, Precheck
<1>3. Verdict(g, statement, ks, answer).method = "deterministic" => precheck = "accept"
  BY <1>2 DEF Verdict
<1>4. /\ ~OutOfWindow(g, statement, ks)
      /\ ~(total > g.net + AMOUNT_EPSILON)
      /\ precheck = "accept" => confirmed
      /\ precheck = "ask" => ~GrossMismatch(g.net, total)
  BY <1>2 DEF Precheck
<1> HIDE DEF total, precheck
<1>5. total <= g.net + AMOUNT_EPSILON
  BY <1>1, <1>4 DEF AMOUNT_EPSILON
<1>6. confirmed => ~GrossMismatch(g.net, total)
  BY <1>1 DEF Near, GrossMismatch, AMOUNT_EPSILON, GROSS_MISMATCH_ABSOLUTE_FLOOR
<1>7. \A k \in ks : statement[k].date >= g.date
  BY <1>4 DEF OutOfWindow, Within, VERIFIER_WINDOW_DAYS
<1> QED
  BY <1>2, <1>3, <1>4, <1>5, <1>6, <1>7 DEF total

\* What is known of every decision: a match rests on its grounds, and the stages
\* only run on valid input, where a transaction has one position.
Justified ==
  /\ phase \notin {"validate", "raised"} => ValidInput
  /\ \A n \in DOMAIN matched :
       /\ ValidInput
       /\ \E i \in DOMAIN gateway : Grounds(batch, matched[n], i, pool)
  /\ \A n \in DOMAIN exceptions : exceptions[n].status = "exception"

LEMMA Appended ==
  ASSUME NEW S, NEW seq \in Seq(S), NEW d \in S
  PROVE  /\ DOMAIN Append(seq, d) = 1..(Len(seq) + 1)
         /\ \A n \in 1..Len(seq) : Append(seq, d)[n] = seq[n]
         /\ Append(seq, d)[Len(seq) + 1] = d
         /\ \A n \in DOMAIN Append(seq, d) :
              \/ n \in DOMAIN seq /\ Append(seq, d)[n] = seq[n]
              \/ n = Len(seq) + 1 /\ Append(seq, d)[n] = d
BY LenProperties

LEMMA StillJustified ==
  ASSUME Justified, UNCHANGED batch, pool' \subseteq pool,
         phase' \notin {"validate", "raised"} => ValidInput,
         \A n \in DOMAIN matched' :
           \/ \E m \in DOMAIN matched : matched'[n] = matched[m]
           \/ /\ ValidInput
              /\ \E i \in DOMAIN gateway : Grounds(batch, matched'[n], i, pool'),
         \A n \in DOMAIN exceptions' :
           \/ \E m \in DOMAIN exceptions : exceptions'[n] = exceptions[m]
           \/ exceptions'[n].status = "exception"
  PROVE  Justified'
<1>1. /\ batch' = batch /\ gateway' = gateway
      /\ ValidInput' <=> ValidInput
  BY SameBatch DEF ValidInput
<1>2. \A n \in DOMAIN matched' :
        /\ ValidInput
        /\ \E i \in DOMAIN gateway : Grounds(batch, matched'[n], i, pool')
  <2> SUFFICES ASSUME NEW n \in DOMAIN matched', NEW m \in DOMAIN matched,
                      matched'[n] = matched[m]
               PROVE  /\ ValidInput
                      /\ \E i \in DOMAIN gateway : Grounds(batch, matched'[n], i, pool')
    OBVIOUS
  <2>1. PICK i \in DOMAIN gateway : Grounds(batch, matched[m], i, pool)
    BY DEF Justified
  <2>2. Grounds(batch, matched[m], i, pool')
    BY <2>1, FewerRivals
  <2> QED
    BY <2>2 DEF Justified
<1>3. \A n \in DOMAIN exceptions' : exceptions'[n].status = "exception"
  BY DEF Justified
<1> QED
  BY <1>1, <1>2, <1>3 DEF Justified

LEMMA InitJustified == Init => Justified
<1> SUFFICES ASSUME Init PROVE Justified
  OBVIOUS
<1>1. DOMAIN matched = {} /\ DOMAIN exceptions = {}
  BY DEF Init
<1> QED
  BY <1>1 DEF Init, Justified

\* A proposal the verifier accepts is grounded, whatever the LLM answered.
LEMMA ProposalGrounds ==
  ASSUME Typed, NEW i \in DOMAIN gateway, NEW utrs, NEW answer,
         Verdict(gateway[i], bank, Proposed(utrs), answer).accepted, NEW free
  PROVE  Grounds(batch, Matched(i, utrs, Proposed(utrs), "agent_verified",
                   Verdict(gateway[i], bank, Proposed(utrs), answer).method), i, free)
<1> DEFINE ks == Proposed(utrs)
           method == Verdict(gateway[i], bank, ks, answer).method
           new == Matched(i, utrs, ks, "agent_verified", method)
<1>1. ks \subseteq DOMAIN bank
  BY DEF Proposed, Typed
<1>2. IsFiniteSet(ks)
  BY <1>1, FiniteBank, FS_Subset
<1>3. /\ gateway[i].net \in Int /\ gateway[i].date \in Int
      /\ \A k \in ks : bank[k].amount \in Int /\ bank[k].date \in Int
  BY <1>1, BatchAssumption DEF Typed, gateway, bank
<1>4. /\ ks # {}
      /\ Total(bank, ks) <= gateway[i].net + AMOUNT_EPSILON
      /\ ~GrossMismatch(gateway[i].net, Total(bank, ks))
      /\ \A k \in ks : bank[k].date >= gateway[i].date
      /\ method = "deterministic" =>
           /\ Near(Total(bank, ks), gateway[i].net)
           /\ \E k \in ks : Mentions(gateway[i], bank[k])
  <2> DEFINE g == gateway[i]
  <2>1. /\ Verdict(g, bank, ks, answer).accepted
        /\ g.net \in Int /\ g.date \in Int
    BY <1>3
  <2> HIDE DEF g, ks
  <2> QED
    BY <1>2, <1>3, <2>1, AcceptedProposal DEF g
<1>5. /\ new.txn = gateway[i].txn /\ new.status = "matched" /\ new.checked = ks
      /\ new.method = "agent_verified" /\ new.verifier = method
  BY DEF Matched
<1> HIDE DEF ks, method, new
<1>6. Grounds(batch, new, i, free)
  BY <1>4, <1>5 DEF Grounds, gateway, bank
<1> QED
  BY <1>6 DEF ks, method, new

LEMMA NextJustified == Typed /\ Justified /\ [Next]_vars => Justified'
<1> SUFFICES ASSUME Typed, Justified, [Next]_vars PROVE Justified'
  OBVIOUS
<1>1. ASSUME UNCHANGED <<batch, matched, exceptions, pool>>,
             phase' \notin {"validate", "raised"} => ValidInput
      PROVE  Justified'
  BY <1>1, StillJustified
<1>2. ASSUME UNCHANGED <<batch, phase, matched, pool>>, phase = "agent",
             NEW i \in DOMAIN gateway, NEW type \in ALL_TYPES \cup AgentTypes,
             exceptions' = Append(exceptions, Exception(i, type))
      PROVE  Justified'
  <2>1. Exception(i, type) \in Decision /\ Exception(i, type).status = "exception"
    BY ExceptionType DEF Exception
  <2>2. \A n \in DOMAIN exceptions' :
          \/ \E m \in DOMAIN exceptions : exceptions'[n] = exceptions[m]
          \/ exceptions'[n].status = "exception"
    BY <1>2, <2>1, Appended DEF Typed
  <2>3. phase' \notin {"validate", "raised"} => ValidInput
    BY <1>2 DEF Justified
  <2> QED
    BY <1>2, <2>2, <2>3, StillJustified
<1>3. CASE UNCHANGED vars
  BY <1>1, <1>3 DEF vars, Justified
<1>4. CASE ValidateInput
  BY <1>1, <1>4 DEF ValidateInput
<1>5. CASE Resolve
  <2> DEFINE explanations == Explanations(gateway[next], bank, pool, batch.window)
             chosen == UNION explanations
             utrs == {bank[k].utr : k \in chosen}
             new == Matched(next, utrs, chosen, "deterministic", "none")
  <2>1. /\ next \in DOMAIN gateway /\ UNCHANGED <<batch, phase>>
        /\ phase = "deterministic" /\ ValidInput
    BY <1>5, Sequences DEF Resolve, Typed, Justified
  <2>2. CASE /\ Resolution(explanations) = "matched"
             /\ matched' = Append(matched, new) /\ pool' = Without(pool, utrs)
             /\ UNCHANGED exceptions
    <3>1. IsFiniteSet(pool)
      BY FiniteBank, FS_Subset DEF Typed
    <3>2. /\ explanations = {chosen} /\ chosen \subseteq pool
          /\ Near(Total(bank, chosen), gateway[next].net)
          /\ \E k \in chosen : Mentions(gateway[next], bank[k])
      <4> DEFINE g == gateway[next]
                 window == batch.window
      <4>1. Resolution(Explanations(g, bank, pool, window)) = "matched"
        BY <2>2
      <4>2. chosen = UNION Explanations(g, bank, pool, window)
        OBVIOUS
      <4>3. explanations = Explanations(g, bank, pool, window)
        OBVIOUS
      <4> HIDE DEF g, window, chosen, explanations
      <4> QED
        BY <3>1, <4>1, <4>2, <4>3, SoleExplanation DEF g
    <3>3. pool' \subseteq pool
      BY <2>2 DEF Without
    <3>4. Explanations(gateway[next], bank, pool' \cup chosen, batch.window) = {chosen}
      BY <3>2, <3>3, RivalsOnlyLeave
    <3>5. /\ new.txn = gateway[next].txn /\ new.status = "matched"
          /\ new.checked = chosen
          /\ new.method = "deterministic" /\ new.verifier = "none"
      BY DEF Matched
    <3>6. new \in Decision
      BY <2>1, <3>2, MatchedType DEF Typed, Utrs
    <3> HIDE DEF explanations, chosen, utrs, new
    <3>7. Grounds(batch, new, next, pool')
      BY <3>2, <3>4, <3>5 DEF Grounds, gateway, bank
    <3>8. \A n \in DOMAIN matched' :
            \/ \E m \in DOMAIN matched : matched'[n] = matched[m]
            \/ /\ ValidInput
               /\ \E i \in DOMAIN gateway : Grounds(batch, matched'[n], i, pool')
      BY <2>1, <2>2, <3>6, <3>7, Appended DEF Typed
    <3> QED
      BY <2>1, <2>2, <3>3, <3>8, StillJustified
  <2>3. CASE /\ exceptions' = Append(exceptions,
                                Exception(next, "AMBIGUOUS_MULTIPLE_CANDIDATES"))
             /\ UNCHANGED <<matched, pool>>
    <3> DEFINE ambiguous == Exception(next, "AMBIGUOUS_MULTIPLE_CANDIDATES")
    <3>1. ambiguous \in Decision /\ ambiguous.status = "exception"
      BY <2>1, ExceptionType DEF ALL_TYPES, Exception
    <3> HIDE DEF ambiguous
    <3>2. \A n \in DOMAIN exceptions' :
            \/ \E m \in DOMAIN exceptions : exceptions'[n] = exceptions[m]
            \/ exceptions'[n].status = "exception"
      BY <2>3, <3>1, Appended DEF Typed, ambiguous
    <3> QED
      BY <2>1, <2>3, <3>2, StillJustified
  <2>4. CASE UNCHANGED <<matched, exceptions, pool>>
    BY <1>1, <2>1, <2>4
  <2> QED
    BY <1>5, <2>2, <2>3, <2>4 DEF Resolve
<1>6. CASE StartAgentStage
  <2>1. /\ UNCHANGED <<batch, pool>>
        /\ phase' \notin {"validate", "raised"} => ValidInput
    BY <1>6 DEF StartAgentStage, Justified
  <2>2. /\ \A n \in DOMAIN matched' : n \in DOMAIN matched /\ matched'[n] = matched[n]
        /\ \A n \in DOMAIN exceptions' :
             n \in DOMAIN exceptions /\ exceptions'[n] = exceptions[n]
    BY <1>6, SampleIsPrefix
  <2> QED
    BY <2>1, <2>2, StillJustified
<1>7. CASE Continue
  <2>1. CASE step + 1 < MAX_STEPS
    BY <1>1, <1>7, <2>1 DEF Continue, Justified
  <2>2. CASE ~(step + 1 < MAX_STEPS)
    <3>1. /\ exceptions' = Append(exceptions, Exception(Head(queue), "NO_CANDIDATE_FOUND"))
          /\ UNCHANGED <<batch, phase, matched, pool>> /\ phase = "agent"
          /\ queue # <<>>
      BY <1>7, <2>2 DEF Continue, Settle, Asking
    <3> QED
      BY <1>2, <3>1, HeadOfQueue DEF ALL_TYPES
  <2> QED
    BY <2>1, <2>2
<1>8. CASE ProposeMatch
  <2>1. /\ phase = "agent" /\ UNCHANGED <<batch, phase>>
        /\ Head(queue) \in DOMAIN gateway /\ ValidInput
    BY <1>8, HeadOfQueue DEF ProposeMatch, Settle, Asking, Justified
  <2>2. CASE Rejects
    BY <1>2, <2>1, <2>2 DEF Rejects, ALL_TYPES
  <2>3. CASE ~Rejects
    <3>1. PICK utrs \in SUBSET (Utrs \cup Invented), answer \in {"accept", "reject"} :
            /\ Verdict(gateway[Head(queue)], bank, Proposed(utrs), answer).accepted
            /\ Accepts(utrs,
                 Verdict(gateway[Head(queue)], bank, Proposed(utrs), answer).method)
      BY <1>8, <2>3, VerifiedProposal
    <3> DEFINE method == Verdict(gateway[Head(queue)], bank, Proposed(utrs), answer).method
               new == Matched(Head(queue), utrs, Proposed(utrs), "agent_verified", method)
    <3>2. Grounds(batch, new, Head(queue), pool')
      BY <2>1, <3>1, ProposalGrounds
    <3>3. new \in Decision
      <4>1. method \in {"deterministic", "llm"}
        BY VerdictMethod
      <4>2. Proposed(utrs) \in SUBSET DOMAIN bank
        BY DEF Proposed, Typed
      <4> HIDE DEF method
      <4> QED
        BY <2>1, <4>1, <4>2, MatchedType
    <3>4. /\ matched' = Append(matched, new)
          /\ pool' \subseteq pool /\ UNCHANGED exceptions
      BY <3>1 DEF Accepts, Without
    <3> HIDE DEF new
    <3>5. \A n \in DOMAIN matched' :
            \/ \E m \in DOMAIN matched : matched'[n] = matched[m]
            \/ /\ ValidInput
               /\ \E i \in DOMAIN gateway : Grounds(batch, matched'[n], i, pool')
      BY <2>1, <3>2, <3>3, <3>4, Appended DEF Typed
    <3> QED
      BY <2>1, <3>4, <3>5, StillJustified
  <2> QED
    BY <2>2, <2>3
<1>9. CASE ReportException
  <2>1. /\ queue # <<>> /\ UNCHANGED <<batch, phase, matched, pool>> /\ phase = "agent"
    BY <1>9 DEF ReportException, Settle, Asking
  <2>2. PICK type \in AgentTypes :
          exceptions' = Append(exceptions, Exception(Head(queue), type))
    BY <1>9 DEF ReportException
  <2> QED
    BY <1>2, <2>1, <2>2, HeadOfQueue
<1>10. CASE AgentRaises
  BY <1>1, <1>10 DEF AgentRaises
<1>11. CASE Finish
  BY <1>1, <1>11 DEF Finish, Justified
<1> QED
  BY <1>3, <1>4, <1>5, <1>6, <1>7, <1>8, <1>9, <1>10, <1>11 DEF Next, Answer

LEMMA InvariantJustified == Spec => [](Typed /\ Justified)
<1>1. Init => Typed /\ Justified
  BY InitTyped, InitJustified
<1>2. Typed /\ Justified /\ [Next]_vars => Typed' /\ Justified'
  BY NextTyped, NextJustified
<1> QED
  BY <1>1, <1>2, PTL DEF Spec

\* On valid input a transaction has one position.
LEMMA IndexOfDecision ==
  ASSUME ValidInput, NEW d, NEW i \in DOMAIN gateway, d.txn = gateway[i].txn
  PROVE  Index(d) = i
BY DEF Index, ValidInput, IsInjective

LEMMA MatchGrounds ==
  ASSUME Justified, NEW n \in DOMAIN matched
  PROVE  /\ Index(matched[n]) \in DOMAIN gateway
         /\ Grounds(batch, matched[n], Index(matched[n]), pool)
<1>1. PICK i \in DOMAIN gateway : Grounds(batch, matched[n], i, pool)
  BY DEF Justified
<1>2. Index(matched[n]) = i
  BY <1>1, IndexOfDecision DEF Justified, Grounds, gateway
<1> QED
  BY <1>1, <1>2

\* run_deterministic_stage takes a match only when one explanation is left in
\* the pool, and what later records claim can only remove rivals.
THEOREM NoRivals == Spec => []NoRivalExplanation
<1>1. Typed /\ Justified => NoRivalExplanation
  BY MatchGrounds DEF NoRivalExplanation, Grounds, gateway, bank
<1> QED
  BY <1>1, InvariantJustified, PTL

\* verify (agent/verifier.py): whatever the LLMs answer, an agent match never
\* pays out more than the transaction, leaves a gross gap or predates it.
THEOREM AgentIsPlausible == Spec => []AgentMatchesArePlausible
<1>1. Typed /\ Justified => AgentMatchesArePlausible
  BY MatchGrounds DEF AgentMatchesArePlausible, Grounds, gateway, bank
<1> QED
  BY <1>1, InvariantJustified, PTL

\* requires_human_review (agent/escalation.py): what it lets pass was matched,
\* exactly and by reference, by one of the two arithmetic tiers.
THEOREM UnreviewedAreExact == Spec => []UnreviewedIsExact
<1>1. Typed /\ Justified => UnreviewedIsExact
  <2> SUFFICES ASSUME Typed, Justified, NEW n \in DOMAIN Decisions,
                      NEW d, d = Decisions[n], NEW g, g = gateway[Index(d)],
                      ~RequiresHumanReview(d, g.net, batch.threshold)
               PROVE  /\ d.status = "matched"
                      /\ Near(Total(bank, d.checked), g.net)
                      /\ \E k \in d.checked : Mentions(g, bank[k])
    BY DEF UnreviewedIsExact
  <2>1. d.status = "matched" /\ "deterministic" \in {d.method, d.verifier}
    BY DEF RequiresHumanReview, Confidence
  <2>2. \/ \E m \in DOMAIN matched : d = matched[m]
        \/ \E m \in DOMAIN exceptions : d = exceptions[m]
    BY DecisionIsListed
  <2>3. PICK m \in DOMAIN matched : d = matched[m]
    BY <2>1, <2>2 DEF Justified
  <2>4. Grounds(batch, d, Index(d), pool)
    BY <2>3, MatchGrounds
  <2> QED
    BY <2>1, <2>4 DEF Grounds, gateway, bank
<1> QED
  BY <1>1, InvariantJustified, PTL

-----------------------------------------------------------------------------
(* Generated batches.                                                      *)

\* The least a bank row of a generated batch can hold: half of the least net.
least_row == 7323

\* A batch of the generator whose UTRs are told apart, and the truth and the
\* record at one of its positions.
Case(b, i, c, g) ==
  /\ b \in Batches /\ Generated(b)
  /\ \A k, l \in DOMAIN b.bank : b.bank[k].utr = b.bank[l].utr => k = l
  /\ i \in DOMAIN b.gateway
  /\ g = b.gateway[i] /\ c = b.truth[g.txn]

LEMMA CaseFacts ==
  ASSUME NEW b, NEW i, NEW c, NEW g, Case(b, i, c, g)
  PROVE  /\ c.mismatch_type \in COUNTS /\ c.utr # c.second
         /\ g.net \in Int /\ g.date \in Int /\ g.net >= least_net
         /\ {b.bank[k] : k \in RowsOf(b, i)} \in Rows(c, g)
         /\ Made(c) \cap b.orphans = {}
         /\ RowsOf(b, i) = {k \in DOMAIN b.bank : b.bank[k].utr \in Made(c)}
         /\ IsFiniteSet(DOMAIN b.bank)
         /\ \A k \in DOMAIN b.bank : b.bank[k].amount \in Int /\ b.bank[k].date \in Int
<1>1. /\ g.net \in Int /\ g.date \in Int
      /\ \A k \in DOMAIN b.bank : b.bank[k].amount \in Int /\ b.bank[k].date \in Int
  BY BatchAssumption DEF Case
<1>2. IsFiniteSet(DOMAIN b.bank)
  <2>1. IsSequence(b.bank)
    BY BatchAssumption DEF Case
  <2>2. Len(b.bank) \in Nat /\ DOMAIN b.bank = 1..Len(b.bank)
    BY <2>1, LenProperties DEF IsSequence
  <2> QED
    BY <2>2, FS_Interval
<1> QED
  BY <1>1, <1>2 DEF Case, Generated, RowsOf

\* What the rows of a transaction look like, by its kind.
LEMMA RowShapes ==
  ASSUME NEW b, NEW i, NEW c, NEW g, Case(b, i, c, g), NEW k \in RowsOf(b, i)
  PROVE  /\ b.bank[k].refs \subseteq {g.token}
         /\ b.bank[k].amount >= least_row
         /\ c.mismatch_type # "ORPHAN_GATEWAY"
         /\ c.mismatch_type \in {"CLEAN", "TIMING_LAG", "GARBLED_REF"} =>
              b.bank[k].utr = c.utr /\ b.bank[k].amount = g.net
         /\ c.mismatch_type = "FEE_DRIFT" => b.bank[k].amount \in (g.net - 4000)..(g.net - 500)
<1> DEFINE rows == {b.bank[n] : n \in RowsOf(b, i)}
<1> SUFFICES ASSUME NEW r, r = b.bank[k]
             PROVE  /\ r.refs \subseteq {g.token} /\ r.amount >= least_row
                    /\ c.mismatch_type # "ORPHAN_GATEWAY"
                    /\ c.mismatch_type \in {"CLEAN", "TIMING_LAG", "GARBLED_REF"} =>
                         r.utr = c.utr /\ r.amount = g.net
                    /\ c.mismatch_type = "FEE_DRIFT" => r.amount \in (g.net - 4000)..(g.net - 500)
  OBVIOUS
<1>1. g.net \in Int /\ g.net >= 14646 /\ c.mismatch_type \in COUNTS
  <2>1. g.net \in Int /\ g.net >= least_net /\ c.mismatch_type \in COUNTS
    BY CaseFacts
  <2> QED
    BY <2>1 DEF least_net
<1>2. rows \in Rows(c, g)
  BY CaseFacts
<1>3. r \in rows
  OBVIOUS
<1> HIDE DEF rows
<1>4. CASE c.mismatch_type = "CLEAN"
  BY <1>1, <1>2, <1>3, <1>4 DEF Rows, BankRecord, least_row
<1>5. CASE c.mismatch_type = "TIMING_LAG"
  <2>1. PICK days \in Lags : rows = {BankRecord(c.utr, g.net, g.date + days, {g.token})}
    BY <1>2, <1>5 DEF Rows
  <2>2. r.utr = c.utr /\ r.amount = g.net /\ r.refs = {g.token}
    BY <1>3, <2>1 DEF BankRecord
  <2> QED
    BY <1>1, <1>5, <2>2 DEF least_row
<1>6. CASE c.mismatch_type = "FEE_DRIFT"
  <2>1. PICK extra \in ExtraCharges : rows = {BankRecord(c.utr, g.net - extra, g.date, {g.token})}
    BY <1>2, <1>6 DEF Rows
  <2>2. r.amount = g.net - extra
    BY <1>3, <2>1 DEF BankRecord
  <2>3. r.refs = {g.token}
    BY <1>3, <2>1 DEF BankRecord
  <2>4. extra \in Int /\ 500 <= extra /\ extra <= 4000
    BY DrawAssumption
  <2>5. r.amount \in (g.net - 4000)..(g.net - 500)
    BY <1>1, <2>2, <2>4
  <2>6. r.amount >= 7323
    BY <1>1, <2>5
  <2> QED
    BY <1>6, <2>3, <2>5, <2>6 DEF least_row
<1>7. CASE c.mismatch_type = "GARBLED_REF"
  BY <1>1, <1>2, <1>3, <1>7 DEF Rows, BankRecord, Garbled, least_row
<1>8. CASE c.mismatch_type = "DUPLICATE"
  BY <1>1, <1>2, <1>3, <1>8 DEF Rows, BankRecord, least_row
<1>9. CASE c.mismatch_type = "SPLIT"
  <2>1. PICK part \in {g.net \div 2, g.net - g.net \div 2} :
          rows = {BankRecord(c.utr, part, g.date, {g.token}),
                  BankRecord(c.second, g.net - part, g.date, {g.token})}
    BY <1>2, <1>9 DEF Rows
  <2>2. part \in Int /\ part >= 7323 /\ g.net - part >= 7323
    BY <1>1, <2>1
  <2>3. r.refs = {g.token} /\ r.amount \in {part, g.net - part}
    BY <1>3, <2>1 DEF BankRecord
  <2> QED
    BY <1>9, <2>2, <2>3 DEF least_row
<1>10. CASE c.mismatch_type = "ORPHAN_GATEWAY"
  BY <1>2, <1>3, <1>10 DEF Rows
<1> QED
  BY <1>1, <1>4, <1>5, <1>6, <1>7, <1>8, <1>9, <1>10 DEF COUNTS

\* The two rows of a transaction that comes with two.
LEMMA TwoRows ==
  ASSUME NEW b, NEW i, NEW c, NEW g, Case(b, i, c, g),
         c.mismatch_type \in {"DUPLICATE", "SPLIT"}
  PROVE  \E k, l \in RowsOf(b, i) :
           /\ k # l /\ RowsOf(b, i) = {k, l}
           /\ b.bank[k].utr = c.utr /\ b.bank[l].utr = c.second
           /\ \A n \in {k, l} : b.bank[n].date = g.date /\ Mentions(g, b.bank[n])
           /\ c.mismatch_type = "DUPLICATE" =>
                b.bank[k].amount = g.net /\ b.bank[l].amount = g.net
           /\ c.mismatch_type = "SPLIT" => b.bank[k].amount + b.bank[l].amount = g.net
<1> DEFINE rows == {b.bank[n] : n \in RowsOf(b, i)}
<1>1. /\ rows \in Rows(c, g) /\ g.net \in Int /\ c.utr # c.second
      /\ RowsOf(b, i) \subseteq DOMAIN b.bank
  BY CaseFacts
<1> HIDE DEF rows
<1>2. PICK x \in Int, y \in Int :
        /\ BankRecord(c.utr, x, g.date, {g.token}) \in rows
        /\ BankRecord(c.second, y, g.date, {g.token}) \in rows
        /\ \A r \in rows : \/ r = BankRecord(c.utr, x, g.date, {g.token})
                           \/ r = BankRecord(c.second, y, g.date, {g.token})
        /\ c.mismatch_type = "DUPLICATE" => x = g.net /\ y = g.net
        /\ c.mismatch_type = "SPLIT" => x + y = g.net
  <2>1. CASE c.mismatch_type = "DUPLICATE"
    BY <1>1, <2>1 DEF Rows
  <2>2. CASE c.mismatch_type = "SPLIT"
    <3>1. PICK part \in {g.net \div 2, g.net - g.net \div 2} :
            rows = {BankRecord(c.utr, part, g.date, {g.token}),
                    BankRecord(c.second, g.net - part, g.date, {g.token})}
      BY <1>1, <2>2 DEF Rows
    <3>2. part \in Int /\ g.net - part \in Int /\ part + (g.net - part) = g.net
      BY <1>1
    <3> QED
      BY <2>2, <3>1, <3>2
  <2> QED
    BY <2>1, <2>2
<1> DEFINE first == BankRecord(c.utr, x, g.date, {g.token})
           last == BankRecord(c.second, y, g.date, {g.token})
<1>3. PICK k \in RowsOf(b, i), l \in RowsOf(b, i) : b.bank[k] = first /\ b.bank[l] = last
  <2>1. first \in rows /\ last \in rows
    BY <1>2
  <2> HIDE DEF first, last
  <2> QED
    BY <2>1 DEF rows
<1>4. /\ first.utr = c.utr /\ first.amount = x /\ first.date = g.date /\ first.refs = {g.token}
      /\ last.utr = c.second /\ last.amount = y /\ last.date = g.date /\ last.refs = {g.token}
  BY DEF BankRecord
<1> HIDE DEF first, last
<1>5. k # l
  BY <1>1, <1>3, <1>4
<1>6. ASSUME NEW n \in RowsOf(b, i) PROVE n \in {k, l}
  <2>1. b.bank[n] \in {first, last}
    BY <1>2 DEF rows, first, last
  <2>2. b.bank[n].utr = b.bank[k].utr \/ b.bank[n].utr = b.bank[l].utr
    BY <1>3, <2>1
  <2> QED
    BY <1>1, <2>2 DEF Case
<1>7. RowsOf(b, i) = {k, l}
  BY <1>6
<1> QED
  BY <1>2, <1>3, <1>4, <1>5, <1>7 DEF Mentions

\* Only a transaction's own rows mention its order.
LEMMA MentionsOwn ==
  ASSUME NEW b, NEW i, NEW c, NEW g, Case(b, i, c, g),
         NEW k \in DOMAIN b.bank, Mentions(g, b.bank[k])
  PROVE  k \in RowsOf(b, i)
<1>1. PICK j \in DOMAIN b.gateway : k \in RowsOf(b, j)
  BY DEF Case, Generated
<1> DEFINE h == b.gateway[j]
<1>2. Case(b, j, b.truth[h.txn], h)
  BY DEF Case
<1>3. b.bank[k].refs \subseteq {h.token}
  BY <1>1, <1>2, RowShapes
<1>4. g.token = h.token
  BY <1>3 DEF Mentions
<1> QED
  BY <1>1, <1>4 DEF Case, Generated

LEMMA LeastRow ==
  ASSUME NEW b, NEW i, NEW c, NEW g, Case(b, i, c, g), NEW k \in DOMAIN b.bank
  PROVE  b.bank[k].amount >= least_row
<1>1. CASE \E j \in DOMAIN b.gateway : k \in RowsOf(b, j)
  <2>1. PICK j \in DOMAIN b.gateway : k \in RowsOf(b, j)
    BY <1>1
  <2>2. Case(b, j, b.truth[b.gateway[j].txn], b.gateway[j])
    BY DEF Case
  <2> QED
    BY <2>1, <2>2, RowShapes
<1>2. CASE ~ \E j \in DOMAIN b.gateway : k \in RowsOf(b, j)
  <2>1. b.bank[k].amount >= 15000
    BY <1>2 DEF Case, Generated, least_amount
  <2>2. b.bank[k].amount \in Int
    BY CaseFacts
  <2> QED
    BY <2>1, <2>2 DEF least_row
<1> QED
  BY <1>1, <1>2

\* The two rows of a transaction, both free, are dated candidates.
LEMMA DatedRows ==
  ASSUME NEW b, NEW i, NEW c, NEW g, Case(b, i, c, g),
         NEW free \in SUBSET DOMAIN b.bank, NEW k \in free,
         b.bank[k].date = g.date, Mentions(g, b.bank[k])
  PROVE  k \in Dated(g, b.bank, free, b.window)
<1>1. b.window \in Nat /\ g.date \in Int
  BY CaseFacts DEF Case, Generated
<1>2. Within(g, b.bank[k], b.window)
  BY <1>1 DEF Within
<1> QED
  BY <1>2 DEF Dated

\* A settlement that was paid twice explains the amount twice.
LEMMA DuplicateIsAmbiguous ==
  ASSUME NEW b, NEW i, NEW c, NEW g, Case(b, i, c, g), c.mismatch_type = "DUPLICATE",
         NEW free \in SUBSET DOMAIN b.bank, RowsOf(b, i) \subseteq free
  PROVE  Resolution(Explanations(g, b.bank, free, b.window)) = "exception"
<1> DEFINE dated == Dated(g, b.bank, free, b.window)
           E == Explanations(g, b.bank, free, b.window)
           singles == {ks \in kSubset(1, dated) : Near(Total(b.bank, ks), g.net)}
<1>1. PICK k, l \in RowsOf(b, i) :
        /\ k # l
        /\ \A n \in {k, l} : b.bank[n].date = g.date /\ Mentions(g, b.bank[n])
        /\ b.bank[k].amount = g.net /\ b.bank[l].amount = g.net
  BY TwoRows
<1>2. g.net \in Int /\ IsFiniteSet(DOMAIN b.bank)
  BY CaseFacts
<1>3. ASSUME NEW n \in {k, l} PROVE {n} \in singles
  <2>1. n \in dated
    BY <1>1, DatedRows
  <2>2. Cardinality({n}) = 1
    BY FS_Singleton
  <2>3. Total(b.bank, {n}) = g.net
    BY <1>1, <1>2, TotalOfOne
  <2>4. Near(g.net, g.net)
    BY <1>2 DEF Near, AMOUNT_EPSILON
  <2> HIDE DEF dated
  <2> QED
    BY <2>1, <2>2, <2>3, <2>4 DEF kSubset
<1>4. E = singles
  BY <1>3 DEF Explanations
<1>5. IsFiniteSet(E)
  <2>1. E \in SUBSET (SUBSET DOMAIN b.bank)
    BY <1>4 DEF Dated, kSubset
  <2> HIDE DEF E
  <2>2. IsFiniteSet(SUBSET DOMAIN b.bank)
    BY <1>2, FS_SUBSET
  <2> QED
    BY <2>1, <2>2, FS_Subset
<1> HIDE DEF E, singles
<1>6. E # {} /\ ~ \E x : E = {x}
  BY <1>1, <1>3, <1>4
<1>7. Cardinality(E) # 1
  BY <1>5, <1>6, FS_Singleton
<1> QED
  BY <1>6, <1>7 DEF Resolution, E

\* The subsets of two records.
LEMMA SubsetsOfPair ==
  ASSUME NEW k, NEW l, k # l
  PROVE  /\ IsFiniteSet({k, l}) /\ Cardinality({k, l}) = 2
         /\ kSubset(1, {k, l}) = {{k}, {l}}
         /\ kSubset(2, {k, l}) = {{k, l}}
<1>1. /\ \A x : Cardinality({x}) = 1 /\ IsFiniteSet({x})
      /\ Cardinality({}) = 0
  BY FS_Singleton, FS_EmptySet
<1>2. IsFiniteSet({k, l}) /\ Cardinality({k, l}) = 2
  <2>1. {k, l} = {l} \cup {k} /\ k \notin {l}
    OBVIOUS
  <2>2. /\ IsFiniteSet({l} \cup {k})
        /\ Cardinality({l} \cup {k}) = Cardinality({l}) + 1
    BY <1>1, <2>1, FS_AddElement
  <2>3. Cardinality({l}) = 1
    BY <1>1
  <2>4. IsFiniteSet({k, l}) /\ Cardinality({k, l}) = Cardinality({l}) + 1
    BY <2>1, <2>2
  <2> QED
    BY <2>3, <2>4
<1>3. ASSUME NEW s \in SUBSET {k, l} PROVE s \in {{}, {k}, {l}, {k, l}}
  <2>1. CASE k \in s /\ l \in s
    <3>1. /\ \A x \in s : x \in {k, l}
          /\ \A x \in {k, l} : x \in s
      BY <2>1
    <3>2. s = {k, l}
      BY <3>1
    <3> QED
      BY <3>2
  <2>2. CASE k \in s /\ l \notin s
    <3>1. s = {k}
      BY <2>2
    <3> QED
      BY <3>1
  <2>3. CASE k \notin s /\ l \in s
    <3>1. s = {l}
      BY <2>3
    <3> QED
      BY <3>1
  <2>4. CASE k \notin s /\ l \notin s
    BY <2>4
  <2> QED
    BY <2>1, <2>2, <2>3, <2>4
<1>4. /\ {k} \in SUBSET {k, l} /\ {l} \in SUBSET {k, l} /\ {k, l} \in SUBSET {k, l}
      /\ Cardinality({k}) = 1 /\ Cardinality({l}) = 1
  BY <1>1
<1>5. kSubset(1, {k, l}) = {{k}, {l}}
  <2>1. ASSUME NEW s \in SUBSET {k, l}, Cardinality(s) = 1 PROVE s \in {{k}, {l}}
    BY <1>1, <1>2, <1>3, <2>1
  <2> QED
    BY <1>4, <2>1 DEF kSubset
<1>6. kSubset(2, {k, l}) = {{k, l}}
  <2>1. ASSUME NEW s \in SUBSET {k, l}, Cardinality(s) = 2 PROVE s = {k, l}
    <3>1. Cardinality({}) # 2 /\ Cardinality({k}) # 2 /\ Cardinality({l}) # 2
      <4>1. Cardinality({}) = 0 /\ Cardinality({k}) = 1 /\ Cardinality({l}) = 1
        BY <1>1
      <4> QED
        BY <4>1
    <3>2. s # {} /\ s # {k} /\ s # {l}
      BY <2>1, <3>1
    <3>3. s \in {{}, {k}, {l}, {k, l}}
      BY <1>3
    <3> QED
      BY <3>2, <3>3
  <2> QED
    BY <1>2, <1>4, <2>1 DEF kSubset
<1> QED
  BY <1>2, <1>5, <1>6

\* The one row of a transaction whose settlement came with nothing wrong but
\* its date.
LEMMA OneRow ==
  ASSUME NEW b, NEW i, NEW c, NEW g, Case(b, i, c, g),
         c.mismatch_type \in {"CLEAN", "TIMING_LAG"}
  PROVE  \E k \in DOMAIN b.bank :
           /\ RowsOf(b, i) = {k}
           /\ b.bank[k].utr = c.utr /\ b.bank[k].amount = g.net
           /\ Mentions(g, b.bank[k])
           /\ b.bank[k].date - g.date \in {0} \cup Lags
<1> DEFINE rows == {b.bank[n] : n \in RowsOf(b, i)}
<1>1. /\ rows \in Rows(c, g) /\ g.date \in Int
      /\ RowsOf(b, i) \subseteq DOMAIN b.bank
  BY CaseFacts
<1>2. Lags \subseteq Int
  BY DrawAssumption
<1> HIDE DEF rows
<1>3. PICK days \in {0} \cup Lags : rows = {BankRecord(c.utr, g.net, g.date + days, {g.token})}
  <2>1. CASE c.mismatch_type = "CLEAN"
    <3>1. rows = {BankRecord(c.utr, g.net, g.date, {g.token})}
      BY <1>1, <2>1 DEF Rows
    <3>2. g.date = g.date + 0
      BY <1>1
    <3> QED
      BY <3>1, <3>2
  <2>2. CASE c.mismatch_type = "TIMING_LAG"
    BY <1>1, <2>2 DEF Rows
  <2> QED
    BY <2>1, <2>2
<1> DEFINE row == BankRecord(c.utr, g.net, g.date + days, {g.token})
<1>4. row.utr = c.utr /\ row.amount = g.net /\ row.date = g.date + days /\ row.refs = {g.token}
  BY DEF BankRecord
<1> HIDE DEF row
<1>5. PICK k \in RowsOf(b, i) : b.bank[k] = row
  BY <1>3 DEF rows, row
<1>6. ASSUME NEW n \in RowsOf(b, i) PROVE n = k
  <2>1. b.bank[n] = row
    BY <1>3 DEF rows, row
  <2> QED
    BY <1>1, <1>5, <2>1 DEF Case
<1>7. (g.date + days) - g.date = days
  BY <1>1, <1>2
<1> QED
  BY <1>1, <1>4, <1>5, <1>6, <1>7 DEF Mentions

\* One sole explanation is a match of its rows.
LEMMA SoleExplanationMatches ==
  ASSUME NEW E, NEW ks, E = {ks}
  PROVE  Resolution(E) = "matched" /\ UNION E = ks
<1>1. Cardinality({ks}) = 1
  BY FS_Singleton
<1> QED
  BY <1>1 DEF Resolution

\* Free, and dated within the window, that row is the settlement found.
LEMMA OneRowIsResolved ==
  ASSUME NEW b, NEW i, NEW c, NEW g, Case(b, i, c, g),
         c.mismatch_type \in {"CLEAN", "TIMING_LAG"},
         \A days \in Lags : days <= b.window,
         NEW free \in SUBSET DOMAIN b.bank, RowsOf(b, i) \subseteq free,
         NEW E, E = Explanations(g, b.bank, free, b.window)
  PROVE  /\ Resolution(E) = "matched"
         /\ {b.bank[k].utr : k \in UNION E} = correct_settlement_utrs(c)
<1> DEFINE dated == Dated(g, b.bank, free, b.window)
<1>1. PICK k \in DOMAIN b.bank :
        /\ RowsOf(b, i) = {k}
        /\ b.bank[k].utr = c.utr /\ b.bank[k].amount = g.net
        /\ Mentions(g, b.bank[k])
        /\ b.bank[k].date - g.date \in {0} \cup Lags
  BY OneRow
<1>2. g.net \in Int /\ b.window \in Nat
  BY CaseFacts DEF Case, Generated
<1>3. Within(g, b.bank[k], b.window)
  <2>1. \A days \in {0} \cup Lags : days \in 0..b.window
    BY <1>2, DrawAssumption
  <2> QED
    BY <1>1, <2>1 DEF Within
<1>4. dated = {k}
  <2>1. k \in dated
    BY <1>1, <1>3 DEF Dated
  <2>2. ASSUME NEW n \in dated PROVE n \in {k}
    <3>1. n \in DOMAIN b.bank /\ Mentions(g, b.bank[n])
      BY DEF Dated
    <3> QED
      BY <1>1, <3>1, MentionsOwn
  <2> QED
    BY <2>1, <2>2
<1>5. kSubset(1, {k}) = {{k}}
  <2>1. Cardinality({k}) = 1 /\ Cardinality({}) = 0
    BY FS_Singleton, FS_EmptySet
  <2>2. SUBSET {k} = {{}, {k}}
    OBVIOUS
  <2> QED
    BY <2>1, <2>2 DEF kSubset
<1>6. Near(Total(b.bank, {k}), g.net)
  <2>1. Total(b.bank, {k}) = g.net
    BY <1>1, <1>2, TotalOfOne
  <2> QED
    BY <1>2, <2>1 DEF Near, AMOUNT_EPSILON
<1>7. E = {{k}}
  BY <1>4, <1>5, <1>6 DEF Explanations
<1>8. Resolution(E) = "matched" /\ UNION E = {k}
  BY <1>7, SoleExplanationMatches
<1>9. correct_settlement_utrs(c) = {c.utr}
  BY DEF correct_settlement_utrs, Made
<1> QED
  BY <1>1, <1>8, <1>9

\* So are the two parts of one, each too small to be it alone.
LEMMA SplitIsResolved ==
  ASSUME NEW b, NEW i, NEW c, NEW g, Case(b, i, c, g), c.mismatch_type = "SPLIT",
         NEW free \in SUBSET DOMAIN b.bank, RowsOf(b, i) \subseteq free,
         NEW E, E = Explanations(g, b.bank, free, b.window)
  PROVE  /\ Resolution(E) = "matched"
         /\ {b.bank[k].utr : k \in UNION E} = correct_settlement_utrs(c)
<1> DEFINE dated == Dated(g, b.bank, free, b.window)
           total(ks) == Total(b.bank, ks)
<1>1. PICK k, l \in RowsOf(b, i) :
        /\ k # l /\ RowsOf(b, i) = {k, l}
        /\ b.bank[k].utr = c.utr /\ b.bank[l].utr = c.second
        /\ \A n \in {k, l} : b.bank[n].date = g.date /\ Mentions(g, b.bank[n])
        /\ b.bank[k].amount + b.bank[l].amount = g.net
  BY TwoRows
<1>2. g.net \in Int /\ k \in DOMAIN b.bank /\ l \in DOMAIN b.bank
      /\ b.bank[k].amount \in Int /\ b.bank[l].amount \in Int
  BY CaseFacts
<1>3. b.bank[k].amount >= 7323 /\ b.bank[l].amount >= 7323
  BY <1>2, LeastRow DEF least_row
<1>4. dated = {k, l}
  <2>1. k \in dated /\ l \in dated
    BY <1>1, DatedRows
  <2>2. ASSUME NEW n \in dated PROVE n \in {k, l}
    <3>1. n \in DOMAIN b.bank /\ Mentions(g, b.bank[n])
      BY DEF Dated
    <3> QED
      BY <1>1, <3>1, MentionsOwn
  <2> QED
    BY <2>1, <2>2
<1>5. /\ kSubset(1, {k, l}) = {{k}, {l}} /\ kSubset(2, {k, l}) = {{k, l}}
      /\ IsFiniteSet({k, l})
  BY <1>1, SubsetsOfPair
<1>6. total({k}) = b.bank[k].amount /\ total({l}) = b.bank[l].amount
  BY <1>2, TotalOfOne
<1>7. total({k, l}) = g.net
  <2>1. k \in {k, l} /\ \A n \in {k, l} : b.bank[n].amount \in Int
    BY <1>2
  <2>2. {k, l} \ {k} = {l}
    BY <1>1
  <2>3. total({k, l}) = total({k, l} \ {k}) + b.bank[k].amount
    BY <1>5, <2>1, TotalWithout
  <2>4. total({k, l} \ {k}) = b.bank[l].amount
    BY <1>6, <2>2
  <2> HIDE DEF total
  <2>5. total({k, l}) = b.bank[l].amount + b.bank[k].amount
    BY <2>3, <2>4
  <2> QED
    BY <1>1, <1>2, <2>5
<1>8. ~Near(total({k}), g.net) /\ ~Near(total({l}), g.net) /\ Near(total({k, l}), g.net)
  <2> HIDE DEF total
  <2> QED
    BY <1>1, <1>2, <1>3, <1>6, <1>7 DEF Near, AMOUNT_EPSILON
<1>9. E = {{k, l}}
  <2>1. {ks \in kSubset(1, dated) : Near(total(ks), g.net)} = {}
    BY <1>4, <1>5, <1>8
  <2>2. {ks \in kSubset(2, dated) : Near(total(ks), g.net)} = {{k, l}}
    BY <1>4, <1>5, <1>8
  <2> QED
    BY <2>1, <2>2 DEF Explanations
<1>10. Resolution(E) = "matched" /\ UNION E = {k, l}
  BY <1>9, SoleExplanationMatches
<1>11. correct_settlement_utrs(c) = {c.utr, c.second}
  BY DEF correct_settlement_utrs, Made
<1> QED
  BY <1>1, <1>10, <1>11

\* What arithmetic and a reference support is the truth of the transaction, if
\* it did not come twice, and if all parts were recognised by the reference.
LEMMA SupportedIsRight ==
  ASSUME NEW b, NEW i, NEW c, NEW g, Case(b, i, c, g),
         NEW ks \in SUBSET DOMAIN b.bank, Near(Total(b.bank, ks), g.net),
         \E k \in ks : Mentions(g, b.bank[k]),
         c.mismatch_type # "DUPLICATE",
         c.mismatch_type = "SPLIT" => \A k \in ks : Mentions(g, b.bank[k])
  PROVE  /\ c.mismatch_type # "ORPHAN_GATEWAY"
         /\ {b.bank[k].utr : k \in ks} = correct_settlement_utrs(c)
         /\ correct_settlement_utrs(c) \cap b.orphans = {}
<1> DEFINE total == Total(b.bank, ks)
<1>1. PICK k \in ks : Mentions(g, b.bank[k])
  OBVIOUS
<1>2. k \in RowsOf(b, i)
  BY <1>1, MentionsOwn
<1>3. /\ c.mismatch_type \in COUNTS /\ Made(c) \cap b.orphans = {}
      /\ g.net \in Int /\ IsFiniteSet(ks)
      /\ \A n \in ks : b.bank[n].amount \in Int
  BY CaseFacts, FS_Subset
<1>4. \A n \in ks : b.bank[n].amount >= 7323
  BY LeastRow DEF least_row
<1>5. /\ total \in Int
      /\ \/ ks = {k} /\ total = b.bank[k].amount
         \/ total >= b.bank[k].amount + 7323
  BY <1>1, <1>3, <1>4, TotalBeyond
<1>6. b.bank[k].amount \in Int /\ Near(total, g.net)
  BY <1>3
<1> HIDE DEF total
<1>7. CASE c.mismatch_type \in {"CLEAN", "TIMING_LAG", "GARBLED_REF"}
  <2>1. b.bank[k].utr = c.utr /\ b.bank[k].amount = g.net
    BY <1>2, <1>7, RowShapes
  <2>2. ks = {k}
    BY <1>3, <1>5, <1>6, <2>1 DEF Near, AMOUNT_EPSILON
  <2>3. correct_settlement_utrs(c) = {c.utr} /\ Made(c) = {c.utr}
    BY <1>7 DEF correct_settlement_utrs, Made
  <2> QED
    BY <1>3, <1>7, <2>1, <2>2, <2>3
<1>8. CASE c.mismatch_type = "FEE_DRIFT"
  <2>1. b.bank[k].amount \in (g.net - 4000)..(g.net - 500)
    BY <1>2, <1>8, RowShapes
  <2> QED
    BY <1>3, <1>5, <1>6, <2>1 DEF Near, AMOUNT_EPSILON
<1>9. CASE c.mismatch_type = "SPLIT"
  <2>1. PICK x, y \in RowsOf(b, i) :
          /\ x # y /\ RowsOf(b, i) = {x, y}
          /\ b.bank[x].utr = c.utr /\ b.bank[y].utr = c.second
          /\ b.bank[x].amount + b.bank[y].amount = g.net
    BY <1>9, TwoRows
  <2>2. ks \subseteq {x, y}
    BY <1>9, <2>1, MentionsOwn
  <2>3. /\ b.bank[x].amount >= 7323 /\ b.bank[y].amount >= 7323
        /\ b.bank[x].amount \in Int /\ b.bank[y].amount \in Int
    <3>1. x \in DOMAIN b.bank /\ y \in DOMAIN b.bank
      BY <2>1 DEF RowsOf
    <3>2. b.bank[x].amount \in Int /\ b.bank[y].amount \in Int
      BY <3>1, CaseFacts
    <3> QED
      BY <3>1, <3>2, LeastRow DEF least_row
  <2>4. ks # {k}
    <3>1. SUFFICES ASSUME ks = {k} PROVE FALSE
      OBVIOUS
    <3>2. total = b.bank[k].amount
      BY <1>5, <1>6, <3>1, <1>3, TotalOfOne DEF total
    <3>3. k = x \/ k = y
      BY <1>2, <2>1
    <3> QED
      BY <1>3, <1>6, <2>1, <2>3, <3>2, <3>3 DEF Near, AMOUNT_EPSILON
  <2>5. ks = {x, y}
    BY <1>1, <2>2, <2>4
  <2>6. correct_settlement_utrs(c) = {c.utr, c.second} /\ Made(c) = {c.utr, c.second}
    BY <1>9 DEF correct_settlement_utrs, Made
  <2> QED
    BY <1>3, <1>9, <2>1, <2>5, <2>6
<1>10. c.mismatch_type # "ORPHAN_GATEWAY"
  BY <1>2, RowShapes
<1> QED
  BY <1>3, <1>7, <1>8, <1>9, <1>10 DEF COUNTS

MismatchType(txn) == batch.truth[txn].mismatch_type

\* On generated input the deterministic stage finds all rows of a record that
\* is still to come in the pool, keeps each record with two rows from the
\* agent, and matches none that was paid twice.
OnTrack ==
  Generated(batch) =>
    /\ phase \in {"validate", "deterministic"} =>
         \A i \in DOMAIN gateway : i >= next => RowsOf(batch, i) \subseteq pool
    /\ \A n \in DOMAIN queue : MismatchType(gateway[queue[n]].txn) \notin {"DUPLICATE", "SPLIT"}
    /\ \A n \in DOMAIN matched :
         LET kind == MismatchType(matched[n].txn)
         IN  kind # "DUPLICATE" /\ (kind = "SPLIT" => matched[n].method = "deterministic")

LEMMA TailElements ==
  ASSUME NEW S, NEW seq \in Seq(S), seq # <<>>
  PROVE  \A n \in DOMAIN Tail(seq) : \E m \in DOMAIN seq : Tail(seq)[n] = seq[m]
<1>1. /\ Len(seq) \in Nat /\ DOMAIN seq = 1..Len(seq)
      /\ Tail(seq) \in Seq(S) /\ Len(Tail(seq)) = Len(seq) - 1
      /\ \A n \in 1..Len(Tail(seq)) : Tail(seq)[n] = seq[n + 1]
  BY LenProperties, HeadTailProperties
<1>2. DOMAIN Tail(seq) = 1..Len(Tail(seq))
  BY <1>1, LenProperties
<1>3. \A n \in DOMAIN Tail(seq) : n + 1 \in DOMAIN seq
  BY <1>1, <1>2
<1> QED
  BY <1>1, <1>2, <1>3

LEMMA HeadElement ==
  ASSUME NEW S, NEW seq \in Seq(S), seq # <<>>
  PROVE  \E m \in DOMAIN seq : Head(seq) = seq[m]
<1>1. Len(seq) \in Nat /\ DOMAIN seq = 1..Len(seq) /\ Len(seq) # 0 /\ Head(seq) = seq[1]
  BY LenProperties, HeadTailProperties, EmptySeq
<1>2. 1 \in DOMAIN seq
  BY <1>1
<1> QED
  BY <1>1, <1>2

LEMMA StillOnTrack ==
  ASSUME OnTrack, UNCHANGED batch,
         Generated(batch) /\ phase' \in {"validate", "deterministic"} =>
           \A i \in DOMAIN gateway : i >= next' => RowsOf(batch, i) \subseteq pool',
         \A n \in DOMAIN queue' :
           \/ \E m \in DOMAIN queue : queue'[n] = queue[m]
           \/ Generated(batch) =>
                MismatchType(gateway[queue'[n]].txn) \notin {"DUPLICATE", "SPLIT"},
         \A n \in DOMAIN matched' :
           \/ \E m \in DOMAIN matched : matched'[n] = matched[m]
           \/ Generated(batch) =>
                LET kind == MismatchType(matched'[n].txn)
                IN  kind # "DUPLICATE" /\ (kind = "SPLIT" => matched'[n].method = "deterministic")
  PROVE  OnTrack'
<1> SUFFICES ASSUME Generated(batch)
             PROVE  /\ phase' \in {"validate", "deterministic"} =>
                         \A i \in DOMAIN gateway : i >= next' => RowsOf(batch, i) \subseteq pool'
                    /\ \A n \in DOMAIN queue' :
                         MismatchType(gateway[queue'[n]].txn) \notin {"DUPLICATE", "SPLIT"}
                    /\ \A n \in DOMAIN matched' :
                         LET kind == MismatchType(matched'[n].txn)
                         IN  /\ kind # "DUPLICATE"
                             /\ kind = "SPLIT" => matched'[n].method = "deterministic"
  BY DEF OnTrack, MismatchType, gateway
<1>1. /\ \A n \in DOMAIN queue : MismatchType(gateway[queue[n]].txn) \notin {"DUPLICATE", "SPLIT"}
      /\ \A n \in DOMAIN matched :
           LET kind == MismatchType(matched[n].txn)
           IN  kind # "DUPLICATE" /\ (kind = "SPLIT" => matched[n].method = "deterministic")
  BY DEF OnTrack
<1> QED
  BY <1>1

LEMMA InitOnTrack == Init => OnTrack
<1> SUFFICES ASSUME Init PROVE OnTrack
  OBVIOUS
<1>1. DOMAIN matched = {} /\ DOMAIN queue = {}
  BY DEF Init
<1> QED
  BY <1>1 DEF Init, OnTrack, RowsOf

\* A position of a generated batch that passed validate_input.
LEMMA CaseOf ==
  ASSUME Typed, ValidInput, Generated(batch), NEW i \in DOMAIN gateway
  PROVE  Case(batch, i, batch.truth[gateway[i].txn], gateway[i])
BY DEF Case, Typed, ValidInput, IsInjective, bank, gateway

\* What the deterministic stage takes for one record leaves the rows of the
\* others.
LEMMA OthersKeepTheirRows ==
  ASSUME Typed, ValidInput, Generated(batch), NEW i \in DOMAIN gateway,
         NEW j \in DOMAIN gateway, j # i, RowsOf(batch, j) \subseteq pool,
         NEW chosen \in SUBSET pool, \A k \in chosen : Mentions(gateway[i], bank[k])
  PROVE  RowsOf(batch, j) \subseteq Without(pool, {bank[k].utr : k \in chosen})
<1> DEFINE made(n) == Made(batch.truth[gateway[n].txn])
<1>1. \A k \in chosen : k \in RowsOf(batch, i)
  <2> SUFFICES ASSUME NEW k \in chosen PROVE k \in RowsOf(batch, i)
    OBVIOUS
  <2>1. Case(batch, i, batch.truth[gateway[i].txn], gateway[i])
    BY CaseOf
  <2>2. k \in DOMAIN batch.bank /\ Mentions(gateway[i], batch.bank[k])
    BY DEF Typed, bank
  <2> QED
    BY <2>1, <2>2, MentionsOwn
<1>2. made(i) \cap made(j) = {}
  BY DEF Generated, gateway
<1>3. \A n \in {i, j} : RowsOf(batch, n) = {k \in DOMAIN bank : bank[k].utr \in made(n)}
  BY DEF RowsOf, bank, gateway
<1> HIDE DEF made
<1> QED
  BY <1>1, <1>2, <1>3 DEF Without

LEMMA NextOnTrack == Typed /\ Justified /\ OnTrack /\ [Next]_vars => OnTrack'
<1> SUFFICES ASSUME Typed, Justified, OnTrack, [Next]_vars PROVE OnTrack'
  OBVIOUS
<1>1. ASSUME UNCHANGED <<batch, next, pool, queue, matched>>,
             phase' \in {"validate", "deterministic"} => phase \in {"validate", "deterministic"}
      PROVE  OnTrack'
  BY <1>1, StillOnTrack DEF OnTrack
<1>2. ASSUME Settle, phase = "agent", queue # <<>>, UNCHANGED matched
      PROVE  OnTrack'
  <2>1. \A n \in DOMAIN queue' : \E m \in DOMAIN queue : queue'[n] = queue[m]
    BY <1>2, TailElements DEF Settle, Typed
  <2> QED
    BY <1>2, <2>1, StillOnTrack DEF Settle
<1>3. CASE UNCHANGED vars
  BY <1>1, <1>3 DEF vars
<1>4. CASE ValidateInput
  BY <1>1, <1>4 DEF ValidateInput
<1>5. CASE Resolve
  <2> DEFINE g == gateway[next]
             explanations == Explanations(g, bank, pool, batch.window)
             chosen == UNION explanations
             utrs == {bank[k].utr : k \in chosen}
             new == Matched(next, utrs, chosen, "deterministic", "none")
             kind == MismatchType(g.txn)
  <2>1. /\ next \in DOMAIN gateway /\ next' = next + 1 /\ next \in Int
        /\ \A i \in DOMAIN gateway : i \in Int
        /\ UNCHANGED <<batch, phase>> /\ phase = "deterministic" /\ ValidInput
    BY <1>5, Sequences DEF Resolve, Typed, Justified
  <2>2. pool' \in {pool, Without(pool, utrs)}
    BY <1>5 DEF Resolve
  <2>3. Generated(batch) => \A i \in DOMAIN gateway : i >= next' => RowsOf(batch, i) \subseteq pool'
    <3> SUFFICES ASSUME Generated(batch), NEW i \in DOMAIN gateway, i >= next'
                 PROVE  RowsOf(batch, i) \subseteq pool'
      OBVIOUS
    <3>1. i # next /\ i >= next
      BY <2>1
    <3>2. RowsOf(batch, i) \subseteq pool
      BY <2>1, <3>1 DEF OnTrack
    <3>3. chosen \in SUBSET pool /\ \A k \in chosen : Mentions(gateway[next], bank[k])
      BY DEF Explanations, Dated, kSubset
    <3> HIDE DEF chosen
    <3>4. RowsOf(batch, i) \subseteq Without(pool, utrs)
      BY <2>1, <3>1, <3>2, <3>3, OthersKeepTheirRows
    <3> QED
      BY <2>2, <3>2, <3>4
  <2>4. ASSUME Generated(batch)
        PROVE  /\ kind = "DUPLICATE" => Resolution(explanations) = "exception"
               /\ kind = "SPLIT" => explanations # {}
    <3>1. /\ Case(batch, next, batch.truth[g.txn], g)
          /\ RowsOf(batch, next) \subseteq pool /\ pool \in SUBSET DOMAIN batch.bank
      BY <2>1, <2>4, CaseOf DEF OnTrack, Typed, bank
    <3> HIDE DEF g
    <3> QED
      BY <3>1, DuplicateIsAmbiguous, SplitIsResolved DEF MismatchType, bank, Resolution
  <2>5. CASE /\ Resolution(explanations) = "matched"
             /\ matched' = Append(matched, new) /\ UNCHANGED queue
    <3>1. chosen \subseteq pool
      BY ExplainedFromPool
    <3>2. new \in Decision /\ new.txn = g.txn /\ new.method = "deterministic"
      BY <2>1, <3>1, MatchedType DEF Typed, Utrs, Matched
    <3>3. Generated(batch) => kind # "DUPLICATE"
      BY <2>4, <2>5
    <3> HIDE DEF new, g, explanations
    <3>4. \A n \in DOMAIN matched' :
            \/ \E m \in DOMAIN matched : matched'[n] = matched[m]
            \/ matched'[n] = new
      BY <2>5, <3>2, Appended DEF Typed
    <3>5. \A n \in DOMAIN matched' :
            \/ \E m \in DOMAIN matched : matched'[n] = matched[m]
            \/ Generated(batch) =>
                 /\ MismatchType(matched'[n].txn) # "DUPLICATE"
                 /\ MismatchType(matched'[n].txn) = "SPLIT" => matched'[n].method = "deterministic"
      BY <3>2, <3>3, <3>4
    <3> QED
      BY <2>1, <2>3, <2>5, <3>5, StillOnTrack
  <2>6. CASE UNCHANGED <<matched, queue>>
    BY <2>1, <2>3, <2>6, StillOnTrack
  <2>7. CASE /\ Resolution(explanations) = "needs_agent"
             /\ queue' = Append(queue, next) /\ UNCHANGED matched
    <3>1. explanations = {}
      BY <2>7 DEF Resolution
    <3>2. Generated(batch) => kind \notin {"DUPLICATE", "SPLIT"}
      BY <2>4, <2>7, <3>1
    <3>3. \A n \in DOMAIN queue' :
            \/ \E m \in DOMAIN queue : queue'[n] = queue[m]
            \/ queue'[n] = next
      BY <2>1, <2>7, Appended DEF Typed
    <3> QED
      BY <2>1, <2>3, <2>7, <3>2, <3>3, StillOnTrack
  <2> QED
    BY <1>5, <2>5, <2>6, <2>7 DEF Resolve
<1>6. CASE StartAgentStage
  <2>1. \A n \in DOMAIN matched' : n \in DOMAIN matched /\ matched'[n] = matched[n]
    BY <1>6, SampleIsPrefix
  <2>2. \A n \in DOMAIN queue' : n \in DOMAIN queue /\ queue'[n] = queue[n]
    <3> DEFINE want == AgentWant(batch.sample, Len(queue))
    <3>1. want \in Int
      <4>1. Len(queue) \in Nat /\ batch.sample \in Nat
        BY Sequences, LenProperties DEF Typed
      <4>2. want \in Nat
        BY <4>1, AgentWantBounds
      <4> HIDE DEF want
      <4> QED
        BY <4>2
    <3>2. queue' = Take(queue, want) \/ queue' = queue
      BY <1>6 DEF StartAgentStage
    <3> HIDE DEF want
    <3> QED
      BY <3>1, <3>2, TakePrefix DEF Typed
  <2> QED
    BY <1>6, <2>1, <2>2, StillOnTrack DEF StartAgentStage
<1>7. CASE Continue
  BY <1>1, <1>2, <1>7 DEF Continue, Asking
<1>8. CASE ProposeMatch
  <2>1. CASE Rejects
    BY <1>2, <1>8, <2>1 DEF ProposeMatch, Asking, Rejects
  <2>2. CASE ~Rejects
    <3>1. /\ phase = "agent" /\ queue # <<>> /\ UNCHANGED <<batch, phase>>
          /\ Head(queue) \in DOMAIN gateway /\ queue' = Tail(queue)
      BY <1>8, HeadOfQueue DEF ProposeMatch, Asking, Settle
    <3>2. PICK utrs \in SUBSET (Utrs \cup Invented), verifier \in {"deterministic", "llm"} :
            Accepts(utrs, verifier)
      BY <1>8, <2>2, ProposeMatchOutcomes
    <3> DEFINE new == Matched(Head(queue), utrs, Proposed(utrs), "agent_verified", verifier)
    <3>3. new \in Decision /\ new.txn = gateway[Head(queue)].txn
      <4>1. Proposed(utrs) \in SUBSET DOMAIN bank
        BY DEF Proposed, Typed
      <4> QED
        BY <3>1, <4>1, MatchedType DEF Matched
    <3>4. matched' = Append(matched, new)
      BY <3>2 DEF Accepts
    <3> HIDE DEF new
    <3>5. \A n \in DOMAIN queue' : \E m \in DOMAIN queue : queue'[n] = queue[m]
      BY <3>1, TailElements DEF Typed
    <3>6. \E m \in DOMAIN queue : Head(queue) = queue[m]
      BY <3>1, HeadElement DEF Typed
    <3>7. Generated(batch) => MismatchType(new.txn) \notin {"DUPLICATE", "SPLIT"}
      BY <3>3, <3>6 DEF OnTrack
    <3>8. \A n \in DOMAIN matched' :
            \/ \E m \in DOMAIN matched : matched'[n] = matched[m]
            \/ matched'[n] = new
      BY <3>3, <3>4, Appended DEF Typed
    <3> QED
      BY <3>1, <3>5, <3>7, <3>8, StillOnTrack
  <2> QED
    BY <2>1, <2>2
<1>9. CASE ReportException
  BY <1>2, <1>9 DEF ReportException, Asking
<1>10. CASE AgentRaises
  BY <1>1, <1>10 DEF AgentRaises
<1>11. CASE Finish
  BY <1>1, <1>11 DEF Finish
<1> QED
  BY <1>3, <1>4, <1>5, <1>6, <1>7, <1>8, <1>9, <1>10, <1>11 DEF Next, Answer

\* eval/metrics.py counts an active match that is not the truth as a false
\* positive: on any generated batch, with any LLM, requires_human_review marks
\* each one, if it claims what the verifier saw.
THEOREM WrongMatchesAreReviewed == Spec => []FalsePositivesAreReviewed
<1>1. Init => Typed /\ Justified /\ OnTrack
  BY InitTyped, InitJustified, InitOnTrack
<1>2. Typed /\ Justified /\ OnTrack /\ [Next]_vars => Typed' /\ Justified' /\ OnTrack'
  BY NextTyped, NextJustified, NextOnTrack
<1>3. Typed /\ Justified /\ OnTrack => FalsePositivesAreReviewed
  <2> SUFFICES ASSUME Typed, Justified, OnTrack, NEW n \in DOMAIN matched,
                      NEW d, d = matched[n], NEW i, i = Index(d),
                      ~RequiresHumanReview(d, gateway[i].net, batch.threshold),
                      d.utrs = {bank[k].utr : k \in d.checked}
               PROVE  ~Incorrect(d) /\ ~ClaimsOrphan(d)
    BY DEF FalsePositivesAreReviewed
  <2>1. CASE ~Generated(batch)
    BY <2>1, GeneratedAssumption DEF Typed, Incorrect, eval_txns, ClaimsOrphan
  <2>2. CASE Generated(batch)
    <3> DEFINE g == gateway[i]
               c == batch.truth[g.txn]
    <3>1. i \in DOMAIN gateway /\ Grounds(batch, d, i, pool) /\ ValidInput
      BY MatchGrounds DEF Justified
    <3>2. Case(batch, i, c, g)
      BY <2>2, <3>1, CaseOf
    <3>3. "deterministic" \in {d.method, d.verifier}
      BY DEF RequiresHumanReview, Confidence
    <3>4. /\ d.txn = g.txn /\ Near(Total(batch.bank, d.checked), g.net)
          /\ \E k \in d.checked : Mentions(g, batch.bank[k])
      BY <3>1, <3>3 DEF Grounds, gateway
    <3>5. d.checked \in SUBSET DOMAIN batch.bank
      <4>1. matched \in Seq(Decision) /\ DOMAIN matched = 1..Len(matched)
        BY LenProperties DEF Typed
      <4>2. d \in Decision
        BY <4>1, ElementOfSeq
      <4> QED
        BY <4>2 DEF Decision, bank
    <3>6. /\ c.mismatch_type # "DUPLICATE"
          /\ c.mismatch_type = "SPLIT" => d.method = "deterministic"
      BY <2>2, <3>4 DEF OnTrack, MismatchType
    <3>7. d.method = "deterministic" => \A k \in d.checked : Mentions(g, batch.bank[k])
      <4>1. SUFFICES ASSUME d.method = "deterministic"
                     PROVE  \A k \in d.checked : Mentions(g, batch.bank[k])
        OBVIOUS
      <4>2. d.checked \in Explanations(g, batch.bank, pool \cup d.checked, batch.window)
        BY <3>1, <4>1 DEF Grounds, gateway
      <4> QED
        BY <4>2 DEF Explanations, Dated, kSubset
    <3> HIDE DEF g, c
    <3>8. /\ c.mismatch_type # "ORPHAN_GATEWAY"
          /\ {batch.bank[k].utr : k \in d.checked} = correct_settlement_utrs(c)
          /\ correct_settlement_utrs(c) \cap batch.orphans = {}
      BY <3>2, <3>4, <3>5, <3>6, <3>7, SupportedIsRight
    <3> QED
      BY <3>4, <3>8 DEF Incorrect, ClaimsOrphan, bank, c
  <2> QED
    BY <2>1, <2>2
<1> QED
  BY <1>1, <1>2, <1>3, PTL DEF Spec

\* The transaction at position i is settled as RoutineCasesAreSettled wants it.
SettledBy(b, i, ms, es) ==
  LET txn == b.gateway[i].txn
      c == b.truth[txn]
  IN  /\ c.mismatch_type \in {"CLEAN", "TIMING_LAG", "SPLIT"} =>
           \E n \in DOMAIN ms : ms[n].txn = txn /\ ms[n].utrs = correct_settlement_utrs(c)
      /\ c.mismatch_type = "DUPLICATE" => \E n \in DOMAIN es : es[n].txn = txn

\* A full run settles each transaction as it passes it, and passes all of them
\* before the agent stage.
SettledSoFar ==
  Generated(batch) /\ ~IsDemo /\ (\A days \in Lags : days <= batch.window) =>
    /\ \A i \in DOMAIN gateway : i < next => SettledBy(batch, i, matched, exceptions)
    /\ phase \in {"agent", "done"} => next > Len(gateway)

LEMMA MoreStaysSettled ==
  ASSUME NEW b, NEW i, NEW ms, NEW es, NEW longer, NEW more, SettledBy(b, i, ms, es),
         \A m \in DOMAIN ms : \E n \in DOMAIN longer : longer[n] = ms[m],
         \A m \in DOMAIN es : \E n \in DOMAIN more : more[n] = es[m]
  PROVE  SettledBy(b, i, longer, more)
<1> DEFINE txn == b.gateway[i].txn
           c == b.truth[txn]
<1>1. ASSUME c.mismatch_type \in {"CLEAN", "TIMING_LAG", "SPLIT"}
      PROVE  \E n \in DOMAIN longer : longer[n].txn = txn /\ longer[n].utrs = correct_settlement_utrs(c)
  <2>1. PICK m \in DOMAIN ms : ms[m].txn = txn /\ ms[m].utrs = correct_settlement_utrs(c)
    BY <1>1 DEF SettledBy
  <2>2. PICK n \in DOMAIN longer : longer[n] = ms[m]
    BY <2>1
  <2> QED
    BY <2>1, <2>2
<1>2. ASSUME c.mismatch_type = "DUPLICATE"
      PROVE  \E n \in DOMAIN more : more[n].txn = txn
  <2>1. PICK m \in DOMAIN es : es[m].txn = txn
    BY <1>2 DEF SettledBy
  <2>2. PICK n \in DOMAIN more : more[n] = es[m]
    BY <2>1
  <2> QED
    BY <2>1, <2>2
<1> QED
  BY <1>1, <1>2 DEF SettledBy

\* No element is lost by appending one.
LEMMA AppendKeeps ==
  ASSUME NEW S, NEW seq \in Seq(S), NEW d \in S, NEW longer, longer = Append(seq, d)
  PROVE  /\ \A m \in DOMAIN seq : \E n \in DOMAIN longer : longer[n] = seq[m]
         /\ \E n \in DOMAIN longer : longer[n] = d
<1>1. /\ Len(seq) \in Nat /\ DOMAIN seq = 1..Len(seq)
      /\ DOMAIN longer = 1..(Len(seq) + 1)
      /\ \A n \in 1..Len(seq) : longer[n] = seq[n]
      /\ longer[Len(seq) + 1] = d
  BY LenProperties, Appended
<1>2. /\ Len(seq) + 1 \in DOMAIN longer
      /\ \A m \in DOMAIN seq : m \in DOMAIN longer
  BY <1>1
<1> QED
  BY <1>1, <1>2

LEMMA StillSettled ==
  ASSUME SettledSoFar, UNCHANGED batch,
         IsDemo \/ /\ \A m \in DOMAIN matched : \E n \in DOMAIN matched' : matched'[n] = matched[m]
                   /\ \A m \in DOMAIN exceptions : \E n \in DOMAIN exceptions' : exceptions'[n] = exceptions[m],
         Generated(batch) /\ (\A days \in Lags : days <= batch.window) =>
           \A i \in DOMAIN gateway : i < next' => i < next \/ SettledBy(batch, i, matched', exceptions'),
         phase' \in {"agent", "done"} =>
           (phase \in {"agent", "done"} /\ UNCHANGED next) \/ next' > Len(gateway)
  PROVE  SettledSoFar'
<1>1. batch' = batch /\ gateway' = gateway /\ (IsDemo' <=> IsDemo)
  BY SameBatch DEF IsDemo
<1> SUFFICES ASSUME Generated(batch), ~IsDemo, \A days \in Lags : days <= batch.window
             PROVE  /\ \A i \in DOMAIN gateway : i < next' => SettledBy(batch, i, matched', exceptions')
                    /\ phase' \in {"agent", "done"} => next' > Len(gateway)
  BY <1>1 DEF SettledSoFar
<1>2. ASSUME NEW i \in DOMAIN gateway, i < next' PROVE SettledBy(batch, i, matched', exceptions')
  <2>1. CASE i < next
    <3>1. SettledBy(batch, i, matched, exceptions)
      BY <2>1 DEF SettledSoFar
    <3> QED
      BY <3>1, MoreStaysSettled
  <2>2. CASE ~(i < next)
    BY <1>2, <2>2
  <2> QED
    BY <2>1, <2>2
<1>3. phase' \in {"agent", "done"} => next' > Len(gateway)
  BY DEF SettledSoFar
<1> QED
  BY <1>2, <1>3

LEMMA InitSettled == Init => SettledSoFar
<1> SUFFICES ASSUME Init PROVE SettledSoFar
  OBVIOUS
<1>1. next = 1 /\ phase = "validate" /\ DOMAIN gateway = 1..Len(gateway) /\ Len(gateway) \in Nat
  BY Sequences DEF Init
<1>2. \A i \in DOMAIN gateway : ~(i < next)
  BY <1>1
<1> QED
  BY <1>1, <1>2 DEF SettledSoFar

\* Its own step settles each transaction of a routine kind.
LEMMA ResolveSettles ==
  ASSUME Typed, Justified, OnTrack, Resolve, Generated(batch),
         \A days \in Lags : days <= batch.window
  PROVE  SettledBy(batch, next, matched', exceptions')
<1> DEFINE g == gateway[next]
           c == batch.truth[g.txn]
           explanations == Explanations(g, bank, pool, batch.window)
           chosen == UNION explanations
           utrs == {bank[k].utr : k \in chosen}
           found == Matched(next, utrs, chosen, "deterministic", "none")
           ambiguous == Exception(next, "AMBIGUOUS_MULTIPLE_CANDIDATES")
<1>1. /\ next \in DOMAIN gateway /\ next \in Int
      /\ phase = "deterministic" /\ ValidInput
  BY Sequences DEF Resolve, Typed, Justified
<1>2. Case(batch, next, c, g)
  BY <1>1, CaseOf
<1>3. RowsOf(batch, next) \subseteq pool /\ pool \in SUBSET DOMAIN batch.bank
  BY <1>1 DEF OnTrack, Typed, bank
<1>4. explanations = Explanations(g, batch.bank, pool, batch.window)
      /\ utrs = {batch.bank[k].utr : k \in UNION explanations}
  BY DEF bank
<1>5. \/ Resolution(explanations) = "matched" /\ matched' = Append(matched, found)
      \/ Resolution(explanations) = "exception" /\ exceptions' = Append(exceptions, ambiguous)
      \/ Resolution(explanations) = "needs_agent"
  BY DEF Resolve
<1>6. /\ found \in Decision /\ found.txn = g.txn /\ found.utrs = utrs
      /\ ambiguous \in Decision /\ ambiguous.txn = g.txn
  <2>1. chosen \subseteq pool
    BY ExplainedFromPool
  <2>2. found \in Decision
    BY <1>1, <2>1, MatchedType DEF Typed, Utrs
  <2>3. ambiguous \in Decision
    BY <1>1, ExceptionType DEF ALL_TYPES
  <2> QED
    BY <2>2, <2>3 DEF Matched, Exception
<1>7. g = batch.gateway[next]
  BY DEF gateway
<1> HIDE DEF explanations, utrs, chosen, found, ambiguous, g
<1>8. ASSUME c.mismatch_type \in {"CLEAN", "TIMING_LAG", "SPLIT"}
      PROVE  \E n \in DOMAIN matched' :
               matched'[n].txn = g.txn /\ matched'[n].utrs = correct_settlement_utrs(c)
  <2>1. Resolution(explanations) = "matched" /\ utrs = correct_settlement_utrs(c)
    <3> HIDE DEF c
    <3>1. CASE c.mismatch_type \in {"CLEAN", "TIMING_LAG"}
      BY <1>2, <1>3, <1>4, <3>1, OneRowIsResolved
    <3>2. CASE c.mismatch_type = "SPLIT"
      BY <1>2, <1>3, <1>4, <3>2, SplitIsResolved
    <3> QED
      BY <1>8, <3>1, <3>2
  <2>2. \E n \in DOMAIN matched' : matched'[n] = found
    <3>1. matched' = Append(matched, found) /\ matched \in Seq(Decision) /\ found \in Decision
      BY <1>5, <1>6, <2>1 DEF Typed
    <3> QED
      BY <3>1, AppendKeeps
  <2> QED
    BY <1>6, <2>1, <2>2
<1>9. ASSUME c.mismatch_type = "DUPLICATE"
      PROVE  \E n \in DOMAIN exceptions' : exceptions'[n].txn = g.txn
  <2>1. Resolution(explanations) = "exception"
    <3> HIDE DEF c
    <3> QED
      BY <1>2, <1>3, <1>4, <1>9, DuplicateIsAmbiguous
  <2>2. \E n \in DOMAIN exceptions' : exceptions'[n] = ambiguous
    <3>1. /\ exceptions' = Append(exceptions, ambiguous)
          /\ exceptions \in Seq(Decision) /\ ambiguous \in Decision
      BY <1>5, <1>6, <2>1 DEF Typed
    <3> QED
      BY <3>1, AppendKeeps
  <2> QED
    BY <1>6, <2>2
<1> QED
  BY <1>7, <1>8, <1>9 DEF SettledBy

LEMMA NextSettled ==
  Typed /\ Justified /\ OnTrack /\ SettledSoFar /\ [Next]_vars => SettledSoFar'
<1> SUFFICES ASSUME Typed, Justified, OnTrack, SettledSoFar, [Next]_vars PROVE SettledSoFar'
  OBVIOUS
<1> DEFINE Kept(old, new) == \A m \in DOMAIN old : \E n \in DOMAIN new : new[n] = old[m]
<1>1. ASSUME UNCHANGED <<batch, next>>, phase' \in {"agent", "done"} => phase \in {"agent", "done"},
             Kept(matched, matched'), Kept(exceptions, exceptions')
      PROVE  SettledSoFar'
  BY <1>1, StillSettled
<1>2. /\ \A d \in Decision : exceptions' = Append(exceptions, d) => Kept(exceptions, exceptions')
      /\ \A d \in Decision : matched' = Append(matched, d) => Kept(matched, matched')
      /\ matched' = matched => Kept(matched, matched')
      /\ exceptions' = exceptions => Kept(exceptions, exceptions')
  <2>1. matched \in Seq(Decision) /\ exceptions \in Seq(Decision)
    BY DEF Typed
  <2>2. ASSUME NEW old \in Seq(Decision), NEW d \in Decision, NEW new, new = Append(old, d)
        PROVE  Kept(old, new)
    BY <2>2, AppendKeeps
  <2>3. \A old : Kept(old, old)
    OBVIOUS
  <2> HIDE DEF Kept
  <2>4. \A old \in Seq(Decision), d \in Decision : \A new : new = Append(old, d) => Kept(old, new)
    BY <2>2
  <2> QED
    BY <2>1, <2>3, <2>4
<1> HIDE DEF Kept
<1>3. ASSUME Asking, NEW type \in ALL_TYPES \cup AgentTypes, UNCHANGED <<batch, phase, next, matched>>,
             exceptions' = Append(exceptions, Exception(Head(queue), type))
      PROVE  SettledSoFar'
  <2>1. Exception(Head(queue), type) \in Decision
    BY <1>3, HeadOfQueue, ExceptionType DEF Asking
  <2> QED
    BY <1>1, <1>2, <1>3, <2>1
<1>4. CASE UNCHANGED vars
  BY <1>1, <1>2, <1>4 DEF vars
<1>5. CASE ValidateInput
  BY <1>1, <1>2, <1>5 DEF ValidateInput
<1>6. CASE Resolve
  <2>1. /\ next \in Int /\ next' = next + 1 /\ UNCHANGED <<batch, phase>>
        /\ phase = "deterministic" /\ \A i \in DOMAIN gateway : i \in Int
    BY <1>6, Sequences DEF Resolve, Typed
  <2>2. Kept(matched, matched') /\ Kept(exceptions, exceptions')
    BY <1>2, <1>6, ResolveOutcomes
  <2>3. ASSUME Generated(batch), \A days \in Lags : days <= batch.window,
               NEW i \in DOMAIN gateway, i < next', ~(i < next)
        PROVE  SettledBy(batch, i, matched', exceptions')
    <3>1. i = next
      BY <2>1, <2>3
    <3> QED
      BY <1>6, <2>3, <3>1, ResolveSettles
  <2> QED
    BY <2>1, <2>2, <2>3, StillSettled DEF Kept
<1>7. CASE StartAgentStage
  <2>1. /\ next > Len(gateway) /\ UNCHANGED <<batch, next>>
        /\ ~IsDemo => UNCHANGED <<matched, exceptions>>
    BY <1>7 DEF StartAgentStage
  <2>2. IsDemo \/ (Kept(matched, matched') /\ Kept(exceptions, exceptions'))
    BY <1>2, <2>1
  <2> QED
    BY <2>1, <2>2, StillSettled DEF Kept
<1>8. CASE Continue
  <2>1. CASE UNCHANGED <<batch, phase, next, matched, exceptions>>
    BY <1>1, <1>2, <2>1
  <2>2. CASE exceptions' = Append(exceptions, Exception(Head(queue), "NO_CANDIDATE_FOUND"))
             /\ UNCHANGED <<batch, phase, next, matched>>
    BY <1>3, <1>8, <2>2 DEF Continue, ALL_TYPES
  <2> QED
    BY <1>8, <2>1, <2>2 DEF Continue, Settle
<1>9. CASE ProposeMatch
  <2>1. Asking /\ UNCHANGED <<batch, phase, next>> /\ Head(queue) \in DOMAIN gateway
    BY <1>9, HeadOfQueue DEF ProposeMatch, Settle, Asking
  <2>2. CASE Rejects
    BY <1>3, <2>1, <2>2 DEF Rejects, ALL_TYPES
  <2>3. CASE ~Rejects
    <3>1. PICK utrs \in SUBSET (Utrs \cup Invented), verifier \in {"deterministic", "llm"} :
            Accepts(utrs, verifier)
      BY <1>9, <2>3, ProposeMatchOutcomes
    <3> DEFINE new == Matched(Head(queue), utrs, Proposed(utrs), "agent_verified", verifier)
    <3>2. new \in Decision
      <4>1. Proposed(utrs) \in SUBSET DOMAIN bank
        BY DEF Proposed, Typed
      <4> QED
        BY <2>1, <4>1, MatchedType
    <3>3. matched' = Append(matched, new) /\ exceptions' = exceptions
      BY <3>1 DEF Accepts
    <3> HIDE DEF new
    <3> QED
      BY <1>1, <1>2, <2>1, <3>2, <3>3
  <2> QED
    BY <2>2, <2>3
<1>10. CASE ReportException
  BY <1>3, <1>10 DEF ReportException, Settle
<1>11. CASE AgentRaises
  BY <1>1, <1>2, <1>11 DEF AgentRaises
<1>12. CASE Finish
  BY <1>1, <1>2, <1>12 DEF Finish
<1> QED
  BY <1>4, <1>5, <1>6, <1>7, <1>8, <1>9, <1>10, <1>11, <1>12 DEF Next, Answer

\* A full run is right about every transaction of a routine kind before it asks
\* an LLM, stays so whatever the LLM says, and what it gets wrong elsewhere is
\* in front of a human.
THEOREM ScoreStands == Spec => []ScoreIsSound
<1>1. Init => Typed /\ Justified /\ OnTrack /\ SettledSoFar
  BY InitTyped, InitJustified, InitOnTrack, InitSettled
<1>2. Typed /\ Justified /\ OnTrack /\ SettledSoFar /\ [Next]_vars
        => Typed' /\ Justified' /\ OnTrack' /\ SettledSoFar'
  BY NextTyped, NextJustified, NextOnTrack, NextSettled
<1>3. Typed /\ SettledSoFar => RoutineCasesAreSettled
  <2> SUFFICES ASSUME Typed, SettledSoFar, phase \in {"agent", "done"}, ~IsDemo,
                      \A days \in Lags : days <= batch.window,
                      NEW i \in DOMAIN gateway, gateway[i].txn \in eval_txns
               PROVE  SettledBy(batch, i, matched, exceptions)
    BY DEF RoutineCasesAreSettled, SettledBy, gateway
  <2>1. Generated(batch)
    BY GeneratedAssumption DEF Typed, eval_txns
  <2>2. next > Len(gateway)
    BY <2>1 DEF SettledSoFar
  <2>3. next \in Int /\ Len(gateway) \in Nat /\ DOMAIN gateway = 1..Len(gateway)
    BY Sequences DEF Typed
  <2>4. i < next
    BY <2>2, <2>3
  <2> QED
    BY <2>1, <2>4 DEF SettledSoFar
<1>4. Spec => []FalsePositivesAreReviewed
  BY WrongMatchesAreReviewed
<1>5. FalsePositivesAreReviewed /\ RoutineCasesAreSettled => ScoreIsSound
  BY DEF ScoreIsSound
<1> QED
  BY <1>1, <1>2, <1>3, <1>4, <1>5, PTL DEF Spec

-----------------------------------------------------------------------------
(* Every record is in one place.                                           *)

\* The positions at which a queue holds record i, and a list of decisions one
\* about transaction txn.
Waiting(q, i) == {n \in DOMAIN q : q[n] = i}

Ruled(ds, txn) == {n \in DOMAIN ds : ds[n].txn = txn}

Single(S) == \E n \in S : S = {n}

\* A record is still to come, waits for the agent, is matched or is reported.
OnePlace(i, txn, n, q, ms, es) ==
  \/ i >= n /\ Waiting(q, i) = {} /\ Ruled(ms, txn) = {} /\ Ruled(es, txn) = {}
  \/ i < n /\ Single(Waiting(q, i)) /\ Ruled(ms, txn) = {} /\ Ruled(es, txn) = {}
  \/ i < n /\ Waiting(q, i) = {} /\ Single(Ruled(ms, txn)) /\ Ruled(es, txn) = {}
  \/ i < n /\ Waiting(q, i) = {} /\ Ruled(ms, txn) = {} /\ Single(Ruled(es, txn))

InOnePlace ==
  /\ phase = "validate" =>
       next = 1 /\ queue = <<>> /\ matched = <<>> /\ exceptions = <<>>
  /\ ~IsDemo =>
       \A i \in DOMAIN gateway :
         OnePlace(i, gateway[i].txn, next, queue, matched, exceptions)

LEMMA RuledByAppend ==
  ASSUME NEW S, NEW ds \in Seq(S), NEW d \in S, NEW txn
  PROVE  /\ d.txn # txn => Ruled(Append(ds, d), txn) = Ruled(ds, txn)
         /\ d.txn = txn /\ Ruled(ds, txn) = {} => Single(Ruled(Append(ds, d), txn))
<1>1. /\ DOMAIN ds = 1..Len(ds) /\ Len(ds) \in Nat
      /\ DOMAIN Append(ds, d) = 1..(Len(ds) + 1)
      /\ \A n \in 1..Len(ds) : Append(ds, d)[n] = ds[n]
      /\ Append(ds, d)[Len(ds) + 1] = d
  BY LenProperties, Appended
<1>2. 1..(Len(ds) + 1) = (1..Len(ds)) \cup {Len(ds) + 1}
  BY <1>1
<1>3. CASE d.txn # txn
  BY <1>1, <1>2, <1>3 DEF Ruled
<1>4. CASE d.txn = txn /\ Ruled(ds, txn) = {}
  <2>1. Ruled(Append(ds, d), txn) = {Len(ds) + 1}
    BY <1>1, <1>2, <1>4 DEF Ruled
  <2> QED
    BY <1>4, <2>1 DEF Single
<1> QED
  BY <1>3, <1>4

LEMMA WaitingInAppend ==
  ASSUME NEW S, NEW q \in Seq(S), NEW j \in S, NEW i
  PROVE  /\ j # i => Waiting(Append(q, j), i) = Waiting(q, i)
         /\ j = i /\ Waiting(q, i) = {} => Single(Waiting(Append(q, j), i))
<1>1. /\ DOMAIN q = 1..Len(q) /\ Len(q) \in Nat
      /\ DOMAIN Append(q, j) = 1..(Len(q) + 1)
      /\ \A n \in 1..Len(q) : Append(q, j)[n] = q[n]
      /\ Append(q, j)[Len(q) + 1] = j
  BY LenProperties, Appended
<1>2. 1..(Len(q) + 1) = (1..Len(q)) \cup {Len(q) + 1}
  BY <1>1
<1>3. CASE j # i
  BY <1>1, <1>2, <1>3 DEF Waiting
<1>4. CASE j = i /\ Waiting(q, i) = {}
  <2>1. Waiting(Append(q, j), i) = {Len(q) + 1}
    BY <1>1, <1>2, <1>4 DEF Waiting
  <2> QED
    BY <1>4, <2>1 DEF Single
<1> QED
  BY <1>3, <1>4

LEMMA WaitingInTail ==
  ASSUME NEW S, NEW q \in Seq(S), q # <<>>, NEW i
  PROVE  /\ Head(q) = i <=> 1 \in Waiting(q, i)
         /\ Waiting(Tail(q), i) = {n - 1 : n \in Waiting(q, i) \ {1}}
<1>1. /\ DOMAIN q = 1..Len(q) /\ Len(q) \in Nat /\ Len(q) > 0
      /\ Head(q) = q[1]
  BY LenProperties, EmptySeq
<1>2. /\ DOMAIN Tail(q) = 1..(Len(q) - 1)
      /\ \A n \in 1..(Len(q) - 1) : Tail(q)[n] = q[n + 1]
  BY <1>1, HeadTailProperties, LenProperties
<1>3. Head(q) = i <=> 1 \in Waiting(q, i)
  BY <1>1 DEF Waiting
<1>4. ASSUME NEW n \in Waiting(Tail(q), i)
      PROVE  n + 1 \in Waiting(q, i) \ {1} /\ n = (n + 1) - 1
  BY <1>1, <1>2 DEF Waiting
<1>5. ASSUME NEW n \in Waiting(q, i) \ {1}
      PROVE  n - 1 \in Waiting(Tail(q), i)
  <2>1. n \in 1..Len(q) /\ n # 1 /\ q[n] = i
    BY <1>1 DEF Waiting
  <2>2. n - 1 \in 1..(Len(q) - 1) /\ (n - 1) + 1 = n
    BY <1>1, <2>1
  <2> QED
    BY <1>2, <2>1, <2>2 DEF Waiting
<1> QED
  BY <1>3, <1>4, <1>5

\* The head of the queue is decided.
LEMMA SettlePlaces ==
  ASSUME Typed, ValidInput, Asking, Settle, InOnePlace,
         NEW d \in Decision, d.txn = gateway[Head(queue)].txn,
         \/ matched' = Append(matched, d) /\ UNCHANGED exceptions
         \/ exceptions' = Append(exceptions, d) /\ UNCHANGED matched
  PROVE  InOnePlace'
<1>1. /\ UNCHANGED <<batch, phase, next>> /\ queue' = Tail(queue)
      /\ queue # <<>> /\ phase = "agent"
      /\ gateway' = gateway /\ (IsDemo' <=> IsDemo)
  BY SameBatch DEF Settle, Asking, IsDemo
<1> SUFFICES ASSUME ~IsDemo, NEW i \in DOMAIN gateway
             PROVE  OnePlace(i, gateway[i].txn, next, queue', matched', exceptions')
  BY <1>1 DEF InOnePlace
<1> DEFINE txn == gateway[i].txn
<1>2. OnePlace(i, txn, next, queue, matched, exceptions)
  BY <1>1 DEF InOnePlace
<1>3. /\ Head(queue) \in DOMAIN gateway
      /\ Head(queue) = i <=> 1 \in Waiting(queue, i)
      /\ Waiting(queue', i) = {n - 1 : n \in Waiting(queue, i) \ {1}}
  BY <1>1, HeadOfQueue, WaitingInTail DEF Typed
<1>4. CASE Head(queue) = i
  <2>1. i < next /\ Waiting(queue, i) = {1} /\ Ruled(matched, txn) = {}
        /\ Ruled(exceptions, txn) = {}
    BY <1>2, <1>3, <1>4 DEF OnePlace, Single
  <2>2. Waiting(queue', i) = {}
    BY <1>3, <2>1
  <2>3. d.txn = txn
    BY <1>4
  <2> HIDE DEF txn
  <2>4. \/ Single(Ruled(matched', txn)) /\ Ruled(exceptions', txn) = {}
        \/ Single(Ruled(exceptions', txn)) /\ Ruled(matched', txn) = {}
    <3>1. matched \in Seq(Decision) /\ exceptions \in Seq(Decision)
      BY DEF Typed
    <3>2. Single(Ruled(Append(matched, d), txn)) /\ Single(Ruled(Append(exceptions, d), txn))
      BY <2>1, <2>3, <3>1, RuledByAppend
    <3> QED
      BY <2>1, <3>2
  <2>5. OnePlace(i, txn, next, queue', matched', exceptions')
    BY <2>1, <2>2, <2>4 DEF OnePlace
  <2> QED
    BY <2>5 DEF txn
<1>5. CASE Head(queue) # i
  <2>1. d.txn # txn
    BY <1>3, <1>5 DEF ValidInput, IsInjective
  <2> HIDE DEF txn
  <2>2. Ruled(matched', txn) = Ruled(matched, txn)
        /\ Ruled(exceptions', txn) = Ruled(exceptions, txn)
    <3>1. matched \in Seq(Decision) /\ exceptions \in Seq(Decision)
      BY DEF Typed
    <3>2. /\ Ruled(Append(matched, d), txn) = Ruled(matched, txn)
          /\ Ruled(Append(exceptions, d), txn) = Ruled(exceptions, txn)
      BY <2>1, <3>1, RuledByAppend
    <3> QED
      BY <3>2
  <2>3. 1 \notin Waiting(queue, i)
    BY <1>3, <1>5
  <2>4. /\ Waiting(queue, i) = {} => Waiting(queue', i) = {}
        /\ Single(Waiting(queue, i)) => Single(Waiting(queue', i))
    <3>1. Waiting(queue', i) = {n - 1 : n \in Waiting(queue, i)}
      BY <1>3, <2>3
    <3>2. ASSUME NEW n, Waiting(queue, i) = {n} PROVE Waiting(queue', i) = {n - 1}
      BY <3>1, <3>2
    <3> QED
      BY <3>1, <3>2 DEF Single
  <2>5. OnePlace(i, txn, next, queue', matched', exceptions')
    BY <1>2, <2>2, <2>4 DEF OnePlace
  <2> QED
    BY <2>5 DEF txn
<1> QED
  BY <1>4, <1>5

\* The deterministic stage moves the next record to one of three places.
LEMMA ResolvePlaces ==
  ASSUME Typed, Justified, Resolve, InOnePlace
  PROVE  InOnePlace'
<1>1. /\ UNCHANGED <<batch, phase>> /\ phase = "deterministic" /\ next' = next + 1
      /\ gateway' = gateway /\ (IsDemo' <=> IsDemo) /\ ValidInput
      /\ next \in DOMAIN gateway
  BY SameBatch, Sequences DEF Resolve, IsDemo, Justified, Typed
<1> SUFFICES ASSUME ~IsDemo, NEW i \in DOMAIN gateway
             PROVE  OnePlace(i, gateway[i].txn, next + 1, queue', matched', exceptions')
  BY <1>1 DEF InOnePlace
<1> DEFINE txn == gateway[i].txn
<1>2. OnePlace(i, txn, next, queue, matched, exceptions)
  BY <1>1 DEF InOnePlace
<1>3. \/ \E d \in Decision : /\ d.txn = gateway[next].txn
                            /\ matched' = Append(matched, d)
                            /\ UNCHANGED <<exceptions, queue>>
      \/ \E d \in Decision : /\ d.txn = gateway[next].txn
                            /\ exceptions' = Append(exceptions, d)
                            /\ UNCHANGED <<matched, queue>>
      \/ queue' = Append(queue, next) /\ UNCHANGED <<matched, exceptions>>
  BY <1>1, ResolveOutcomes
<1>4. i \in Int /\ next \in Int
  BY Sequences DEF Typed
<1>5. CASE i = next
  <2>1. Waiting(queue, i) = {} /\ Ruled(matched, txn) = {} /\ Ruled(exceptions, txn) = {}
        /\ i < next + 1
    BY <1>2, <1>4, <1>5 DEF OnePlace
  <2>2. gateway[next].txn = txn
    BY <1>5
  <2> HIDE DEF txn
  <2>3. CASE queue' = Append(queue, next) /\ UNCHANGED <<matched, exceptions>>
    <3>1. Single(Waiting(queue', i))
      BY <1>1, <1>5, <2>1, <2>3, WaitingInAppend DEF Typed
    <3>2. OnePlace(i, txn, next + 1, queue', matched', exceptions')
      BY <2>1, <2>3, <3>1 DEF OnePlace
    <3> QED
      BY <3>2 DEF txn
  <2>4. CASE ~(queue' = Append(queue, next) /\ UNCHANGED <<matched, exceptions>>)
    <3>1. /\ queue' = queue
          /\ \/ Single(Ruled(matched', txn)) /\ Ruled(exceptions', txn) = {}
             \/ Single(Ruled(exceptions', txn)) /\ Ruled(matched', txn) = {}
      <4>1. matched \in Seq(Decision) /\ exceptions \in Seq(Decision)
        BY DEF Typed
      <4>2. ASSUME NEW d \in Decision, d.txn = gateway[next].txn
            PROVE  /\ Single(Ruled(Append(matched, d), txn))
                   /\ Single(Ruled(Append(exceptions, d), txn))
        BY <2>1, <2>2, <4>1, <4>2, RuledByAppend
      <4> QED
        BY <1>3, <2>1, <2>4, <4>2
    <3>2. OnePlace(i, txn, next + 1, queue', matched', exceptions')
      BY <2>1, <3>1 DEF OnePlace
    <3> QED
      BY <3>2 DEF txn
  <2> QED
    BY <2>3, <2>4
<1>6. CASE i # next
  <2>1. gateway[next].txn # txn
    BY <1>1, <1>6 DEF ValidInput, IsInjective
  <2> HIDE DEF txn
  <2>2. Ruled(matched', txn) = Ruled(matched, txn)
        /\ Ruled(exceptions', txn) = Ruled(exceptions, txn)
    <3>1. matched \in Seq(Decision) /\ exceptions \in Seq(Decision)
      BY DEF Typed
    <3>2. ASSUME NEW d \in Decision, d.txn = gateway[next].txn
          PROVE  /\ Ruled(Append(matched, d), txn) = Ruled(matched, txn)
                 /\ Ruled(Append(exceptions, d), txn) = Ruled(exceptions, txn)
      BY <2>1, <3>1, <3>2, RuledByAppend
    <3>3. CASE \E d \in Decision : /\ d.txn = gateway[next].txn
                                  /\ matched' = Append(matched, d)
                                  /\ UNCHANGED <<exceptions, queue>>
      BY <3>2, <3>3
    <3>4. CASE \E d \in Decision : /\ d.txn = gateway[next].txn
                                  /\ exceptions' = Append(exceptions, d)
                                  /\ UNCHANGED <<matched, queue>>
      BY <3>2, <3>4
    <3>5. CASE UNCHANGED <<matched, exceptions>>
      BY <3>5
    <3> QED
      BY <1>3, <3>3, <3>4, <3>5
  <2>3. Waiting(queue', i) = Waiting(queue, i)
    <3>1. Waiting(Append(queue, next), i) = Waiting(queue, i)
      BY <1>1, <1>6, WaitingInAppend DEF Typed
    <3> QED
      BY <1>3, <3>1
  <2>4. /\ i >= next => i >= next + 1
        /\ i < next => i < next + 1
    BY <1>4, <1>6
  <2>5. OnePlace(i, txn, next + 1, queue', matched', exceptions')
    BY <1>2, <2>2, <2>3, <2>4 DEF OnePlace
  <2> QED
    BY <2>5 DEF txn
<1> QED
  BY <1>5, <1>6

LEMMA NextInOnePlace ==
  Typed /\ Justified /\ InOnePlace /\ [Next]_vars => InOnePlace'
<1> SUFFICES ASSUME Typed, Justified, InOnePlace, [Next]_vars PROVE InOnePlace'
  OBVIOUS
<1>1. ASSUME UNCHANGED <<batch, next, queue, matched, exceptions>>, phase' # "validate"
      PROVE  InOnePlace'
  <2>1. gateway' = gateway /\ (IsDemo' <=> IsDemo)
    BY <1>1, SameBatch DEF IsDemo
  <2> QED
    BY <1>1, <2>1 DEF InOnePlace
<1>2. CASE UNCHANGED vars
  <2>1. gateway' = gateway /\ (IsDemo' <=> IsDemo)
    BY <1>2, SameBatch DEF IsDemo, vars
  <2> QED
    BY <1>2, <2>1 DEF InOnePlace, vars
<1>3. CASE ValidateInput
  BY <1>1, <1>3 DEF ValidateInput
<1>4. CASE Resolve
  BY <1>4, ResolvePlaces
<1>5. CASE StartAgentStage
  <2>1. /\ UNCHANGED <<batch, next>> /\ phase = "deterministic" /\ phase' = "agent"
        /\ gateway' = gateway /\ (IsDemo' <=> IsDemo)
        /\ ~IsDemo => UNCHANGED <<queue, matched, exceptions>>
    BY <1>5, SameBatch DEF StartAgentStage, IsDemo
  <2> QED
    BY <2>1 DEF InOnePlace
<1>6. ASSUME Asking, Settle, NEW type \in ALL_TYPES \cup AgentTypes, UNCHANGED matched,
             exceptions' = Append(exceptions, Exception(Head(queue), type))
      PROVE  InOnePlace'
  <2> DEFINE new == Exception(Head(queue), type)
  <2>1. new \in Decision /\ new.txn = gateway[Head(queue)].txn
    BY <1>6, HeadOfQueue, ExceptionType DEF Asking, Exception
  <2>2. ValidInput
    BY <1>6 DEF Asking, Justified
  <2> HIDE DEF new
  <2> QED
    BY <1>6, <2>1, <2>2, SettlePlaces DEF new
<1>7. CASE Continue
  <2>1. CASE step + 1 < MAX_STEPS
    BY <1>1, <1>7, <2>1 DEF Continue, Asking
  <2>2. CASE ~(step + 1 < MAX_STEPS)
    BY <1>6, <1>7, <2>2 DEF Continue, ALL_TYPES
  <2> QED
    BY <2>1, <2>2
<1>8. CASE ProposeMatch
  <2>1. PICK utrs \in SUBSET (Utrs \cup Invented),
             verifier \in {"deterministic", "llm"} :
          \/ Accepts(utrs, verifier) \/ Rejects
    BY <1>8, ProposeMatchOutcomes
  <2>2. Asking /\ Settle
    BY <1>8 DEF ProposeMatch
  <2>3. CASE Accepts(utrs, verifier)
    <3> DEFINE new == Matched(Head(queue), utrs, Proposed(utrs), "agent_verified",
                       verifier)
    <3>1. Proposed(utrs) \in SUBSET DOMAIN bank /\ Head(queue) \in DOMAIN gateway
      BY <2>2, HeadOfQueue DEF Proposed, Typed, Asking
    <3>2. new \in Decision /\ new.txn = gateway[Head(queue)].txn
      BY <3>1, MatchedType DEF Matched
    <3>3. matched' = Append(matched, new) /\ UNCHANGED exceptions /\ ValidInput
      BY <2>2, <2>3 DEF Accepts, Asking, Justified
    <3> HIDE DEF new
    <3> QED
      BY <2>2, <3>2, <3>3, SettlePlaces
  <2>4. CASE Rejects
    BY <1>6, <2>2, <2>4 DEF Rejects, ALL_TYPES
  <2> QED
    BY <2>1, <2>3, <2>4
<1>9. CASE ReportException
  BY <1>6, <1>9 DEF ReportException
<1>10. CASE AgentRaises
  BY <1>1, <1>10 DEF AgentRaises
<1>11. CASE Finish
  BY <1>1, <1>11 DEF Finish
<1> QED
  BY <1>2, <1>3, <1>4, <1>5, <1>7, <1>8, <1>9, <1>10, <1>11 DEF Next, Answer

LEMMA InvariantInOnePlace == Spec => [](Typed /\ Justified /\ InOnePlace)
<1>1. Init => Typed /\ Justified /\ InOnePlace
  <2> SUFFICES ASSUME Init PROVE InOnePlace
    BY InitTyped, InitJustified
  <2>1. next = 1 /\ queue = <<>> /\ matched = <<>> /\ exceptions = <<>>
    BY DEF Init
  <2>2. \A i \in DOMAIN gateway : OnePlace(i, gateway[i].txn, 1, <<>>, <<>>, <<>>)
    <3>1. \A i \in DOMAIN gateway : i >= 1
      BY InitTyped, Sequences DEF Typed
    <3>2. \A i, txn : Waiting(<<>>, i) = {} /\ Ruled(<<>>, txn) = {}
      BY DEF Waiting, Ruled
    <3> QED
      BY <3>1, <3>2 DEF OnePlace
  <2> QED
    BY <2>1, <2>2 DEF InOnePlace
<1>2. Typed /\ Justified /\ InOnePlace /\ [Next]_vars
        => Typed' /\ Justified' /\ InOnePlace'
  BY NextTyped, NextJustified, NextInOnePlace
<1> QED
  BY <1>1, <1>2, PTL DEF Spec

\* The positions in the list of all decisions.
LEMMA DecidedPositions ==
  ASSUME Typed, NEW i \in DOMAIN gateway
  PROVE  DecidedBy(i) = Ruled(matched, gateway[i].txn)
                          \cup {Len(matched) + n : n \in Ruled(exceptions, gateway[i].txn)}
<1>1. /\ Len(matched) \in Nat /\ DOMAIN matched = 1..Len(matched)
      /\ Len(exceptions) \in Nat /\ DOMAIN exceptions = 1..Len(exceptions)
  BY LenProperties DEF Typed
<1>2. /\ DOMAIN Decisions = 1..(Len(matched) + Len(exceptions))
      /\ \A m \in 1..(Len(matched) + Len(exceptions)) :
           Decisions[m] = IF m <= Len(matched) THEN matched[m]
                          ELSE exceptions[m - Len(matched)]
  BY <1>1, ConcatProperties, LenProperties DEF Typed, Decisions
<1>3. ASSUME NEW n \in DecidedBy(i)
      PROVE  \/ n \in Ruled(matched, gateway[i].txn)
             \/ /\ n - Len(matched) \in Ruled(exceptions, gateway[i].txn)
                /\ n = Len(matched) + (n - Len(matched))
  <2>1. n \in 1..(Len(matched) + Len(exceptions)) /\ Decisions[n].txn = gateway[i].txn
    BY <1>2 DEF DecidedBy
  <2>2. CASE n <= Len(matched)
    BY <1>1, <1>2, <2>1, <2>2 DEF Ruled
  <2>3. CASE ~(n <= Len(matched))
    <3>1. n - Len(matched) \in DOMAIN exceptions /\ n = Len(matched) + (n - Len(matched))
      BY <1>1, <2>1, <2>3
    <3>2. Decisions[n] = exceptions[n - Len(matched)]
      BY <1>2, <2>1, <2>3
    <3> QED
      BY <2>1, <3>1, <3>2 DEF Ruled
  <2> QED
    BY <2>2, <2>3
<1>4. ASSUME NEW n \in Ruled(matched, gateway[i].txn)
      PROVE  n \in DecidedBy(i)
  BY <1>1, <1>2 DEF Ruled, DecidedBy
<1>5. ASSUME NEW n \in Ruled(exceptions, gateway[i].txn)
      PROVE  Len(matched) + n \in DecidedBy(i)
  <2>1. n \in 1..Len(exceptions) /\ exceptions[n].txn = gateway[i].txn
    BY <1>1 DEF Ruled
  <2>2. /\ Len(matched) + n \in 1..(Len(matched) + Len(exceptions))
        /\ ~(Len(matched) + n <= Len(matched))
        /\ (Len(matched) + n) - Len(matched) = n
    BY <1>1, <2>1
  <2>3. Decisions[Len(matched) + n] = exceptions[n]
    BY <1>2, <2>2
  <2> QED
    BY <1>2, <2>1, <2>2, <2>3 DEF DecidedBy
<1> QED
  BY <1>3, <1>4, <1>5

\* A full run loses no record and decides none twice, whatever the agent does.
THEOREM EveryRecordAccounted == Spec => []Accounted
<1>1. Typed /\ InOnePlace => Accounted
  <2> SUFFICES ASSUME Typed, InOnePlace, ~IsDemo, NEW i \in DOMAIN gateway
               PROVE  (IF i >= next THEN 1 ELSE 0) + Cardinality(Waiting(queue, i))
                        + Cardinality(DecidedBy(i)) = 1
    BY DEF Accounted, Waiting
  <2> DEFINE txn == gateway[i].txn
  <2>1. OnePlace(i, txn, next, queue, matched, exceptions)
    BY DEF InOnePlace
  <2>2. i \in Int /\ next \in Int
    BY Sequences DEF Typed
  <2>3. DecidedBy(i) = Ruled(matched, txn)
                         \cup {Len(matched) + n : n \in Ruled(exceptions, txn)}
    BY DecidedPositions
  <2>4. \A S : Single(S) => Cardinality(S) = 1
    BY FS_Singleton DEF Single
  <2>5. Cardinality({}) = 0
    BY FS_EmptySet
  <2> HIDE DEF txn
  <2>6. /\ Ruled(matched, txn) = {} /\ Ruled(exceptions, txn) = {} => DecidedBy(i) = {}
        /\ Single(Ruled(matched, txn)) /\ Ruled(exceptions, txn) = {} => Single(DecidedBy(i))
        /\ Ruled(matched, txn) = {} /\ Single(Ruled(exceptions, txn)) => Single(DecidedBy(i))
    <3>1. ASSUME NEW n, Ruled(matched, txn) = {}, Ruled(exceptions, txn) = {n}
          PROVE  DecidedBy(i) = {Len(matched) + n}
      BY <2>3, <3>1
    <3> QED
      BY <2>3, <3>1 DEF Single
  <2>7. CASE i >= next
    <3>1. Waiting(queue, i) = {} /\ DecidedBy(i) = {}
      BY <2>1, <2>2, <2>6, <2>7 DEF OnePlace
    <3> QED
      BY <2>5, <2>7, <3>1
  <2>8. CASE ~(i >= next)
    <3>1. \/ Single(Waiting(queue, i)) /\ DecidedBy(i) = {}
          \/ Waiting(queue, i) = {} /\ Single(DecidedBy(i))
      BY <2>1, <2>6, <2>8 DEF OnePlace
    <3> QED
      BY <2>4, <2>5, <2>8, <3>1
  <2> QED
    BY <2>7, <2>8
<1> QED
  BY <1>1, InvariantInOnePlace, PTL

-----------------------------------------------------------------------------
(* A full run implements Allocation.                                       *)

Owners == [k \in DOMAIN bank |-> IF IsDemo THEN Nobody ELSE OwnerOf(k)]

DecidedTxns == IF IsDemo THEN {} ELSE {Decisions[n].txn : n \in DOMAIN Decisions}

Txns(ds) == {ds[n].txn : n \in DOMAIN ds}

LEMMA TxnsOfBoth ==
  ASSUME NEW S, NEW ms \in Seq(S), NEW es \in Seq(S)
  PROVE  Txns(ms \o es) = Txns(ms) \cup Txns(es)
<1> DEFINE all == ms \o es
<1>1. /\ Len(ms) \in Nat /\ DOMAIN ms = 1..Len(ms)
      /\ Len(es) \in Nat /\ DOMAIN es = 1..Len(es)
  BY LenProperties
<1>2. /\ DOMAIN all = 1..(Len(ms) + Len(es))
      /\ \A n \in 1..(Len(ms) + Len(es)) :
           all[n] = IF n <= Len(ms) THEN ms[n] ELSE es[n - Len(ms)]
  BY <1>1, ConcatProperties, LenProperties
<1> HIDE DEF all
<1>3. ASSUME NEW n \in DOMAIN all
      PROVE  \/ \E m \in DOMAIN ms : all[n].txn = ms[m].txn
             \/ \E m \in DOMAIN es : all[n].txn = es[m].txn
  <2>1. CASE n <= Len(ms)
    BY <1>1, <1>2, <2>1
  <2>2. CASE ~(n <= Len(ms))
    <3>1. n - Len(ms) \in DOMAIN es
      BY <1>1, <1>2, <2>2
    <3> QED
      BY <1>2, <2>2, <3>1
  <2> QED
    BY <2>1, <2>2
<1>4. ASSUME NEW m \in DOMAIN ms PROVE m \in DOMAIN all /\ all[m] = ms[m]
  BY <1>1, <1>2
<1>5. ASSUME NEW m \in DOMAIN es
      PROVE  Len(ms) + m \in DOMAIN all /\ all[Len(ms) + m] = es[m]
  <2>1. /\ Len(ms) + m \in DOMAIN all /\ ~(Len(ms) + m <= Len(ms))
        /\ (Len(ms) + m) - Len(ms) = m
    BY <1>1, <1>2
  <2> QED
    BY <1>2, <2>1
<1>6. Txns(all) = Txns(ms) \cup Txns(es)
  BY <1>3, <1>4, <1>5 DEF Txns
<1> QED
  BY <1>6 DEF all

LEMMA TxnsOfAppend ==
  ASSUME NEW S, NEW ds \in Seq(S), NEW d \in S
  PROVE  Txns(Append(ds, d)) = Txns(ds) \cup {d.txn}
<1>1. /\ DOMAIN ds = 1..Len(ds) /\ Len(ds) \in Nat
      /\ DOMAIN Append(ds, d) = 1..(Len(ds) + 1)
      /\ \A n \in 1..Len(ds) : Append(ds, d)[n] = ds[n]
      /\ Append(ds, d)[Len(ds) + 1] = d
  BY LenProperties, Appended
<1>2. 1..(Len(ds) + 1) = (1..Len(ds)) \cup {Len(ds) + 1}
  BY <1>1
<1> QED
  BY <1>1, <1>2 DEF Txns

\* The record at hand is undecided.
LEMMA HeadUndecided ==
  ASSUME Typed, InOnePlace, Asking, ~IsDemo
  PROVE  /\ Ruled(matched, gateway[Head(queue)].txn) = {}
         /\ Ruled(exceptions, gateway[Head(queue)].txn) = {}
<1>1. Head(queue) \in DOMAIN gateway /\ 1 \in Waiting(queue, Head(queue))
  BY HeadOfQueue, WaitingInTail DEF Typed, Asking
<1>2. OnePlace(Head(queue), gateway[Head(queue)].txn, next, queue, matched, exceptions)
  BY <1>1 DEF InOnePlace, Asking
<1> QED
  BY <1>1, <1>2 DEF OnePlace

LEMMA NextUndecided ==
  ASSUME Typed, InOnePlace, Resolve, ~IsDemo
  PROVE  /\ Ruled(matched, gateway[next].txn) = {}
         /\ Ruled(exceptions, gateway[next].txn) = {}
<1>1. next \in DOMAIN gateway /\ next \in Int /\ phase = "deterministic"
  BY Sequences DEF Resolve, Typed
<1>2. OnePlace(next, gateway[next].txn, next, queue, matched, exceptions)
  BY <1>1 DEF InOnePlace
<1> QED
  BY <1>1, <1>2 DEF OnePlace

LEMMA Undecided ==
  ASSUME Typed, ~IsDemo, NEW txn, Ruled(matched, txn) = {}, Ruled(exceptions, txn) = {}
  PROVE  txn \notin DecidedTxns
<1>1. DecidedTxns = Txns(matched) \cup Txns(exceptions)
  <2>1. DecidedTxns = Txns(matched \o exceptions)
    BY DEF DecidedTxns, Decisions, Txns
  <2> QED
    BY <2>1, TxnsOfBoth DEF Typed
<1> QED
  BY <1>1 DEF Ruled, Txns

\* A match on free rows, for an undecided transaction, is a step of the ledger.
LEMMA MatchIsAStep ==
  ASSUME Typed, DisjointClaims, ~IsDemo, UNCHANGED <<batch, exceptions>>,
         NEW d \in Decision, d.checked # {}, d.checked \subseteq pool,
         Ruled(matched, d.txn) = {}, Ruled(exceptions, d.txn) = {},
         matched' = Append(matched, d)
  PROVE  Ledger!Next
<1>1. bank' = bank /\ (IsDemo' <=> IsDemo)
  BY SameBatch DEF IsDemo
<1>2. d.txn \notin DecidedTxns
  BY Undecided
<1>3. DecidedTxns' = DecidedTxns \cup {d.txn}
  <2>1. matched \in Seq(Decision) /\ exceptions \in Seq(Decision)
    BY DEF Typed
  <2>2. Append(matched, d) \in Seq(Decision)
    BY <2>1, AppendDecision
  <2>3. DecidedTxns = Txns(matched) \cup Txns(exceptions)
    <3>1. DecidedTxns = Txns(matched \o exceptions)
      BY DEF DecidedTxns, Decisions, Txns
    <3> QED
      BY <2>1, <3>1, TxnsOfBoth
  <2>4. DecidedTxns' = Txns(Append(matched, d)) \cup Txns(exceptions)
    <3>1. DecidedTxns' = Txns(Append(matched, d) \o exceptions)
      BY <1>1 DEF DecidedTxns, Decisions, Txns
    <3> DEFINE longer == Append(matched, d)
    <3>2. longer \in Seq(Decision)
      BY <2>2
    <3> HIDE DEF longer
    <3>3. Txns(longer \o exceptions) = Txns(longer) \cup Txns(exceptions)
      BY <2>1, <3>2, TxnsOfBoth
    <3> QED
      BY <3>1, <3>3 DEF longer
  <2>5. Txns(Append(matched, d)) = Txns(matched) \cup {d.txn}
    BY <2>1, TxnsOfAppend
  <2> HIDE DEF Txns
  <2> QED
    BY <2>3, <2>4, <2>5
<1>4. \A k \in d.checked : k \in DOMAIN bank /\ Owners[k] = Nobody
  <2>1. \A k \in pool : {n \in DOMAIN matched : k \in matched[n].checked} = {}
    BY DEF DisjointClaims
  <2> QED
    BY <2>1 DEF Owners, OwnerOf, Typed
<1>5. Owners' = [k \in DOMAIN bank |-> IF k \in d.checked THEN d.txn ELSE Owners[k]]
  <2>1. /\ DOMAIN matched = 1..Len(matched) /\ Len(matched) \in Nat
        /\ DOMAIN matched' = 1..(Len(matched) + 1)
        /\ \A n \in 1..Len(matched) : matched'[n] = matched[n]
        /\ matched'[Len(matched) + 1] = d
    BY LenProperties, Appended DEF Typed
  <2>2. 1..(Len(matched) + 1) = (1..Len(matched)) \cup {Len(matched) + 1}
    BY <2>1
  <2> SUFFICES ASSUME NEW k \in DOMAIN bank
               PROVE  OwnerOf(k)' = IF k \in d.checked THEN d.txn ELSE OwnerOf(k)
    BY <1>1 DEF Owners
  <2> DEFINE before == {n \in DOMAIN matched : k \in matched[n].checked}
             after == {n \in DOMAIN matched' : k \in matched'[n].checked}
  <2>3. CASE k \in d.checked
    <3>1. before = {}
      BY <2>3 DEF DisjointClaims
    <3>2. after = {Len(matched) + 1}
      BY <2>1, <2>2, <2>3, <3>1
    <3>3. Max({Len(matched) + 1}) = Len(matched) + 1
      BY <2>1 DEF Max
    <3>4. OwnerOf(k)' = matched'[Len(matched) + 1].txn
      BY <3>2, <3>3 DEF OwnerOf
    <3> QED
      BY <2>1, <2>3, <3>4
  <2>4. CASE k \notin d.checked
    <3>1. after = before
      BY <2>1, <2>2, <2>4
    <3>2. CASE before = {}
      BY <2>4, <3>1, <3>2 DEF OwnerOf
    <3>3. CASE before # {}
      <4>1. Max(before) \in before
        <5>1. \A n \in before : n \in 1..Len(matched)
          BY <2>1
        <5>2. \E x \in before : \A y \in before : x >= y
          BY <2>1, <3>3, <5>1, MaxExists
        <5> QED
          BY <5>2 DEF Max
      <4>2. matched'[Max(before)] = matched[Max(before)]
        BY <2>1, <4>1
      <4>3. OwnerOf(k)' = matched'[Max(before)].txn
        BY <3>1, <3>3 DEF OwnerOf
      <4>4. OwnerOf(k) = matched[Max(before)].txn
        BY <3>3 DEF OwnerOf
      <4> QED
        BY <2>4, <4>2, <4>3, <4>4
    <3> QED
      BY <3>2, <3>3
  <2> QED
    BY <2>3, <2>4
<1>6. Ledger!Match(d.txn, d.checked)
  BY <1>1, <1>2, <1>3, <1>4, <1>5 DEF Ledger!Match, Ledger!Free, Owners, DecidedTxns
<1>7. d.checked \in SUBSET DOMAIN bank
  BY <1>4
<1> QED
  BY <1>2, <1>3, <1>6, <1>7 DEF Ledger!Next, DecidedTxns

\* An exception for an undecided transaction too.
LEMMA ReportIsAStep ==
  ASSUME Typed, ~IsDemo, UNCHANGED <<batch, matched>>,
         NEW d \in Decision, Ruled(matched, d.txn) = {}, Ruled(exceptions, d.txn) = {},
         exceptions' = Append(exceptions, d)
  PROVE  Ledger!Next
<1>1. bank' = bank /\ (IsDemo' <=> IsDemo)
  BY SameBatch DEF IsDemo
<1>2. d.txn \notin DecidedTxns
  BY Undecided
<1>3. DecidedTxns' = DecidedTxns \cup {d.txn}
  <2>1. matched \in Seq(Decision) /\ exceptions \in Seq(Decision)
    BY DEF Typed
  <2>2. Append(exceptions, d) \in Seq(Decision)
    BY <2>1, AppendDecision
  <2>3. DecidedTxns = Txns(matched) \cup Txns(exceptions)
    <3>1. DecidedTxns = Txns(matched \o exceptions)
      BY DEF DecidedTxns, Decisions, Txns
    <3> QED
      BY <2>1, <3>1, TxnsOfBoth
  <2>4. DecidedTxns' = Txns(matched) \cup Txns(Append(exceptions, d))
    <3>1. DecidedTxns' = Txns(matched \o Append(exceptions, d))
      BY <1>1 DEF DecidedTxns, Decisions, Txns
    <3> QED
      BY <2>1, <2>2, <3>1, TxnsOfBoth
  <2> QED
    BY <2>1, <2>3, <2>4, TxnsOfAppend
<1>4. Owners' = Owners
  BY <1>1 DEF Owners, OwnerOf
<1>5. Ledger!Report(d.txn)
  BY <1>1, <1>2, <1>3, <1>4 DEF Ledger!Report, Owners, DecidedTxns
<1> QED
  BY <1>2, <1>3, <1>5 DEF Ledger!Next, DecidedTxns

LEMMA LedgerStutters ==
  ASSUME UNCHANGED batch, IsDemo \/ UNCHANGED <<matched, exceptions>>
  PROVE  UNCHANGED <<DOMAIN bank, Owners, DecidedTxns>>
<1>1. bank' = bank /\ (IsDemo' <=> IsDemo)
  BY SameBatch DEF IsDemo
<1> QED
  BY <1>1 DEF Owners, OwnerOf, DecidedTxns, Decisions

LEMMA RunTakesLedgerSteps ==
  Typed /\ Justified /\ DisjointClaims /\ InOnePlace /\ [Next]_vars
    => Ledger!Next \/ UNCHANGED <<DOMAIN bank, Owners, DecidedTxns>>
<1> SUFFICES ASSUME Typed, Justified, DisjointClaims, InOnePlace, [Next]_vars
             PROVE  Ledger!Next \/ UNCHANGED <<DOMAIN bank, Owners, DecidedTxns>>
  OBVIOUS
<1>1. UNCHANGED batch
  BY DEF Next, Answer, ValidateInput, Resolve, StartAgentStage, Continue, ProposeMatch,
         ReportException, AgentRaises, Finish, Settle, vars
<1>2. CASE IsDemo \/ UNCHANGED <<matched, exceptions>>
  BY <1>1, <1>2, LedgerStutters
<1> SUFFICES ASSUME ~IsDemo, ~UNCHANGED <<matched, exceptions>>
             PROVE  Ledger!Next
  BY <1>2
<1>3. ASSUME Asking, NEW type \in ALL_TYPES \cup AgentTypes, UNCHANGED matched,
             exceptions' = Append(exceptions, Exception(Head(queue), type))
      PROVE  Ledger!Next
  <2> DEFINE report == Exception(Head(queue), type)
  <2>1. report \in Decision /\ report.txn = gateway[Head(queue)].txn
    BY <1>3, HeadOfQueue, ExceptionType DEF Asking, Exception
  <2>2. exceptions' = Append(exceptions, report)
    BY <1>3
  <2> HIDE DEF report
  <2> QED
    BY <1>1, <1>3, <2>1, <2>2, HeadUndecided, ReportIsAStep
<1>4. CASE Resolve
  <2> DEFINE explanations == Explanations(gateway[next], bank, pool, batch.window)
             chosen == UNION explanations
             utrs == {bank[k].utr : k \in chosen}
             found == Matched(next, utrs, chosen, "deterministic", "none")
             ambiguous == Exception(next, "AMBIGUOUS_MULTIPLE_CANDIDATES")
  <2>1. next \in DOMAIN gateway
    BY <1>4, Sequences DEF Resolve, Typed
  <2>2. \/ /\ Resolution(explanations) = "matched"
           /\ matched' = Append(matched, found) /\ UNCHANGED exceptions
        \/ exceptions' = Append(exceptions, ambiguous) /\ UNCHANGED matched
    BY <1>4 DEF Resolve
  <2>3. chosen \subseteq pool
    BY ExplainedFromPool
  <2>4. /\ found \in Decision /\ found.txn = gateway[next].txn
        /\ found.checked = chosen
    BY <2>1, <2>3, MatchedType DEF Typed, Utrs, Matched
  <2>5. ambiguous \in Decision /\ ambiguous.txn = gateway[next].txn
    BY <2>1, ExceptionType DEF ALL_TYPES, Exception
  <2>6. Resolution(explanations) = "matched" => chosen # {}
    <3> SUFFICES ASSUME Resolution(explanations) = "matched" PROVE chosen # {}
      OBVIOUS
    <3> DEFINE g == gateway[next]
               window == batch.window
    <3>1. IsFiniteSet(pool)
      BY FiniteBank, FS_Subset DEF Typed
    <3>2. Resolution(Explanations(g, bank, pool, window)) = "matched"
      OBVIOUS
    <3>3. chosen = UNION Explanations(g, bank, pool, window)
      OBVIOUS
    <3> HIDE DEF g, window, chosen, explanations
    <3>4. \E k \in chosen : Mentions(g, bank[k])
      BY <3>1, <3>2, <3>3, SoleExplanation
    <3> QED
      BY <3>4
  <2> HIDE DEF explanations, chosen, utrs, found, ambiguous
  <2> QED
    BY <1>1, <1>4, <2>2, <2>3, <2>4, <2>5, <2>6, NextUndecided, MatchIsAStep, ReportIsAStep
<1>5. CASE Continue
  BY <1>3, <1>5 DEF Continue, ALL_TYPES
<1>6. CASE ProposeMatch
  <2>1. Asking /\ Head(queue) \in DOMAIN gateway
    BY <1>6, HeadOfQueue DEF ProposeMatch, Asking
  <2>2. CASE Rejects
    BY <1>3, <2>1, <2>2 DEF Rejects, ALL_TYPES
  <2>3. CASE ~Rejects
    <3>1. PICK utrs \in SUBSET (Utrs \cup Invented), answer \in {"accept", "reject"} :
            /\ Verdict(gateway[Head(queue)], bank, Proposed(utrs), answer).accepted
            /\ Accepts(utrs,
                 Verdict(gateway[Head(queue)], bank, Proposed(utrs), answer).method)
      BY <1>6, <2>3, VerifiedProposal
    <3> DEFINE method == Verdict(gateway[Head(queue)], bank, Proposed(utrs), answer).method
               found == Matched(Head(queue), utrs, Proposed(utrs), "agent_verified",
                         method)
    <3>2. Grounds(batch, found, Head(queue), pool)
      BY <2>1, <3>1, ProposalGrounds
    <3>3. found \in Decision
      <4>1. method \in {"deterministic", "llm"}
        BY VerdictMethod
      <4>2. Proposed(utrs) \in SUBSET DOMAIN bank
        BY DEF Proposed, Typed
      <4> HIDE DEF method
      <4> QED
        BY <2>1, <4>1, <4>2, MatchedType
    <3>4. found.checked = Proposed(utrs) /\ found.txn = gateway[Head(queue)].txn
      BY DEF Matched
    <3>5. found.checked # {} /\ found.checked \subseteq pool
      BY <3>2, <3>4 DEF Grounds, Proposed
    <3>6. matched' = Append(matched, found) /\ UNCHANGED exceptions
      BY <3>1 DEF Accepts
    <3> HIDE DEF found
    <3> QED
      BY <1>1, <2>1, <3>3, <3>4, <3>5, <3>6, HeadUndecided, MatchIsAStep
  <2> QED
    BY <2>2, <2>3
<1>7. CASE ReportException
  BY <1>3, <1>7 DEF ReportException
<1> QED
  BY <1>2, <1>4, <1>5, <1>6, <1>7
     DEF Next, Answer, ValidateInput, StartAgentStage, AgentRaises, Finish, vars

\* Both stages of a full run only ever decide an undecided transaction, on rows
\* nobody has, and give nothing back: Allocation, with its stages and its agent.
THEOREM RunImplementsAllocation == Spec => ImplementsAllocation
<1>1. Init => Ledger!Init
  <2> SUFFICES ASSUME Init PROVE Ledger!Init
    OBVIOUS
  <2>1. matched = <<>> /\ exceptions = <<>>
    BY DEF Init
  <2>2. \A k \in DOMAIN bank : OwnerOf(k) = Nobody
    BY <2>1 DEF OwnerOf
  <2>3. DOMAIN Decisions = {}
    <3>1. Decisions = <<>> \o <<>>
      BY <2>1 DEF Decisions
    <3>2. <<>> \in Seq({}) /\ <<>> \o <<>> = <<>>
      BY EmptySeq, ConcatEmptySeq
    <3> QED
      BY <3>1, <3>2
  <2> QED
    BY <2>2, <2>3 DEF Ledger!Init
<1>2. Typed /\ Justified /\ InOnePlace /\ DisjointClaims /\ [Next]_vars
        => [Ledger!Next]_<<DOMAIN bank, Owners, DecidedTxns>>
  BY RunTakesLedgerSteps
<1>3. Spec => [](Typed /\ Justified /\ InOnePlace)
  BY InvariantInOnePlace
<1>4. Spec => []DisjointClaims
  BY ClaimsAreDisjoint
<1> QED
  BY <1>1, <1>2, <1>3, <1>4, PTL
     DEF Spec, ImplementsAllocation, Ledger!Spec, Owners, DecidedTxns

-----------------------------------------------------------------------------
(* How long a run can take.                                                *)

\* What is left to do at most: a step per stage, and for each record its turn
\* in the deterministic stage and a budget of LLM answers, less those it had.
StepsLeft ==
  CASE phase = "validate" ->
         3 + (MAX_STEPS + 1) * (Len(gateway) + 1 - next) + MAX_STEPS * Len(queue)
    [] phase = "deterministic" ->
         2 + (MAX_STEPS + 1) * (Len(gateway) + 1 - next) + MAX_STEPS * Len(queue)
    [] phase = "agent" ->
         1 + (IF queue = <<>> THEN 0 ELSE MAX_STEPS * Len(queue) - step)
    [] OTHER -> 0

LEMMA QueueLength ==
  ASSUME Typed
  PROVE  /\ Len(queue) \in Nat
         /\ queue # <<>> => /\ Len(queue) >= 1
                            /\ Len(Tail(queue)) = Len(queue) - 1
<1>1. queue \in Seq(DOMAIN gateway)
  BY DEF Typed
<1>2. Len(queue) \in Nat
  BY <1>1, LenProperties
<1>3. ASSUME queue # <<>>
      PROVE  Len(queue) >= 1 /\ Len(Tail(queue)) = Len(queue) - 1
  BY <1>1, <1>3, EmptySeq, HeadTailProperties
<1> QED
  BY <1>2, <1>3

\* It is never negative, and nothing is left only when the run is over.
LEMMA WhatIsLeft ==
  Typed => StepsLeft \in Nat /\ (StepsLeft = 0 <=> phase \in {"done", "raised"})
<1> SUFFICES ASSUME Typed
             PROVE  StepsLeft \in Nat /\ (StepsLeft = 0 <=> phase \in {"done", "raised"})
  OBVIOUS
<1> DEFINE early == 7 * (Len(gateway) + 1 - next) + 6 * Len(queue)
           late == 6 * Len(queue) - step
<1>1. Len(gateway) \in Nat /\ next \in 1..(Len(gateway) + 1) /\ step \in 0..5
  BY Sequences DEF Typed, MAX_STEPS
<1>2. Len(queue) \in Nat /\ (queue # <<>> => Len(queue) >= 1)
  BY QueueLength
<1>3. early \in Nat /\ (queue # <<>> => late \in Nat)
  BY <1>1, <1>2
<1>4. /\ phase = "validate" => StepsLeft = 3 + early
      /\ phase = "deterministic" => StepsLeft = 2 + early
      /\ phase = "agent" => StepsLeft = 1 + (IF queue = <<>> THEN 0 ELSE late)
      /\ phase \in {"done", "raised"} => StepsLeft = 0
  BY <1>1, <1>2 DEF StepsLeft, MAX_STEPS
<1> HIDE DEF early, late
<1>5. phase \in {"validate", "deterministic", "agent", "done", "raised"}
  BY DEF Typed
<1>6. CASE phase \in {"validate", "deterministic"}
  BY <1>3, <1>4, <1>6
<1>7. CASE phase = "agent"
  <2>1. CASE queue = <<>>
    BY <1>4, <1>7, <2>1
  <2>2. CASE queue # <<>>
    BY <1>3, <1>4, <1>7, <2>2
  <2> QED
    BY <2>1, <2>2
<1>8. CASE phase \in {"done", "raised"}
  BY <1>4, <1>8
<1> QED
  BY <1>5, <1>6, <1>7, <1>8

\* The stages before the agent's: a record is looked at once, and waits at most
\* once; a sample leaves no more waiting than there were.
LEMMA EarlyStagesAdvance ==
  ASSUME Typed, ValidateInput \/ Resolve \/ StartAgentStage
  PROVE  StepsLeft' < StepsLeft
<1>1. /\ Len(gateway) \in Nat /\ next \in 1..(Len(gateway) + 1)
      /\ Len(queue) \in Nat /\ batch \in Batches
  BY Sequences, QueueLength DEF Typed
<1>2. CASE ValidateInput
  <2>1. UNCHANGED <<gateway, next, queue>>
    BY <1>2 DEF ValidateInput, gateway
  <2>2. phase = "validate" /\ phase' \in {"deterministic", "raised"}
    BY <1>2 DEF ValidateInput
  <2> QED
    BY <1>1, <2>1, <2>2 DEF StepsLeft, MAX_STEPS
<1>3. CASE Resolve
  <2>1. /\ phase = "deterministic" /\ phase' = "deterministic" /\ next' = next + 1
        /\ UNCHANGED gateway /\ next <= Len(gateway)
        /\ (queue' = queue \/ queue' = Append(queue, next))
    BY <1>3 DEF Resolve, gateway
  <2>2. Len(queue') = Len(queue) \/ Len(queue') = Len(queue) + 1
    BY <2>1, AppendProperties DEF Typed
  <2> QED
    BY <1>1, <2>1, <2>2 DEF StepsLeft, MAX_STEPS
<1>4. CASE StartAgentStage
  <2>1. phase = "deterministic" /\ phase' = "agent" /\ UNCHANGED <<step, next>>
    BY <1>4 DEF StartAgentStage
  <2>2. Len(queue') \in Nat /\ Len(queue') <= Len(queue)
    <3>1. CASE IsDemo
      <4> DEFINE want == AgentWant(batch.sample, Len(queue))
      <4>1. queue' = Take(queue, want)
        BY <1>4, <3>1 DEF StartAgentStage
      <4>2. want \in Int
        <5>1. want \in Nat
          BY <1>1, Sequences, AgentWantBounds
        <5> HIDE DEF want
        <5> QED
          BY <5>1
      <4> HIDE DEF want
      <4>3. Take(queue, want) \in Seq(DOMAIN gateway) /\ Len(Take(queue, want)) <= Len(queue)
        BY <4>2, TakePrefix DEF Typed
      <4> QED
        BY <4>1, <4>3, LenProperties
    <3>2. CASE ~IsDemo
      BY <1>1, <1>4, <3>2 DEF StartAgentStage
    <3> QED
      BY <3>1, <3>2
  <2>3. step \in 0..5
    BY DEF Typed, MAX_STEPS
  <2>4. StepsLeft' = 1 \/ StepsLeft' = 1 + (6 * Len(queue') - step)
    BY <2>1 DEF StepsLeft, MAX_STEPS
  <2>5. /\ StepsLeft = 2 + 7 * (Len(gateway) + 1 - next) + 6 * Len(queue)
        /\ 7 * (Len(gateway) + 1 - next) \in Nat
    BY <1>1, <2>1 DEF StepsLeft, MAX_STEPS
  <2> QED
    BY <1>1, <2>2, <2>3, <2>4, <2>5
<1> QED
  BY <1>2, <1>3, <1>4

\* The agent stage: an answer either costs a step of the budget, or settles the
\* record, or ends the run.
LEMMA AgentStageAdvances ==
  ASSUME Typed, Answer \/ Finish
  PROVE  StepsLeft' < StepsLeft
<1>1. /\ Len(queue) \in Nat /\ step \in 0..5
      /\ queue # <<>> => Len(queue) >= 1 /\ Len(Tail(queue)) = Len(queue) - 1
  BY QueueLength DEF Typed, MAX_STEPS
<1>2. CASE Finish
  BY <1>2 DEF Finish, StepsLeft
<1>3. CASE AgentRaises
  BY <1>1, <1>3 DEF AgentRaises, Asking, StepsLeft, MAX_STEPS
<1>4. ASSUME Asking, Settle PROVE StepsLeft' < StepsLeft
  <2>1. queue' = Tail(queue) /\ step' = 0 /\ phase = "agent" /\ phase' = "agent"
        /\ queue # <<>>
    BY <1>4 DEF Asking, Settle
  <2> QED
    BY <1>1, <2>1 DEF StepsLeft, MAX_STEPS
<1>5. CASE Continue
  <2>1. CASE step + 1 < MAX_STEPS
    <3>1. step' = step + 1 /\ UNCHANGED <<phase, queue>> /\ phase = "agent" /\ queue # <<>>
      BY <1>5, <2>1 DEF Continue, Asking
    <3> QED
      BY <1>1, <3>1 DEF StepsLeft, MAX_STEPS
  <2>2. CASE ~(step + 1 < MAX_STEPS)
    BY <1>4, <1>5, <2>2 DEF Continue
  <2> QED
    BY <2>1, <2>2
<1>6. CASE ProposeMatch \/ ReportException
  BY <1>4, <1>6 DEF ProposeMatch, ReportException
<1> QED
  BY <1>2, <1>3, <1>5, <1>6 DEF Answer

\* Whatever the LLM answers, each step of a run brings its end nearer, and
\* there is nothing left to do only when it is over (_run_pipeline, with
\* MAX_STEPS of run_agent_on_record): a run of n records is over after at most
\* 3 + 7n steps, of which 6n are answers of the LLM.
RunsAreBounded ==
  /\ StepsLeft = 3 + (MAX_STEPS + 1) * Len(gateway)
  /\ [](StepsLeft \in Nat)
  /\ [](StepsLeft = 0 <=> phase \in {"done", "raised"})
  /\ [][StepsLeft' < StepsLeft]_vars

THEOREM EveryStepCounts == Spec => RunsAreBounded
<1>1. Init => StepsLeft = 3 + (MAX_STEPS + 1) * Len(gateway)
  <2> SUFFICES ASSUME Init PROVE StepsLeft = 3 + (MAX_STEPS + 1) * Len(gateway)
    OBVIOUS
  <2>1. phase = "validate" /\ next = 1 /\ Len(queue) = 0 /\ Len(gateway) \in Nat
    BY Sequences, EmptySeq DEF Init
  <2> QED
    BY <2>1 DEF StepsLeft, MAX_STEPS
<1>2. Typed /\ [Next]_vars => [StepsLeft' < StepsLeft]_vars
  BY EarlyStagesAdvance, AgentStageAdvances DEF Next
<1>3. Spec => []Typed
  BY InitTyped, NextTyped, PTL DEF Spec
<1> QED
  BY <1>1, <1>2, <1>3, WhatIsLeft, PTL DEF Spec, RunsAreBounded
=============================================================================
