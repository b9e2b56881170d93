--------------------------- MODULE SettlementsProofs ---------------------------
(***************************************************************************)
(* Proofs about Settlements, for any cases, records, credit lines,         *)
(* transfers, refunds and rates: no record is explained on two paths,      *)
(* facts that are added move an answer one way only, and a status never    *)
(* changes how much money there is.                                        *)
(***************************************************************************)
EXTENDS Settlements, SequenceTheorems, FiniteSetTheorems, WellFoundedInduction, TLAPS

-----------------------------------------------------------------------------
(* Totals.                                                                 *)

Pick(s) == CHOOSE x \in s : TRUE

\* The recursion behind Total, as a relation between a set and the function
\* that gives the total of each of its subsets.
IsSum(statement, S, f) ==
  f = [s \in SUBSET S |-> IF s = {} THEN 0
                          ELSE statement[Pick(s)].amount + f[s \ {Pick(s)}]]

LEMMA TotalIsSum ==
  ASSUME NEW statement, NEW ks
  PROVE  Total(statement, ks) = (CHOOSE f : IsSum(statement, ks, f))[ks]
BY DEF Total, MapThenSumSet, MapThenFoldSet, IsSum, Pick

LEMMA PickIsMember ==
  ASSUME NEW s, s # {}
  PROVE  Pick(s) \in s
BY DEF Pick

\* Of the sets with a property, all of them finite, one has no proper subset
\* with it: what induction over finite sets comes to without an operator.
LEMMA SmallestSet ==
  ASSUME NEW S, IsFiniteSet(S), NEW T \in SUBSET (SUBSET S), T # {}
  PROVE  \E s \in T : \A r \in SUBSET s : r # s => r \notin T
<1>1. IsWellFoundedOn(StrictSubsetOrdering(S), FiniteSubsetsOf(S))
  BY FS_StrictSubsetOrderingWellFounded
<1>2. FiniteSubsetsOf(S) = SUBSET S
  BY FS_FiniteSubsetsOfFinite
<1>3. PICK s \in T : \A r \in T : ~(<<r, s>> \in StrictSubsetOrdering(S))
  BY <1>1, <1>2, WFMin
<1> QED
  BY <1>3 DEF StrictSubsetOrdering

\* Two such functions agree where both are defined.
LEMMA SumsAgree ==
  ASSUME NEW statement, NEW S, NEW R \in SUBSET S, IsFiniteSet(R), NEW f, NEW g,
         IsSum(statement, S, f), IsSum(statement, R, g)
  PROVE  \A s \in SUBSET R : f[s] = g[s]
<1> DEFINE T == {s \in SUBSET R : f[s] # g[s]}
<1> SUFFICES ASSUME T # {} PROVE FALSE
  OBVIOUS
<1>1. PICK s \in T : \A r \in SUBSET s : r # s => r \notin T
  <2>1. T \in SUBSET (SUBSET R)
    OBVIOUS
  <2> HIDE DEF T
  <2> QED
    BY <2>1, SmallestSet
<1>2. \A x \in SUBSET R :
        /\ f[x] = IF x = {} THEN 0
                  ELSE statement[Pick(x)].amount + f[x \ {Pick(x)}]
        /\ g[x] = IF x = {} THEN 0
                  ELSE statement[Pick(x)].amount + g[x \ {Pick(x)}]
  BY DEF IsSum
<1>3. CASE s = {}
  BY <1>2, <1>3
<1>4. CASE s # {}
  <2>1. Pick(s) \in s
    BY <1>4, PickIsMember
  <2>2. f[s \ {Pick(s)}] = g[s \ {Pick(s)}]
    BY <1>1, <2>1
  <2> QED
    BY <1>2, <1>4, <2>2
<1> QED
  BY <1>3, <1>4

LEMMA SumExists ==
  ASSUME NEW statement, NEW S, IsFiniteSet(S)
  PROVE  \E f : IsSum(statement, S, f)
<1> DEFINE T == {s \in SUBSET S : ~ \E f : IsSum(statement, s, f)}
<1> SUFFICES ASSUME T # {} PROVE FALSE
  OBVIOUS
<1>1. PICK s \in T : \A r \in SUBSET s : r # s => r \notin T
  <2>1. T \in SUBSET (SUBSET S)
    OBVIOUS
  <2> HIDE DEF T
  <2> QED
    BY <2>1, SmallestSet
<1>2. IsFiniteSet(s)
  BY FS_Subset
<1> DEFINE sum(r) == CHOOSE f : IsSum(statement, r, f)
           total(r) == IF r = {} THEN 0
                       ELSE statement[Pick(r)].amount + sum(r \ {Pick(r)})[r \ {Pick(r)}]
           h == [r \in SUBSET s |-> total(r)]
<1>3. \A r \in SUBSET s : r # s => IsSum(statement, r, sum(r))
  BY <1>1
<1>4. \A r \in SUBSET s : r # s => sum(r)[r] = total(r)
  <2> SUFFICES ASSUME NEW r \in SUBSET s, r # s PROVE sum(r)[r] = total(r)
    OBVIOUS
  <2>1. IsSum(statement, r, sum(r))
    BY <1>3
  <2>2. CASE r = {}
    BY <2>1, <2>2 DEF IsSum
  <2>3. CASE r # {}
    <3> DEFINE t == r \ {Pick(r)}
    <3>1. t \in SUBSET r /\ t # s /\ t \in SUBSET s
      BY <2>3, PickIsMember
    <3>2. IsSum(statement, t, sum(t))
      BY <1>3, <3>1
    <3>3. IsFiniteSet(t)
      BY <1>2, <3>1, FS_Subset
    <3>4. t \in SUBSET t
      OBVIOUS
    <3>5. sum(r)[t] = sum(t)[t]
      <4> DEFINE f == sum(r)
                 g == sum(t)
      <4>1. IsSum(statement, r, f) /\ IsSum(statement, t, g)
        BY <2>1, <3>2
      <4> HIDE DEF f, g
      <4>2. \A x \in SUBSET t : f[x] = g[x]
        BY <3>1, <3>3, <4>1, SumsAgree
      <4>3. f[t] = g[t]
        BY <3>4, <4>2
      <4> QED
        BY <4>3 DEF f, g
    <3> HIDE DEF sum
    <3>6. sum(r)[r] = statement[Pick(r)].amount + sum(r)[t]
      BY <2>1, <2>3 DEF IsSum
    <3> QED
      BY <2>3, <3>5, <3>6
  <2> QED
    BY <2>2, <2>3
<1>5. \A r \in SUBSET s :
        h[r] = IF r = {} THEN 0 ELSE statement[Pick(r)].amount + h[r \ {Pick(r)}]
  <2> SUFFICES ASSUME NEW r \in SUBSET s, r # {}
               PROVE  total(r) = statement[Pick(r)].amount + h[r \ {Pick(r)}]
    <3> HIDE DEF sum
    <3>1. \A r \in SUBSET s : h[r] = total(r)
      OBVIOUS
    <3>2. {} \in SUBSET s => total({}) = 0
      OBVIOUS
    <3> HIDE DEF h
    <3>3. \A r \in SUBSET s : r = {} => h[r] = 0
      BY <3>1, <3>2
    <3> HIDE DEF total
    <3> QED
      BY <3>1, <3>3
  <2>1. r \ {Pick(r)} \in SUBSET s /\ r \ {Pick(r)} # s
    BY PickIsMember
  <2>2. h[r \ {Pick(r)}] = sum(r \ {Pick(r)})[r \ {Pick(r)}]
    BY <1>4, <2>1
  <2> QED
    BY <2>2
<1>6. IsSum(statement, s, h)
  <2> HIDE DEF total
  <2>1. h = [r \in SUBSET s |-> h[r]]
    OBVIOUS
  <2> HIDE DEF h
  <2> QED
    BY <1>5, <2>1 DEF IsSum
<1> QED
  BY <1>1, <1>6

LEMMA TotalUnfolds ==
  ASSUME NEW statement, NEW S, IsFiniteSet(S)
  PROVE  Total(statement, S) = IF S = {} THEN 0
                               ELSE statement[Pick(S)].amount + Total(statement, S \ {Pick(S)})
<1> DEFINE R == S \ {Pick(S)}
           f == CHOOSE f : IsSum(statement, S, f)
           g == CHOOSE g : IsSum(statement, R, g)
<1>1. IsFiniteSet(R) /\ R \in SUBSET S
  BY FS_Subset
<1>2. IsSum(statement, S, f) /\ IsSum(statement, R, g)
  BY <1>1, SumExists
<1>3. Total(statement, S) = f[S] /\ Total(statement, R) = g[R]
  BY TotalIsSum
<1> HIDE DEF f, g
<1>4. \A s \in SUBSET R : f[s] = g[s]
  BY <1>1, <1>2, SumsAgree
<1>5. f[S] = IF S = {} THEN 0 ELSE statement[Pick(S)].amount + f[R]
  BY <1>2 DEF IsSum
<1> QED  BY <1>3, <1>4, <1>5

\* A total of whole amounts is a whole amount.
LEMMA TotalIsInt ==
  ASSUME NEW statement, NEW S, IsFiniteSet(S), \A k \in S : statement[k].amount \in Int
  PROVE  Total(statement, S) \in Int
<1> DEFINE T == {s \in SUBSET S : Total(statement, s) \notin Int}
<1> SUFFICES ASSUME T # {} PROVE FALSE
  OBVIOUS
<1>1. PICK s \in T : \A r \in SUBSET s : r # s => r \notin T
  <2>1. T \in SUBSET (SUBSET S)
    OBVIOUS
  <2> HIDE DEF T
  <2> QED  BY <2>1, SmallestSet
<1>2. IsFiniteSet(s)
  BY FS_Subset
<1>3. s # {}
  BY <1>2, TotalUnfolds
<1>4. Total(statement, s) = statement[Pick(s)].amount + Total(statement, s \ {Pick(s)})
  BY <1>2, <1>3, TotalUnfolds
<1>5. Pick(s) \in s
  BY <1>3, PickIsMember
<1>6. Total(statement, s \ {Pick(s)}) \in Int /\ statement[Pick(s)].amount \in Int
  BY <1>1, <1>5
<1> QED  BY <1>4, <1>6

\* Any element can be taken out of a total, not only the one it began with.
LEMMA TotalWithout ==
  ASSUME NEW statement, NEW S, IsFiniteSet(S), \A k \in S : statement[k].amount \in Int,
         NEW x \in S
  PROVE  Total(statement, S) = Total(statement, S \ {x}) + statement[x].amount
<1> DEFINE sum(s) == Total(statement, s)
           T == {s \in SUBSET S : \E y \in s : sum(s) # sum(s \ {y}) + statement[y].amount}
<1> SUFFICES ASSUME T # {} PROVE FALSE
  OBVIOUS
<1>1. PICK s \in T : \A r \in SUBSET s : r # s => r \notin T
  <2>1. T \in SUBSET (SUBSET S)
    OBVIOUS
  <2> HIDE DEF T
  <2> QED  BY <2>1, SmallestSet
<1>2. PICK y \in s : sum(s) # sum(s \ {y}) + statement[y].amount
  OBVIOUS
<1> DEFINE z == Pick(s)
<1>3. z \in s
  BY PickIsMember
<1>4. \A r \in SUBSET S : IsFiniteSet(r) /\ sum(r) \in Int
  <2> SUFFICES ASSUME NEW r \in SUBSET S PROVE IsFiniteSet(r) /\ sum(r) \in Int
    OBVIOUS
  <2>1. IsFiniteSet(r)
    BY FS_Subset
  <2> QED  BY <2>1, TotalIsInt
<1>5. sum(s) = statement[z].amount + sum(s \ {z})
  BY <1>4, <1>3, TotalUnfolds
<1> HIDE DEF z, sum
<1>6. statement[y].amount \in Int /\ statement[z].amount \in Int
  BY <1>2, <1>3
<1>7. z # y
  <2>1. s \in SUBSET S
    OBVIOUS
  <2>2. sum(s \ {z}) \in Int
    BY <1>4, <2>1
  <2> HIDE DEF T
  <2>3. ASSUME z = y PROVE FALSE
    <3>1. sum(s) = statement[y].amount + sum(s \ {y}) /\ sum(s \ {y}) \in Int
      BY <1>5, <2>2, <2>3
    <3>2. sum(s) = sum(s \ {y}) + statement[y].amount
      BY <1>6, <3>1
    <3> QED  BY <1>2, <3>2
  <2> QED  BY <2>3
<1>8. sum(s \ {z}) = sum((s \ {z}) \ {y}) + statement[y].amount
  BY <1>1, <1>2, <1>3, <1>7
<1>9. sum(s \ {y}) = sum((s \ {y}) \ {z}) + statement[z].amount
  BY <1>1, <1>2, <1>3, <1>7
<1>10. (s \ {z}) \ {y} = (s \ {y}) \ {z}
  OBVIOUS
<1>11. sum((s \ {y}) \ {z}) \in Int
  BY <1>4
<1> HIDE DEF T
<1>12. ASSUME NEW rest \in Int, rest = sum((s \ {y}) \ {z}) PROVE FALSE
  <2>1. sum(s \ {z}) = rest + statement[y].amount /\ sum(s \ {y}) = rest + statement[z].amount
    BY <1>8, <1>9, <1>10, <1>12
  <2>2. sum(s) = sum(s \ {y}) + statement[y].amount
    BY <1>5, <1>6, <2>1
  <2> QED  BY <1>2, <2>2
<1> QED  BY <1>11, <1>12

LEMMA TotalWith ==
  ASSUME NEW statement, NEW S, IsFiniteSet(S), NEW x, x \notin S,
         \A k \in S \cup {x} : statement[k].amount \in Int
  PROVE  Total(statement, S \cup {x}) = Total(statement, S) + statement[x].amount
<1>1. IsFiniteSet(S \cup {x}) /\ (S \cup {x}) \ {x} = S
  BY FS_AddElement
<1> DEFINE R == S \cup {x}
<1>2. x \in R /\ IsFiniteSet(R) /\ R \ {x} = S /\ \A k \in R : statement[k].amount \in Int
  BY <1>1
<1> HIDE DEF R
<1>3. Total(statement, R) = Total(statement, R \ {x}) + statement[x].amount
  BY <1>2, TotalWithout
<1> QED  BY <1>2, <1>3 DEF R

LEMMA TotalOfBoth ==
  ASSUME NEW statement, NEW A, NEW B, IsFiniteSet(A), IsFiniteSet(B), A \cap B = {},
         \A k \in A \cup B : statement[k].amount \in Int
  PROVE  Total(statement, A \cup B) = Total(statement, A) + Total(statement, B)
<1> DEFINE sum(s) == Total(statement, s)
           T == {s \in SUBSET B : sum(A \cup s) # sum(A) + sum(s)}
<1> SUFFICES ASSUME T # {} PROVE FALSE
  OBVIOUS
<1>1. PICK s \in T : \A r \in SUBSET s : r # s => r \notin T
  <2>1. T \in SUBSET (SUBSET B)
    OBVIOUS
  <2> HIDE DEF T
  <2> QED  BY <2>1, SmallestSet
<1>2. IsFiniteSet(s) /\ sum(A) \in Int /\ sum({}) = 0
  <2>1. IsFiniteSet(s)
    BY FS_Subset
  <2>2. sum(A) \in Int
    BY TotalIsInt
  <2>3. sum({}) = 0
    BY TotalUnfolds, FS_EmptySet
  <2> QED  BY <2>1, <2>2, <2>3
<1>3. s # {}
  <2>1. ASSUME s = {} PROVE FALSE
    <3>1. A \cup s = A /\ s = {}
      BY <2>1
    <3> HIDE DEF sum
    <3>2. sum(A \cup s) = sum(A) /\ sum(s) = 0
      BY <1>2, <3>1
    <3>3. sum(A \cup s) # sum(A) + sum(s)
      OBVIOUS
    <3> HIDE DEF T
    <3> QED  BY <1>2, <3>2, <3>3
  <2> QED  BY <2>1
<1> DEFINE x == Pick(s)
           r == s \ {x}
<1>4. x \in s
  BY <1>3, PickIsMember
<1> HIDE DEF x
<1>5. IsFiniteSet(r) /\ IsFiniteSet(A \cup r) /\ x \notin A \cup r /\ x \notin r
  BY <1>2, <1>4, FS_Subset, FS_Union
<1>6. r \cup {x} = s /\ (A \cup r) \cup {x} = A \cup s
  BY <1>4
<1>7. sum(s) = sum(r) + statement[x].amount
  BY <1>4, <1>5, <1>6, TotalWith
<1>8. sum(A \cup s) = sum(A \cup r) + statement[x].amount
  <2> DEFINE q == A \cup r
  <2>1. IsFiniteSet(q) /\ x \notin q /\ \A k \in q \cup {x} : statement[k].amount \in Int
    BY <1>4, <1>5, <1>6
  <2> HIDE DEF q
  <2>2. Total(statement, q \cup {x}) = Total(statement, q) + statement[x].amount
    BY <2>1, TotalWith
  <2> QED  BY <1>6, <2>2 DEF q
<1>9. sum(A \cup r) = sum(A) + sum(r)
  BY <1>1, <1>4
<1>10. sum(r) \in Int /\ statement[x].amount \in Int
  <2>1. \A k \in r : statement[k].amount \in Int
    OBVIOUS
  <2>2. statement[x].amount \in Int
    BY <1>4
  <2> QED  BY <1>5, <2>1, <2>2, TotalIsInt
<1>11. sum(A \cup s) = sum(A) + sum(s)
  <2> HIDE DEF sum
  <2> QED  BY <1>2, <1>7, <1>8, <1>9, <1>10
<1> QED  BY <1>11

\* A total depends on the amounts it adds up only.
LEMMA TotalsAlike ==
  ASSUME NEW statement, NEW other, NEW S, IsFiniteSet(S),
         \A k \in S : statement[k].amount = other[k].amount
  PROVE  Total(statement, S) = Total(other, S)
<1> DEFINE T == {s \in SUBSET S : Total(statement, s) # Total(other, s)}
<1> SUFFICES ASSUME T # {} PROVE FALSE
  OBVIOUS
<1>1. PICK s \in T : \A r \in SUBSET s : r # s => r \notin T
  <2>1. T \in SUBSET (SUBSET S)
    OBVIOUS
  <2> HIDE DEF T
  <2> QED  BY <2>1, SmallestSet
<1>2. IsFiniteSet(s)
  BY FS_Subset
<1>3. /\ Total(statement, s) = IF s = {} THEN 0 ELSE statement[Pick(s)].amount + Total(statement, s \ {Pick(s)})
      /\ Total(other, s) = IF s = {} THEN 0 ELSE other[Pick(s)].amount + Total(other, s \ {Pick(s)})
  BY <1>2, TotalUnfolds
<1>4. s # {}
  BY <1>3
<1>5. Pick(s) \in s
  BY <1>4, PickIsMember
<1>6. Total(statement, s \ {Pick(s)}) = Total(other, s \ {Pick(s)})
  BY <1>1, <1>5
<1> QED  BY <1>3, <1>4, <1>5, <1>6

-----------------------------------------------------------------------------
(* The client always holds a case the server has accepted, and the answer  *)
(* to it.                                                                   *)

CaseOK(c) == WellFormed(c) /\ Acceptable(c)

CaseInv == CaseOK(case) /\ report = Answer(case)

Answered(new) == CaseOK(new) /\ case' = new /\ report' = Answer(new)

Refused == case' = case /\ report' = report

LEMMA PostAnswers ==
  ASSUME NEW new, WellFormed(new), Post(new)
  PROVE  Answered(new) \/ Refused
<1>1. PICK h \in Headers :
         LET gate == Gate(h, ApiKeys)
             reply == IF gate # 200 THEN gate ELSE IF Acceptable(new) THEN 200 ELSE 422
         IN  IF reply = 200 THEN case' = new /\ report' = Answer(new) /\ moves' = moves + 1
             ELSE UNCHANGED <<case, report, moves>>
  BY DEF Post
<1> QED  BY <1>1 DEF Answered, Refused, CaseOK

\* A well-formed case is of one kind, which tells its fields.
LEMMA CaseFields ==
  ASSUME NEW c, WellFormed(c)
  PROVE  /\ c.kind = "batches" =>
              /\ DOMAIN c = {"kind", "gateway", "lines", "expected"}
              /\ c.gateway \in Seq(BatchItems) /\ c.lines \in Seq(BatchItems)
         /\ c.kind = "split" =>
              /\ DOMAIN c = {"kind", "net", "transfers", "commission", "expected"}
              /\ c.net \in Int /\ c.commission \in Int /\ c.transfers \in Seq(TransferItems)
         /\ c.kind = "chargeback" =>
              /\ DOMAIN c = {"kind", "net", "status", "disputed", "fee", "expected"}
              /\ c.net \in Int /\ c.disputed \in Int /\ c.fee \in Int
         /\ c.kind = "refunds" =>
              /\ DOMAIN c = {"kind", "captured", "events", "expected"}
              /\ c.captured \in [DOMAIN c.captured -> Int] /\ c.events \in Seq(RefundItems)
         /\ c.kind = "fx" =>
              /\ DOMAIN c = {"kind", "units", "from", "settled", "to", "min", "max", "markup", "expected"}
              /\ c.units \in Int /\ c.settled \in Int /\ c.min \in Int /\ c.max \in Int /\ c.markup \in Int
  BY DEF WellFormed

\* What a move makes of the fields.
WithRecord(r) == Moved([case EXCEPT !.gateway = Append(@, r)])
WithLine(l) == Moved([case EXCEPT !.lines = Append(@, l)])
WithTransfer(t) == Moved([case EXCEPT !.transfers = Append(@, t)])
WithStatus(i, s) == Moved([case EXCEPT !.transfers[i].status = s])
WithDispute(s) == Moved([case EXCEPT !.status = s])
WithRefund(e) == Moved([case EXCEPT !.events = Append(@, e)])
WithBand(down, up, more) ==
  Moved([case EXCEPT !.min = @ - down, !.max = @ + up, !.markup = @ + more])

LEMMA AppendIsSeq ==
  ASSUME NEW S, NEW s \in Seq(S), NEW e \in S
  PROVE  /\ Append(s, e) \in Seq(S)
         /\ Len(s) \in Nat /\ DOMAIN s = 1..Len(s)
         /\ DOMAIN Append(s, e) = 1..Len(s) + 1
         /\ Len(Append(s, e)) = Len(s) + 1
         /\ Append(s, e)[Len(s) + 1] = e
         /\ \A k \in DOMAIN s : Append(s, e)[k] = s[k]
  OBVIOUS

LEMMA RecordFields ==
  ASSUME CaseInv, case.kind = "batches", NEW r \in Records
  PROVE  /\ WellFormed(WithRecord(r)) /\ WithRecord(r).kind = "batches"
         /\ WithRecord(r).gateway = Append(case.gateway, r)
         /\ WithRecord(r).lines = case.lines
<1>1. /\ DOMAIN case = {"kind", "gateway", "lines", "expected"}
      /\ case.gateway \in Seq(BatchItems) /\ case.lines \in Seq(BatchItems)
  BY CaseFields DEF CaseInv, CaseOK
<1>2. Append(case.gateway, r) \in Seq(BatchItems)
  BY <1>1, SettlementsAssumption, AppendIsSeq
<1> DEFINE c == WithRecord(r)
<1>3. /\ DOMAIN c = DOMAIN case /\ c.kind = case.kind
      /\ c.gateway = Append(case.gateway, r) /\ c.lines = case.lines
  BY <1>1 DEF WithRecord, Moved
<1> HIDE DEF c
<1>4. WellFormed(c)
  BY <1>1, <1>2, <1>3 DEF WellFormed
<1> QED  BY <1>3, <1>4 DEF c

LEMMA LineFields ==
  ASSUME CaseInv, case.kind = "batches", NEW l \in Records
  PROVE  /\ WellFormed(WithLine(l)) /\ WithLine(l).kind = "batches"
         /\ WithLine(l).lines = Append(case.lines, l)
         /\ WithLine(l).gateway = case.gateway
<1>1. /\ DOMAIN case = {"kind", "gateway", "lines", "expected"}
      /\ case.gateway \in Seq(BatchItems) /\ case.lines \in Seq(BatchItems)
  BY CaseFields DEF CaseInv, CaseOK
<1>2. Append(case.lines, l) \in Seq(BatchItems)
  BY <1>1, SettlementsAssumption, AppendIsSeq
<1> DEFINE c == WithLine(l)
<1>3. /\ DOMAIN c = DOMAIN case /\ c.kind = case.kind
      /\ c.lines = Append(case.lines, l) /\ c.gateway = case.gateway
  BY <1>1 DEF WithLine, Moved
<1> HIDE DEF c
<1>4. WellFormed(c)
  BY <1>1, <1>2, <1>3 DEF WellFormed
<1> QED  BY <1>3, <1>4 DEF c

LEMMA TransferFields ==
  ASSUME CaseInv, case.kind = "split", NEW t \in Transfers
  PROVE  /\ WellFormed(WithTransfer(t)) /\ WithTransfer(t).kind = "split"
         /\ WithTransfer(t).transfers = Append(case.transfers, t)
<1>1. /\ DOMAIN case = {"kind", "net", "transfers", "commission", "expected"}
      /\ case.net \in Int /\ case.commission \in Int /\ case.transfers \in Seq(TransferItems)
  BY CaseFields DEF CaseInv, CaseOK
<1>2. Append(case.transfers, t) \in Seq(TransferItems)
  BY <1>1, SettlementsAssumption, AppendIsSeq
<1> DEFINE c == WithTransfer(t)
<1>3. /\ DOMAIN c = DOMAIN case /\ c.kind = case.kind
      /\ c.transfers = Append(case.transfers, t) /\ c.net = case.net /\ c.commission = case.commission
  BY <1>1 DEF WithTransfer, Moved
<1> HIDE DEF c
<1>4. WellFormed(c)
  BY <1>1, <1>2, <1>3 DEF WellFormed
<1> QED  BY <1>3, <1>4 DEF c

LEMMA StatusFields ==
  ASSUME CaseInv, case.kind = "split", NEW i \in DOMAIN case.transfers,
         NEW s \in SentStatuses
  PROVE  /\ WellFormed(WithStatus(i, s)) /\ WithStatus(i, s).kind = "split"
         /\ WithStatus(i, s).net = case.net /\ WithStatus(i, s).commission = case.commission
         /\ DOMAIN WithStatus(i, s).transfers = DOMAIN case.transfers
         /\ \A k \in DOMAIN case.transfers :
              WithStatus(i, s).transfers[k].amount = case.transfers[k].amount
<1>1. /\ DOMAIN case = {"kind", "net", "transfers", "commission", "expected"}
      /\ case.net \in Int /\ case.commission \in Int /\ case.transfers \in Seq(TransferItems)
  BY CaseFields DEF CaseInv, CaseOK
<1>2. \A k \in DOMAIN case.transfers : case.transfers[k] \in TransferItems
  BY <1>1
<1> DEFINE item == [case.transfers[i] EXCEPT !.status = s]
           items == [case.transfers EXCEPT ![i] = item]
           c == WithStatus(i, s)
<1>3. item \in TransferItems /\ item.amount = case.transfers[i].amount
  <2>1. case.transfers[i] \in [amount : Int, status : SentStatuses]
    BY <1>2 DEF TransferItems
  <2> QED  BY <2>1 DEF TransferItems
<1>4. /\ DOMAIN c = DOMAIN case /\ c.kind = case.kind
      /\ c.transfers = items /\ c.net = case.net /\ c.commission = case.commission
  BY <1>1 DEF WithStatus, Moved
<1> HIDE DEF item, c
<1>5. /\ items \in Seq(TransferItems) /\ DOMAIN items = DOMAIN case.transfers
      /\ \A k \in DOMAIN case.transfers : items[k] = IF k = i THEN item ELSE case.transfers[k]
  BY <1>1, <1>3
<1> HIDE DEF items
<1>6. WellFormed(c)
  BY <1>1, <1>4, <1>5 DEF WellFormed
<1> QED  BY <1>3, <1>4, <1>5, <1>6 DEF c

LEMMA DisputeFields ==
  ASSUME CaseInv, case.kind = "chargeback", NEW s
  PROVE  /\ WellFormed(WithDispute(s)) /\ WithDispute(s).kind = "chargeback"
         /\ WithDispute(s).net = case.net /\ WithDispute(s).disputed = case.disputed
         /\ WithDispute(s).fee = case.fee
<1>1. /\ DOMAIN case = {"kind", "net", "status", "disputed", "fee", "expected"}
      /\ case.net \in Int /\ case.disputed \in Int /\ case.fee \in Int
  BY CaseFields DEF CaseInv, CaseOK
<1> DEFINE c == WithDispute(s)
<1>2. /\ DOMAIN c = DOMAIN case /\ c.kind = case.kind
      /\ c.net = case.net /\ c.disputed = case.disputed /\ c.fee = case.fee
  BY <1>1 DEF WithDispute, Moved
<1> HIDE DEF c
<1>3. WellFormed(c)
  BY <1>1, <1>2 DEF WellFormed
<1> QED  BY <1>2, <1>3 DEF c

LEMMA RefundFields ==
  ASSUME CaseInv, case.kind = "refunds", NEW e \in RefundEvents
  PROVE  /\ WellFormed(WithRefund(e)) /\ WithRefund(e).kind = "refunds"
         /\ WithRefund(e).captured = case.captured
         /\ WithRefund(e).events = Append(case.events, e)
<1>1. /\ DOMAIN case = {"kind", "captured", "events", "expected"}
      /\ case.captured \in [DOMAIN case.captured -> Int] /\ case.events \in Seq(RefundItems)
  BY CaseFields DEF CaseInv, CaseOK
<1>2. Append(case.events, e) \in Seq(RefundItems)
  BY <1>1, SettlementsAssumption, AppendIsSeq
<1> DEFINE c == WithRefund(e)
<1>3. /\ DOMAIN c = DOMAIN case /\ c.kind = case.kind
      /\ c.captured = case.captured /\ c.events = Append(case.events, e)
  BY <1>1 DEF WithRefund, Moved
<1> HIDE DEF c
<1>4. WellFormed(c)
  BY <1>1, <1>2, <1>3 DEF WellFormed
<1> QED  BY <1>3, <1>4 DEF c

LEMMA BandFields ==
  ASSUME CaseInv, case.kind = "fx", NEW down \in Steps, NEW up \in Steps, NEW more \in Steps
  PROVE  /\ WellFormed(WithBand(down, up, more)) /\ WithBand(down, up, more).kind = "fx"
         /\ WithBand(down, up, more).units = case.units
         /\ WithBand(down, up, more).settled = case.settled
         /\ WithBand(down, up, more).from = case.from
         /\ WithBand(down, up, more).to = case.to
         /\ WithBand(down, up, more).min = case.min - down
         /\ WithBand(down, up, more).max = case.max + up
         /\ WithBand(down, up, more).markup = case.markup + more
<1>1. /\ DOMAIN case = {"kind", "units", "from", "settled", "to", "min", "max", "markup", "expected"}
      /\ case.units \in Int /\ case.settled \in Int /\ case.min \in Int /\ case.max \in Int
      /\ case.markup \in Int
  BY CaseFields DEF CaseInv, CaseOK
<1>2. down \in Int /\ up \in Int /\ more \in Int
  BY SettlementsAssumption
<1> DEFINE c == WithBand(down, up, more)
<1>3. /\ DOMAIN c = DOMAIN case /\ c.kind = case.kind /\ c.units = case.units
      /\ c.settled = case.settled /\ c.from = case.from /\ c.to = case.to
      /\ c.min = case.min - down /\ c.max = case.max + up /\ c.markup = case.markup + more
  BY <1>1 DEF WithBand, Moved
<1> HIDE DEF c
<1>4. c.min \in Int /\ c.max \in Int /\ c.markup \in Int
  BY <1>1, <1>2, <1>3
<1>5. WellFormed(c)
  BY <1>1, <1>3, <1>4 DEF WellFormed
<1> QED  BY <1>3, <1>5 DEF c

\* Every step is one of the moves, answered, or leaves case and answer alone.
Moves ==
  \/ case.kind = "batches" /\ \E r \in Records : Answered(WithRecord(r)) \/ Answered(WithLine(r))
  \/ case.kind = "split" /\ \E t \in Transfers : Answered(WithTransfer(t))
  \/ /\ case.kind = "split"
     /\ \E i \in DOMAIN case.transfers, s \in SentStatuses :
          Answered(WithStatus(i, s))
  \/ case.kind = "chargeback" /\ \E s \in DisputeStatuses \cup {"closed"} : Answered(WithDispute(s))
  \/ case.kind = "refunds" /\ \E e \in RefundEvents : Answered(WithRefund(e))
  \/ case.kind = "fx" /\ \E down, up, more \in Steps : Answered(WithBand(down, up, more))

LEMMA EveryStepMoves == CaseInv /\ [Next]_vars => Moves \/ Refused
<1> SUFFICES ASSUME CaseInv, [Next]_vars PROVE Moves \/ Refused
  OBVIOUS
<1>1. CASE AddRecord
  <2>1. PICK r \in Records : Post(WithRecord(r))
    BY <1>1 DEF AddRecord, WithRecord
  <2>2. case.kind = "batches"
    BY <1>1 DEF AddRecord
  <2> QED  BY <2>1, <2>2, RecordFields, PostAnswers DEF Moves
<1>2. CASE AddLine
  <2>1. PICK l \in Records : Post(WithLine(l))
    BY <1>2 DEF AddLine, WithLine
  <2>2. case.kind = "batches"
    BY <1>2 DEF AddLine
  <2> QED  BY <2>1, <2>2, LineFields, PostAnswers DEF Moves
<1>3. CASE AddTransfer
  <2>1. PICK t \in Transfers : Post(WithTransfer(t))
    BY <1>3 DEF AddTransfer, WithTransfer
  <2>2. case.kind = "split"
    BY <1>3 DEF AddTransfer
  <2> QED  BY <2>1, <2>2, TransferFields, PostAnswers DEF Moves
<1>4. CASE MoveTransfer
  <2>1. PICK i \in DOMAIN case.transfers, s \in SentStatuses :
          Post(WithStatus(i, s))
    BY <1>4 DEF MoveTransfer, WithStatus
  <2>2. case.kind = "split"
    BY <1>4 DEF MoveTransfer
  <2> QED  BY <2>1, <2>2, StatusFields, PostAnswers DEF Moves
<1>5. CASE MoveDispute
  <2>1. PICK s \in DisputeStatuses \cup {"closed"} : Post(WithDispute(s))
    BY <1>5 DEF MoveDispute, WithDispute
  <2>2. case.kind = "chargeback"
    BY <1>5 DEF MoveDispute
  <2> QED  BY <2>1, <2>2, DisputeFields, PostAnswers DEF Moves
<1>6. CASE Refund
  <2>1. PICK e \in RefundEvents : Post(WithRefund(e))
    BY <1>6 DEF Refund, WithRefund
  <2>2. case.kind = "refunds"
    BY <1>6 DEF Refund
  <2> QED  BY <2>1, <2>2, RefundFields, PostAnswers DEF Moves
<1>7. CASE Rerate
  <2>1. PICK down \in Steps, up \in Steps, more \in Steps : Post(WithBand(down, up, more))
    BY <1>7 DEF Rerate, WithBand
  <2>2. case.kind = "fx"
    BY <1>7 DEF Rerate
  <2> QED  BY <2>1, <2>2, BandFields, PostAnswers DEF Moves
<1>8. CASE UNCHANGED vars
  BY <1>8 DEF vars, Refused
<1> QED  BY <1>1, <1>2, <1>3, <1>4, <1>5, <1>6, <1>7, <1>8 DEF Next

LEMMA AlwaysCaseInv == Spec => []CaseInv
<1>1. Init => CaseInv
  BY SettlementsAssumption DEF Init, CaseInv, CaseOK
<1>2. CaseInv /\ [Next]_vars => CaseInv'
  <2> SUFFICES ASSUME CaseInv, [Next]_vars PROVE CaseInv'
    OBVIOUS
  <2>1. ASSUME NEW new, Answered(new) PROVE CaseInv'
    BY <2>1 DEF Answered, CaseInv
  <2>2. CASE Refused
    BY <2>2 DEF Refused, CaseInv
  <2> QED  BY <2>1, <2>2, EveryStepMoves DEF Moves
<1> QED  BY <1>1, <1>2, PTL DEF Spec

-----------------------------------------------------------------------------
(* Batches and the pool.                                                   *)

LEMMA PoolIsFinite ==
  ASSUME NEW gateway \in Seq(BatchItems)
  PROVE  /\ IsFiniteSet(DOMAIN gateway)
         /\ IsFiniteSet(Unbatched(gateway))
         /\ Unbatched(gateway) \subseteq DOMAIN gateway
         /\ \A k \in DOMAIN gateway : gateway[k].amount \in Int
<1>1. DOMAIN gateway = 1..Len(gateway) /\ Len(gateway) \in Nat
  OBVIOUS
<1>2. IsFiniteSet(DOMAIN gateway)
  BY <1>1, FS_Interval
<1>3. Unbatched(gateway) \in SUBSET DOMAIN gateway
  BY DEF Unbatched
<1>4. \A k \in DOMAIN gateway : gateway[k] \in BatchItems
  OBVIOUS
<1> QED  BY <1>2, <1>3, <1>4, FS_Subset DEF BatchItems

LEMMA AllGroupsIs ==
  ASSUME NEW gateway, NEW amount
  PROVE  AllGroups(gateway, amount) =
           {ks \in SUBSET Unbatched(gateway) :
              Cardinality(ks) \in 2..MAX_GROUP_SIZE /\ Near(Total(gateway, ks), amount)}
  BY DEF AllGroups, Groups, kSubset

\* Every group found is of records without a batch.
LEMMA GroupsAreUnbatched ==
  ASSUME NEW gateway, NEW amount
  PROVE  UNION SubsetMatch(gateway, amount).groups \subseteq Unbatched(gateway)
<1>1. Found(gateway, amount) \subseteq AllGroups(gateway, amount)
  BY DEF Found
<1>2. SubsetMatch(gateway, amount).groups \subseteq SUBSET Unbatched(gateway)
  BY <1>1, AllGroupsIs DEF SubsetMatch
<1> QED  BY <1>2

LEMMA ReportOfBatch ==
  ASSUME NEW gateway, NEW lines, NEW b
  PROVE  /\ BatchReport(gateway, lines, b).batch = b
         /\ BatchReport(gateway, lines, b).members = InBatch(gateway, b)
  BY DEF BatchReport

\* A gateway record is in the report of one batch or in the pool of the fallback,
\* never in both and never in neither, and no group takes a record of a batch.
THEOREM OnePathPerRecord == Spec => []RecordsHaveOnePath
<1>1. CaseInv => RecordsHaveOnePath
  <2> SUFFICES ASSUME CaseInv, case.kind = "batches", NEW i \in DOMAIN case.gateway
               PROVE  LET batches == {r.batch : r \in {b \in report.batches : i \in b.members}}
                          candidate == \E f \in report.fallback : i \in UNION f.groups
                      IN  /\ Cardinality(batches) + (IF i \in Unbatched(case.gateway) THEN 1 ELSE 0) = 1
                          /\ candidate => batches = {}
    BY DEF RecordsHaveOnePath
  <2> DEFINE gateway == case.gateway
             batches == {r.batch : r \in {b \in report.batches : i \in b.members}}
             candidate == \E f \in report.fallback : i \in UNION f.groups
             id == gateway[i].batch
  <2>1. /\ report.batches = BatchReports(gateway, case.lines)
        /\ report.fallback = {SubsetMatch(gateway, case.lines[k].amount) : k \in Unbatched(case.lines)}
    BY DEF CaseInv, Answer, BatchesAnswer
  <2>2. \A r \in report.batches :
          /\ r.batch \in BatchIds(gateway) /\ r.members = InBatch(gateway, r.batch)
          /\ i \in r.members <=> r.batch = id
    BY <2>1, ReportOfBatch DEF BatchReports, InBatch
  <2>3. \A b \in BatchIds(gateway) : \E r \in report.batches : r.batch = b
    BY <2>1, ReportOfBatch DEF BatchReports
  <2>4. candidate => i \in Unbatched(gateway)
    BY <2>1, GroupsAreUnbatched
  <2> DEFINE other == IF i \in Unbatched(gateway) THEN 1 ELSE 0
  <2> SUFFICES Cardinality(batches) + other = 1 /\ (candidate => batches = {})
    OBVIOUS
  <2> HIDE DEF candidate
  <2>5. CASE i \in Unbatched(gateway)
    <3>1. id \notin BatchIds(gateway)
      BY <2>5 DEF BatchIds, Batched, Unbatched
    <3>2. batches = {}
      BY <2>2, <3>1
    <3>3. Cardinality(batches) = 0
      BY <3>2, FS_EmptySet
    <3> QED  BY <2>5, <3>2, <3>3
  <2>6. CASE i \notin Unbatched(gateway)
    <3>1. id \in BatchIds(gateway)
      BY <2>6 DEF BatchIds, Batched, Unbatched
    <3>2. batches = {id}
      BY <2>2, <2>3, <3>1
    <3>3. Cardinality(batches) = 1
      BY <3>2, FS_Singleton
    <3> QED  BY <2>4, <2>6, <3>3
  <2> QED  BY <2>5, <2>6
<1> QED  BY <1>1, AlwaysCaseInv, PTL

\* Of a set of finite sets, one has the fewest members.
LEMMA FewestExists ==
  ASSUME NEW A, IsFiniteSet(A), A # {}, \A ks \in A : Cardinality(ks) \in Nat
  PROVE  \E m \in A : Smaller(A, m) = {}
<1> DEFINE T == {Smaller(A, ks) : ks \in A}
<1>1. T \in SUBSET (SUBSET A) /\ T # {}
  BY DEF Smaller
<1>2. PICK s \in T : \A r \in SUBSET s : r # s => r \notin T
  <2> HIDE DEF T
  <2> QED  BY <1>1, SmallestSet
<1>3. PICK m \in A : s = Smaller(A, m)
  OBVIOUS
<1>4. ASSUME NEW j \in Smaller(A, m) PROVE FALSE
  <2>1. j \in A /\ Cardinality(j) < Cardinality(m)
    BY DEF Smaller
  <2>2. j \notin Smaller(A, j)
    BY <2>1 DEF Smaller
  <2>3. Smaller(A, j) \subseteq Smaller(A, m)
    <3> SUFFICES ASSUME NEW k \in A, Cardinality(k) < Cardinality(j)
                 PROVE  Cardinality(k) < Cardinality(m)
      BY DEF Smaller
    <3>1. Cardinality(k) \in Nat /\ Cardinality(j) \in Nat /\ Cardinality(m) \in Nat
      BY <2>1
    <3> QED  BY <2>1, <3>1
  <2> QED  BY <1>2, <1>3, <2>1, <2>2, <2>3
<1> QED  BY <1>4

\* What the search keeps of the groups there are.
Kept(groups) == {ks \in groups : Cardinality(Smaller(groups, ks)) < 2}

LEMMA FoundIsKept ==
  ASSUME NEW gateway, NEW amount
  PROVE  Found(gateway, amount) = Kept(AllGroups(gateway, amount))
  BY DEF Found, Kept

\* The search stops early, but never so early that one group looks like the only.
LEMMA SearchTellsOneFromMore ==
  ASSUME NEW A, IsFiniteSet(A), \A ks \in A : Cardinality(ks) \in Nat
  PROVE  /\ Kept(A) \subseteq A /\ IsFiniteSet(Kept(A))
         /\ A # {} => Kept(A) # {}
         /\ (\E k \in A, l \in A : k # l) => Cardinality(Kept(A)) # 1
         /\ (\A k, l \in A : k = l) /\ A # {} => Cardinality(Kept(A)) = 1
<1>1. Kept(A) \in SUBSET A
  BY DEF Kept
<1>2. IsFiniteSet(Kept(A))
  BY <1>1, FS_Subset
<1>3. ASSUME A # {} PROVE \E m \in A : Smaller(A, m) = {} /\ m \in Kept(A)
  BY <1>3, FewestExists, FS_EmptySet DEF Kept
<1>4. ASSUME NEW k \in A, NEW l \in A, k # l PROVE Cardinality(Kept(A)) # 1
  <2>1. PICK m \in A : m \in Kept(A)
    BY <1>3
  <2> DEFINE B == A \ {m}
  <2>2. B # {} /\ IsFiniteSet(B) /\ \A ks \in B : Cardinality(ks) \in Nat
    BY <1>4, FS_Subset
  <2>3. PICK n \in B : Smaller(B, n) = {}
    <3> HIDE DEF B
    <3> QED  BY <2>2, FewestExists
  <2>4. Smaller(A, n) \in SUBSET {m}
    BY <2>3 DEF Smaller
  <2>5. Cardinality(Smaller(A, n)) <= 1 /\ Cardinality(Smaller(A, n)) \in Nat
    <3>1. IsFiniteSet({m}) /\ Cardinality({m}) = 1
      BY FS_Singleton
    <3>2. IsFiniteSet(Smaller(A, n)) /\ Cardinality(Smaller(A, n)) <= Cardinality({m})
      BY <2>4, <3>1, FS_Subset
    <3> QED  BY <3>1, <3>2, FS_CardinalityType
  <2>6. n \in Kept(A) /\ n # m
    BY <2>3, <2>5 DEF Kept
  <2> QED  BY <1>2, <2>1, <2>6, FS_Singleton
<1>5. ASSUME \A k, l \in A : k = l, A # {} PROVE Cardinality(Kept(A)) = 1
  <2>1. PICK m \in A : m \in Kept(A)
    BY <1>3, <1>5
  <2>2. Kept(A) = {m}
    BY <1>1, <1>5, <2>1
  <2> QED  BY <2>2, FS_Singleton
<1> QED  BY <1>1, <1>2, <1>3, <1>4, <1>5

LEMMA GroupsAreFinite ==
  ASSUME NEW gateway \in Seq(BatchItems), NEW amount
  PROVE  /\ IsFiniteSet(AllGroups(gateway, amount))
         /\ \A ks \in AllGroups(gateway, amount) : Cardinality(ks) \in Nat
<1>1. IsFiniteSet(SUBSET Unbatched(gateway))
  BY PoolIsFinite, FS_SUBSET
<1>2. AllGroups(gateway, amount) \in SUBSET (SUBSET Unbatched(gateway))
  BY AllGroupsIs
<1>3. \A ks \in AllGroups(gateway, amount) : Cardinality(ks) \in 2..MAX_GROUP_SIZE
  BY AllGroupsIs
<1> QED  BY <1>1, <1>2, <1>3, FS_Subset DEF MAX_GROUP_SIZE

\* The status of a search in terms of all the groups there are.
LEMMA StatusOfSearch ==
  ASSUME NEW gateway \in Seq(BatchItems), NEW amount
  PROVE  /\ SubsetMatch(gateway, amount).amount = amount
         /\ SubsetMatch(gateway, amount).status =
              IF Cardinality(Unbatched(gateway)) > MAX_POOL_SIZE THEN "pool_too_large"
              ELSE IF AllGroups(gateway, amount) = {} THEN "no_match_found"
              ELSE IF \A k, l \in AllGroups(gateway, amount) : k = l THEN "candidate_match"
              ELSE "ambiguous"
<1> DEFINE A == AllGroups(gateway, amount)
           F == Found(gateway, amount)
<1>1. IsFiniteSet(A) /\ \A ks \in A : Cardinality(ks) \in Nat
  BY GroupsAreFinite
<1>2. F = Kept(A)
  BY FoundIsKept
<1> HIDE DEF A, F
<1>3. /\ F = {} <=> A = {}
      /\ A # {} => (Cardinality(F) = 1 <=> \A k, l \in A : k = l)
  BY <1>1, <1>2, SearchTellsOneFromMore
<1>4. SubsetMatch(gateway, amount).status =
        IF Cardinality(Unbatched(gateway)) > MAX_POOL_SIZE THEN "pool_too_large"
        ELSE IF F = {} THEN "no_match_found"
        ELSE IF Cardinality(F) = 1 THEN "candidate_match" ELSE "ambiguous"
  BY DEF SubsetMatch, F
<1>5. SubsetMatch(gateway, amount).amount = amount
  BY DEF SubsetMatch
<1> QED  BY <1>3, <1>4, <1>5 DEF A

\* What a search says is what looking at every group would: no group, one, or
\* more.
SearchesAreExact ==
  case.kind = "batches" =>
    \A f \in report.fallback :
      LET all == AllGroups(case.gateway, f.amount)
      IN  f.status # "pool_too_large" =>
            /\ f.status = "no_match_found" <=> all = {}
            /\ f.status = "candidate_match" <=> \E ks : all = {ks}
            /\ f.groups \subseteq all
            /\ f.status = "candidate_match" => f.groups = all

\* find_bounded_subset_matches stops at the second group it finds, so that a
\* shorter search is all the evidence for "the only candidate": it suffices.
THEOREM StoppingEarlyIsExact == Spec => []SearchesAreExact
<1>1. CaseInv => SearchesAreExact
  <2> SUFFICES ASSUME CaseInv, case.kind = "batches", NEW f \in report.fallback,
                      f.status # "pool_too_large",
                      NEW all, all = AllGroups(case.gateway, f.amount)
               PROVE  /\ f.status = "no_match_found" <=> all = {}
                      /\ f.status = "candidate_match" <=> \E ks : all = {ks}
                      /\ f.groups \subseteq all
                      /\ f.status = "candidate_match" => f.groups = all
    BY DEF SearchesAreExact
  <2> DEFINE gateway == case.gateway
  <2>1. gateway \in Seq(BatchItems)
    BY CaseFields DEF CaseInv, CaseOK
  <2>2. PICK amount : f = SubsetMatch(gateway, amount)
    BY DEF CaseInv, Answer, BatchesAnswer
  <2> HIDE DEF gateway
  <2>3. /\ f.amount = amount
        /\ f.status = IF Cardinality(Unbatched(gateway)) > MAX_POOL_SIZE THEN "pool_too_large"
                      ELSE IF AllGroups(gateway, amount) = {} THEN "no_match_found"
                      ELSE IF \A k, l \in AllGroups(gateway, amount) : k = l THEN "candidate_match"
                      ELSE "ambiguous"
    BY <2>1, <2>2, StatusOfSearch
  <2>4. all = AllGroups(gateway, amount)
    BY <2>3 DEF gateway
  <2>5. /\ f.status = "no_match_found" <=> all = {}
        /\ f.status = "candidate_match" <=> all # {} /\ \A k, l \in all : k = l
    BY <2>3, <2>4
  <2>6. (all # {} /\ \A k, l \in all : k = l) <=> \E ks : all = {ks}
    OBVIOUS
  <2>7. f.groups = Kept(all)
    <3>1. ~(Cardinality(Unbatched(gateway)) > MAX_POOL_SIZE)
      BY <2>3
    <3>2. f.groups = Found(gateway, amount)
      BY <2>2, <3>1 DEF SubsetMatch
    <3> QED  BY <2>4, <3>2, FoundIsKept
  <2>8. IsFiniteSet(all) /\ \A ks \in all : Cardinality(ks) \in Nat
    BY <2>1, <2>4, GroupsAreFinite
  <2>9. f.groups \subseteq all /\ (all # {} => f.groups # {})
    BY <2>7, <2>8, SearchTellsOneFromMore
  <2>10. f.status = "candidate_match" => f.groups = all
    BY <2>5, <2>9
  <2> QED  BY <2>5, <2>6, <2>9, <2>10
<1> QED  BY <1>1, AlwaysCaseInv, PTL

\* A record more in the statement leaves the groups there were.
LEMMA GroupsStay ==
  ASSUME NEW gateway \in Seq(BatchItems), NEW r \in BatchItems, NEW amount
  PROVE  /\ Unbatched(gateway) \subseteq Unbatched(Append(gateway, r))
         /\ AllGroups(gateway, amount) \subseteq AllGroups(Append(gateway, r), amount)
<1> DEFINE more == Append(gateway, r)
<1>1. DOMAIN gateway \subseteq DOMAIN more /\ \A k \in DOMAIN gateway : more[k] = gateway[k]
  BY AppendIsSeq
<1> HIDE DEF more
<1>2. Unbatched(gateway) \subseteq Unbatched(more)
  BY <1>1 DEF Unbatched
<1>3. ASSUME NEW ks \in SUBSET Unbatched(gateway) PROVE Total(more, ks) = Total(gateway, ks)
  <2>1. IsFiniteSet(ks)
    BY PoolIsFinite, FS_Subset
  <2>2. \A k \in ks : more[k].amount = gateway[k].amount
    BY <1>1 DEF Unbatched
  <2> QED  BY <2>1, <2>2, TotalsAlike
<1>4. ASSUME NEW ks \in AllGroups(gateway, amount) PROVE ks \in AllGroups(more, amount)
  <2>1. /\ ks \in SUBSET Unbatched(gateway) /\ Cardinality(ks) \in 2..MAX_GROUP_SIZE
        /\ Near(Total(gateway, ks), amount)
    BY AllGroupsIs
  <2>2. ks \in SUBSET Unbatched(more) /\ Near(Total(more, ks), amount)
    BY <1>2, <1>3, <2>1
  <2> QED  BY <2>1, <2>2, AllGroupsIs
<1> QED  BY <1>2, <1>4 DEF more

LEMMA DoubtGrows ==
  ASSUME NEW gateway \in Seq(BatchItems), NEW r \in BatchItems, NEW amount
  PROVE  Doubt[SubsetMatch(gateway, amount).status]
           <= Doubt[SubsetMatch(Append(gateway, r), amount).status]
<1> DEFINE more == Append(gateway, r)
           A == AllGroups(gateway, amount)
           B == AllGroups(more, amount)
           m == Cardinality(Unbatched(gateway))
           n == Cardinality(Unbatched(more))
           before == SubsetMatch(gateway, amount).status
           after == SubsetMatch(more, amount).status
<1>1. more \in Seq(BatchItems)
  BY AppendIsSeq
<1>2. Unbatched(gateway) \in SUBSET Unbatched(more) /\ A \subseteq B
  BY GroupsStay
<1>3. m \in Nat /\ n \in Nat /\ m <= n
  BY <1>1, <1>2, PoolIsFinite, FS_Subset, FS_CardinalityType
<1>4. /\ before = IF m > MAX_POOL_SIZE THEN "pool_too_large"
                  ELSE IF A = {} THEN "no_match_found"
                  ELSE IF \A k, l \in A : k = l THEN "candidate_match" ELSE "ambiguous"
      /\ after = IF n > MAX_POOL_SIZE THEN "pool_too_large"
                 ELSE IF B = {} THEN "no_match_found"
                 ELSE IF \A k, l \in B : k = l THEN "candidate_match" ELSE "ambiguous"
  BY <1>1, StatusOfSearch
<1>5. m > MAX_POOL_SIZE => n > MAX_POOL_SIZE
  BY <1>3 DEF MAX_POOL_SIZE
<1> HIDE DEF m, n, A, B, before, after
<1>6. \/ after = "pool_too_large" /\ before \in DOMAIN Doubt
      \/ before = "no_match_found" /\ after \in DOMAIN Doubt
      \/ before = "candidate_match" /\ after \in {"candidate_match", "ambiguous"}
      \/ before = "ambiguous" /\ after = "ambiguous"
  BY <1>2, <1>4, <1>5 DEF Doubt
<1> QED  BY <1>6 DEF Doubt, before, after

DoubtStep ==
  case.kind = "batches" =>
    \A f \in report.fallback, g \in report'.fallback :
      f.amount = g.amount => Doubt[f.status] <= Doubt[g.status]

LEMMA SearchesLoseCertainty == CaseInv /\ [Next]_vars => DoubtStep
<1> SUFFICES ASSUME CaseInv, [Next]_vars, case.kind = "batches",
                    NEW f \in report.fallback, NEW g \in report'.fallback, f.amount = g.amount
             PROVE  Doubt[f.status] <= Doubt[g.status]
  BY DEF DoubtStep
<1>1. case.gateway \in Seq(BatchItems)
  BY CaseFields DEF CaseInv, CaseOK
<1>2. report.fallback = {SubsetMatch(case.gateway, case.lines[i].amount) : i \in Unbatched(case.lines)}
  BY DEF CaseInv, Answer, BatchesAnswer
<1>3. f = SubsetMatch(case.gateway, f.amount)
  BY <1>1, <1>2, StatusOfSearch
<1>4. Doubt[f.status] <= Doubt[f.status]
  <2>1. f.status \in DOMAIN Doubt
    BY <1>1, <1>3, StatusOfSearch DEF Doubt
  <2> QED  BY <2>1 DEF Doubt
<1>5. ASSUME NEW new, Answered(new), new.kind = "batches", new.gateway = case.gateway
      PROVE  Doubt[f.status] <= Doubt[g.status]
  <2>1. report'.fallback = {SubsetMatch(case.gateway, new.lines[i].amount) : i \in Unbatched(new.lines)}
    BY <1>5 DEF Answered, Answer, BatchesAnswer
  <2>2. g = SubsetMatch(case.gateway, g.amount)
    BY <1>1, <2>1, StatusOfSearch
  <2>3. g = f
    BY <1>3, <2>2
  <2> QED  BY <1>4, <2>3
<1>6. CASE Refused
  <2>1. g = f
    BY <1>1, <1>2, <1>3, <1>6, StatusOfSearch DEF Refused
  <2> QED  BY <1>4, <2>1
<1>7. ASSUME NEW l \in Records, Answered(WithLine(l)) PROVE Doubt[f.status] <= Doubt[g.status]
  BY <1>5, <1>7, LineFields
<1>8. ASSUME NEW r \in Records, Answered(WithRecord(r)) PROVE Doubt[f.status] <= Doubt[g.status]
  <2> DEFINE new == WithRecord(r)
             more == Append(case.gateway, r)
  <2>1. new.kind = "batches" /\ new.gateway = more
    BY RecordFields
  <2>2. more \in Seq(BatchItems) /\ r \in BatchItems
    BY <1>1, SettlementsAssumption, AppendIsSeq
  <2> HIDE DEF more
  <2>3. report'.fallback = {SubsetMatch(more, new.lines[i].amount) : i \in Unbatched(new.lines)}
    BY <1>8, <2>1 DEF Answered, Answer, BatchesAnswer
  <2>4. g = SubsetMatch(more, g.amount)
    BY <2>2, <2>3, StatusOfSearch
  <2> QED  BY <1>1, <1>3, <2>2, <2>4, DoubtGrows DEF more
<1> QED  BY <1>6, <1>7, <1>8, EveryStepMoves DEF Moves

-----------------------------------------------------------------------------
(* Refunds.                                                                *)

LEMMA RefundedIsInt ==
  ASSUME NEW events \in Seq(RefundItems), NEW txn
  PROVE  /\ IsFiniteSet(EventsOf(events, txn))
         /\ Refunded(events, txn) \in Int
<1>1. DOMAIN events = 1..Len(events) /\ Len(events) \in Nat
  OBVIOUS
<1>2. EventsOf(events, txn) \in SUBSET (1..Len(events))
  BY <1>1 DEF EventsOf
<1>3. IsFiniteSet(EventsOf(events, txn))
  <2>1. IsFiniteSet(1..Len(events))
    BY <1>1, FS_Interval
  <2> QED  BY <1>2, <2>1, FS_Subset
<1>4. \A k \in EventsOf(events, txn) : events[k].amount \in Int
  <2>1. \A k \in DOMAIN events : events[k] \in RefundItems
    OBVIOUS
  <2> QED  BY <2>1 DEF EventsOf, RefundItems
<1> QED  BY <1>3, <1>4, TotalIsInt DEF Refunded

\* An event adds its amount to its transaction.
LEMMA RefundAdds ==
  ASSUME NEW events \in Seq(RefundItems), NEW e \in RefundItems, NEW txn
  PROVE  Refunded(Append(events, e), txn) =
           Refunded(events, txn) + (IF e.txn = txn THEN e.amount ELSE 0)
<1> DEFINE more == Append(events, e)
           old == EventsOf(events, txn)
           last == Len(events) + 1
<1>1. /\ more \in Seq(RefundItems) /\ DOMAIN more = DOMAIN events \cup {last}
      /\ last \notin DOMAIN events
      /\ more[last] = e /\ \A k \in DOMAIN events : more[k] = events[k]
  BY AppendIsSeq
<1>2. IsFiniteSet(old) /\ IsFiniteSet(EventsOf(more, txn)) /\ Refunded(events, txn) \in Int
  BY <1>1, RefundedIsInt
<1> HIDE DEF more, last
<1>3. EventsOf(more, txn) = IF e.txn = txn THEN old \cup {last} ELSE old
  BY <1>1 DEF EventsOf
<1>4. last \notin old /\ \A k \in old : more[k].amount = events[k].amount
  BY <1>1 DEF EventsOf
<1> HIDE DEF old
<1>5. Total(more, old) = Total(events, old)
  BY <1>2, <1>4, TotalsAlike
<1>6. Refunded(events, txn) = Total(events, old)
  BY DEF Refunded, old
<1>7. CASE e.txn = txn
  <2>1. Refunded(more, txn) = Total(more, old \cup {last})
    BY <1>3, <1>7 DEF Refunded
  <2>2. \A k \in old \cup {last} : more[k].amount \in Int
    <3>1. old \cup {last} \subseteq DOMAIN more
      BY <1>1 DEF old, EventsOf
    <3>2. \A k \in DOMAIN more : more[k] \in RefundItems
      BY <1>1
    <3> QED  BY <3>1, <3>2 DEF RefundItems
  <2>3. Total(more, old \cup {last}) = Total(more, old) + more[last].amount
    BY <1>2, <1>4, <2>2, TotalWith
  <2> QED  BY <1>1, <1>5, <1>6, <1>7, <2>1, <2>3 DEF more
<1>8. CASE e.txn # txn
  <2>1. Refunded(more, txn) = Total(more, old)
    BY <1>3, <1>8 DEF Refunded
  <2> QED  BY <1>2, <1>5, <1>6, <1>8, <2>1 DEF more
<1> QED  BY <1>7, <1>8

\* What the report says of one transaction.
RefundRecord(captured, events, txn) ==
  LET refunded == Refunded(events, txn)
  IN  IF txn \in DOMAIN captured
      THEN [txn |-> txn, refunded |-> refunded, net |-> {captured[txn] - refunded},
            classification |-> RefundClass(captured[txn], refunded)]
      ELSE [txn |-> txn, refunded |-> refunded, net |-> {}, classification |-> "unknown"]

Refundees(events) == {events[i].txn : i \in DOMAIN events}

LEMMA RefundReportsAre ==
  ASSUME NEW captured, NEW events
  PROVE  RefundReports(captured, events) =
           {RefundRecord(captured, events, txn) : txn \in Refundees(events)}
  BY DEF RefundReports, RefundRecord, Refundees

LEMMA ClassEscalates ==
  ASSUME NEW original \in Int, NEW less \in Int, NEW more \in Int, less <= more
  PROVE  Severity[RefundClass(original, less)] <= Severity[RefundClass(original, more)]
<1>1. \/ RefundClass(original, less) = "over_refunded" /\ RefundClass(original, more) = "over_refunded"
      \/ /\ RefundClass(original, less) = "full_refund"
         /\ RefundClass(original, more) \in {"full_refund", "over_refunded"}
      \/ /\ RefundClass(original, less) = "partial_refund"
         /\ RefundClass(original, more) \in {"partial_refund", "full_refund", "over_refunded"}
  BY DEF RefundClass, AMOUNT_EPSILON
<1> QED  BY <1>1 DEF Severity

LEMMA RecordEscalates ==
  ASSUME NEW captured, captured \in [DOMAIN captured -> Int], NEW txn,
         NEW events, NEW more, Refunded(events, txn) \in Int, Refunded(more, txn) \in Int,
         Refunded(events, txn) <= Refunded(more, txn)
  PROVE  /\ RefundRecord(captured, more, txn).txn = RefundRecord(captured, events, txn).txn
         /\ Severity[RefundRecord(captured, events, txn).classification]
              <= Severity[RefundRecord(captured, more, txn).classification]
<1>1. CASE txn \in DOMAIN captured
  <2>1. captured[txn] \in Int
    BY <1>1
  <2>2. Severity[RefundClass(captured[txn], Refunded(events, txn))]
          <= Severity[RefundClass(captured[txn], Refunded(more, txn))]
    BY <2>1, ClassEscalates
  <2> QED  BY <1>1, <2>2 DEF RefundRecord
<1>2. CASE txn \notin DOMAIN captured
  BY <1>2 DEF RefundRecord, Severity
<1> QED  BY <1>1, <1>2

RefundStep ==
  case.kind = "refunds" =>
    \A r \in report : \E s \in report' :
      s.txn = r.txn /\ Severity[r.classification] <= Severity[s.classification]

LEMMA RefundsEscalate == CaseInv /\ [Next]_vars => RefundStep
<1> SUFFICES ASSUME CaseInv, [Next]_vars, case.kind = "refunds", NEW r \in report
             PROVE  \E s \in report' :
                      s.txn = r.txn /\ Severity[r.classification] <= Severity[s.classification]
  BY DEF RefundStep
<1>1. case.captured \in [DOMAIN case.captured -> Int] /\ case.events \in Seq(RefundItems)
  BY CaseFields DEF CaseInv, CaseOK
<1>2. report = RefundReports(case.captured, case.events)
  BY DEF CaseInv, Answer, RefundsAnswer
<1>3. PICK txn \in Refundees(case.events) : r = RefundRecord(case.captured, case.events, txn)
  BY <1>2, RefundReportsAre
<1>4. Refunded(case.events, txn) \in Int
  BY <1>1, RefundedIsInt
<1>5. CASE Refused
  <2>1. Severity[r.classification] <= Severity[r.classification]
    <3>1. Refunded(case.events, txn) <= Refunded(case.events, txn)
      BY <1>4
    <3> QED  BY <1>1, <1>3, <1>4, <3>1, RecordEscalates
  <2> QED  BY <1>5, <2>1 DEF Refused
<1>6. ASSUME NEW e \in RefundEvents, Answered(WithRefund(e))
      PROVE  \E s \in report' :
               s.txn = r.txn /\ Severity[r.classification] <= Severity[s.classification]
  <2> DEFINE new == WithRefund(e)
             more == Append(case.events, e)
  <2>1. new.kind = "refunds" /\ new.captured = case.captured /\ new.events = more
    BY RefundFields
  <2>2. report' = RefundReports(case.captured, more)
    BY <1>6, <2>1 DEF Answered, Answer, RefundsAnswer
  <2>3. e \in RefundItems /\ e.amount \in Int
    BY SettlementsAssumption DEF RefundItems
  <2>4. more \in Seq(RefundItems) /\ more[Len(case.events) + 1] = e
        /\ Len(case.events) + 1 \in DOMAIN more
        /\ DOMAIN case.events \subseteq DOMAIN more
        /\ \A k \in DOMAIN case.events : more[k] = case.events[k]
    BY <1>1, <2>3, AppendIsSeq
  <2>5. e.amount > 0
    <3>1. RefundsAccepted(new)
      BY <1>6, <2>1 DEF Answered, CaseOK, Acceptable
    <3> HIDE DEF new, more
    <3> QED  BY <2>1, <2>4, <3>1 DEF RefundsAccepted
  <2>6. Refunded(more, txn) = Refunded(case.events, txn) + (IF e.txn = txn THEN e.amount ELSE 0)
    BY <1>1, <2>3, RefundAdds
  <2> HIDE DEF more, new
  <2>7. Refunded(more, txn) \in Int /\ Refunded(case.events, txn) <= Refunded(more, txn)
    BY <1>4, <2>3, <2>5, <2>6
  <2>8. txn \in Refundees(more)
    BY <2>4 DEF Refundees
  <2> DEFINE s == RefundRecord(case.captured, more, txn)
  <2>9. s \in report'
    BY <2>2, <2>8, RefundReportsAre
  <2>10. s.txn = r.txn /\ Severity[r.classification] <= Severity[s.classification]
    BY <1>1, <1>3, <1>4, <2>7, RecordEscalates
  <2> QED  BY <2>9, <2>10
<1> QED  BY <1>5, <1>6, EveryStepMoves DEF Moves

-----------------------------------------------------------------------------
(* Rate bands.                                                             *)

LEMMA Scales ==
  ASSUME NEW a \in Int, NEW b \in Int, NEW k \in Nat, a <= b
  PROVE  a * k <= b * k
  OBVIOUS

LEMMA RoundedGrows ==
  ASSUME NEW m \in Int, NEW n \in Int, m <= n
  PROVE  Rounded(m, 1000) \in Int /\ Rounded(n, 1000) \in Int /\ Rounded(m, 1000) <= Rounded(n, 1000)
  BY DEF Rounded

\* With a markup of at most 100% a higher rate converts to no less.
LEMMA ConvertedGrows ==
  ASSUME NEW fx, fx.units \in Nat, fx.markup \in Int, fx.markup <= 1000,
         NEW p \in Int, NEW q \in Int, p <= q
  PROVE  Converted(fx, p) \in Int /\ Converted(fx, q) \in Int /\ Converted(fx, p) <= Converted(fx, q)
<1> DEFINE u == fx.units
           k == 1000 - fx.markup
<1>1. u \in Nat /\ k \in Nat
  OBVIOUS
<1> HIDE DEF u, k
<1>2. p * u \in Int /\ q * u \in Int /\ p * u <= q * u
  BY <1>1, Scales
<1>3. u * p = p * u /\ u * q = q * u
  BY <1>1
<1>4. u * p * k \in Int /\ u * q * k \in Int /\ u * p * k <= u * q * k
  <2> DEFINE a == u * p
             b == u * q
  <2>1. a \in Int /\ b \in Int /\ a <= b
    BY <1>2, <1>3
  <2> HIDE DEF a, b
  <2>2. a * k \in Int /\ b * k \in Int /\ a * k <= b * k
    BY <1>1, <2>1, Scales
  <2> QED  BY <2>2 DEF a, b
<1>5. Converted(fx, p) = Rounded(u * p * k, 1000) /\ Converted(fx, q) = Rounded(u * q * k, 1000)
  BY DEF Converted, u, k
<1> QED  BY <1>4, <1>5, RoundedGrows

BandStep ==
  case.kind = "fx" /\ case'.markup = case.markup /\ case.markup <= 1000
    /\ report.status = "matched_within_rate_band" => report'.status = report.status

LEMMA BandsKeep == CaseInv /\ [Next]_vars => BandStep
<1> SUFFICES ASSUME CaseInv, [Next]_vars, case.kind = "fx", case'.markup = case.markup,
                    case.markup <= 1000, report.status = "matched_within_rate_band"
             PROVE  report'.status = report.status
  BY DEF BandStep
<1>1. /\ case.units \in Int /\ case.settled \in Int /\ case.min \in Int /\ case.max \in Int
      /\ case.markup \in Int
  BY CaseFields DEF CaseInv, CaseOK
<1>2. case.units > 0
  BY DEF CaseInv, CaseOK, Acceptable, FxAccepted
<1>3. report.status = FxStatus(case)
  BY DEF CaseInv, Answer, FxAnswer
<1>4. case.from # case.to /\ ~(case.min > case.max) /\ WithinBand(case)
  BY <1>3 DEF FxStatus
<1>5. CASE Refused
  BY <1>5 DEF Refused
<1>6. ASSUME NEW down \in Steps, NEW up \in Steps, NEW more \in Steps,
             Answered(WithBand(down, up, more))
      PROVE  report'.status = report.status
  <2> DEFINE new == WithBand(down, up, more)
  <2>1. /\ new.kind = "fx" /\ new.units = case.units /\ new.settled = case.settled
        /\ new.from = case.from /\ new.to = case.to
        /\ new.min = case.min - down /\ new.max = case.max + up
    BY BandFields
  <2>2. case' = new /\ report' = Answer(new)
    BY <1>6 DEF Answered
  <2> HIDE DEF new
  <2>3. new.markup = case.markup
    BY <2>2
  <2>4. report'.status = FxStatus(new)
    BY <2>1, <2>2 DEF Answer, FxAnswer
  <2>5. down \in Nat /\ up \in Nat
    BY SettlementsAssumption
  <2>6. new.min \in Int /\ new.max \in Int /\ new.min <= case.min /\ case.max <= new.max
    BY <1>1, <2>1, <2>5
  <2>7. \A rate : Converted(new, rate) = Converted(case, rate)
    BY <2>1, <2>3 DEF Converted
  <2>8. case.units \in Nat
    BY <1>1, <1>2
  <2>9. /\ Converted(case, new.min) \in Int /\ Converted(case, case.min) \in Int
        /\ Converted(case, new.min) <= Converted(case, case.min)
    BY <1>1, <2>6, <2>8, ConvertedGrows
  <2>10. /\ Converted(case, new.max) \in Int /\ Converted(case, case.max) \in Int
         /\ Converted(case, case.max) <= Converted(case, new.max)
    BY <1>1, <2>6, <2>8, ConvertedGrows
  <2>11. WithinBand(new)
    BY <1>1, <1>4, <2>1, <2>7, <2>9, <2>10 DEF WithinBand, AMOUNT_EPSILON
  <2>12. ~(new.min > new.max)
    BY <1>1, <1>4, <2>6
  <2> QED  BY <1>3, <1>4, <2>1, <2>4, <2>11, <2>12 DEF FxStatus
<1> QED  BY <1>5, <1>6, EveryStepMoves DEF Moves

\* Facts that are added move an answer one way: searches lose certainty, refunds
\* escalate, and a wider band keeps its matches.
THEOREM AddedFactsMoveOneWay == Spec => AnswersAreMonotone
<1>1. CaseInv /\ [Next]_vars => [DoubtStep]_vars /\ [RefundStep]_vars /\ [BandStep]_vars
  BY SearchesLoseCertainty, RefundsEscalate, BandsKeep
<1> QED
  BY <1>1, AlwaysCaseInv, PTL
  DEF Spec, AnswersAreMonotone, DoubtOnlyGrows, RefundsOnlyEscalate, WiderBandsKeepTheMatch,
      DoubtStep, RefundStep, BandStep

-----------------------------------------------------------------------------
(* Money that moves.                                                       *)

LEMMA SplitTotals ==
  ASSUME NEW transfers \in Seq(TransferItems),
         \A i \in DOMAIN transfers : transfers[i].status \in TransferStatuses
  PROVE  /\ Part(transfers, "settled") \in Int /\ Part(transfers, "on_hold") \in Int
         /\ Part(transfers, "reversed") \in Int
         /\ Part(transfers, "settled") + Part(transfers, "on_hold") + Part(transfers, "reversed")
              = Total(transfers, DOMAIN transfers)
<1> DEFINE at(s) == {i \in DOMAIN transfers : transfers[i].status = s}
           A == at("settled")
           B == at("on_hold")
           C == at("reversed")
<1>1. DOMAIN transfers = 1..Len(transfers) /\ Len(transfers) \in Nat
      /\ \A i \in DOMAIN transfers : transfers[i] \in TransferItems
  OBVIOUS
<1>2. IsFiniteSet(DOMAIN transfers) /\ \A i \in DOMAIN transfers : transfers[i].amount \in Int
  BY <1>1, FS_Interval DEF TransferItems
<1>3. IsFiniteSet(A) /\ IsFiniteSet(B) /\ IsFiniteSet(C) /\ IsFiniteSet(A \cup B)
  <2>1. A \in SUBSET DOMAIN transfers /\ B \in SUBSET DOMAIN transfers /\ C \in SUBSET DOMAIN transfers
        /\ A \cup B \in SUBSET DOMAIN transfers
    OBVIOUS
  <2> HIDE DEF A, B, C
  <2> QED  BY <1>2, <2>1, FS_Subset
<1>4. /\ A \cap B = {} /\ (A \cup B) \cap C = {}
      /\ (A \cup B) \cup C = DOMAIN transfers
  BY DEF TransferStatuses
<1>5. /\ Part(transfers, "settled") = Total(transfers, A)
      /\ Part(transfers, "on_hold") = Total(transfers, B)
      /\ Part(transfers, "reversed") = Total(transfers, C)
  BY DEF Part
<1> HIDE DEF A, B, C
<1>6. /\ Total(transfers, A) \in Int /\ Total(transfers, B) \in Int /\ Total(transfers, C) \in Int
  BY <1>2, <1>3, <1>4, TotalIsInt
<1>7. Total(transfers, A \cup B) = Total(transfers, A) + Total(transfers, B)
  BY <1>2, <1>3, <1>4, TotalOfBoth
<1>8. Total(transfers, (A \cup B) \cup C) = Total(transfers, A \cup B) + Total(transfers, C)
  <2> DEFINE D == A \cup B
  <2>1. IsFiniteSet(D) /\ D \cap C = {} /\ \A i \in D \cup C : transfers[i].amount \in Int
    BY <1>2, <1>3, <1>4
  <2> HIDE DEF D
  <2>2. Total(transfers, D \cup C) = Total(transfers, D) + Total(transfers, C)
    BY <1>3, <2>1, TotalOfBoth
  <2> QED  BY <2>2 DEF D
<1> QED  BY <1>4, <1>5, <1>6, <1>7, <1>8

\* With every status one of the three, the gap is what the whole split leaves.
LEMMA GapIsWhole ==
  ASSUME NEW transfers \in Seq(TransferItems), NEW net \in Int, NEW commission \in Int,
         \A i \in DOMAIN transfers : transfers[i].status \in TransferStatuses
  PROVE  SplitGap(net, transfers, commission) = net - (Total(transfers, DOMAIN transfers) + commission)
  BY SplitTotals DEF SplitGap

LEMMA ReportOfGap ==
  ASSUME NEW net, NEW transfers, NEW commission
  PROVE  LET gap == SplitGap(net, transfers, commission)
             answer == SplitReport(net, transfers, commission)
         IN  /\ answer.gap = IF Near(gap, 0) THEN 0 ELSE gap
             /\ answer.status = "mismatch" <=> ~Near(gap, 0)
  BY DEF SplitReport

GapStep ==
  case.kind = "split" /\ Len(case'.transfers) = Len(case.transfers)
    => report'.gap = report.gap /\ (report'.status = "mismatch" <=> report.status = "mismatch")

LEMMA GapsStay == CaseInv /\ [Next]_vars => GapStep
<1> SUFFICES ASSUME CaseInv, [Next]_vars, case.kind = "split",
                    Len(case'.transfers) = Len(case.transfers)
             PROVE  report'.gap = report.gap
                    /\ (report'.status = "mismatch" <=> report.status = "mismatch")
  BY DEF GapStep
<1>1. case.net \in Int /\ case.commission \in Int /\ case.transfers \in Seq(TransferItems)
  BY CaseFields DEF CaseInv, CaseOK
<1>2. \A i \in DOMAIN case.transfers : case.transfers[i].status \in TransferStatuses
  BY DEF CaseInv, CaseOK, Acceptable, SplitAccepted
<1>3. report = SplitReport(case.net, case.transfers, case.commission)
  BY DEF CaseInv, Answer
<1>4. CASE Refused
  BY <1>4 DEF Refused
<1>5. ASSUME NEW t \in Transfers, Answered(WithTransfer(t)) PROVE FALSE
  <2>1. case'.transfers = Append(case.transfers, t)
    BY <1>5, TransferFields DEF Answered
  <2>2. Len(Append(case.transfers, t)) = Len(case.transfers) + 1 /\ Len(case.transfers) \in Nat
    BY <1>1, SettlementsAssumption, AppendIsSeq
  <2> QED  BY <2>1, <2>2
<1>6. ASSUME NEW i \in DOMAIN case.transfers, NEW s \in SentStatuses, Answered(WithStatus(i, s))
      PROVE  report'.gap = report.gap
             /\ (report'.status = "mismatch" <=> report.status = "mismatch")
  <2> DEFINE new == WithStatus(i, s)
  <2>1. /\ WellFormed(new) /\ new.kind = "split"
        /\ new.net = case.net /\ new.commission = case.commission
        /\ DOMAIN new.transfers = DOMAIN case.transfers
        /\ \A k \in DOMAIN case.transfers : new.transfers[k].amount = case.transfers[k].amount
    BY StatusFields
  <2>2. CaseOK(new) /\ report' = Answer(new)
    BY <1>6 DEF Answered
  <2> HIDE DEF new
  <2>3. new.transfers \in Seq(TransferItems)
    BY <2>1, CaseFields
  <2>4. \A k \in DOMAIN new.transfers : new.transfers[k].status \in TransferStatuses
    BY <2>1, <2>2 DEF CaseOK, Acceptable, SplitAccepted
  <2>5. report' = SplitReport(case.net, new.transfers, case.commission)
    BY <2>1, <2>2 DEF Answer
  <2>6. Total(new.transfers, DOMAIN new.transfers) = Total(case.transfers, DOMAIN case.transfers)
    <3>1. IsFiniteSet(DOMAIN case.transfers)
      <4>1. DOMAIN case.transfers = 1..Len(case.transfers) /\ Len(case.transfers) \in Nat
        BY <1>1
      <4> QED  BY <4>1, FS_Interval
    <3> QED  BY <2>1, <3>1, TotalsAlike
  <2>7. SplitGap(case.net, new.transfers, case.commission)
          = SplitGap(case.net, case.transfers, case.commission)
    BY <1>1, <1>2, <2>3, <2>4, <2>6, GapIsWhole
  <2> QED  BY <1>3, <2>5, <2>7, ReportOfGap
<1> QED  BY <1>4, <1>5, <1>6, EveryStepMoves DEF Moves

\* What is withheld and what the merchant should hold.
Whole(c, r) == {b + (IF c.status = "won" THEN 0 ELSE c.disputed) : b \in r.balance}

LEMMA WholeOfDispute ==
  ASSUME NEW c, c.net \in Int, c.disputed \in Int, c.fee \in Int
  PROVE  Whole(c, ChargebackReport(c.net, c)) =
           IF c.disputed > c.net + AMOUNT_EPSILON THEN {} ELSE {c.net - c.fee}
<1> DEFINE r == ChargebackReport(c.net, c)
<1>1. CASE c.disputed > c.net + AMOUNT_EPSILON
  BY <1>1 DEF Whole, ChargebackReport
<1>2. CASE ~(c.disputed > c.net + AMOUNT_EPSILON)
  <2>1. r.balance = {ExpectedBalance(c.net, c)}
    BY <1>2 DEF ChargebackReport
  <2>2. ExpectedBalance(c.net, c) + (IF c.status = "won" THEN 0 ELSE c.disputed) = c.net - c.fee
    BY DEF ExpectedBalance
  <2> QED  BY <1>2, <2>1, <2>2 DEF Whole
<1> QED  BY <1>1, <1>2

DisputeStep == case.kind = "chargeback" => Whole(case', report') = Whole(case, report)

LEMMA DisputesMoveOneAmount == CaseInv /\ [Next]_vars => DisputeStep
<1> SUFFICES ASSUME CaseInv, [Next]_vars, case.kind = "chargeback"
             PROVE  Whole(case', report') = Whole(case, report)
  BY DEF DisputeStep
<1>1. case.net \in Int /\ case.disputed \in Int /\ case.fee \in Int
  BY CaseFields DEF CaseInv, CaseOK
<1>2. report = ChargebackReport(case.net, case)
  BY DEF CaseInv, Answer
<1>3. CASE Refused
  BY <1>3 DEF Refused
<1>4. ASSUME NEW s \in DisputeStatuses \cup {"closed"}, Answered(WithDispute(s))
      PROVE  Whole(case', report') = Whole(case, report)
  <2> DEFINE new == WithDispute(s)
  <2>1. /\ new.kind = "chargeback" /\ new.net = case.net
        /\ new.disputed = case.disputed /\ new.fee = case.fee
    BY DisputeFields
  <2>2. case' = new /\ report' = Answer(new)
    BY <1>4 DEF Answered
  <2> HIDE DEF new
  <2>3. report' = ChargebackReport(new.net, new)
    BY <2>1, <2>2 DEF Answer
  <2>4. Whole(new, ChargebackReport(new.net, new)) = Whole(case, ChargebackReport(case.net, case))
    BY <1>1, <2>1, WholeOfDispute
  <2> QED  BY <1>2, <2>2, <2>3, <2>4
<1> QED  BY <1>3, <1>4, EveryStepMoves DEF Moves

\* A status says where money is, never how much: moving a transfer neither opens
\* nor closes a gap, and a dispute moves the disputed amount and nothing else.
THEOREM MoneyIsConserved == Spec => MovedMoneyIsConserved
<1>1. CaseInv /\ [Next]_vars => [GapStep]_vars /\ [DisputeStep]_vars
  BY GapsStay, DisputesMoveOneAmount
<1> QED
  BY <1>1, AlwaysCaseInv, PTL
  DEF Spec, MovedMoneyIsConserved, MovesKeepTheGap, DisputeMovesOneAmount,
      GapStep, DisputeStep, Whole

=============================================================================
