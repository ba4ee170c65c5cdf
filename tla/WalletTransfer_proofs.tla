------------------------- MODULE WalletTransfer_proofs -------------------------
(***************************************************************************)
(* Proofs about WalletTransfer, for any wallets, transfers, sales, refunds *)
(* and calls: the books add up, and no transfer touches a closed wallet.   *)
(*                                                                         *)
(* The first part proves what sums over finite sets obey.  The sum of the  *)
(* community modules is a recursive function; its recursion is followed by *)
(* induction over the subsets of the set, which needs no more than that    *)
(* every set of naturals has a least element.                              *)
(***************************************************************************)
EXTENDS WalletTransfer, FiniteSetTheorems, WellFoundedInduction, TLAPS

-----------------------------------------------------------------------------
(* Induction over finite sets.                                             *)

\* A set of naturals has a least element.
LEMMA LeastOfNaturals ==
  ASSUME NEW S \in SUBSET Nat, S # {}
  PROVE  \E n \in S : \A i \in S : n <= i
<1> DEFINE R == {p \in Nat \X Nat : p[1] < p[2]}
<1>1. IsWellFoundedOn(R, Nat)
  BY NatLessThanWellFounded, Zenon DEF OpToRel
<1>2. \A i, j \in Nat : i < j => <<i, j>> \in R
  OBVIOUS
<1> HIDE DEF R
<1>3. PICK n \in S : \A i \in S : ~ (<<i, n>> \in R)
  BY <1>1, WFMin
<1>4. ASSUME NEW i \in S  PROVE n <= i
  <2>1. ~ (i < n)
    BY <1>2, <1>3
  <2> QED BY <2>1
<1> QED BY <1>4

\* What holds of a set once it holds of its proper subsets holds of a finite set.
LEMMA SubsetInduction ==
  ASSUME NEW D, IsFiniteSet(D), NEW Q,
         \A T \in SUBSET D : (\A R \in SUBSET T : R # T => R \in Q) => T \in Q
  PROVE  \A T \in SUBSET D : T \in Q
<1> DEFINE sizes == {Cardinality(T) : T \in {T \in SUBSET D : T \notin Q}}
<1> SUFFICES ASSUME NEW T0 \in SUBSET D, T0 \notin Q  PROVE FALSE
  OBVIOUS
<1>1. sizes \in SUBSET Nat /\ sizes # {}
  <2>1. \A T \in SUBSET D : Cardinality(T) \in Nat
    BY FS_Subset, FS_CardinalityType
  <2> QED BY <2>1
<1>2. PICK n \in sizes : \A i \in sizes : n <= i
  <2> HIDE DEF sizes
  <2> QED BY <1>1, LeastOfNaturals
<1>3. PICK T \in SUBSET D : T \notin Q /\ Cardinality(T) = n
  BY <1>2
<1>4. ASSUME NEW R \in SUBSET T, R # T  PROVE R \in Q
  <2>1. IsFiniteSet(T)
    BY FS_Subset
  <2>2. Cardinality(R) < Cardinality(T) /\ Cardinality(R) \in Nat /\ Cardinality(T) \in Nat
    BY <1>4, <2>1, FS_Subset, FS_CardinalityType
  <2>3. R \notin Q => Cardinality(R) \in sizes
    OBVIOUS
  <2> HIDE DEF sizes
  <2>4. R \notin Q => Cardinality(T) <= Cardinality(R)
    BY <1>2, <1>3, <2>3
  <2> QED BY <2>2, <2>4
<1> QED BY <1>3, <1>4

-----------------------------------------------------------------------------
(* Sums.                                                                   *)

SumOver(f, S) == MapThenSumSet(LAMBDA x : f[x], S)

Pick(s) == CHOOSE x \in s : TRUE
Sums(g, f, S) == g = [s \in SUBSET S |-> IF s = {} THEN 0 ELSE f[Pick(s)] + g[s \ {Pick(s)}]]

\* The sum is a value of the recursive function that computes it.
LEMMA SumIs ==
  ASSUME NEW f, NEW S
  PROVE SumOver(f,S) = (CHOOSE g : Sums(g, f, S))[S]
BY DEF SumOver, MapThenSumSet, MapThenFoldSet, Sums, Pick

\* A sum is that of its first element and of the rest.
LEMMA SumUnfolds ==
  ASSUME NEW f, NEW D, IsFiniteSet(D)
  PROVE  \A S \in SUBSET D :
           SumOver(f, S) = IF S = {} THEN 0 ELSE f[Pick(S)] + SumOver(f, S \ {Pick(S)})
<1> DEFINE Rec(S) == IF S = {} THEN 0 ELSE f[Pick(S)] + SumOver(f, S \ {Pick(S)})
           Q == {S \in SUBSET D : SumOver(f, S) = Rec(S)}
<1>0. \A s : s # {} => Pick(s) \in s
  BY DEF Pick
<1>1. ASSUME NEW T \in SUBSET D, \A R \in SUBSET T : R # T => R \in Q
      PROVE  T \in Q
  <2>1. \A R \in SUBSET T : R # T => SumOver(f, R) = Rec(R)
    BY <1>1
  <2> DEFINE g == [s \in SUBSET T |-> Rec(s)]
  <2>2. Sums(g, f, T)
    <3> SUFFICES ASSUME NEW s \in SUBSET T, s # {}
                 PROVE  Rec(s) = f[Pick(s)] + g[s \ {Pick(s)}]
      BY Zenon DEF Sums
    <3>1. s \ {Pick(s)} \in SUBSET T /\ s \ {Pick(s)} # T
      BY <1>0
    <3>2. g[s \ {Pick(s)}] = SumOver(f, s \ {Pick(s)})
      BY <2>1, <3>1
    <3> QED BY <3>2
  <2> DEFINE h == CHOOSE h : Sums(h, f, T)
  <2>3. Sums(h, f, T)
    BY <2>2
  <2>4. SumOver(f, T) = h[T]
    BY SumIs
  <2> HIDE DEF g, h, Q
  <2>5. \A s \in SUBSET T : h[s] = IF s = {} THEN 0 ELSE f[Pick(s)] + h[s \ {Pick(s)}]
    BY <2>3 DEF Sums
  <2>6. \A s \in SUBSET T : s # T => h[s] = SumOver(f, s)
    <3> DEFINE Q2 == {s \in SUBSET T : s # T => h[s] = SumOver(f, s)}
    <3>1. ASSUME NEW s \in SUBSET T, \A R \in SUBSET s : R # s => R \in Q2
          PROVE  s \in Q2
      <4> SUFFICES ASSUME s # T  PROVE h[s] = Rec(s)
        BY <2>1
      <4>1. CASE s = {}
        BY <2>5, <4>1
      <4>2. CASE s # {}
        <5>1. s \ {Pick(s)} \in SUBSET s /\ s \ {Pick(s)} # s /\ s \ {Pick(s)} # T
          BY <1>0, <4>2
        <5>2. h[s \ {Pick(s)}] = SumOver(f, s \ {Pick(s)})
          BY <3>1, <5>1
        <5> QED BY <2>5, <4>2, <5>2
      <4> QED BY <4>1, <4>2
    <3>2. IsFiniteSet(T)
      BY FS_Subset
    <3> HIDE DEF Q2
    <3>3. \A s \in SUBSET T : s \in Q2
      BY <3>1, <3>2, SubsetInduction
    <3> QED BY <3>3 DEF Q2
  <2>7. SumOver(f, T) = Rec(T)
    <3>1. CASE T = {}
      BY <2>4, <2>5, <3>1
    <3>2. CASE T # {}
      <4>1. T \ {Pick(T)} \in SUBSET T /\ T \ {Pick(T)} # T
        BY <1>0, <3>2
      <4> QED BY <2>4, <2>5, <2>6, <3>2, <4>1
    <3> QED BY <3>1, <3>2
  <2> QED BY <2>7 DEF Q
<1> HIDE DEF Q
<1>2. \A T \in SUBSET D : T \in Q
  BY <1>1, SubsetInduction
<1> QED BY <1>2 DEF Q

\* A sum of integers is one.
LEMMA SumType ==
  ASSUME NEW f, NEW D, IsFiniteSet(D), \A x \in D : f[x] \in Int
  PROVE  \A S \in SUBSET D : SumOver(f, S) \in Int
<1> DEFINE Q == {S \in SUBSET D : SumOver(f, S) \in Int}
<1>0. \A s : s # {} => Pick(s) \in s
  BY DEF Pick
<1>1. ASSUME NEW T \in SUBSET D, \A R \in SUBSET T : R # T => R \in Q
      PROVE  T \in Q
  <2>1. CASE T = {}
    <3>1. SumOver(f, T) = 0
      BY <2>1, SumUnfolds
    <3> QED BY <3>1
  <2>2. CASE T # {}
    <3>1. T \ {Pick(T)} \in Q /\ Pick(T) \in D
      BY <1>0, <1>1, <2>2
    <3>2. SumOver(f, T) = f[Pick(T)] + SumOver(f, T \ {Pick(T)})
      BY <2>2, SumUnfolds
    <3> QED BY <3>1, <3>2
  <2> QED BY <2>1, <2>2
<1> HIDE DEF Q
<1>2. \A T \in SUBSET D : T \in Q
  BY <1>1, SubsetInduction
<1> QED BY <1>2 DEF Q

\* It does not matter which element is taken off.
LEMMA SumTakeOff ==
  ASSUME NEW f, NEW D, IsFiniteSet(D), \A x \in D : f[x] \in Int
  PROVE  \A S \in SUBSET D : \A x \in S : SumOver(f, S) = f[x] + SumOver(f, S \ {x})
<1> DEFINE Q == {S \in SUBSET D : \A x \in S : SumOver(f, S) = f[x] + SumOver(f, S \ {x})}
<1>0. \A s : s # {} => Pick(s) \in s
  BY DEF Pick
<1>1. ASSUME NEW T \in SUBSET D, \A R \in SUBSET T : R # T => R \in Q
      PROVE  T \in Q
  <2> SUFFICES ASSUME NEW x \in T  PROVE SumOver(f, T) = f[x] + SumOver(f, T \ {x})
    OBVIOUS
  <2> DEFINE p == Pick(T)
  <2>1. p \in T /\ SumOver(f, T) = f[p] + SumOver(f, T \ {p})
    BY <1>0, SumUnfolds
  <2> HIDE DEF p
  <2>2. CASE x # p
    <3>1. T \ {p} \in Q /\ x \in T \ {p}
      BY <1>1, <2>1, <2>2
    <3>2. T \ {x} \in Q /\ p \in T \ {x}
      BY <1>1, <2>1, <2>2
    <3>3. SumOver(f, T \ {p}) = f[x] + SumOver(f, (T \ {p}) \ {x})
      BY <3>1
    <3>4. SumOver(f, T \ {x}) = f[p] + SumOver(f, (T \ {x}) \ {p})
      BY <3>2
    <3>5. (T \ {p}) \ {x} = (T \ {x}) \ {p}
      OBVIOUS
    <3>6. SumOver(f, (T \ {x}) \ {p}) \in Int /\ f[x] \in Int /\ f[p] \in Int
      BY <2>1, SumType
    <3> DEFINE rest == SumOver(f, (T \ {x}) \ {p})
    <3>7. SumOver(f, T) = f[p] + (f[x] + rest)
      BY <2>1, <3>3, <3>5
    <3>8. SumOver(f, T \ {x}) = f[p] + rest
      BY <3>4
    <3> HIDE DEF Q, rest
    <3>9. rest \in Int
      BY <3>6 DEF rest
    <3> QED BY <3>6, <3>7, <3>8, <3>9
  <2> QED BY <2>1, <2>2
<1> HIDE DEF Q
<1>2. \A T \in SUBSET D : T \in Q
  BY <1>1, SubsetInduction
<1> QED BY <1>2 DEF Q

\* What one more element adds.
LEMMA SumAdd ==
  ASSUME NEW f, NEW D, IsFiniteSet(D), \A x \in D : f[x] \in Int, NEW S \in SUBSET D, NEW x \in D, x \notin S
  PROVE  SumOver(f, S \cup {x}) = f[x] + SumOver(f, S)
<1>1. (S \cup {x}) \ {x} = S /\ S \cup {x} \in SUBSET D
  OBVIOUS
<1> QED BY <1>1, SumTakeOff

-----------------------------------------------------------------------------
(* Rows and locks.                                                         *)

\* Where a transaction that holds its row stands.
Inside == {"row", "first"}

\* A call under way is about a transfer.  A transaction holds the row it began with,
\* alone, until it ends: that of its transfer, which stays PENDING, or that of the
\* sale, of which there is still enough left to give back.  A refund is given by the
\* step that ends its transaction.
JobInv ==
  /\ \A k \in Workers : worker[k].pc # "idle" => worker[k].on \in Transfers
  /\ \A t \in Transfers : session[t] \in Inside => lock[t] = t /\ row[t] = "PENDING"
  /\ \A r \in Refunds : r \in given => session[r] = "done"
  /\ \A r \in Refunds :
       session[r] \in Inside =>
         lock[Of[r]] = r /\ refunded[Of[r]] + Part[r] <= Paid[Of[r]]

\* What a transaction holds, nobody else takes and nobody gives back.
LocksStay(j) == \A x \in Rows : lock[x] \in Jobs \ {j} => lock'[x] = lock[x]

LEMMA JobParts ==
  /\ \A j \in Jobs : (j \in Transfers) # (j \in Refunds)
  /\ Transfers \subseteq Rows /\ Sales \subseteq Rows /\ Wallets \subseteq Rows
  /\ \A t \in Transfers : t \in Jobs
  /\ \A r \in Refunds : r \in Jobs /\ Of[r] \in Sales /\ Part[r] \in Nat \ {0}
  /\ \A s \in Sales : Paid[s] \in Nat
  /\ None \notin Jobs
BY TransferAssumption DEF Jobs, Rows

\* Both ends of a job are wallets, and not the same.
LEMMA JobWallets ==
  \A j \in Jobs : Payer(j) \in Wallets /\ Payee(j) \in Wallets /\ Payer(j) # Payee(j)
BY TransferAssumption DEF Jobs, Payer, Payee

LEMMA ReleaseStep ==
  ASSUME TypeOK, NEW j \in Jobs, Release(j)
  PROVE  lock' \in [Rows -> Jobs \cup {None}] /\ LocksStay(j)
BY DEF TypeOK, Release, LocksStay

LEMMA TakeStep ==
  ASSUME TypeOK, NEW j \in Jobs, NEW x, Take(j, x)
  PROVE  lock' \in [Rows -> Jobs \cup {None}] /\ LocksStay(j) /\ (x \in Rows => lock'[x] = j)
BY JobParts DEF TypeOK, Take, LocksStay

LEMMA ReachStep ==
  ASSUME TypeOK, NEW j \in Jobs, NEW s \in {"none", "asked", "row", "first", "done", "raised"},
         Reach(j, s)
  PROVE  /\ session' \in [Jobs -> {"none", "asked", "row", "first", "done", "raised"}]
         /\ session'[j] = s
         /\ \A i \in Jobs : i # j => session'[i] = session[i]
BY DEF TypeOK, Reach

LEMMA HandStep ==
  ASSUME TypeOK, JobInv, NEW k \in Workers, NEW s \in Steps, NEW t \in Transfers, Hand(k, s, t)
  PROVE  /\ worker' \in [Workers -> [pc: Steps, on: Transfers \cup {None}]]
         /\ \A l \in Workers : worker'[l].pc # "idle" => worker'[l].on \in Transfers
BY DEF TypeOK, JobInv, Hand

LEMMA FinishStep ==
  ASSUME TypeOK, JobInv, NEW k \in Workers, Finish(k)
  PROVE  /\ worker' \in [Workers -> [pc: Steps, on: Transfers \cup {None}]]
         /\ \A l \in Workers : worker'[l].pc # "idle" => worker'[l].on \in Transfers
BY DEF TypeOK, JobInv, Finish, Free, Steps

-----------------------------------------------------------------------------
(* The books.                                                              *)

Sent(w) == {t \in Transfers : From[t] = w /\ row[t] = "SUCCESS"}
Got(w)  == {t \in Transfers : To[t] = w /\ row[t] = "SUCCESS"}
Gave(w) == {r \in given : Payer(r) = w}
Back(w) == {r \in given : Payee(r) = w}

Told(w) ==
  Opening[w] + SumOver(Amount, Got(w)) + SumOver(Part, Back(w))
    - SumOver(Cost, Sent(w)) - SumOver(Part, Gave(w))

\* What BooksAddUp says beside the types, with its sums by name.
Books ==
  /\ \A w \in Wallets : balance[w] = Told(w) /\ balance[w] >= 0
  /\ \A s \in Sales : refunded[s] <= Paid[s]

LEMMA BooksAre == BooksAddUp <=> TypeOK /\ Books
<1>1. \A w \in Wallets :
        /\ Received(w) = SumOver(Amount, Got(w)) /\ SentFrom(w) = SumOver(Cost, Sent(w))
        /\ GivenBy(w) = SumOver(Part, Gave(w)) /\ GivenTo(w) = SumOver(Part, Back(w))
  BY DEF Received, SentFrom, GivenBy, GivenTo, SumOver, Got, Sent, Gave, Back
<1> QED BY <1>1 DEF BooksAddUp, Books, Told

LEMMA CostIs == \A t \in Transfers : Cost[t] \in Nat /\ Amount[t] \in Nat
BY TransferAssumption DEF Cost

LEMMA JobsAreFinite == IsFiniteSet(Transfers) /\ IsFiniteSet(Refunds)
BY TransferAssumption, FS_Subset DEF Jobs

\* The four sums are integers.
LEMMA ToldParts ==
  ASSUME TypeOK, NEW w \in Wallets
  PROVE  /\ SumOver(Amount, Got(w)) \in Int /\ SumOver(Cost, Sent(w)) \in Int
         /\ SumOver(Part, Gave(w)) \in Int /\ SumOver(Part, Back(w)) \in Int
         /\ Opening[w] \in Int /\ balance[w] \in Int
<1>1. Got(w) \in SUBSET Transfers /\ Sent(w) \in SUBSET Transfers
      /\ Gave(w) \in SUBSET Refunds /\ Back(w) \in SUBSET Refunds
  BY DEF Got, Sent, Gave, Back, TypeOK
<1>2. SumOver(Amount, Got(w)) \in Int /\ SumOver(Cost, Sent(w)) \in Int
  BY <1>1, CostIs, JobsAreFinite, SumType
<1>3. SumOver(Part, Gave(w)) \in Int /\ SumOver(Part, Back(w)) \in Int
  BY <1>1, JobParts, JobsAreFinite, SumType
<1> QED BY <1>2, <1>3, TransferAssumption DEF TypeOK

\* Where no transfer becomes a success and no refund is given, the books stay.
LEMMA BooksKept ==
  ASSUME Books, UNCHANGED <<balance, refunded, given>>,
         \A t \in Transfers : row'[t] = "SUCCESS" <=> row[t] = "SUCCESS"
  PROVE  Books'
<1>1. \A w \in Wallets : Got(w)' = Got(w) /\ Sent(w)' = Sent(w)
  BY DEF Got, Sent
<1>2. \A w \in Wallets : Gave(w)' = Gave(w) /\ Back(w)' = Back(w)
  BY DEF Gave, Back, Payer, Payee
<1>3. \A w \in Wallets : Told(w)' = Told(w)
  BY <1>1, <1>2 DEF Told
<1> QED BY <1>3 DEF Books

\* What one payment does to two balances.
LEMMA PayStep ==
  ASSUME TypeOK, NEW j \in Jobs, NEW c \in Nat, NEW a \in Nat, Pay(j, c, a)
  PROVE  /\ balance' \in [Wallets -> Int]
         /\ \A w \in Wallets :
              balance'[w] = balance[w] + (IF w = Payee(j) THEN a ELSE 0)
                                       - (IF w = Payer(j) THEN c ELSE 0)
<1> DEFINE p == Payer(j)
           q == Payee(j)
<1>1. p \in Wallets /\ q \in Wallets /\ p # q
  BY JobWallets
<1>2. balance' = [balance EXCEPT ![p] = @ - c, ![q] = @ + a] /\ balance \in [Wallets -> Int]
  BY DEF TypeOK, Pay
<1> HIDE DEF p, q
<1>3. balance' \in [Wallets -> Int]
  BY <1>1, <1>2
<1>4. balance'[p] = balance[p] - c /\ balance'[q] = balance[q] + a
      /\ \A w \in Wallets \ {p, q} : balance'[w] = balance[w]
  BY <1>1, <1>2
<1>5. \A w \in Wallets : balance'[w] = balance[w] + (IF w = q THEN a ELSE 0)
                                                  - (IF w = p THEN c ELSE 0)
  BY <1>1, <1>2, <1>4
<1> QED BY <1>3, <1>5 DEF p, q

\* A sum that gets one more element, or stays.
LEMMA SumStep ==
  ASSUME NEW f, NEW D, IsFiniteSet(D), \A y \in D : f[y] \in Int,
         NEW S \in SUBSET D, NEW x \in D, x \notin S, NEW T, NEW n,
         (T = S \cup {x} /\ n = f[x]) \/ (T = S /\ n = 0)
  PROVE  SumOver(f, T) = SumOver(f, S) + n
<1>1. SumOver(f, S) \in Int /\ f[x] \in Int
  BY SumType
<1>2. SumOver(f, S \cup {x}) = f[x] + SumOver(f, S)
  BY SumAdd
<1> QED BY <1>1, <1>2

\* A transfer that succeeds once enters both books.
LEMMA TransferIsBooked ==
  ASSUME TypeOK, Books, NEW t \in Transfers, row[t] # "SUCCESS",
         row' = [row EXCEPT ![t] = "SUCCESS"], UNCHANGED <<refunded, given>>,
         balance[From[t]] >= Cost[t], Pay(t, Cost[t], Amount[t])
  PROVE  Books'
<1>1. ASSUME NEW w \in Wallets
      PROVE  /\ SumOver(Amount, Got(w)') = SumOver(Amount, Got(w)) + (IF w = To[t] THEN Amount[t] ELSE 0)
             /\ SumOver(Cost, Sent(w)') = SumOver(Cost, Sent(w)) + (IF w = From[t] THEN Cost[t] ELSE 0)
  <2>1. Got(w)' = (IF w = To[t] THEN Got(w) \cup {t} ELSE Got(w)) /\ t \notin Got(w)
    BY DEF Got, TypeOK
  <2>2. Sent(w)' = (IF w = From[t] THEN Sent(w) \cup {t} ELSE Sent(w)) /\ t \notin Sent(w)
    BY DEF Sent, TypeOK
  <2>3. Got(w) \in SUBSET Transfers /\ Sent(w) \in SUBSET Transfers
    BY DEF Got, Sent
  <2>4. \A y \in Transfers : Amount[y] \in Int /\ Cost[y] \in Int
    BY CostIs
  <2>5. SumOver(Amount, Got(w)')
          = SumOver(Amount, Got(w)) + (IF w = To[t] THEN Amount[t] ELSE 0)
    <3> DEFINE n == IF w = To[t] THEN Amount[t] ELSE 0
    <3>1. (Got(w)' = Got(w) \cup {t} /\ n = Amount[t]) \/ (Got(w)' = Got(w) /\ n = 0)
      BY <2>1
    <3> HIDE DEF n
    <3>2. SumOver(Amount, Got(w)') = SumOver(Amount, Got(w)) + n
      BY <2>1, <2>3, <2>4, <3>1, JobsAreFinite, SumStep
    <3> QED BY <3>2 DEF n
  <2>6. SumOver(Cost, Sent(w)')
          = SumOver(Cost, Sent(w)) + (IF w = From[t] THEN Cost[t] ELSE 0)
    <3> DEFINE n == IF w = From[t] THEN Cost[t] ELSE 0
    <3>1. (Sent(w)' = Sent(w) \cup {t} /\ n = Cost[t]) \/ (Sent(w)' = Sent(w) /\ n = 0)
      BY <2>2
    <3> HIDE DEF n
    <3>2. SumOver(Cost, Sent(w)') = SumOver(Cost, Sent(w)) + n
      BY <2>2, <2>3, <2>4, <3>1, JobsAreFinite, SumStep
    <3> QED BY <3>2 DEF n
  <2> QED BY <2>5, <2>6
<1>2. \A w \in Wallets : Gave(w)' = Gave(w) /\ Back(w)' = Back(w)
  BY DEF Gave, Back, Payer, Payee
<1>3. \A w \in Wallets :
        balance'[w] = balance[w] + (IF w = To[t] THEN Amount[t] ELSE 0)
                                 - (IF w = From[t] THEN Cost[t] ELSE 0)
  <2>1. Payer(t) = From[t] /\ Payee(t) = To[t] /\ t \in Jobs
    BY JobParts DEF Payer, Payee
  <2>2. Cost[t] \in Nat /\ Amount[t] \in Nat
    BY CostIs
  <2>3. \A w \in Wallets :
          balance'[w] = balance[w] + (IF w = Payee(t) THEN Amount[t] ELSE 0)
                                   - (IF w = Payer(t) THEN Cost[t] ELSE 0)
    BY <2>1, <2>2, PayStep
  <2> QED BY <2>1, <2>3
<1>4. From[t] # To[t]
  BY TransferAssumption
<1>5. ASSUME NEW w \in Wallets  PROVE balance'[w] = Told(w)' /\ balance'[w] >= 0
  <2>1. balance[w] = Told(w) /\ balance[w] >= 0
    BY DEF Books
  <2>2. balance[w] = Opening[w] + SumOver(Amount, Got(w)) + SumOver(Part, Back(w))
                       - SumOver(Cost, Sent(w)) - SumOver(Part, Gave(w))
    BY <2>1 DEF Told
  <2>3. Told(w)' = Opening[w] + SumOver(Amount, Got(w)') + SumOver(Part, Back(w))
                     - SumOver(Cost, Sent(w)') - SumOver(Part, Gave(w))
    BY <1>2 DEF Told
  <2> QED BY <1>1, <1>3, <1>4, <2>1, <2>2, <2>3, ToldParts, CostIs
<1> QED BY <1>5 DEF Books

\* A refund that is given once enters both books, and stays within what was paid.
LEMMA RefundIsBooked ==
  ASSUME TypeOK, Books, NEW r \in Refunds, r \notin given,
         refunded[Of[r]] + Part[r] <= Paid[Of[r]],
         given' = given \cup {r}, refunded' = [refunded EXCEPT ![Of[r]] = @ + Part[r]],
         UNCHANGED row, balance[Payer(r)] >= Part[r], Pay(r, Part[r], Part[r])
  PROVE  Books'
<1>0. Part[r] \in Nat /\ r \in Jobs /\ Of[r] \in Sales /\ \A y \in Refunds : Part[y] \in Int
  BY JobParts
<1>1. ASSUME NEW w \in Wallets
      PROVE  /\ SumOver(Part, Gave(w)') = SumOver(Part, Gave(w)) + (IF w = Payer(r) THEN Part[r] ELSE 0)
             /\ SumOver(Part, Back(w)') = SumOver(Part, Back(w)) + (IF w = Payee(r) THEN Part[r] ELSE 0)
  <2>1. Gave(w)' = (IF w = Payer(r) THEN Gave(w) \cup {r} ELSE Gave(w)) /\ r \notin Gave(w)
    BY DEF Gave, Payer
  <2>2. Back(w)' = (IF w = Payee(r) THEN Back(w) \cup {r} ELSE Back(w)) /\ r \notin Back(w)
    BY DEF Back, Payee
  <2>3. Gave(w) \in SUBSET Refunds /\ Back(w) \in SUBSET Refunds
    BY DEF Gave, Back, TypeOK
  <2>4. SumOver(Part, Gave(w)')
          = SumOver(Part, Gave(w)) + (IF w = Payer(r) THEN Part[r] ELSE 0)
    <3> DEFINE n == IF w = Payer(r) THEN Part[r] ELSE 0
    <3>1. (Gave(w)' = Gave(w) \cup {r} /\ n = Part[r]) \/ (Gave(w)' = Gave(w) /\ n = 0)
      BY <2>1
    <3> HIDE DEF n
    <3>2. SumOver(Part, Gave(w)') = SumOver(Part, Gave(w)) + n
      BY <1>0, <2>1, <2>3, <3>1, JobsAreFinite, SumStep
    <3> QED BY <3>2 DEF n
  <2>5. SumOver(Part, Back(w)')
          = SumOver(Part, Back(w)) + (IF w = Payee(r) THEN Part[r] ELSE 0)
    <3> DEFINE n == IF w = Payee(r) THEN Part[r] ELSE 0
    <3>1. (Back(w)' = Back(w) \cup {r} /\ n = Part[r]) \/ (Back(w)' = Back(w) /\ n = 0)
      BY <2>2
    <3> HIDE DEF n
    <3>2. SumOver(Part, Back(w)') = SumOver(Part, Back(w)) + n
      BY <1>0, <2>2, <2>3, <3>1, JobsAreFinite, SumStep
    <3> QED BY <3>2 DEF n
  <2> QED BY <2>4, <2>5
<1>2. \A w \in Wallets : Got(w)' = Got(w) /\ Sent(w)' = Sent(w)
  BY DEF Got, Sent
<1>3. \A w \in Wallets :
        balance'[w] = balance[w] + (IF w = Payee(r) THEN Part[r] ELSE 0)
                                 - (IF w = Payer(r) THEN Part[r] ELSE 0)
  BY <1>0, PayStep
<1>4. Payer(r) # Payee(r)
  BY <1>0, JobWallets
<1>5. ASSUME NEW w \in Wallets  PROVE balance'[w] = Told(w)' /\ balance'[w] >= 0
  <2>1. balance[w] = Told(w) /\ balance[w] >= 0
    BY DEF Books
  <2>2. balance[w] = Opening[w] + SumOver(Amount, Got(w)) + SumOver(Part, Back(w))
                       - SumOver(Cost, Sent(w)) - SumOver(Part, Gave(w))
    BY <2>1 DEF Told
  <2>3. Told(w)' = Opening[w] + SumOver(Amount, Got(w)) + SumOver(Part, Back(w)')
                     - SumOver(Cost, Sent(w)) - SumOver(Part, Gave(w)')
    BY <1>2 DEF Told
  <2> QED BY <1>0, <1>1, <1>3, <1>4, <2>1, <2>2, <2>3, ToldParts
<1>6. \A s \in Sales : refunded'[s] <= Paid[s]
  BY <1>0, JobParts DEF Books, TypeOK
<1> QED BY <1>5, <1>6 DEF Books

-----------------------------------------------------------------------------
(* One step of a transaction.                                              *)

Inv == TypeOK /\ JobInv /\ Books

\* A step of one job that moves no money leaves the others as they are.
LEMMA JobInvKept ==
  ASSUME TypeOK, JobInv, NEW j \in Jobs, LocksStay(j),
         \A i \in Jobs : i # j => session'[i] = session[i],
         UNCHANGED <<row, refunded, given, worker>>,
         j \in given => session'[j] = "done",
         session'[j] \in Inside =>
           /\ j \in Transfers => lock'[j] = j /\ row[j] = "PENDING"
           /\ j \in Refunds => lock'[Of[j]] = j /\ refunded[Of[j]] + Part[j] <= Paid[Of[j]]
  PROVE  JobInv'
<1>1. ASSUME NEW t \in Transfers, session'[t] \in Inside
      PROVE  lock'[t] = t /\ row[t] = "PENDING"
  <2>1. CASE t = j
    BY <1>1, <2>1
  <2>2. CASE t # j
    BY <1>1, <2>2, JobParts DEF JobInv, LocksStay
  <2> QED BY <2>1, <2>2
<1>2. ASSUME NEW r \in Refunds, session'[r] \in Inside
      PROVE  lock'[Of[r]] = r /\ refunded[Of[r]] + Part[r] <= Paid[Of[r]]
  <2>1. CASE r = j
    BY <1>2, <2>1
  <2>2. CASE r # j
    BY <1>2, <2>2, JobParts DEF JobInv, LocksStay
  <2> QED BY <2>1, <2>2
<1>3. \A r \in Refunds : r \in given => session'[r] = "done"
  BY JobParts DEF JobInv
<1>4. \A k \in Workers : worker[k].pc # "idle" => worker[k].on \in Transfers
  BY DEF JobInv
<1> QED BY <1>1, <1>2, <1>3, <1>4 DEF JobInv

\* The types of what the step of a job that moves no money changes.
LEMMA TypesKept ==
  ASSUME TypeOK, lock' \in [Rows -> Jobs \cup {None}],
         session' \in [Jobs -> {"none", "asked", "row", "first", "done", "raised"}],
         UNCHANGED <<money, closed, leaving, worker, cut>>
  PROVE  TypeOK'
BY DEF TypeOK, money

LEMMA RaiseStep ==
  ASSUME Inv, NEW j \in Jobs, session[j] # "done", Raise(j),
         UNCHANGED <<closed, leaving, worker, cut>>
  PROVE  Inv'
<1>1. Reach(j, "raised") /\ Release(j) /\ UNCHANGED money
  BY DEF Raise
<1>2. session' \in [Jobs -> {"none", "asked", "row", "first", "done", "raised"}]
      /\ session'[j] = "raised" /\ \A i \in Jobs : i # j => session'[i] = session[i]
  BY <1>1, ReachStep DEF Inv
<1>3. lock' \in [Rows -> Jobs \cup {None}] /\ LocksStay(j)
  BY <1>1, ReleaseStep DEF Inv
<1>4. j \notin given
  BY DEF Inv, TypeOK, JobInv
<1>5. TypeOK'
  BY <1>1, <1>2, <1>3, TypesKept DEF Inv
<1>6. JobInv'
  BY <1>1, <1>2, <1>3, <1>4, JobInvKept DEF Inv, money, Inside
<1>7. Books'
  BY <1>1, BooksKept DEF Inv, money
<1> QED BY <1>5, <1>6, <1>7 DEF Inv

\* A transaction that takes one more lock.
LEMMA LockStep ==
  ASSUME Inv, NEW j \in Jobs, session[j] # "done", NEW x, NEW s \in Inside,
         Take(j, x), Reach(j, s), UNCHANGED <<money, closed, leaving, worker, cut>>,
         j \in Transfers => lock'[j] = j /\ row[j] = "PENDING",
         j \in Refunds => lock'[Of[j]] = j /\ refunded[Of[j]] + Part[j] <= Paid[Of[j]]
  PROVE  Inv'
<1>1. session' \in [Jobs -> {"none", "asked", "row", "first", "done", "raised"}]
      /\ session'[j] = s /\ \A i \in Jobs : i # j => session'[i] = session[i]
  BY ReachStep DEF Inv, Inside
<1>2. lock' \in [Rows -> Jobs \cup {None}] /\ LocksStay(j)
  BY TakeStep DEF Inv
<1>3. j \notin given
  BY DEF Inv, TypeOK, JobInv
<1>4. TypeOK'
  BY <1>1, <1>2, TypesKept DEF Inv
<1>5. JobInv'
  BY <1>1, <1>2, <1>3, JobInvKept DEF Inv, money
<1>6. Books'
  BY BooksKept DEF Inv, money
<1> QED BY <1>4, <1>5, <1>6 DEF Inv

LEMMA TransferBegins == ASSUME Inv, NEW t \in Transfers, transfer_wallet(t)  PROVE Inv'
<1>0. t \in Jobs /\ t \notin Refunds /\ session[t] # "done"
  BY JobParts DEF transfer_wallet
<1>1. CASE row[t] = "PENDING"
  <2>1. Take(t, t) /\ Reach(t, "row") /\ UNCHANGED <<money, closed, leaving, worker, cut>>
    BY <1>1 DEF transfer_wallet
  <2>2. lock'[t] = t
    BY <1>0, <2>1, TakeStep, JobParts DEF Inv
  <2> QED BY <1>0, <1>1, <2>1, <2>2, LockStep DEF Inside
<1>2. CASE row[t] # "PENDING"
  BY <1>0, <1>2, RaiseStep DEF transfer_wallet
<1> QED BY <1>1, <1>2

LEMMA RefundBegins == ASSUME Inv, NEW r \in Refunds, refund_to_client_wallet(r)  PROVE Inv'
<1>0. r \in Jobs /\ r \notin Transfers /\ Of[r] \in Rows /\ session[r] # "done"
  BY JobParts DEF refund_to_client_wallet
<1> DEFINE ok == /\ refunded[Of[r]] + Part[r] <= Paid[Of[r]]
                 /\ {Payer(r), Payee(r)} \cap closed = {}
<1>1. CASE ok
  <2>1. Take(r, Of[r]) /\ Reach(r, "row") /\ UNCHANGED <<money, closed, leaving, worker, cut>>
    BY <1>1 DEF refund_to_client_wallet
  <2>2. lock'[Of[r]] = r
    BY <1>0, <2>1, TakeStep DEF Inv
  <2> QED BY <1>0, <1>1, <2>1, <2>2, LockStep DEF Inside
<1>2. CASE ~ ok
  BY <1>0, <1>2, RaiseStep DEF refund_to_client_wallet
<1> QED BY <1>1, <1>2

LEMMA FirstIsLocked == ASSUME Inv, NEW j \in Jobs, LockFirst(j)  PROVE Inv'
<1>1. session[j] = "row" /\ Take(j, FirstWallet(j)) /\ Reach(j, "first")
      /\ UNCHANGED <<money, closed, leaving, worker, cut>>
  BY DEF LockFirst
<1>2. \A x \in Rows : lock[x] = j => lock'[x] = j
  BY <1>1, JobParts DEF Inv, TypeOK, Take
<1>3. j \in Transfers => lock'[j] = j /\ row[j] = "PENDING"
  BY <1>1, <1>2, JobParts DEF Inv, JobInv, Inside
<1>4. j \in Refunds => lock'[Of[j]] = j /\ refunded[Of[j]] + Part[j] <= Paid[Of[j]]
  BY <1>1, <1>2, JobParts DEF Inv, JobInv, Inside
<1> QED BY <1>1, <1>3, <1>4, LockStep DEF Inside

\* The step that moves a transfer finds it PENDING, under its lock.
LEMMA TransferMoves == ASSUME Inv, NEW t \in Transfers, MoveTransfer(t)  PROVE Inv'
<1>0. t \in Jobs /\ t \notin Refunds /\ session[t] = "first"
      /\ UNCHANGED <<closed, leaving, worker, cut>>
  BY JobParts DEF MoveTransfer
<1> DEFINE ok == {From[t], To[t]} \cap closed = {} /\ balance[From[t]] >= Cost[t]
<1>1. CASE ~ ok
  BY <1>0, <1>1, RaiseStep DEF MoveTransfer
<1>2. CASE ok
  <2>1. Pay(t, Cost[t], Amount[t]) /\ row' = [row EXCEPT ![t] = "SUCCESS"]
        /\ Reach(t, "done") /\ Release(t) /\ UNCHANGED <<refunded, given>>
    BY <1>2 DEF MoveTransfer
  <2>2. row[t] = "PENDING"
    BY <1>0 DEF Inv, JobInv, Inside
  <2>3. session' \in [Jobs -> {"none", "asked", "row", "first", "done", "raised"}]
        /\ session'[t] = "done" /\ \A i \in Jobs : i # t => session'[i] = session[i]
    BY <1>0, <2>1, ReachStep DEF Inv
  <2>4. lock' \in [Rows -> Jobs \cup {None}] /\ LocksStay(t)
    BY <1>0, <2>1, ReleaseStep DEF Inv
  <2>5. balance' \in [Wallets -> Int]
    BY <1>0, <2>1, PayStep, CostIs DEF Inv
  <2>6. row' \in [Transfers -> {"none", "PENDING", "SUCCESS", "FAILED"}]
        /\ \A u \in Transfers : u # t => row'[u] = row[u]
    BY <2>1 DEF Inv, TypeOK
  <2>7. TypeOK'
    BY <1>0, <2>1, <2>3, <2>4, <2>5, <2>6 DEF Inv, TypeOK
  <2>8. JobInv'
    <3>1. ASSUME NEW u \in Transfers, session'[u] \in Inside
          PROVE  lock'[u] = u /\ row'[u] = "PENDING"
      <4>1. u # t
        BY <2>3, <3>1 DEF Inside
      <4> QED BY <2>3, <2>4, <2>6, <3>1, <4>1, JobParts DEF Inv, JobInv, LocksStay
    <3>2. ASSUME NEW r \in Refunds, session'[r] \in Inside
          PROVE  lock'[Of[r]] = r /\ refunded[Of[r]] + Part[r] <= Paid[Of[r]]
      <4>1. r # t /\ session[r] \in Inside
        BY <1>0, <2>3, <3>2, JobParts
      <4> QED BY <2>4, <4>1, JobParts DEF Inv, JobInv, LocksStay
    <3>3. \A r \in Refunds : r \in given => session'[r] = "done"
      BY <1>0, <2>3, JobParts DEF Inv, JobInv
    <3>4. \A k \in Workers : worker[k].pc # "idle" => worker[k].on \in Transfers
      BY DEF Inv, JobInv
    <3> QED BY <1>0, <2>1, <3>1, <3>2, <3>3, <3>4 DEF JobInv
  <2>9. Books'
    BY <1>2, <2>1, <2>2, TransferIsBooked DEF Inv
  <2> QED BY <2>7, <2>8, <2>9 DEF Inv
<1> QED BY <1>1, <1>2

\* The step that gives a refund finds it not yet given, and the sale as it was when its
\* row was locked.
LEMMA RefundMoves == ASSUME Inv, NEW r \in Refunds, MoveRefund(r)  PROVE Inv'
<1>0. r \in Jobs /\ r \notin Transfers /\ Of[r] \in Sales /\ Part[r] \in Nat \ {0}
      /\ session[r] = "first" /\ UNCHANGED <<closed, leaving, worker, cut>>
  BY JobParts DEF MoveRefund
<1>1. CASE ~ (balance[Payer(r)] >= Part[r])
  BY <1>0, <1>1, RaiseStep DEF MoveRefund
<1>2. CASE balance[Payer(r)] >= Part[r]
  <2>1. Pay(r, Part[r], Part[r]) /\ refunded' = [refunded EXCEPT ![Of[r]] = @ + Part[r]]
        /\ given' = given \cup {r} /\ Reach(r, "done") /\ Release(r) /\ UNCHANGED row
    BY <1>2 DEF MoveRefund
  <2>2. r \notin given /\ lock[Of[r]] = r /\ refunded[Of[r]] + Part[r] <= Paid[Of[r]]
    BY <1>0 DEF Inv, JobInv, Inside
  <2>3. session' \in [Jobs -> {"none", "asked", "row", "first", "done", "raised"}]
        /\ session'[r] = "done" /\ \A i \in Jobs : i # r => session'[i] = session[i]
    BY <1>0, <2>1, ReachStep DEF Inv
  <2>4. lock' \in [Rows -> Jobs \cup {None}] /\ LocksStay(r)
    BY <1>0, <2>1, ReleaseStep DEF Inv
  <2>5. balance' \in [Wallets -> Int]
    BY <1>0, <2>1, PayStep DEF Inv
  <2>6. refunded' \in [Sales -> Nat] /\ \A s \in Sales : s # Of[r] => refunded'[s] = refunded[s]
    BY <1>0, <2>1 DEF Inv, TypeOK
  <2>7. TypeOK'
    BY <1>0, <2>1, <2>3, <2>4, <2>5, <2>6 DEF Inv, TypeOK
  <2>8. JobInv'
    <3>1. ASSUME NEW t \in Transfers, session'[t] \in Inside
          PROVE  lock'[t] = t /\ row[t] = "PENDING"
      <4>1. t # r /\ session[t] \in Inside
        BY <1>0, <2>3, <3>1, JobParts
      <4> QED BY <2>4, <4>1, JobParts DEF Inv, JobInv, LocksStay
    <3>2. ASSUME NEW q \in Refunds, session'[q] \in Inside
          PROVE  lock'[Of[q]] = q /\ refunded'[Of[q]] + Part[q] <= Paid[Of[q]]
      <4>1. q # r /\ session[q] \in Inside
        BY <2>3, <3>2, JobParts DEF Inside
      <4>2. lock[Of[q]] = q /\ refunded[Of[q]] + Part[q] <= Paid[Of[q]]
        BY <4>1 DEF Inv, JobInv
      <4>3. Of[q] # Of[r]
        BY <2>2, <4>1, <4>2
      <4> QED BY <2>4, <2>6, <4>1, <4>2, <4>3, JobParts DEF LocksStay
    <3>3. \A q \in Refunds : q \in given' => session'[q] = "done"
      BY <2>1, <2>3, JobParts DEF Inv, JobInv
    <3>4. \A k \in Workers : worker[k].pc # "idle" => worker[k].on \in Transfers
      BY DEF Inv, JobInv
    <3> QED BY <1>0, <2>1, <3>1, <3>2, <3>3, <3>4 DEF JobInv
  <2>9. Books'
    BY <1>2, <2>1, <2>2, RefundIsBooked DEF Inv
  <2> QED BY <2>7, <2>8, <2>9 DEF Inv
<1> QED BY <1>1, <1>2

-----------------------------------------------------------------------------
(* One step of a call.                                                     *)

\* A call that changes nothing but where it stands.
LEMMA OnlyTheCall ==
  ASSUME Inv, Still,
         worker' \in [Workers -> [pc: Steps, on: Transfers \cup {None}]],
         \A l \in Workers : worker'[l].pc # "idle" => worker'[l].on \in Transfers
  PROVE  Inv'
<1>1. TypeOK'
  BY DEF Inv, TypeOK, Still, money, sql
<1>2. JobInv'
  BY DEF Inv, JobInv, Still, money, sql
<1>3. Books'
  BY BooksKept DEF Inv, Still, money
<1> QED BY <1>1, <1>2, <1>3 DEF Inv

\* A call that writes the status of its transfer, which nobody holds: no success
\* comes or goes.
LEMMA StatusIsWritten ==
  ASSUME Inv, NEW t \in Transfers, NEW s \in {"PENDING", "FAILED"},
         session[t] \notin Inside, row[t] # "SUCCESS", row' = [row EXCEPT ![t] = s],
         UNCHANGED <<balance, refunded, given, sql, closed, leaving, cut>>,
         worker' \in [Workers -> [pc: Steps, on: Transfers \cup {None}]],
         \A l \in Workers : worker'[l].pc # "idle" => worker'[l].on \in Transfers
  PROVE  Inv'
<1>1. row' \in [Transfers -> {"none", "PENDING", "SUCCESS", "FAILED"}]
      /\ \A u \in Transfers : u # t => row'[u] = row[u]
  BY DEF Inv, TypeOK
<1>2. row'[t] # "SUCCESS"
  BY DEF Inv, TypeOK
<1>3. TypeOK'
  BY <1>1 DEF Inv, TypeOK, sql
<1>4. JobInv'
  BY <1>1 DEF Inv, JobInv, sql
<1>5. Books'
  BY <1>1, <1>2, BooksKept DEF Inv
<1> QED BY <1>3, <1>4, <1>5 DEF Inv

LEMMA CallSteps ==
  ASSUME Inv, NEW k \in Workers,
         \/ \E t \in Transfers : transfer(k, t)
         \/ Checks(k) \/ assertWithinLimits(k) \/ Answered(k) \/ Unanswered(k)
  PROVE  Inv'
<1>0. Still
  BY DEF transfer, Checks, assertWithinLimits, Answered, Unanswered
<1>1. (\E s \in Steps, t \in Transfers : Hand(k, s, t)) \/ Finish(k)
  <2>1. CASE \E t \in Transfers : transfer(k, t)
    BY <2>1 DEF transfer, Steps
  <2>2. CASE Checks(k) \/ assertWithinLimits(k) \/ Answered(k) \/ Unanswered(k)
    <3>1. worker[k].on \in Transfers
      BY <2>2 DEF Checks, assertWithinLimits, Answered, Unanswered, At, Inv, JobInv
    <3>2. (\E s \in Steps : Goto(k, s)) \/ Finish(k)
      BY <2>2 DEF Checks, assertWithinLimits, Answered, Unanswered, Steps
    <3> QED BY <3>1, <3>2 DEF Goto
  <2> QED BY <2>1, <2>2
<1> QED BY <1>0, <1>1, HandStep, FinishStep, OnlyTheCall DEF Inv

LEMMA RowIsInserted == ASSUME Inv, NEW k \in Workers, InsertRow(k)  PROVE Inv'
<1> DEFINE t == worker[k].on
<1>0. t \in Transfers /\ UNCHANGED <<balance, refunded, given, sql, closed, leaving, cut>>
  BY DEF InsertRow, At, Inv, JobInv
<1>1. CASE row[t] = "none"
  <2>1. row' = [row EXCEPT ![t] = "PENDING"] /\ Hand(k, "call", t)
    BY <1>1 DEF InsertRow, Goto
  <2>2. session[t] \notin Inside
    BY <1>0, <1>1 DEF Inv, JobInv
  <2> HIDE DEF t
  <2> QED BY <1>0, <1>1, <2>1, <2>2, HandStep, StatusIsWritten DEF Inv, Steps
<1>2. CASE row[t] # "none"
  <2>1. Still /\ Finish(k)
    BY <1>2 DEF InsertRow, Still, money
  <2> QED BY <2>1, FinishStep, OnlyTheCall DEF Inv
<1> QED BY <1>1, <1>2

LEMMA FailureIsMarked == ASSUME Inv, NEW k \in Workers, MarkFailed(k)  PROVE Inv'
<1> DEFINE t == worker[k].on
<1>0. t \in Transfers /\ lock[t] = None /\ Finish(k)
      /\ UNCHANGED <<balance, refunded, given, sql, closed, leaving, cut>>
  BY DEF MarkFailed, At, Inv, JobInv
<1>1. CASE row[t] = "PENDING"
  <2>1. row' = [row EXCEPT ![t] = "FAILED"]
    BY <1>1 DEF MarkFailed
  <2>2. session[t] \notin Inside
    BY <1>0, JobParts DEF Inv, JobInv
  <2> HIDE DEF t
  <2> QED BY <1>0, <1>1, <2>1, <2>2, FinishStep, StatusIsWritten DEF Inv
<1>2. CASE row[t] # "PENDING"
  <2>1. Still
    BY <1>0, <1>2 DEF MarkFailed, Still, money
  <2> QED BY <1>0, <2>1, FinishStep, OnlyTheCall DEF Inv
<1> QED BY <1>1, <1>2

\* A transaction is asked for: that of a transfer whose call goes on, or of a refund.
LEMMA JobIsAsked ==
  ASSUME Inv, NEW j \in Jobs, j \notin given, Reach(j, "asked"),
         UNCHANGED <<money, lock, closed, leaving, cut>>,
         worker' \in [Workers -> [pc: Steps, on: Transfers \cup {None}]],
         \A l \in Workers : worker'[l].pc # "idle" => worker'[l].on \in Transfers
  PROVE  Inv'
<1>1. session' \in [Jobs -> {"none", "asked", "row", "first", "done", "raised"}]
      /\ session'[j] = "asked" /\ \A i \in Jobs : i # j => session'[i] = session[i]
  BY ReachStep DEF Inv
<1>2. TypeOK'
  BY <1>1 DEF Inv, TypeOK, money
<1>3. JobInv'
  <2>1. \A i \in Jobs : session'[i] \in Inside => i # j /\ session[i] \in Inside
    BY <1>1 DEF Inside
  <2>2. \A t \in Transfers : session'[t] \in Inside => lock[t] = t /\ row[t] = "PENDING"
    BY <2>1, JobParts DEF Inv, JobInv
  <2>3. \A r \in Refunds :
          session'[r] \in Inside => lock[Of[r]] = r /\ refunded[Of[r]] + Part[r] <= Paid[Of[r]]
    BY <2>1, JobParts DEF Inv, JobInv
  <2>4. \A r \in Refunds : r \in given => session'[r] = "done"
    BY <1>1, JobParts DEF Inv, JobInv
  <2> QED BY <2>2, <2>3, <2>4 DEF JobInv, money
<1>4. Books'
  BY BooksKept DEF Inv, money
<1> QED BY <1>2, <1>3, <1>4 DEF Inv

LEMMA TransferIsCalled == ASSUME Inv, NEW k \in Workers, CallTransfer(k)  PROVE Inv'
<1> DEFINE t == worker[k].on
<1>0. t \in Transfers /\ UNCHANGED <<money, lock, closed, leaving, cut>>
  BY DEF CallTransfer, At, Inv, JobInv
<1>1. CASE Reach(t, "asked") /\ Goto(k, "rpc")
  <2>1. t \in Jobs /\ t \notin given
    BY <1>0, JobParts DEF Inv, TypeOK
  <2>2. Hand(k, "rpc", t)
    BY <1>1 DEF Goto
  <2> HIDE DEF t
  <2> QED BY <1>0, <1>1, <2>1, <2>2, HandStep, JobIsAsked DEF Inv, Steps
<1>2. CASE UNCHANGED session /\ Goto(k, "fail")
  <2>1. Still /\ Hand(k, "fail", t)
    BY <1>0, <1>2 DEF Still, sql, Goto
  <2> HIDE DEF t
  <2> QED BY <1>0, <2>1, HandStep, OnlyTheCall DEF Inv, Steps
<1> QED BY <1>1, <1>2 DEF CallTransfer

LEMMA CallStops == ASSUME Inv, NEW k \in Workers, Interrupt(k)  PROVE Inv'
<1>1. worker' \in [Workers -> [pc: Steps, on: Transfers \cup {None}]]
      /\ \A l \in Workers : worker'[l].pc # "idle" => worker'[l].on \in Transfers
  BY FinishStep DEF Interrupt, Inv
<1>2. cut' \subseteq Transfers
  BY DEF Interrupt, At, Inv, TypeOK, JobInv
<1>3. TypeOK'
  BY <1>1, <1>2 DEF Interrupt, Inv, TypeOK, money, sql
<1>4. JobInv'
  BY <1>1 DEF Interrupt, Inv, JobInv, money, sql
<1>5. Books'
  BY BooksKept DEF Interrupt, Inv, money
<1> QED BY <1>3, <1>4, <1>5 DEF Inv

-----------------------------------------------------------------------------
(* The theorems.                                                           *)

LEMMA InvInit == Init => Inv
<1> SUFFICES ASSUME Init  PROVE Inv
  OBVIOUS
<1>1. TypeOK
  BY TransferAssumption DEF Init, TypeOK, Free, Steps
<1>2. JobInv
  BY JobParts DEF Init, JobInv, Free, Inside
<1>3. Books
  <2>1. \A w \in Wallets : Got(w) = {} /\ Sent(w) = {} /\ Gave(w) = {} /\ Back(w) = {}
    BY DEF Init, Got, Sent, Gave, Back
  <2>2. SumOver(Amount, {}) = 0 /\ SumOver(Cost, {}) = 0 /\ SumOver(Part, {}) = 0
    BY JobsAreFinite, SumUnfolds
  <2>3. \A w \in Wallets : Opening[w] \in Nat
    BY TransferAssumption
  <2>4. \A w \in Wallets : Told(w) = Opening[w]
    BY <2>1, <2>2, <2>3 DEF Told
  <2> QED BY <2>3, <2>4, JobParts DEF Books, Init
<1> QED BY <1>1, <1>2, <1>3 DEF Inv

LEMMA InvStep == Inv /\ [Next]_vars => Inv'
<1> SUFFICES ASSUME Inv, [Next]_vars  PROVE Inv'
  OBVIOUS
<1>1. ASSUME NEW j \in Jobs, Run(j)  PROVE Inv'
  BY <1>1, TransferBegins, TransferMoves, RefundBegins, RefundMoves, FirstIsLocked DEF Run
<1>2. ASSUME NEW k \in Workers,
             Go(k) \/ Unanswered(k) \/ Interrupt(k) \/ \E t \in Transfers : transfer(k, t)
      PROVE  Inv'
  BY <1>2, CallSteps, RowIsInserted, TransferIsCalled, FailureIsMarked, CallStops DEF Go
<1>3. ASSUME NEW r \in Refunds, createRefund(r)  PROVE Inv'
  <2>1. r \in Jobs /\ r \notin given /\ Reach(r, "asked")
        /\ UNCHANGED <<money, lock, closed, leaving, worker, cut>>
    BY <1>3, JobParts DEF createRefund, Inv, JobInv
  <2> QED BY <2>1, JobIsAsked DEF Inv, TypeOK, JobInv
<1>4. ASSUME NEW w \in Wallets, deleteAccount(w) \/ CloseWallet(w)  PROVE Inv'
  <2>1. UNCHANGED <<money, sql, worker, cut>> /\ closed' \subseteq Wallets /\ leaving' \subseteq Wallets
    BY <1>4 DEF deleteAccount, CloseWallet, Inv, TypeOK
  <2>2. TypeOK'
    BY <2>1 DEF Inv, TypeOK, money, sql
  <2>3. JobInv'
    BY <2>1 DEF Inv, JobInv, money, sql
  <2>4. Books'
    BY <2>1, BooksKept DEF Inv, money
  <2> QED BY <2>2, <2>3, <2>4 DEF Inv
<1>5. CASE UNCHANGED vars
  <2>1. UNCHANGED <<money, sql, closed, leaving, worker, cut>>
    BY <1>5 DEF vars
  <2>2. TypeOK'
    BY <2>1 DEF Inv, TypeOK, money, sql
  <2>3. JobInv'
    BY <2>1 DEF Inv, JobInv, money, sql
  <2>4. Books'
    BY <2>1, BooksKept DEF Inv, money
  <2> QED BY <2>2, <2>3, <2>4 DEF Inv
<1> QED BY <1>1, <1>2, <1>3, <1>4, <1>5 DEF Next

\* BooksAddUp: for any wallets, transfers, refunds and calls, every balance is what the
\* successful transfers and the refunds tell, none is below nothing, and a sale is never
\* given back beyond what was paid, whatever calls share a key, wait for each other's
\* locks, lose an answer or stop (transfer_wallet, refund_to_client_wallet).
THEOREM TheBooksAddUp == Spec => []BooksAddUp
<1>1. Inv => BooksAddUp
  BY BooksAre DEF Inv
<1> QED BY <1>1, InvInit, InvStep, PTL DEF Spec

\* ClosedIsClosed: a transfer becomes a success in the step that holds the locks of both
\* wallets, which looks at their status again.
THEOREM NoTransferOnAClosedWallet == Spec => ClosedIsClosed
<1>1. ASSUME Inv, [Next]_vars, NEW t \in Transfers, row[t] # "SUCCESS", row'[t] = "SUCCESS"
      PROVE  {From[t], To[t]} \cap closed = {}
  <2>1. row \in [Transfers -> {"none", "PENDING", "SUCCESS", "FAILED"}]
    BY <1>1 DEF Inv, TypeOK
  <2>2. PICK u \in Transfers : MoveTransfer(u) /\ row' # row
    <3>1. ASSUME NEW j \in Jobs, Run(j)  PROVE \E u \in Transfers : MoveTransfer(u)
      BY <1>1, <3>1 DEF Run, transfer_wallet, refund_to_client_wallet, MoveRefund, LockFirst,
                        Raise, money
    <3>2. ASSUME NEW k \in Workers,
                 Go(k) \/ Unanswered(k) \/ Interrupt(k) \/ \E v \in Transfers : transfer(k, v)
          PROVE  FALSE
      BY <1>1, <2>1, <3>2 DEF Go, Unanswered, Interrupt, transfer, Checks, assertWithinLimits,
            InsertRow, CallTransfer, Answered, MarkFailed, Still, money
    <3>3. CASE \/ \E r \in Refunds : createRefund(r)
               \/ \E w \in Wallets : deleteAccount(w) \/ CloseWallet(w)
               \/ UNCHANGED vars
      BY <1>1, <3>3 DEF createRefund, deleteAccount, CloseWallet, vars, money
    <3> QED BY <1>1, <3>1, <3>2, <3>3 DEF Next
  <2>3. {From[u], To[u]} \cap closed = {} /\ row' = [row EXCEPT ![u] = "SUCCESS"]
    BY <2>2 DEF MoveTransfer, Raise, money
  <2>4. u = t
    BY <1>1, <2>1, <2>3
  <2> QED BY <2>3, <2>4
<1>2. Inv /\ [Next]_vars =>
        [\A t \in Transfers : row[t] # "SUCCESS" /\ row'[t] = "SUCCESS" =>
           {From[t], To[t]} \cap closed = {}]_vars
  BY <1>1
<1> QED BY <1>2, InvInit, InvStep, PTL DEF Spec, ClosedIsClosed

=============================================================================
