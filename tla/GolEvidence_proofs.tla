-------------------------- MODULE GolEvidence_proofs --------------------------
(***************************************************************************)
(* That the contract's records, totals, payouts, events and the index of   *)
(* its log agree, for any number of mandates, requests, amounts and        *)
(* addresses.                                                              *)
(*                                                                         *)
(* The induction is over the contract's steps, so it needs to know what    *)
(* one more record does to a sum and one more event to the index.  Both    *)
(* are recursive definitions, and the lemmas before the invariant show, by *)
(* induction over the naturals, that they obey their equations.            *)
(*                                                                         *)
(* Evident is what must hold of settled books.  While a transfer is open   *)
(* it does not hold of the present books, whose money and event are still  *)
(* to come; EvidenceInv then claims it of the two states the call can end  *)
(* in, the one a revert restores and the one the transfer leads to.        *)
(***************************************************************************)
EXTENDS GolEvidence, GolAccount_proofs, FiniteSetTheorems

-----------------------------------------------------------------------------
(***************************************************************************)
(* Induction over the naturals, for a set                                  *)
(***************************************************************************)
\* A set that holds 0 and, with a number, the next one, holds every number.
LEMMA NatSetInduction ==
    ASSUME NEW S, 0 \in S, \A n \in Nat : n \in S => n + 1 \in S
    PROVE  Nat \subseteq S
PROOF
<1> DEFINE T == {n \in Nat : n \notin S}
           R == {ss \in Nat \X Nat : ss[1] < ss[2]}
<1>1. IsWellFoundedOn(R, Nat)
  BY NatLessThanWellFounded DEF OpToRel
<1>2. SUFFICES ASSUME T # {} PROVE FALSE
  OBVIOUS
<1>3. PICK m \in T : \A y \in T : ~ (<<y, m>> \in R)
  <2>1. T \subseteq Nat
    OBVIOUS
  <2> HIDE DEF T, R
  <2> QED
    BY <1>1, <1>2, <2>1, WFMin
<1>4. m \in Nat /\ m \notin S /\ m # 0
  OBVIOUS
<1>5. m - 1 \in Nat /\ m - 1 \notin T
  <2>1. m - 1 \in Nat /\ m - 1 < m
    BY <1>4
  <2>2. <<m - 1, m>> \in R
    BY <1>4, <2>1
  <2> QED
    BY <2>1, <2>2, <1>3
<1> QED
  BY <1>4, <1>5

-----------------------------------------------------------------------------
(***************************************************************************)
(* Sums over records                                                       *)
(***************************************************************************)

Picked(s) == CHOOSE x \in s : TRUE

\* The equation behind Attempted, on the subsets of K.
IsTotal(records, K, total) ==
    total = [s \in SUBSET K |->
                IF s = {} THEN 0
                ELSE records[Picked(s)].attempted + total[s \ {Picked(s)}]]

Total(records, K) == CHOOSE total : IsTotal(records, K, total)

\* Attempted is the sum the equation defines.
LEMMA AttemptedIsTotal ==
    ASSUME NEW records, NEW K
    PROVE  Attempted(records, K) = Total(records, K)[K]
PROOF BY DEF Attempted, MapThenSumSet, MapThenFoldSet, Total, IsTotal, Picked

\* Taking an element away makes a finite set smaller by one.
LEMMA OneLess ==
    ASSUME NEW K, IsFiniteSet(K), NEW s \in SUBSET K, NEW x \in s,
           NEW n \in Nat, Cardinality(s) = n + 1
    PROVE  s \ {x} \in SUBSET K /\ Cardinality(s \ {x}) = n
PROOF
<1>1. IsFiniteSet(s)
  BY FS_Subset
<1>2. Cardinality(s \ {x}) = Cardinality(s) - 1
  BY <1>1, FS_RemoveElement
<1> QED
  BY <1>2

\* The fold takes its next element from the set.
LEMMA PickedIn ==
    ASSUME NEW s, s # {}
    PROVE  Picked(s) \in s
PROOF BY DEF Picked

\* What holds of the empty subset, and of a subset as soon as it holds of all
\* the subsets with one element less, holds of every subset of a finite set.
LEMMA SubsetInduction ==
    ASSUME NEW K, IsFiniteSet(K), NEW Good \in SUBSET (SUBSET K), {} \in Good,
           \A s \in SUBSET K :
               s # {} /\ (\A x \in s : s \ {x} \in Good) => s \in Good
    PROVE  \A s \in SUBSET K : s \in Good
PROOF
<1> DEFINE S == {n \in Nat : \A s \in SUBSET K : Cardinality(s) = n => s \in Good}
<1>1. 0 \in S
  <2> SUFFICES ASSUME NEW s \in SUBSET K, Cardinality(s) = 0 PROVE s \in Good
    OBVIOUS
  <2>1. IsFiniteSet(s)
    BY FS_Subset
  <2> QED
    BY <2>1, FS_EmptySet
<1>2. ASSUME NEW n \in Nat, n \in S PROVE n + 1 \in S
  <2> SUFFICES ASSUME NEW s \in SUBSET K, Cardinality(s) = n + 1 PROVE s \in Good
    OBVIOUS
  <2>1. s # {}
    <3>1. IsFiniteSet(s) /\ n + 1 # 0
      BY FS_Subset
    <3> QED
      BY <3>1, FS_EmptySet
  <2>2. ASSUME NEW x \in s PROVE s \ {x} \in Good
    <3>1. s \ {x} \in SUBSET K /\ Cardinality(s \ {x}) = n
      BY OneLess
    <3> QED
      BY <1>2, <3>1
  <2> QED
    BY <2>1, <2>2
<1>3. Nat \subseteq S
  <2> HIDE DEF S
  <2> QED
    BY <1>1, <1>2, NatSetInduction
<1> SUFFICES ASSUME NEW s \in SUBSET K PROVE s \in Good
  OBVIOUS
<1>4. IsFiniteSet(s)
  BY FS_Subset
<1>5. Cardinality(s) \in Nat
  BY <1>4, FS_CardinalityType
<1> QED
  BY <1>3, <1>5

\* The partial sums up to a size, which exist one size after the other.
SumsUpTo(records, K, n, total) ==
    [s \in SUBSET K |->
        IF s = {} THEN 0
        ELSE IF Cardinality(s) <= n
        THEN records[Picked(s)].attempted + total[s \ {Picked(s)}]
        ELSE 0]

\* The equation at one subset, and equality from equality everywhere.
LEMMA SumsUpToAt ==
    ASSUME NEW records, NEW K, NEW n, NEW total, NEW s \in SUBSET K
    PROVE  SumsUpTo(records, K, n, total)[s] =
               IF s = {} THEN 0
               ELSE IF Cardinality(s) <= n
               THEN records[Picked(s)].attempted + total[s \ {Picked(s)}]
               ELSE 0
PROOF BY DEF SumsUpTo

LEMMA SumsUpToSame ==
    ASSUME NEW records, NEW K, NEW n, NEW m, NEW f, NEW g,
           \A s \in SUBSET K :
               SumsUpTo(records, K, n, f)[s] = SumsUpTo(records, K, m, g)[s]
    PROVE  SumsUpTo(records, K, n, f) = SumsUpTo(records, K, m, g)
PROOF BY DEF SumsUpTo

\* The sums up to the next size are written from those up to this one.
LEMMA TotalUpTo ==
    ASSUME NEW records, NEW K, IsFiniteSet(K)
    PROVE  \A n \in Nat : \E total : total = SumsUpTo(records, K, n, total)
PROOF
<1> DEFINE S == {i \in Nat : \E f : f = SumsUpTo(records, K, i, f)}
<1>1. 0 \in S
  <2>1. PICK f : f = SumsUpTo(records, K, 0, <<>>)
    OBVIOUS
  <2>2. ASSUME NEW s \in SUBSET K
        PROVE  SumsUpTo(records, K, 0, <<>>)[s] = SumsUpTo(records, K, 0, f)[s]
    <3>1. IsFiniteSet(s)
      BY FS_Subset
    <3>2. s = {} \/ ~ (Cardinality(s) <= 0)
      BY <3>1, FS_CardinalityType, FS_EmptySet
    <3> QED
      BY <3>2, SumsUpToAt
  <2>3. SumsUpTo(records, K, 0, <<>>) = SumsUpTo(records, K, 0, f)
    BY <2>2, SumsUpToSame
  <2> QED
    BY <2>1, <2>3
<1>2. ASSUME NEW i \in Nat, i \in S PROVE i + 1 \in S
  <2>1. PICK f : f = SumsUpTo(records, K, i, f)
    BY <1>2
  <2>2. PICK g : g = SumsUpTo(records, K, i + 1, f)
    OBVIOUS
  <2>3. ASSUME NEW t \in SUBSET K, IsFiniteSet(t), Cardinality(t) <= i
        PROVE  f[t] = g[t]
    <3>1. f[t] = IF t = {} THEN 0
                 ELSE IF Cardinality(t) <= i
                 THEN records[Picked(t)].attempted + f[t \ {Picked(t)}]
                 ELSE 0
      <4>1. SumsUpTo(records, K, i, f)[t] =
                IF t = {} THEN 0
                ELSE IF Cardinality(t) <= i
                THEN records[Picked(t)].attempted + f[t \ {Picked(t)}]
                ELSE 0
        BY ONLY t \in SUBSET K, SumsUpToAt
      <4> QED
        BY ONLY <2>1, <4>1
    <3>2. g[t] = IF t = {} THEN 0
                 ELSE IF Cardinality(t) <= i + 1
                 THEN records[Picked(t)].attempted + f[t \ {Picked(t)}]
                 ELSE 0
      BY <2>2, SumsUpToAt
    <3>3. Cardinality(t) <= i + 1
      BY <2>3, FS_CardinalityType
    <3> QED
      BY <2>3, <3>1, <3>2, <3>3
  <2>4. ASSUME NEW s \in SUBSET K
        PROVE  SumsUpTo(records, K, i + 1, f)[s] = SumsUpTo(records, K, i + 1, g)[s]
    <3>1. CASE s = {} \/ ~ (Cardinality(s) <= i + 1)
      BY <3>1, SumsUpToAt
    <3>2. CASE s # {} /\ Cardinality(s) <= i + 1
      <4>1. PICK t : t = s \ {Picked(s)}
        OBVIOUS
      <4>2. Picked(s) \in s /\ IsFiniteSet(s)
        BY <3>2, PickedIn, FS_Subset
      <4>3. /\ IsFiniteSet(t)
            /\ Cardinality(t) = Cardinality(s) - 1
            /\ Cardinality(s) \in Nat
        BY <4>1, <4>2, FS_RemoveElement, FS_CardinalityType
      <4>4. Cardinality(t) <= i /\ t \in SUBSET K
        BY <3>2, <4>1, <4>3
      <4>5. f[t] = g[t]
        BY <2>3, <4>3, <4>4
      <4> QED
        BY <3>2, <4>1, <4>5, SumsUpToAt
    <3> QED
      BY <3>1, <3>2
  <2>5. SumsUpTo(records, K, i + 1, f) = SumsUpTo(records, K, i + 1, g)
    BY <2>4, SumsUpToSame
  <2> QED
    BY <2>2, <2>5
<1>3. Nat \subseteq S
  <2> HIDE DEF S
  <2> QED
    BY <1>1, <1>2, NatSetInduction
<1> QED
  BY <1>3

\* So there is a sum over the subsets of a finite set, and Total is one.
LEMMA TotalEquation ==
    ASSUME NEW records, NEW K, IsFiniteSet(K)
    PROVE  IsTotal(records, K, Total(records, K))
PROOF
<1>1. PICK n \in Nat : n = Cardinality(K)
  BY FS_CardinalityType
<1>2. PICK total : total = SumsUpTo(records, K, n, total)
  BY TotalUpTo
<1>3. \A s \in SUBSET K : Cardinality(s) <= n
  BY <1>1, FS_Subset
<1>4. total = [s \in SUBSET K |->
                 IF s = {} THEN 0
                 ELSE IF Cardinality(s) <= n
                 THEN records[Picked(s)].attempted + total[s \ {Picked(s)}]
                 ELSE 0]
  BY <1>2 DEF SumsUpTo
<1>5. IsTotal(records, K, total)
  BY <1>3, <1>4 DEF IsTotal
<1> QED
  BY <1>5 DEF Total

\* The equation at the empty subset, and at another.
LEMMA TotalOfNone ==
    ASSUME NEW records, NEW K, IsFiniteSet(K)
    PROVE  Total(records, K)[{}] = 0
PROOF
<1> DEFINE total == Total(records, K)
<1>1. IsTotal(records, K, total)
  BY TotalEquation
<1> HIDE DEF total
<1>2. total = [t \in SUBSET K |->
                 IF t = {} THEN 0
                 ELSE records[Picked(t)].attempted + total[t \ {Picked(t)}]]
  BY <1>1 DEF IsTotal
<1>3. {} \in SUBSET K
  OBVIOUS
<1>4. total[{}] = 0
  BY <1>2, <1>3
<1> QED
  BY <1>4 DEF total

LEMMA TotalOfSome ==
    ASSUME NEW records, NEW K, IsFiniteSet(K), NEW s \in SUBSET K, s # {}
    PROVE  Total(records, K)[s] = records[Picked(s)].attempted
                                  + Total(records, K)[s \ {Picked(s)}]
PROOF
<1> DEFINE total == Total(records, K)
<1>1. IsTotal(records, K, total)
  BY TotalEquation
<1> HIDE DEF total
<1>2. total = [t \in SUBSET K |->
                 IF t = {} THEN 0
                 ELSE records[Picked(t)].attempted + total[t \ {Picked(t)}]]
  BY <1>1 DEF IsTotal
<1>3. total[s] = records[Picked(s)].attempted + total[s \ {Picked(s)}]
  BY <1>2
<1> QED
  BY <1>3 DEF total

\* Sums over a set depend on its elements only, not on what is left out.
LEMMA TotalsAgree ==
    ASSUME NEW before, NEW after, NEW K, IsFiniteSet(K), NEW L \in SUBSET K,
           \A k \in L : after[k].attempted = before[k].attempted
    PROVE  Total(after, L)[L] = Total(before, K)[L]
PROOF
<1> DEFINE small == Total(after, L)
           large == Total(before, K)
           Good == {s \in SUBSET L : small[s] = large[s]}
<1>1. IsFiniteSet(L)
  BY FS_Subset
<1>2. small[{}] = large[{}]
  BY <1>1, TotalOfNone
<1>3. ASSUME NEW s \in SUBSET L, s # {}, \A x \in s : s \ {x} \in Good
      PROVE  s \in Good
  <2>1. Picked(s) \in s
    BY <1>3, PickedIn
  <2>2. small[s] = after[Picked(s)].attempted + small[s \ {Picked(s)}]
    <3>1. s \in SUBSET L /\ s # {} /\ IsFiniteSet(L)
      BY <1>1, <1>3
    <3> QED
      BY ONLY <3>1, TotalOfSome
  <2>3. large[s] = before[Picked(s)].attempted + large[s \ {Picked(s)}]
    <3>1. s \in SUBSET K /\ s # {} /\ IsFiniteSet(K)
      BY <1>3
    <3> QED
      BY ONLY <3>1, TotalOfSome
  <2> HIDE DEF small, large
  <2>4. small[s \ {Picked(s)}] = large[s \ {Picked(s)}]
    BY <1>3, <2>1
  <2>5. after[Picked(s)].attempted = before[Picked(s)].attempted
    BY <2>1
  <2> QED
    BY <2>2, <2>3, <2>4, <2>5
<1>4. {} \in Good /\ Good \in SUBSET (SUBSET L)
  <2> HIDE DEF small, large
  <2> QED
    BY <1>2
<1>5. \A s \in SUBSET L : s \in Good
  <2> HIDE DEF Good
  <2> QED
    BY <1>1, <1>3, <1>4, SubsetInduction
<1>6. L \in Good
  <2> HIDE DEF Good
  <2> QED
    BY <1>5
<1> QED
  BY <1>6

\* Sums of amounts are amounts.
LEMMA TotalType ==
    ASSUME NEW records, NEW K, IsFiniteSet(K),
           \A k \in K : records[k].attempted \in Nat
    PROVE  \A s \in SUBSET K : Total(records, K)[s] \in Nat
PROOF
<1> DEFINE total == Total(records, K)
           Good == {s \in SUBSET K : total[s] \in Nat}
<1>1. total[{}] = 0
  BY TotalOfNone
<1>2. ASSUME NEW s \in SUBSET K, s # {}, \A x \in s : s \ {x} \in Good
      PROVE  s \in Good
  <2>1. Picked(s) \in s
    BY <1>2, PickedIn
  <2>2. total[s] = records[Picked(s)].attempted + total[s \ {Picked(s)}]
    BY <1>2, TotalOfSome
  <2> HIDE DEF total
  <2>3. total[s \ {Picked(s)}] \in Nat
    BY <1>2, <2>1
  <2>4. records[Picked(s)].attempted \in Nat
    BY <2>1
  <2> QED
    BY <2>2, <2>3, <2>4
<1>3. {} \in Good /\ Good \in SUBSET (SUBSET K)
  <2> HIDE DEF total
  <2> QED
    BY <1>1
<1>4. \A s \in SUBSET K : s \in Good
  <2> HIDE DEF Good
  <2> QED
    BY <1>2, <1>3, SubsetInduction
<1> QED
  BY <1>4

\* Whichever element is taken away first, the rest of the sum is the same.
LEMMA TotalWithout ==
    ASSUME NEW records, NEW K, IsFiniteSet(K),
           \A k \in K : records[k].attempted \in Nat
    PROVE  \A s \in SUBSET K : \A x \in s :
              Total(records, K)[s] = records[x].attempted + Total(records, K)[s \ {x}]
PROOF
<1> DEFINE total == Total(records, K)
           Good == {s \in SUBSET K :
                      \A x \in s : total[s] = records[x].attempted + total[s \ {x}]}
<1>1. {} \in Good /\ Good \in SUBSET (SUBSET K)
  OBVIOUS
<1>2. \A s \in SUBSET K : total[s] \in Nat
  BY TotalType
<1>3. ASSUME NEW s \in SUBSET K, s # {}, \A x \in s : s \ {x} \in Good
      PROVE  s \in Good
  <2> DEFINE p == Picked(s)
  <2>1. p \in s
    BY <1>3, PickedIn
  <2>2. total[s] = records[p].attempted + total[s \ {p}]
    BY <1>3, TotalOfSome
  <2> HIDE DEF p, total
  <2>3. ASSUME NEW x \in s PROVE total[s] = records[x].attempted + total[s \ {x}]
    <3>1. CASE x = p
      BY <2>2, <3>1
    <3>2. CASE x # p
      <4>1. x \in s \ {p} /\ p \in s \ {x}
        BY <2>1, <3>2
      <4> DEFINE rest == (s \ {x}) \ {p}
      <4>2. rest = (s \ {p}) \ {x}
        OBVIOUS
      <4>3. total[s \ {p}] = records[x].attempted + total[rest]
        BY <1>3, <2>1, <4>1, <4>2
      <4>4. total[s \ {x}] = records[p].attempted + total[rest]
        BY <1>3, <4>1
      <4>5. rest \in SUBSET K
        OBVIOUS
      <4> HIDE DEF rest
      <4>6. total[rest] \in Nat
        BY <1>2, <4>5
      <4>7. records[x].attempted \in Nat /\ records[p].attempted \in Nat
        BY <2>1
      <4> QED
        BY <2>2, <4>3, <4>4, <4>6, <4>7
    <3> QED
      BY <3>1, <3>2
  <2> QED
    BY <2>3
<1>4. \A s \in SUBSET K : s \in Good
  <2> HIDE DEF Good
  <2> QED
    BY <1>1, <1>3, SubsetInduction
<1> QED
  BY <1>4

\* The empty sum, equal sums, and the sum with one record more.
LEMMA AttemptedNone ==
    ASSUME NEW records
    PROVE  Attempted(records, {}) = 0
PROOF BY AttemptedIsTotal, TotalOfNone, FS_EmptySet

LEMMA AttemptedSame ==
    ASSUME NEW before, NEW after, NEW K, IsFiniteSet(K),
           \A k \in K : after[k].attempted = before[k].attempted
    PROVE  Attempted(after, K) = Attempted(before, K)
PROOF BY AttemptedIsTotal, TotalsAgree

LEMMA AttemptedOneMore ==
    ASSUME NEW before, NEW after, NEW K, IsFiniteSet(K), NEW x, x \notin K,
           \A k \in K : after[k].attempted = before[k].attempted,
           \A k \in K \cup {x} : after[k].attempted \in Nat
    PROVE  Attempted(after, K \cup {x}) = Attempted(before, K) + after[x].attempted
PROOF
<1> DEFINE M == K \cup {x}
<1>1. IsFiniteSet(M)
  BY FS_AddElement
<1>2. M \ {x} = K /\ x \in M /\ K \in SUBSET M
  OBVIOUS
<1>3. Total(after, M)[M] = after[x].attempted + Total(after, M)[K]
  BY <1>1, <1>2, TotalWithout
<1>4. Total(before, K)[K] = Total(after, M)[K]
  BY <1>1, <1>2, TotalsAgree
<1>5. Attempted(before, K) = Total(before, K)[K] /\ Attempted(after, M) = Total(after, M)[M]
  BY AttemptedIsTotal
<1>6. Total(after, M)[K] \in Nat /\ after[x].attempted \in Nat
  BY <1>1, <1>2, TotalType
<1> QED
  BY <1>3, <1>4, <1>5, <1>6

-----------------------------------------------------------------------------
(***************************************************************************)
(* The index of one more event                                             *)
(***************************************************************************)

\* The store after each of the first n events.
StoresUpTo(events, n, through) ==
    [i \in 0..n |-> IF i = 0 THEN EmptyStore
                    ELSE Handle(through[i - 1], i, events[i])]

Stores(events) ==
    CHOOSE through : through = StoresUpTo(events, Len(events), through)

\* The index is the store after the last event.
LEMMA IndexIsLastStore ==
    ASSUME NEW events
    PROVE  Index(events) = Stores(events)[Len(events)]
PROOF BY DEF Index, Stores, StoresUpTo

\* The equation at one place, and equality from equality everywhere.
LEMMA StoresUpToAt ==
    ASSUME NEW events, NEW n, NEW through, NEW i \in 0..n
    PROVE  StoresUpTo(events, n, through)[i] =
               IF i = 0 THEN EmptyStore
               ELSE Handle(through[i - 1], i, events[i])
PROOF BY DEF StoresUpTo

LEMMA StoresUpToSame ==
    ASSUME NEW events, NEW n, NEW f, NEW g,
           \A i \in 0..n :
               StoresUpTo(events, n, f)[i] = StoresUpTo(events, n, g)[i]
    PROVE  StoresUpTo(events, n, f) = StoresUpTo(events, n, g)
PROOF BY DEF StoresUpTo

\* The stores through the next event are written from those through this one.
LEMMA StoresExist ==
    ASSUME NEW events
    PROVE  \A n \in Nat : \E through : through = StoresUpTo(events, n, through)
PROOF
<1> DEFINE S == {n \in Nat : \E f : f = StoresUpTo(events, n, f)}
<1>1. 0 \in S
  <2>1. PICK f : f = StoresUpTo(events, 0, <<>>)
    OBVIOUS
  <2>2. ASSUME NEW i \in 0..0
        PROVE  StoresUpTo(events, 0, <<>>)[i] = StoresUpTo(events, 0, f)[i]
    <3>1. i = 0
      OBVIOUS
    <3> QED
      BY <3>1, StoresUpToAt
  <2>3. StoresUpTo(events, 0, <<>>) = StoresUpTo(events, 0, f)
    BY <2>2, StoresUpToSame
  <2> QED
    BY <2>1, <2>3
<1>2. ASSUME NEW n \in Nat, n \in S PROVE n + 1 \in S
  <2>1. PICK f : f = StoresUpTo(events, n, f)
    BY <1>2
  <2>2. PICK g : g = StoresUpTo(events, n + 1, f)
    OBVIOUS
  <2>3. ASSUME NEW i \in 0..n PROVE f[i] = g[i]
    <3>1. i \in 0..(n + 1)
      OBVIOUS
    <3>2. StoresUpTo(events, n, f)[i] = StoresUpTo(events, n + 1, f)[i]
      BY <3>1, StoresUpToAt
    <3> QED
      BY ONLY <2>1, <2>2, <3>2
  <2>4. ASSUME NEW i \in 0..(n + 1)
        PROVE  StoresUpTo(events, n + 1, f)[i] = StoresUpTo(events, n + 1, g)[i]
    <3>1. CASE i = 0
      BY <3>1, StoresUpToAt
    <3>2. CASE i # 0
      <4>1. i - 1 \in 0..n
        BY <3>2
      <4>2. f[i - 1] = g[i - 1]
        BY <2>3, <4>1
      <4>3. /\ StoresUpTo(events, n + 1, f)[i] = Handle(f[i - 1], i, events[i])
            /\ StoresUpTo(events, n + 1, g)[i] = Handle(g[i - 1], i, events[i])
        BY <3>2, StoresUpToAt
      <4> QED
        BY ONLY <4>2, <4>3
    <3> QED
      BY <3>1, <3>2
  <2>5. StoresUpTo(events, n + 1, f) = StoresUpTo(events, n + 1, g)
    BY <2>4, StoresUpToSame
  <2> QED
    BY <2>2, <2>5
<1>3. Nat \subseteq S
  <2> HIDE DEF S
  <2> QED
    BY <1>1, <1>2, NatSetInduction
<1> QED
  BY <1>3

\* The stores of a log, one by one.
LEMMA StoreAt ==
    ASSUME NEW events, Len(events) \in Nat, NEW i \in 0..Len(events)
    PROVE  Stores(events)[i] =
               IF i = 0 THEN EmptyStore
               ELSE Handle(Stores(events)[i - 1], i, events[i])
PROOF
<1>1. PICK n \in Nat : n = Len(events)
  OBVIOUS
<1>2. \E through : through = StoresUpTo(events, n, through)
  BY StoresExist
<1>3. PICK through : through = Stores(events)
  OBVIOUS
<1>4. through = StoresUpTo(events, n, through)
  BY ONLY <1>1, <1>2, <1>3 DEF Stores
<1>5. StoresUpTo(events, n, through)[i] =
          IF i = 0 THEN EmptyStore ELSE Handle(through[i - 1], i, events[i])
  BY <1>1, StoresUpToAt
<1>6. through[i] = IF i = 0 THEN EmptyStore
                   ELSE Handle(through[i - 1], i, events[i])
  BY ONLY <1>4, <1>5
<1> QED
  BY ONLY <1>3, <1>6

\* Before the first event the index is empty.
LEMMA IndexEmpty == Index(<<>>) = EmptyStore
PROOF
<1>1. Len(<<>>) = 0
  OBVIOUS
<1>2. Stores(<<>>)[0] = EmptyStore
  BY <1>1, StoreAt
<1> QED
  BY <1>1, <1>2, IndexIsLastStore

\* One more event is handled on top of the index of the earlier ones.
LEMMA IndexAppend ==
    ASSUME NEW events \in Seq(Event), NEW e \in Event
    PROVE  Index(Append(events, e)) = Handle(Index(events), Len(events) + 1, e)
PROOF
<1>1. PICK more : more = Append(events, e)
  OBVIOUS
<1>2. PICK n \in Nat : n = Len(events)
  OBVIOUS
<1>3. /\ Len(more) = n + 1
      /\ more[n + 1] = e
      /\ \A i \in 1..n : more[i] = events[i]
  BY <1>1, <1>2
<1> DEFINE S == {i \in Nat : i <= n => Stores(more)[i] = Stores(events)[i]}
<1>4. 0 \in S
  <2>1. Stores(more)[0] = EmptyStore
    BY <1>3, StoreAt
  <2>2. Stores(events)[0] = EmptyStore
    BY <1>2, StoreAt
  <2> QED
    BY <2>1, <2>2
<1>5. ASSUME NEW i \in Nat, i \in S PROVE i + 1 \in S
  <2> SUFFICES ASSUME i + 1 <= n PROVE Stores(more)[i + 1] = Stores(events)[i + 1]
    OBVIOUS
  <2>1. PICK j \in 1..n : j = i + 1
    OBVIOUS
  <2>2. Stores(more)[j - 1] = Stores(events)[j - 1]
    BY <1>5, <2>1
  <2>3. /\ j \in 0..Len(more) /\ Len(more) \in Nat
        /\ j \in 0..Len(events) /\ Len(events) \in Nat
        /\ j # 0
    BY <1>2, <1>3, <2>1
  <2>4. Stores(more)[j] = Handle(Stores(more)[j - 1], j, more[j])
    BY ONLY <2>3, StoreAt
  <2>5. Stores(events)[j] = Handle(Stores(events)[j - 1], j, events[j])
    BY ONLY <2>3, StoreAt
  <2>6. more[j] = events[j]
    BY <1>3
  <2> QED
    BY ONLY <2>1, <2>2, <2>4, <2>5, <2>6
<1>6. Nat \subseteq S
  <2> HIDE DEF S
  <2> QED
    BY <1>4, <1>5, NatSetInduction
<1>7. Stores(more)[n] = Stores(events)[n]
  BY <1>6
<1>8. Stores(more)[n + 1] = Handle(Stores(more)[n], n + 1, e)
  <2>1. PICK j \in Nat : j = n + 1
    OBVIOUS
  <2>2. j \in 0..Len(more) /\ Len(more) \in Nat /\ j # 0 /\ j - 1 = n
    BY <1>3, <2>1
  <2>3. Stores(more)[j] = Handle(Stores(more)[j - 1], j, more[j])
    BY ONLY <2>2, StoreAt
  <2> QED
    BY <1>3, <2>1, <2>2, <2>3
<1>9. Index(more) = Stores(more)[n + 1] /\ Index(events) = Stores(events)[n]
  BY <1>2, <1>3, IndexIsLastStore
<1> QED
  BY <1>1, <1>2, <1>7, <1>8, <1>9

-----------------------------------------------------------------------------
(***************************************************************************)
(* The evidence                                                            *)
(***************************************************************************)

\* A store that has handled these events and shows these mandates.
InStep(store, events, ms) ==
    /\ store = [mandate |-> store.mandate, action |-> store.action,
                lifecycle |-> store.lifecycle]
    /\ store.mandate = [m \in MandateId |-> EntityOf(ms[m])]
    /\ DOMAIN store.action = Payments(events)
    /\ \A p \in Payments(events) : store.action[p] = ActionOf(events[p])

Evident(ms, records, n, held, events) ==
    /\ SpentIsTotal(ms, records)
    /\ ValueIsRecorded(held, records)
    /\ Recorded(events, records, n)
    /\ InStep(Index(events), events, ms)

\* The books are in order whenever no call is open.  While one is, those it
\* would restore are, and so will be those its transfer leads to.
OpenEvidence(f) ==
    /\ Evident(f.undo.mandates, f.undo.requests, f.undo.sequence,
               f.undo.balance, f.undo.log)
    /\ Evident(mandates, requests, sequence, Moved(Self, f.to, f.amount),
               Append(log, f.event))

EvidenceInv ==
    /\ BooksInv
    /\ frames = <<>> => Evident(mandates, requests, sequence, balance, log)
    /\ frames # <<>> => OpenEvidence(Head(frames))

USE AddrAssumption, BoundAssumption, RequestIdAssumption

\* A first record is stored under a request's key.
NewRecord(rs, rs2, k, record) ==
    /\ rs \in [RequestKey -> RequestRecord]
    /\ k \in RequestKey
    /\ record \in RequestRecord
    /\ rs[k].outcome = "UNSEEN"
    /\ rs2 = [rs EXCEPT ![k] = record]

\* There are finitely many requests, so every sum over them is defined.
LEMMA KeysFinite ==
    /\ \A K \in SUBSET RequestKey : IsFiniteSet(K)
    /\ \A rs, m : m \in MandateId => ExecutedOf(rs, m) \in SUBSET RequestKey
    /\ \A rs, a : PaidTo(rs, a) \in SUBSET RequestKey
PROOF
<1>1. IsFiniteSet(MandateId)
  BY FS_Interval DEF MandateId
<1>2. IsFiniteSet(RequestKey)
  BY <1>1, FS_Product DEF RequestKey
<1>3. \A K \in SUBSET RequestKey : IsFiniteSet(K)
  BY <1>2, FS_Subset
<1> QED
  BY <1>3 DEF ExecutedOf, PaidTo, RequestKey

\* A new record adds its amount to the sums that count it, and only to those.
LEMMA RecordCounted ==
    ASSUME NEW rs, NEW rs2, NEW k, NEW record, NewRecord(rs, rs2, k, record)
    PROVE  \A K \in SUBSET RequestKey : k \notin K =>
              /\ Attempted(rs2, K) = Attempted(rs, K)
              /\ Attempted(rs2, K \cup {k}) = Attempted(rs, K) + record.attempted
PROOF
<1> USE DEF NewRecord
<1> SUFFICES ASSUME NEW K \in SUBSET RequestKey, k \notin K
             PROVE  /\ Attempted(rs2, K) = Attempted(rs, K)
                    /\ Attempted(rs2, K \cup {k}) = Attempted(rs, K) + record.attempted
  OBVIOUS
<1>1. IsFiniteSet(K)
  BY KeysFinite
<1>2. \A j \in K : rs2[j].attempted = rs[j].attempted
  OBVIOUS
<1>3. rs2[k] = record
  OBVIOUS
<1>4. \A j \in K \cup {k} : rs2[j].attempted \in Nat
  BY DEF RequestRecord
<1>5. Attempted(rs2, K) = Attempted(rs, K)
  BY ONLY <1>1, <1>2, AttemptedSame
<1>6. Attempted(rs2, K \cup {k}) = Attempted(rs, K) + rs2[k].attempted
  BY ONLY <1>1, <1>2, <1>4, k \notin K, AttemptedOneMore
<1> QED
  BY <1>3, <1>5, <1>6

\* A new record moves its mandate's total by what it executed.
LEMMA TotalsAfterRecord ==
    ASSUME NEW ms \in [MandateId -> Mandate], NEW ms2,
           NEW rs, NEW rs2, NEW k, NEW record, NewRecord(rs, rs2, k, record),
           SpentIsTotal(ms, rs),
           \A m \in MandateId :
              ms2[m].spent = IF m = k[1] /\ record.outcome = "EXECUTED"
                             THEN ms[m].spent + record.attempted
                             ELSE ms[m].spent
    PROVE  SpentIsTotal(ms2, rs2)
PROOF
<1> SUFFICES ASSUME NEW m \in MandateId
             PROVE  ms2[m].spent = Attempted(rs2, ExecutedOf(rs2, m))
  BY DEF SpentIsTotal
<1>0. \A K \in SUBSET RequestKey : k \notin K =>
         /\ Attempted(rs2, K) = Attempted(rs, K)
         /\ Attempted(rs2, K \cup {k}) = Attempted(rs, K) + record.attempted
  BY ONLY NewRecord(rs, rs2, k, record), RecordCounted
<1> USE DEF NewRecord
<1>1. ms[m].spent = Attempted(rs, ExecutedOf(rs, m))
  BY DEF SpentIsTotal
<1>2. /\ ExecutedOf(rs, m) \in SUBSET RequestKey
      /\ k \notin ExecutedOf(rs, m)
  BY KeysFinite DEF ExecutedOf
<1>3. \A j \in {m} \X RequestId : j \in RequestKey
  BY DEF RequestKey
<1>4. CASE m = k[1] /\ record.outcome = "EXECUTED"
  <2>1. k \in {m} \X RequestId
    BY <1>4 DEF RequestKey
  <2>2. ExecutedOf(rs2, m) = ExecutedOf(rs, m) \cup {k}
    BY <1>3, <1>4, <2>1 DEF ExecutedOf
  <2> QED
    BY <1>1, <1>2, <1>4, <2>2, <1>0
<1>5. CASE ~ (m = k[1] /\ record.outcome = "EXECUTED")
  <2>1. k \in {m} \X RequestId => record.outcome # "EXECUTED"
    BY <1>5
  <2>2. ExecutedOf(rs2, m) = ExecutedOf(rs, m)
    BY <1>3, <2>1 DEF ExecutedOf
  <2>3. ms2[m].spent = ms[m].spent
    BY <1>5
  <2> QED
    BY <1>1, <1>2, <2>2, <2>3, <1>0
<1> QED
  BY <1>4, <1>5

\* A new record moves its payee's balance by what it executed.
LEMMA ValueAfterRecord ==
    ASSUME NEW held, NEW held2,
           NEW rs, NEW rs2, NEW k, NEW record, NewRecord(rs, rs2, k, record),
           ValueIsRecorded(held, rs),
           \A a \in Outsider :
              held2[a] = IF a = record.recipient /\ record.outcome = "EXECUTED"
                         THEN held[a] + record.attempted
                         ELSE held[a]
    PROVE  ValueIsRecorded(held2, rs2)
PROOF
<1> SUFFICES ASSUME NEW a \in Outsider
             PROVE  held2[a] = Attempted(rs2, PaidTo(rs2, a))
  BY DEF ValueIsRecorded
<1>0. \A K \in SUBSET RequestKey : k \notin K =>
         /\ Attempted(rs2, K) = Attempted(rs, K)
         /\ Attempted(rs2, K \cup {k}) = Attempted(rs, K) + record.attempted
  BY ONLY NewRecord(rs, rs2, k, record), RecordCounted
<1> USE DEF NewRecord
<1>1. held[a] = Attempted(rs, PaidTo(rs, a))
  BY DEF ValueIsRecorded
<1>2. PaidTo(rs, a) \in SUBSET RequestKey /\ k \notin PaidTo(rs, a)
  BY KeysFinite DEF PaidTo
<1>3. CASE a = record.recipient /\ record.outcome = "EXECUTED"
  <2>1. PaidTo(rs2, a) = PaidTo(rs, a) \cup {k}
    BY <1>3 DEF PaidTo
  <2> QED
    BY <1>1, <1>2, <1>3, <2>1, <1>0
<1>4. CASE ~ (a = record.recipient /\ record.outcome = "EXECUTED")
  <2>1. PaidTo(rs2, a) = PaidTo(rs, a)
    BY <1>4 DEF PaidTo
  <2>2. held2[a] = held[a]
    BY <1>4
  <2> QED
    BY <1>1, <1>2, <2>1, <2>2, <1>0
<1> QED
  BY <1>3, <1>4

\* What one more event does to the payments of a log.
LEMMA PaymentsAfterEvent ==
    ASSUME NEW events \in Seq(Event), NEW e \in Event
    PROVE  /\ \A p \in Payments(events) : /\ p \in 1..Len(events)
                                          /\ events[p] \in PaymentEvent
                                          /\ Append(events, e)[p] = events[p]
           /\ Append(events, e)[Len(events) + 1] = e
           /\ Payments(Append(events, e)) =
                 IF IsPayment(e) THEN Payments(events) \cup {Len(events) + 1}
                                 ELSE Payments(events)
PROOF
<1>1. \A p \in 1..Len(events) :
         /\ events[p] \in Event
         /\ Append(events, e)[p] = events[p]
  OBVIOUS
<1>2. Append(events, e)[Len(events) + 1] = e
  OBVIOUS
<1>3. /\ DOMAIN events = 1..Len(events)
      /\ DOMAIN Append(events, e) = 1..(Len(events) + 1)
      /\ Len(events) \in Nat
  OBVIOUS
<1>4. \A p \in 1..Len(events) : IsPayment(events[p]) => events[p] \in PaymentEvent
  BY <1>1 DEF IsPayment, Event, MandateEvent, WithdrawalEvent
<1>5. 1..(Len(events) + 1) = 1..Len(events) \cup {Len(events) + 1}
  BY <1>3
<1>6. Payments(Append(events, e)) =
          IF IsPayment(e) THEN Payments(events) \cup {Len(events) + 1}
                          ELSE Payments(events)
  BY <1>1, <1>2, <1>3, <1>5 DEF Payments
<1> QED
  BY <1>1, <1>2, <1>3, <1>4, <1>6 DEF Payments

\* Events that are no payments leave the numbering as it is.
LEMMA RecordedOther ==
    ASSUME NEW events \in Seq(Event), NEW e \in Event, NEW rs, NEW n,
           Recorded(events, rs, n), ~ IsPayment(e)
    PROVE  Recorded(Append(events, e), rs, n)
PROOF
<1>1. PICK more : more = Append(events, e)
  OBVIOUS
<1>2. /\ Payments(more) = Payments(events)
      /\ \A p \in Payments(events) : more[p] = events[p]
  BY <1>1, PaymentsAfterEvent
<1>3. Recorded(more, rs, n)
  BY <1>2 DEF Recorded
<1> QED
  BY <1>1, <1>3

\* The next payment takes the next number, under a key no event had before.
LEMMA RecordedPayment ==
    ASSUME NEW events \in Seq(Event), NEW e \in PaymentEvent, NEW n \in Nat,
           NEW rs, NEW rs2, NewRecord(rs, rs2, KeyOf(e), e.record),
           Recorded(events, rs, n),
           e.record.sequence = n + 1,
           e.record.outcome = IF e.kind = "Executed" THEN "EXECUTED" ELSE "REFUSED"
    PROVE  Recorded(Append(events, e), rs2, n + 1)
PROOF
<1> USE DEF NewRecord
<1>1. PICK more : more = Append(events, e)
  OBVIOUS
<1>2. PICK last \in Nat : last = Len(events) + 1
  OBVIOUS
<1>3. e \in Event /\ IsPayment(e) /\ KeyOf(e) \in RequestKey
  BY DEF Event, IsPayment, PaymentEvent, KeyOf, RequestKey
<1>4. /\ \A p \in Payments(events) : /\ p \in Nat /\ p < last
                                     /\ events[p] \in PaymentEvent
                                     /\ more[p] = events[p]
      /\ more[last] = e
      /\ Payments(more) = Payments(events) \cup {last}
  BY <1>1, <1>2, <1>3, PaymentsAfterEvent
<1>5. \A p \in Payments(events) :
         /\ rs[KeyOf(events[p])] = events[p].record
         /\ events[p].record.outcome \in {"EXECUTED", "REFUSED"}
         /\ events[p].record.sequence \in 1..n
  BY DEF Recorded
<1>6. \A p \in Payments(events) : KeyOf(events[p]) # KeyOf(e)
  BY <1>5
<1>7. \A p \in Payments(events) :
         KeyOf(events[p]) \in RequestKey /\ rs2[KeyOf(events[p])] = rs[KeyOf(events[p])]
  BY <1>4, <1>6 DEF PaymentEvent, KeyOf, RequestKey
<1>8. {more[p].record.sequence : p \in Payments(more)} = 1..(n + 1)
  <2>1. {more[p].record.sequence : p \in Payments(more)}
           = {events[p].record.sequence : p \in Payments(events)} \cup {n + 1}
    BY <1>4
  <2>2. {events[p].record.sequence : p \in Payments(events)} = 1..n
    BY DEF Recorded
  <2>3. 1..(n + 1) = 1..n \cup {n + 1}
    OBVIOUS
  <2> QED
    BY <2>1, <2>2, <2>3
<1>9. \A p, q \in Payments(more) :
         p < q => more[p].record.sequence < more[q].record.sequence
  <2> SUFFICES ASSUME NEW p \in Payments(more), NEW q \in Payments(more), p < q
               PROVE  more[p].record.sequence < more[q].record.sequence
    OBVIOUS
  <2>1. p \in Payments(events)
    BY <1>4
  <2>2. CASE q \in Payments(events)
    BY <1>4, <2>1, <2>2 DEF Recorded
  <2>3. CASE q = last
    <3>1. more[p].record.sequence \in 1..n
      BY <1>4, <1>5, <2>1
    <3> QED
      BY <1>4, <2>3, <3>1
  <2> QED
    BY <1>4, <2>2, <2>3
<1>10. \A p \in Payments(more) :
          /\ rs2[KeyOf(more[p])] = more[p].record
          /\ more[p].record.outcome =
                IF more[p].kind = "Executed" THEN "EXECUTED" ELSE "REFUSED"
  <2> SUFFICES ASSUME NEW p \in Payments(more)
               PROVE  /\ rs2[KeyOf(more[p])] = more[p].record
                      /\ more[p].record.outcome =
                            IF more[p].kind = "Executed" THEN "EXECUTED" ELSE "REFUSED"
    OBVIOUS
  <2>1. CASE p \in Payments(events)
    BY <1>4, <1>7, <2>1 DEF Recorded
  <2>2. CASE p = last
    BY <1>3, <1>4, <2>2
  <2> QED
    BY <1>4, <2>1, <2>2
<1>11. \A k \in RequestKey : rs2[k].outcome # "UNSEEN" =>
          \E p \in Payments(more) : KeyOf(more[p]) = k
  <2> SUFFICES ASSUME NEW k \in RequestKey, rs2[k].outcome # "UNSEEN"
               PROVE  \E p \in Payments(more) : KeyOf(more[p]) = k
    OBVIOUS
  <2>1. CASE k = KeyOf(e)
    BY <1>4, <2>1
  <2>2. CASE k # KeyOf(e)
    <3>1. rs[k].outcome # "UNSEEN"
      BY <2>2
    <3>2. PICK p \in Payments(events) : KeyOf(events[p]) = k
      BY <3>1 DEF Recorded
    <3> QED
      BY <1>4, <3>2
  <2> QED
    BY <2>1, <2>2
<1>12. Recorded(more, rs2, n + 1)
  BY <1>8, <1>9, <1>10, <1>11 DEF Recorded
<1> QED
  BY <1>1, <1>12

\* A new mandate appears in the index; the actions stay.
LEMMA MandateCreatedInStep ==
    ASSUME NEW store, NEW events \in Seq(Event), NEW ms, NEW ms2,
           NEW m \in MandateId, NEW e \in Event,
           e = [kind |-> "MandateCreated", mandate |-> m],
           InStep(store, events, ms),
           EntityOf(ms2[m]) = [exists |-> TRUE, revoked |-> FALSE, spent |-> 0],
           \A i \in MandateId : i # m => EntityOf(ms2[i]) = EntityOf(ms[i])
    PROVE  InStep(Handle(store, Len(events) + 1, e), Append(events, e), ms2)
PROOF
<1>1. PICK id : id = Len(events) + 1
  OBVIOUS
<1>2. PICK more : more = Append(events, e)
  OBVIOUS
<1>3. ~ IsPayment(e)
  BY DEF IsPayment
<1>4. /\ Payments(more) = Payments(events)
      /\ \A p \in Payments(events) : more[p] = events[p]
  BY <1>2, <1>3, PaymentsAfterEvent
<1>5. Handle(store, id, e) = HandleMandateCreated(store, id, e)
  BY DEF Handle
<1>6. PICK M, A, L : store = [mandate |-> M, action |-> A, lifecycle |-> L]
  BY DEF InStep
<1>7. PICK L2 : L2 = Save(L, id, "MANDATE_CREATED")
  OBVIOUS
<1>8. HandleMandateCreated(store, id, e) =
          [mandate |-> [M EXCEPT ![m] = [exists |-> TRUE, revoked |-> FALSE,
                                         spent |-> 0]],
           action |-> A, lifecycle |-> L2]
  <2>1. e.mandate = m
    OBVIOUS
  <2> QED
    <3>1. PICK M2 : M2 = [M EXCEPT ![m] = [exists |-> TRUE, revoked |-> FALSE,
                                           spent |-> 0]]
      OBVIOUS
    <3>2. store.mandate = M /\ store.lifecycle = L
      BY ONLY <1>6
    <3>3. HandleMandateCreated(store, id, e) =
              [store EXCEPT !.mandate = M2, !.lifecycle = L2]
      BY ONLY <1>7, <2>1, <3>1, <3>2 DEF HandleMandateCreated
    <3>4. [store EXCEPT !.mandate = M2, !.lifecycle = L2] =
              [mandate |-> M2, action |-> A, lifecycle |-> L2]
      <4>1. PICK half : half = [store EXCEPT !.mandate = M2]
        OBVIOUS
      <4>2. half = [mandate |-> M2, action |-> A, lifecycle |-> L]
        BY ONLY <1>6, <4>1
      <4>3. [half EXCEPT !.lifecycle = L2] =
                [mandate |-> M2, action |-> A, lifecycle |-> L2]
        BY ONLY <4>2
      <4>4. [store EXCEPT !.mandate = M2, !.lifecycle = L2] =
                [half EXCEPT !.lifecycle = L2]
        BY ONLY <4>1
      <4> QED
        BY ONLY <4>3, <4>4
    <3> QED
      BY ONLY <3>1, <3>3, <3>4
<1>9. M = [i \in MandateId |-> EntityOf(ms[i])]
  BY <1>6 DEF InStep
<1>10. [M EXCEPT ![m] = [exists |-> TRUE, revoked |-> FALSE, spent |-> 0]]
           = [i \in MandateId |-> EntityOf(ms2[i])]
  BY <1>9
<1>11. DOMAIN A = Payments(more) /\ \A p \in Payments(more) : A[p] = ActionOf(more[p])
  BY <1>4, <1>6 DEF InStep
<1>12. InStep(Handle(store, id, e), more, ms2)
  BY ONLY <1>5, <1>8, <1>10, <1>11 DEF InStep
<1> QED
  BY <1>1, <1>2, <1>12

LEMMA MandateRevokedInStep ==
    ASSUME NEW store, NEW events \in Seq(Event), NEW ms, NEW ms2,
           NEW m \in MandateId, NEW e \in Event,
           e = [kind |-> "MandateRevoked", mandate |-> m],
           InStep(store, events, ms),
           ms[m].exists = TRUE,
           EntityOf(ms2[m]) = [EntityOf(ms[m]) EXCEPT !.revoked = TRUE],
           \A i \in MandateId : i # m => EntityOf(ms2[i]) = EntityOf(ms[i])
    PROVE  InStep(Handle(store, Len(events) + 1, e), Append(events, e), ms2)
PROOF
<1>1. PICK id : id = Len(events) + 1
  OBVIOUS
<1>2. PICK more : more = Append(events, e)
  OBVIOUS
<1>3. ~ IsPayment(e)
  BY DEF IsPayment
<1>4. /\ Payments(more) = Payments(events)
      /\ \A p \in Payments(events) : more[p] = events[p]
  BY <1>2, <1>3, PaymentsAfterEvent
<1>5. Handle(store, id, e) = HandleMandateRevoked(store, id, e)
  BY DEF Handle
<1>6. PICK M, A, L : store = [mandate |-> M, action |-> A, lifecycle |-> L]
  BY DEF InStep
<1>7. PICK L2 : L2 = Save(L, id, "MANDATE_REVOKED")
  OBVIOUS
<1>8. M = [i \in MandateId |-> EntityOf(ms[i])]
  BY <1>6 DEF InStep
<1>9. M[m].exists = TRUE
  BY <1>8 DEF EntityOf
<1>10. HandleMandateRevoked(store, id, e) =
          [mandate |-> [M EXCEPT ![m] = [M[m] EXCEPT !.revoked = TRUE]],
           action |-> A, lifecycle |-> L2]
  <2>1. (M[m].revoked \/ M[m].exists) = TRUE
    BY <1>9
  <2>2. HandleMandateRevoked(store, id, e) =
          [mandate |-> [M EXCEPT ![m] = [M[m] EXCEPT !.revoked =
                            M[m].revoked \/ M[m].exists]],
           action |-> A, lifecycle |-> L2]
    <3>1. e.mandate = m
      OBVIOUS
    <3>2. PICK M2 : M2 = [M EXCEPT ![m] = [M[m] EXCEPT !.revoked =
                                               M[m].revoked \/ M[m].exists]]
      OBVIOUS
    <3>3. store.mandate = M /\ store.lifecycle = L
      BY ONLY <1>6
    <3>4. HandleMandateRevoked(store, id, e) =
              [store EXCEPT !.mandate = M2, !.lifecycle = L2]
      BY ONLY <1>7, <3>1, <3>2, <3>3 DEF HandleMandateRevoked
    <3>5. [store EXCEPT !.mandate = M2, !.lifecycle = L2] =
              [mandate |-> M2, action |-> A, lifecycle |-> L2]
      <4>1. PICK half : half = [store EXCEPT !.mandate = M2]
        OBVIOUS
      <4>2. half = [mandate |-> M2, action |-> A, lifecycle |-> L]
        BY ONLY <1>6, <4>1
      <4>3. [half EXCEPT !.lifecycle = L2] =
                [mandate |-> M2, action |-> A, lifecycle |-> L2]
        BY ONLY <4>2
      <4>4. [store EXCEPT !.mandate = M2, !.lifecycle = L2] =
                [half EXCEPT !.lifecycle = L2]
        BY ONLY <4>1
      <4> QED
        BY ONLY <4>3, <4>4
    <3> QED
      BY ONLY <3>2, <3>4, <3>5
  <2> QED
    BY <2>1, <2>2
<1>11. [M EXCEPT ![m] = [M[m] EXCEPT !.revoked = TRUE]]
           = [i \in MandateId |-> EntityOf(ms2[i])]
  <2>1. M[m] = EntityOf(ms[m])
    BY <1>8
  <2>2. EntityOf(ms2[m]) = [M[m] EXCEPT !.revoked = TRUE]
    BY <2>1
  <2>3. PICK x : x = [M[m] EXCEPT !.revoked = TRUE]
    OBVIOUS
  <2>4. \A i \in MandateId : i # m => M[i] = EntityOf(ms2[i])
    BY <1>8
  <2>5. [M EXCEPT ![m] = x] = [i \in MandateId |-> EntityOf(ms2[i])]
    <3>1. M = [i \in MandateId |-> M[i]]
      BY <1>8
    <3> QED
      BY ONLY <2>2, <2>3, <2>4, <3>1, m \in MandateId
  <2> QED
    BY ONLY <2>3, <2>5
<1>12. DOMAIN A = Payments(more) /\ \A p \in Payments(more) : A[p] = ActionOf(more[p])
  BY <1>4, <1>6 DEF InStep
<1>13. InStep(Handle(store, id, e), more, ms2)
  BY ONLY <1>5, <1>10, <1>11, <1>12 DEF InStep
<1> QED
  BY <1>1, <1>2, <1>13

\* A withdrawal only shows among the lifecycle events.
LEMMA WithdrawnInStep ==
    ASSUME NEW store, NEW events \in Seq(Event), NEW ms, NEW amount,
           NEW e \in Event, e = [kind |-> "Withdrawn", amount |-> amount],
           InStep(store, events, ms)
    PROVE  InStep(Handle(store, Len(events) + 1, e), Append(events, e), ms)
PROOF
<1>1. PICK id : id = Len(events) + 1
  OBVIOUS
<1>2. PICK more : more = Append(events, e)
  OBVIOUS
<1>3. ~ IsPayment(e)
  BY DEF IsPayment
<1>4. /\ Payments(more) = Payments(events)
      /\ \A p \in Payments(events) : more[p] = events[p]
  BY <1>2, <1>3, PaymentsAfterEvent
<1>5. Handle(store, id, e) = HandleWithdrawn(store, id, e)
  BY DEF Handle
<1>6. PICK M, A, L : store = [mandate |-> M, action |-> A, lifecycle |-> L]
  BY DEF InStep
<1>7. PICK L2 : L2 = Save(L, id, "FUNDS_WITHDRAWN")
  OBVIOUS
<1>8. HandleWithdrawn(store, id, e) = [mandate |-> M, action |-> A, lifecycle |-> L2]
  BY <1>6, <1>7 DEF HandleWithdrawn
<1>9. M = [i \in MandateId |-> EntityOf(ms[i])]
  BY <1>6 DEF InStep
<1>10. DOMAIN A = Payments(more) /\ \A p \in Payments(more) : A[p] = ActionOf(more[p])
  BY <1>4, <1>6 DEF InStep
<1>11. InStep(Handle(store, id, e), more, ms)
  BY ONLY <1>5, <1>8, <1>9, <1>10 DEF InStep
<1> QED
  BY <1>1, <1>2, <1>11

\* A payment becomes the action of its place in the log, and its own total the
\* mandate's.
LEMMA PaymentInStep ==
    ASSUME NEW store, NEW events \in Seq(Event), NEW ms, NEW ms2,
           NEW e \in PaymentEvent,
           InStep(store, events, ms),
           ms[e.mandate].exists = TRUE,
           EntityOf(ms2[e.mandate]) =
               IF e.kind = "Executed"
               THEN [EntityOf(ms[e.mandate]) EXCEPT !.spent = e.record.spentAfter]
               ELSE EntityOf(ms[e.mandate]),
           \A i \in MandateId : i # e.mandate => EntityOf(ms2[i]) = EntityOf(ms[i])
    PROVE  InStep(Handle(store, Len(events) + 1, e), Append(events, e), ms2)
PROOF
<1>1. PICK id : id = Len(events) + 1
  OBVIOUS
<1>2. PICK more : more = Append(events, e)
  OBVIOUS
<1>3. IsPayment(e) /\ e \in Event /\ e.mandate \in MandateId
  BY DEF IsPayment, PaymentEvent, Event
<1>4. /\ Payments(more) = Payments(events) \cup {id}
      /\ \A p \in Payments(events) : more[p] = events[p] /\ p # id
      /\ more[id] = e
  BY <1>1, <1>2, <1>3, PaymentsAfterEvent
<1>5. PICK m \in MandateId : m = e.mandate
  BY <1>3
<1>6. PICK M, A, L : store = [mandate |-> M, action |-> A, lifecycle |-> L]
  BY DEF InStep
<1>7. M = [i \in MandateId |-> EntityOf(ms[i])]
  BY <1>6 DEF InStep
<1>8. DOMAIN A = Payments(events) /\ id \notin DOMAIN A
      /\ \A p \in Payments(events) : A[p] = ActionOf(events[p])
  BY <1>4, <1>6 DEF InStep
<1>9. PICK A2 : A2 = Save(A, id, ActionOf(e))
  OBVIOUS
<1>10. /\ DOMAIN A2 = DOMAIN A \cup {id}
       /\ A2[id] = ActionOf(e)
       /\ \A i \in DOMAIN A : A2[i] = A[i]
  BY ONLY <1>8, <1>9 DEF Save
<1>11. DOMAIN A2 = Payments(more) /\ \A p \in Payments(more) : A2[p] = ActionOf(more[p])
  BY <1>4, <1>8, <1>10
<1>12. M[m] = EntityOf(ms[m]) /\ M[m].exists = TRUE /\ M = [i \in MandateId |-> M[i]]
  BY <1>5, <1>7 DEF EntityOf
<1>13. \A i \in MandateId : i # m => M[i] = EntityOf(ms2[i])
  BY <1>5, <1>7
<1>14. CASE e.kind = "Executed"
  <2>1. PICK x : x = [M[m] EXCEPT !.spent = e.record.spentAfter]
    OBVIOUS
  <2>2. Handle(store, id, e) = HandleExecuted(store, id, e)
    BY <1>14 DEF Handle
  <2>3. id \notin DOMAIN store.action
    BY <1>6, <1>8
  <2>4. HandleExecuted(store, id, e) =
            [mandate |-> [M EXCEPT ![m] = x], action |-> A2, lifecycle |-> L]
    BY <1>5, <1>6, <1>9, <1>12, <2>1, <2>3 DEF HandleExecuted
  <2>5. x = EntityOf(ms2[m])
    BY <1>5, <1>12, <1>14, <2>1
  <2>6. [M EXCEPT ![m] = x] = [i \in MandateId |-> EntityOf(ms2[i])]
    BY ONLY <1>12, <1>13, <2>5
  <2>7. InStep(Handle(store, id, e), more, ms2)
    BY ONLY <1>11, <2>2, <2>4, <2>6 DEF InStep
  <2> QED
    BY <1>1, <1>2, <2>7
<1>15. CASE e.kind # "Executed"
  <2>1. e.kind = "Refused"
    BY <1>15 DEF PaymentEvent
  <2>2. Handle(store, id, e) = HandleRefused(store, id, e)
    BY <2>1 DEF Handle
  <2>3. HandleRefused(store, id, e) =
            [mandate |-> M, action |-> A2, lifecycle |-> L]
    BY <1>6, <1>8, <1>9 DEF HandleRefused
  <2>4. M = [i \in MandateId |-> EntityOf(ms2[i])]
    <3>1. EntityOf(ms2[m]) = M[m]
      BY <1>5, <1>12, <1>15
    <3> QED
      BY <1>7, <1>13, <3>1
  <2>5. InStep(Handle(store, id, e), more, ms2)
    BY ONLY <1>11, <2>2, <2>3, <2>4 DEF InStep
  <2> QED
    BY <1>1, <1>2, <2>5
<1> QED
  BY <1>14, <1>15

\* A payment keeps the evidence together: one more record, one more event, the
\* amount on the mandate's total, with the payee and in the index.
LEMMA PaymentEvident ==
    ASSUME NEW ms \in [MandateId -> Mandate], NEW ms2, NEW rs, NEW rs2,
           NEW n \in Nat, NEW held, NEW held2, NEW events \in Seq(Event),
           NEW e \in PaymentEvent,
           Evident(ms, rs, n, held, events),
           NewRecord(rs, rs2, KeyOf(e), e.record),
           e.record.sequence = n + 1,
           e.record.outcome = IF e.kind = "Executed" THEN "EXECUTED" ELSE "REFUSED",
           ms[e.mandate].exists = TRUE,
           e.kind = "Executed" =>
               e.record.spentAfter = ms[e.mandate].spent + e.record.attempted,
           \A m \in MandateId : EntityOf(ms2[m]) =
               IF m = e.mandate /\ e.kind = "Executed"
               THEN [EntityOf(ms[m]) EXCEPT !.spent = e.record.spentAfter]
               ELSE EntityOf(ms[m]),
           \A a \in Outsider : held2[a] =
               IF a = e.record.recipient /\ e.record.outcome = "EXECUTED"
               THEN held[a] + e.record.attempted
               ELSE held[a]
    PROVE  Evident(ms2, rs2, n + 1, held2, Append(events, e))
PROOF
<1>1. e \in Event /\ e.mandate \in MandateId /\ KeyOf(e)[1] = e.mandate
  BY DEF Event, PaymentEvent, KeyOf
<1>2. SpentIsTotal(ms2, rs2)
  <2>1. \A m \in MandateId :
           ms2[m].spent = IF m = KeyOf(e)[1] /\ e.record.outcome = "EXECUTED"
                          THEN ms[m].spent + e.record.attempted
                          ELSE ms[m].spent
    <3> SUFFICES ASSUME NEW m \in MandateId
                 PROVE  ms2[m].spent =
                            IF m = e.mandate /\ e.kind = "Executed"
                            THEN ms[m].spent + e.record.attempted
                            ELSE ms[m].spent
      BY <1>1
    <3>1. /\ EntityOf(ms2[m]).spent = ms2[m].spent
          /\ EntityOf(ms[m]).spent = ms[m].spent
      BY DEF EntityOf
    <3>2. CASE m = e.mandate /\ e.kind = "Executed"
      <4>1. EntityOf(ms2[m]) = [EntityOf(ms[m]) EXCEPT !.spent = e.record.spentAfter]
        BY <3>2
      <4>2. EntityOf(ms2[m]).spent = e.record.spentAfter
        BY <4>1 DEF EntityOf
      <4> QED
        BY <3>1, <3>2, <4>2
    <3>3. CASE ~ (m = e.mandate /\ e.kind = "Executed")
      BY <3>1, <3>3
    <3> QED
      BY <3>2, <3>3
  <2>2. SpentIsTotal(ms, rs)
    BY DEF Evident
  <2> QED
    BY <2>1, <2>2, TotalsAfterRecord
<1>3. ValueIsRecorded(held2, rs2)
  <2>1. ValueIsRecorded(held, rs)
    BY DEF Evident
  <2> QED
    BY <2>1, ValueAfterRecord
<1>4. Recorded(Append(events, e), rs2, n + 1)
  <2>1. Recorded(events, rs, n)
    BY DEF Evident
  <2> QED
    BY <2>1, RecordedPayment
<1>5. InStep(Index(Append(events, e)), Append(events, e), ms2)
  <2>1. InStep(Index(events), events, ms)
    BY DEF Evident
  <2>2. InStep(Handle(Index(events), Len(events) + 1, e), Append(events, e), ms2)
    <3>1. EntityOf(ms2[e.mandate]) =
              IF e.kind = "Executed"
              THEN [EntityOf(ms[e.mandate]) EXCEPT !.spent = e.record.spentAfter]
              ELSE EntityOf(ms[e.mandate])
      BY <1>1
    <3>2. \A i \in MandateId : i # e.mandate => EntityOf(ms2[i]) = EntityOf(ms[i])
      OBVIOUS
    <3> QED
      BY ONLY events \in Seq(Event), e \in PaymentEvent, ms[e.mandate].exists = TRUE,
              <2>1, <3>1, <3>2, PaymentInStep
  <2>3. Index(Append(events, e)) = Handle(Index(events), Len(events) + 1, e)
    BY <1>1, IndexAppend
  <2> QED
    BY <2>2, <2>3
<1> QED
  BY <1>2, <1>3, <1>4, <1>5 DEF Evident

\* So does any other event of which the index takes note, when it moves neither
\* a total nor an outsider's money.
LEMMA OtherEvident ==
    ASSUME NEW ms, NEW ms2, NEW rs, NEW n, NEW held, NEW held2,
           NEW events \in Seq(Event), NEW e \in Event, ~ IsPayment(e),
           Evident(ms, rs, n, held, events),
           \A m \in MandateId : ms2[m].spent = ms[m].spent,
           \A a \in Outsider : held2[a] = held[a],
           InStep(Handle(Index(events), Len(events) + 1, e), Append(events, e), ms2)
    PROVE  Evident(ms2, rs, n, held2, Append(events, e))
PROOF
<1>1. SpentIsTotal(ms2, rs) /\ ValueIsRecorded(held2, rs)
  BY DEF Evident, SpentIsTotal, ValueIsRecorded
<1>2. Recorded(Append(events, e), rs, n)
  BY RecordedOther DEF Evident
<1>3. Index(Append(events, e)) = Handle(Index(events), Len(events) + 1, e)
  BY IndexAppend
<1> QED
  BY <1>1, <1>2, <1>3 DEF Evident

-----------------------------------------------------------------------------
(***************************************************************************)
(* The evidence, step by step                                              *)
(***************************************************************************)

\* Nothing was paid, and nothing is indexed.
LEMMA InitEvidence == Init => EvidenceInv
PROOF
<1> SUFFICES ASSUME Init PROVE EvidenceInv
  OBVIOUS
<1>1. BooksInv
  BY InitBooks
<1>2. \A k \in RequestKey : requests[k].outcome = "UNSEEN"
  BY DEF Init, NoRecord
<1>3. SpentIsTotal(mandates, requests)
  <2> SUFFICES ASSUME NEW m \in MandateId
               PROVE  mandates[m].spent = Attempted(requests, ExecutedOf(requests, m))
    BY DEF SpentIsTotal
  <2>1. ExecutedOf(requests, m) = {}
    BY <1>2 DEF ExecutedOf, RequestKey
  <2>2. mandates[m].spent = 0
    BY DEF Init, NoMandate
  <2> QED
    BY <2>1, <2>2, AttemptedNone
<1>4. ValueIsRecorded(balance, requests)
  <2> SUFFICES ASSUME NEW a \in Outsider
               PROVE  balance[a] = Attempted(requests, PaidTo(requests, a))
    BY DEF ValueIsRecorded
  <2>1. PaidTo(requests, a) = {}
    BY <1>2 DEF PaidTo
  <2>2. balance[a] = 0
    BY DEF Init, Outsider
  <2> QED
    BY <2>1, <2>2, AttemptedNone
<1>5. log = <<>> /\ sequence = 0 /\ Payments(<<>>) = {}
  BY DEF Init, Payments
<1>6. Recorded(log, requests, sequence)
  BY <1>2, <1>5 DEF Recorded
<1>7. InStep(Index(log), log, mandates)
  <2>1. Index(log) = EmptyStore
    BY <1>5, IndexEmpty
  <2>2. [m \in MandateId |-> Unindexed] = [m \in MandateId |-> EntityOf(mandates[m])]
    <3>1. \A m \in MandateId : EntityOf(mandates[m]) = Unindexed
      BY DEF Init, NoMandate, Unindexed, EntityOf
    <3> QED
      BY <3>1
  <2>3. DOMAIN <<>> = {}
    OBVIOUS
  <2>4. InStep(EmptyStore, log, mandates)
    BY <1>5, <2>2, <2>3 DEF InStep, EmptyStore
  <2> QED
    BY <2>1, <2>4
<1> QED
  BY <1>1, <1>3, <1>4, <1>6, <1>7 DEF EvidenceInv, Evident, Init

\* Money that stays with Owner, Self and Faucet is nobody else's.
LEMMA MovedOutside ==
    ASSUME NEW from \in {Self, Faucet}, NEW to \in Addr, NEW amount \in Nat,
           balance \in [Addr -> Nat]
    PROVE  \A a \in Outsider :
              Moved(from, to, amount)[a] = IF a = to THEN balance[a] + amount
                                                     ELSE balance[a]
PROOF BY DEF Moved, Outsider

\* Revoking a mandate shows in the index as a revocation and nothing else.
LEMMA EntityRevoked ==
    ASSUME NEW mandate \in Mandate
    PROVE  EntityOf([mandate EXCEPT !.revoked = TRUE]) =
               [EntityOf(mandate) EXCEPT !.revoked = TRUE]
PROOF
<1>1. PICK yes : yes = TRUE
  OBVIOUS
<1>2. PICK x : x = [mandate EXCEPT !.revoked = yes]
  OBVIOUS
<1>3. x.exists = mandate.exists /\ x.spent = mandate.spent /\ x.revoked = yes
  BY <1>2 DEF Mandate
<1>4. PICK y : y = EntityOf(mandate)
  OBVIOUS
<1>5. y = [exists |-> mandate.exists, revoked |-> mandate.revoked,
           spent |-> mandate.spent]
  BY ONLY <1>4 DEF EntityOf
<1>6. [y EXCEPT !.revoked = yes] =
          [exists |-> mandate.exists, revoked |-> yes, spent |-> mandate.spent]
  BY ONLY <1>5
<1>7. EntityOf(x) =
          [exists |-> mandate.exists, revoked |-> yes, spent |-> mandate.spent]
  BY ONLY <1>3 DEF EntityOf
<1> QED
  BY <1>1, <1>2, <1>4, <1>6, <1>7

\* Charging a mandate shows as its new total and nothing else.
LEMMA EntityCharged ==
    ASSUME NEW mandate \in Mandate, NEW spent
    PROVE  EntityOf([mandate EXCEPT !.spent = spent]) =
               [EntityOf(mandate) EXCEPT !.spent = spent]
PROOF
<1>1. PICK x : x = [mandate EXCEPT !.spent = spent]
  OBVIOUS
<1>2. x.exists = mandate.exists /\ x.revoked = mandate.revoked /\ x.spent = spent
  BY <1>1 DEF Mandate
<1>3. PICK y : y = EntityOf(mandate)
  OBVIOUS
<1>4. y = [exists |-> mandate.exists, revoked |-> mandate.revoked,
           spent |-> mandate.spent]
  BY ONLY <1>3 DEF EntityOf
<1>5. [y EXCEPT !.spent = spent] =
          [exists |-> mandate.exists, revoked |-> mandate.revoked, spent |-> spent]
  BY ONLY <1>4
<1>6. EntityOf(x) =
          [exists |-> mandate.exists, revoked |-> mandate.revoked, spent |-> spent]
  BY ONLY <1>2 DEF EntityOf
<1> QED
  BY <1>1, <1>3, <1>5, <1>6

\* The mandate that is replaced is revoked by an event of its own, then the new
\* one appears: two events for the index, and no money.
LEMMA CreateMandateEvidence ==
    ASSUME EvidenceInv, NEW agent \in Caller, NEW perPayment \in Amount,
           NEW cumulative \in Amount, NEW expiresAt \in Time,
           NEW recipients \in Allowlist,
           CreateMandate(agent, perPayment, cumulative, expiresAt, recipients)
    PROVE  EvidenceInv'
PROOF
<1> DEFINE new == [exists |-> TRUE, revoked |-> FALSE, agent |-> agent,
            perPaymentCap |-> perPayment, cumulativeCap |-> cumulative,
            spent |-> 0, expiresAt |-> expiresAt, recipients |-> recipients]
<1>1. BooksInv /\ BooksInv'
  BY CreateMandateBooks DEF EvidenceInv
<1>2. frames = <<>> /\ frames' = <<>> /\ UNCHANGED <<requests, sequence, balance>>
  BY DEF CreateMandate, NotEntered
<1>3. Evident(mandates, requests, sequence, balance, log)
  BY <1>2 DEF EvidenceInv
<1>4. PICK id \in MandateId : id = nextMandateId
  BY DEF BooksInv, IInv, TypeOK, CreateMandate, MandateId, EvidenceInv
<1>5. /\ mandates \in [MandateId -> Mandate]
      /\ ~ mandates[id].exists
      /\ mandates[id].spent = 0
      /\ \A m \in Replaced : m \in MandateId /\ m # id /\ mandates[m].exists = TRUE
  <2>1. /\ mandates \in [MandateId -> Mandate]
        /\ Sound(mandates) /\ Unborn(mandates, requests)
    BY <1>1 DEF BooksInv, BooksSound, IInv, TypeOK
  <2>2. ~ mandates[id].exists
    BY <1>4, <2>1 DEF Sound, MandateId
  <2>3. mandates[id].spent = 0
    BY <2>1, <2>2 DEF Unborn
  <2>4. ASSUME NEW m \in Replaced
        PROVE  m \in MandateId /\ m # id /\ mandates[m].exists = TRUE
    <3>1. m \in MandateId /\ m = activeMandateId /\ mandates[m] \in Mandate
      BY <2>1 DEF Replaced
    <3>2. mandates[m].exists
      BY <2>1, <3>1 DEF Sound
    <3> QED
      BY <2>2, <3>1, <3>2 DEF Mandate
  <2> QED
    BY <2>1, <2>2, <2>3, <2>4
<1>6. PICK retired : retired = RetireReplaced(mandates)
  OBVIOUS
<1>7. \A m \in MandateId :
         retired[m] = IF m \in Replaced THEN [mandates[m] EXCEPT !.revoked = TRUE]
                                        ELSE mandates[m]
  BY <1>6 DEF RetireReplaced
<1>8. mandates' = [retired EXCEPT ![id] = new] /\ DOMAIN retired = MandateId
  BY <1>4, <1>6 DEF CreateMandate, RetireReplaced
<1>9. \A m \in MandateId : mandates'[m] = IF m = id THEN new ELSE retired[m]
  BY <1>8
<1>10. EntityOf(mandates'[id]) = [exists |-> TRUE, revoked |-> FALSE, spent |-> 0]
  <2>1. mandates'[id] = new
    BY <1>9
  <2>2. new.exists = TRUE /\ new.revoked = FALSE /\ new.spent = 0
    OBVIOUS
  <2> HIDE DEF new
  <2> QED
    BY <2>1, <2>2 DEF EntityOf
<1>11. \A m \in MandateId : m # id => EntityOf(mandates'[m]) = EntityOf(retired[m])
  BY <1>9
<1>12. \A m \in MandateId : retired[m].spent = mandates[m].spent
  BY <1>5, <1>7 DEF Mandate
<1>13. \A m \in MandateId : mandates'[m].spent = retired[m].spent
  <2> SUFFICES ASSUME NEW m \in MandateId PROVE mandates'[m].spent = retired[m].spent
    OBVIOUS
  <2>1. CASE m = id
    <3>1. new.spent = 0
      OBVIOUS
    <3> QED
      BY <1>5, <1>9, <1>12, <2>1, <3>1
  <2>2. CASE m # id
    BY <1>9, <2>2
  <2> QED
    BY <2>1, <2>2
<1> HIDE DEF new
<1>14. PICK created : created = [kind |-> "MandateCreated", mandate |-> id]
  OBVIOUS
<1>15. created \in Event /\ ~ IsPayment(created)
  BY <1>14 DEF Event, MandateEvent, IsPayment
<1>16. log \in Seq(Event)
  BY <1>1 DEF BooksInv, IInv, TypeOK
\* Creation on top of a log that shows the retired mandates.
<1>17. ASSUME NEW events \in Seq(Event),
              Evident(retired, requests, sequence, balance, events),
              log' = Append(events, created)
       PROVE  EvidenceInv'
  <2>1. InStep(Index(events), events, retired)
    BY <1>17 DEF Evident
  <2>2. InStep(Handle(Index(events), Len(events) + 1, created),
               Append(events, created), mandates')
    BY ONLY <1>10, <1>11, <1>14, <1>15, <2>1, events \in Seq(Event), id \in MandateId,
            MandateCreatedInStep
  <2>3. Evident(mandates', requests, sequence, balance, Append(events, created))
    BY ONLY <1>13, <1>15, <1>17, <2>2, events \in Seq(Event), OtherEvident
  <2> QED
    BY <1>1, <1>2, <1>17, <2>3 DEF EvidenceInv
<1>18. CASE Replaced = {}
  <2>1. log' = Append(log, created)
    BY <1>4, <1>14, <1>18 DEF CreateMandate
  <2>2. \A m \in MandateId : retired[m] = mandates[m]
    BY <1>7, <1>18
  <2>3. retired = mandates
    BY <1>5, <1>8, <2>2, <1>6 DEF RetireReplaced
  <2> QED
    BY <1>3, <1>16, <1>17, <2>1, <2>3
<1>19. CASE Replaced # {}
  <2>1. PICK revoked \in RevocationEvents : log' = log \o <<revoked, created>>
    BY <1>4, <1>14, <1>19 DEF CreateMandate
  <2>2. PICK m \in Replaced : revoked = [kind |-> "MandateRevoked", mandate |-> m]
    BY <2>1 DEF RevocationEvents
  <2>3. /\ m \in MandateId /\ mandates[m].exists = TRUE
        /\ \A i \in MandateId : i # m => i \notin Replaced
    BY <1>5, <2>2 DEF Replaced
  <2>4. revoked \in Event /\ ~ IsPayment(revoked)
    BY <2>2, <2>3 DEF Event, MandateEvent, IsPayment
  <2>5. EntityOf(retired[m]) = [EntityOf(mandates[m]) EXCEPT !.revoked = TRUE]
    <3>1. retired[m] = [mandates[m] EXCEPT !.revoked = TRUE]
      BY <1>7, <2>2, <2>3
    <3> QED
      BY <1>5, <2>3, <3>1, EntityRevoked
  <2>6. \A i \in MandateId : i # m => EntityOf(retired[i]) = EntityOf(mandates[i])
    BY <1>7, <2>3
  <2>7. InStep(Handle(Index(log), Len(log) + 1, revoked), Append(log, revoked), retired)
    <3>1. InStep(Index(log), log, mandates)
      BY <1>3 DEF Evident
    <3> QED
      BY ONLY <1>16, <2>2, <2>3, <2>4, <2>5, <2>6, <3>1, MandateRevokedInStep
  <2>8. Evident(retired, requests, sequence, balance, Append(log, revoked))
    BY ONLY <1>3, <1>12, <1>16, <2>4, <2>7, OtherEvident
  <2>9. Append(log, revoked) \in Seq(Event)
    BY <1>16, <2>4
  <2>10. log' = Append(Append(log, revoked), created)
    BY <1>15, <1>16, <2>1, <2>4
  <2> QED
    BY ONLY <1>17, <2>8, <2>9, <2>10
<1> QED
  BY <1>18, <1>19

\* Revocation is one event and moves no total.
LEMMA RevokeMandateEvidence ==
    ASSUME EvidenceInv, NEW m \in MandateId, RevokeMandate(m)
    PROVE  EvidenceInv'
PROOF
<1>1. BooksInv /\ BooksInv'
  BY RevokeMandateBooks DEF EvidenceInv
<1>2. frames = <<>> /\ frames' = <<>> /\ UNCHANGED <<requests, sequence, balance>>
  BY DEF RevokeMandate, NotEntered
<1>3. Evident(mandates, requests, sequence, balance, log)
  BY <1>2 DEF EvidenceInv
<1>4. mandates \in [MandateId -> Mandate] /\ log \in Seq(Event)
  BY <1>1 DEF BooksInv, IInv, TypeOK
<1>5. PICK revoked : revoked = [kind |-> "MandateRevoked", mandate |-> m]
  OBVIOUS
<1>6. revoked \in Event /\ ~ IsPayment(revoked)
  BY <1>5 DEF Event, MandateEvent, IsPayment
<1>7. log' = Append(log, revoked) /\ mandates[m].exists = TRUE
  BY <1>4, <1>5 DEF RevokeMandate, Mandate
<1>8. \A i \in MandateId :
         mandates'[i] = IF i = m THEN [mandates[m] EXCEPT !.revoked = TRUE]
                                 ELSE mandates[i]
  BY <1>4 DEF RevokeMandate
<1>9. EntityOf(mandates'[m]) = [EntityOf(mandates[m]) EXCEPT !.revoked = TRUE]
  <2>1. mandates'[m] = [mandates[m] EXCEPT !.revoked = TRUE]
    BY <1>8
  <2> QED
    BY <1>4, <2>1, EntityRevoked
<1>10. \A i \in MandateId : i # m => EntityOf(mandates'[i]) = EntityOf(mandates[i])
  BY <1>8
<1>11. \A i \in MandateId : mandates'[i].spent = mandates[i].spent
  BY <1>4, <1>8 DEF Mandate
<1>12. InStep(Handle(Index(log), Len(log) + 1, revoked), Append(log, revoked), mandates')
  <2>1. InStep(Index(log), log, mandates)
    BY <1>3 DEF Evident
  <2> QED
    BY ONLY <1>4, <1>5, <1>6, <1>7, <1>9, <1>10, <2>1, m \in MandateId,
            MandateRevokedInStep
<1>13. Evident(mandates', requests, sequence, balance, Append(log, revoked))
  BY ONLY <1>3, <1>4, <1>6, <1>11, <1>12, OtherEvident
<1> QED
  BY <1>1, <1>2, <1>7, <1>13 DEF EvidenceInv

\* Opening a withdrawal leaves the books as they are; its transfer will add the
\* event and take money to the owner, who is no payee.
LEMMA WithdrawEvidence ==
    ASSUME EvidenceInv, NEW amount \in Amount, Withdraw(amount)
    PROVE  EvidenceInv'
PROOF
<1>1. BooksInv /\ BooksInv'
  BY WithdrawBooks DEF EvidenceInv
<1>2. /\ frames = <<>>
      /\ UNCHANGED <<mandates, requests, sequence, balance, log>>
  BY DEF Withdraw, NotEntered
<1>3. Evident(mandates, requests, sequence, balance, log)
  BY <1>2 DEF EvidenceInv
<1>4. PICK event : event = [kind |-> "Withdrawn", amount |-> amount]
  OBVIOUS
<1>5. event \in Event /\ ~ IsPayment(event)
  BY <1>4 DEF Event, WithdrawalEvent, IsPayment
<1>6. frames' = <<[undo |-> Snapshot, to |-> Owner, amount |-> amount,
                   event |-> event]>>
  BY <1>2, <1>4 DEF Withdraw, CallTransfer
<1>7. PICK f : f = [undo |-> Snapshot, to |-> Owner, amount |-> amount, event |-> event]
  OBVIOUS
<1>8. frames' # <<>> /\ Head(frames') = f
  BY <1>6, <1>7
<1>9. /\ f.undo.mandates = mandates /\ f.undo.requests = requests
      /\ f.undo.sequence = sequence /\ f.undo.balance = balance /\ f.undo.log = log
  BY <1>7 DEF Snapshot
<1>10. f.to = Owner /\ f.amount = amount /\ f.event = event
  BY <1>7
<1>11. log \in Seq(Event) /\ balance \in [Addr -> Nat]
  BY <1>1 DEF BooksInv, IInv, TypeOK
<1>12. PICK held : held = Moved(Self, Owner, amount)
  OBVIOUS
<1>13. \A a \in Outsider : held[a] = balance[a]
  <2>1. \A a \in Outsider : a # Owner
    BY DEF Outsider
  <2>2. \A a \in Outsider :
           Moved(Self, Owner, amount)[a] = IF a = Owner THEN balance[a] + amount
                                                         ELSE balance[a]
    BY <1>11, MovedOutside
  <2> QED
    BY <1>12, <2>1, <2>2
<1>14. held = Moved(Self, Owner, amount)'
  BY <1>2, <1>12 DEF Moved
<1>15. InStep(Handle(Index(log), Len(log) + 1, event), Append(log, event), mandates)
  <2>1. InStep(Index(log), log, mandates)
    BY <1>3 DEF Evident
  <2> QED
    BY ONLY <1>4, <1>5, <1>11, <2>1, WithdrawnInStep
<1>16. Evident(mandates, requests, sequence, held, Append(log, event))
  <2>1. \A m \in MandateId : mandates[m].spent = mandates[m].spent
    OBVIOUS
  <2> QED
    BY ONLY <1>3, <1>5, <1>11, <1>13, <1>15, <2>1, OtherEvident
<1>17. OpenEvidence(f)'
  BY <1>2, <1>3, <1>9, <1>10, <1>14, <1>16 DEF OpenEvidence
<1> QED
  BY <1>1, <1>8, <1>17 DEF EvidenceInv

\* Opening a payment keeps the evidence before it as what a revert restores; what
\* its transfer leads to is that evidence with one more record.
LEMMA ExecutePaymentEvidence ==
    ASSUME EvidenceInv, NEW m \in MandateId, NEW id \in RequestId, NEW to \in Payee,
           NEW amount \in Amount, NEW sender \in Caller,
           ExecutePayment(m, id, to, amount, sender)
    PROVE  EvidenceInv'
PROOF
<1> DEFINE spentAfter == mandates[m].spent + amount
           entry == [outcome |-> "EXECUTED", rule |-> "NONE", recipient |-> to,
                     attempted |-> amount,
                     headroom |-> mandates[m].cumulativeCap - spentAfter,
                     spentAfter |-> spentAfter, sequence |-> sequence + 1]
<1>1. BooksInv /\ BooksInv'
  BY ExecutePaymentBooks DEF EvidenceInv
<1>2. /\ frames = <<>> /\ UNCHANGED <<balance, log>>
      /\ requests[<<m, id>>].outcome = "UNSEEN" /\ mandates[m].exists
      /\ sequence' = sequence + 1
      /\ mandates' = [mandates EXCEPT ![m].spent = spentAfter]
  BY DEF ExecutePayment, Admissible, NotEntered, Unseen, SaveSpent
<1>3. Evident(mandates, requests, sequence, balance, log)
  BY <1>2 DEF EvidenceInv
<1>4. /\ mandates \in [MandateId -> Mandate] /\ balance \in [Addr -> Nat]
      /\ requests \in [RequestKey -> RequestRecord] /\ sequence \in Nat
      /\ requests' \in [RequestKey -> RequestRecord]
      /\ log \in Seq(Event)
  BY <1>1 DEF BooksInv, IInv, TypeOK
<1>5. PICK k \in RequestKey : k = <<m, id>>
  BY DEF RequestKey
<1>6. PICK record : record = entry
  OBVIOUS
<1>7. /\ record.outcome = "EXECUTED" /\ record.sequence = sequence + 1
      /\ record.recipient = to /\ record.attempted = amount
      /\ record.spentAfter = mandates[m].spent + record.attempted
  BY <1>6
<1>8. requests' = [requests EXCEPT ![k] = record]
  BY <1>5, <1>6 DEF ExecutePayment
<1>9. record \in RequestRecord
  <2>1. requests'[k] = record
    BY <1>4, <1>8
  <2> QED
    BY <1>4, <2>1
<1>10. PICK e : e = [kind |-> "Executed", mandate |-> m, request |-> id,
                     record |-> record]
  OBVIOUS
<1>11. /\ e \in PaymentEvent
       /\ e.kind = "Executed" /\ e.mandate = m /\ e.record = record /\ KeyOf(e) = k
  BY <1>5, <1>9, <1>10 DEF PaymentEvent, KeyOf
<1>12. frames' = <<[undo |-> Snapshot, to |-> to, amount |-> amount, event |-> e]>>
  BY <1>2, <1>6, <1>10 DEF ExecutePayment, CallTransfer
<1>13. PICK f : f = [undo |-> Snapshot, to |-> to, amount |-> amount, event |-> e]
  OBVIOUS
<1>14. frames' # <<>> /\ Head(frames') = f
  BY <1>12, <1>13
<1>15. /\ f.undo.mandates = mandates /\ f.undo.requests = requests
       /\ f.undo.sequence = sequence /\ f.undo.balance = balance /\ f.undo.log = log
       /\ f.to = to /\ f.amount = amount /\ f.event = e
  BY <1>13 DEF Snapshot
<1>16. PICK held : held = Moved(Self, to, amount)
  OBVIOUS
<1>17. held = Moved(Self, to, amount)'
  BY <1>2, <1>16 DEF Moved
<1>18. NewRecord(requests, requests', k, record)
  BY <1>2, <1>4, <1>5, <1>8, <1>9 DEF NewRecord
<1>19. \A i \in MandateId : EntityOf(mandates'[i]) =
          IF i = m THEN [EntityOf(mandates[i]) EXCEPT !.spent = record.spentAfter]
                   ELSE EntityOf(mandates[i])
  <2> SUFFICES ASSUME NEW i \in MandateId
               PROVE  EntityOf(mandates'[i]) =
                         IF i = m THEN [EntityOf(mandates[i]) EXCEPT
                                            !.spent = record.spentAfter]
                                  ELSE EntityOf(mandates[i])
    OBVIOUS
  <2>1. CASE i = m
    <3>1. record.spentAfter = spentAfter
      BY <1>6
    <3>2. mandates'[i] = [mandates[i] EXCEPT !.spent = record.spentAfter]
      BY <1>2, <1>4, <2>1, <3>1
    <3>3. mandates[i] \in Mandate
      BY <1>4
    <3> QED
      BY <2>1, <3>2, <3>3, EntityCharged
  <2>2. CASE i # m
    <3>1. mandates'[i] = mandates[i]
      BY <1>2, <1>4, <2>2
    <3> QED
      BY <2>2, <3>1
  <2> QED
    BY <2>1, <2>2
<1>20. \A a \in Outsider : held[a] =
          IF a = record.recipient /\ record.outcome = "EXECUTED"
          THEN balance[a] + record.attempted ELSE balance[a]
  <2>1. \A a \in Outsider :
           Moved(Self, to, amount)[a] = IF a = to THEN balance[a] + amount
                                                  ELSE balance[a]
    <3>1. to \in Addr /\ amount \in Nat
      OBVIOUS
    <3> QED
      BY ONLY <1>4, <3>1, MovedOutside
  <2> QED
    BY <1>7, <1>16, <2>1
<1> HIDE DEF entry, spentAfter
<1>21. Evident(mandates', requests', sequence + 1, held, Append(log, e))
  <2>1. NewRecord(requests, requests', KeyOf(e), e.record)
    BY <1>11, <1>18
  <2>2. /\ e.record.sequence = sequence + 1
        /\ e.record.outcome = IF e.kind = "Executed" THEN "EXECUTED" ELSE "REFUSED"
        /\ mandates[e.mandate].exists = TRUE
        /\ e.kind = "Executed" =>
              e.record.spentAfter = mandates[e.mandate].spent + e.record.attempted
    BY <1>2, <1>4, <1>7, <1>11 DEF Mandate
  <2>3. \A i \in MandateId : EntityOf(mandates'[i]) =
           IF i = e.mandate /\ e.kind = "Executed"
           THEN [EntityOf(mandates[i]) EXCEPT !.spent = e.record.spentAfter]
           ELSE EntityOf(mandates[i])
    BY <1>11, <1>19
  <2>4. \A a \in Outsider : held[a] =
           IF a = e.record.recipient /\ e.record.outcome = "EXECUTED"
           THEN balance[a] + e.record.attempted ELSE balance[a]
    BY <1>11, <1>20
  <2>5. /\ mandates \in [MandateId -> Mandate] /\ sequence \in Nat
        /\ log \in Seq(Event) /\ e \in PaymentEvent
    BY <1>4, <1>11
  <2> QED
    BY ONLY <1>3, <2>1, <2>2, <2>3, <2>4, <2>5, PaymentEvident
<1>22. OpenEvidence(f)'
  BY <1>2, <1>3, <1>15, <1>17, <1>21 DEF OpenEvidence
<1> QED
  BY <1>1, <1>14, <1>22 DEF EvidenceInv

\* A refusal is one more record, worth nothing.
LEMMA RecordRefusalEvidence ==
    ASSUME EvidenceInv, NEW m \in MandateId, NEW id \in RequestId, NEW to \in Payee,
           NEW amount \in Amount, NEW sender \in Caller,
           RecordRefusal(m, id, to, amount, sender)
    PROVE  EvidenceInv'
PROOF
<1> DEFINE entry == [outcome |-> "REFUSED", rule |-> RuleFor(m, to, amount),
                     recipient |-> to, attempted |-> amount,
                     headroom |-> Headroom(m), spentAfter |-> mandates[m].spent,
                     sequence |-> sequence + 1]
<1>1. BooksInv /\ BooksInv'
  BY RecordRefusalBooks DEF EvidenceInv
<1>2. /\ frames = <<>> /\ frames' = <<>> /\ UNCHANGED <<mandates, balance>>
      /\ requests[<<m, id>>].outcome = "UNSEEN" /\ mandates[m].exists
      /\ sequence' = sequence + 1
  BY DEF RecordRefusal, Admissible, NotEntered, Unseen
<1>3. Evident(mandates, requests, sequence, balance, log)
  BY <1>2 DEF EvidenceInv
<1>4. /\ mandates \in [MandateId -> Mandate]
      /\ requests \in [RequestKey -> RequestRecord] /\ sequence \in Nat
      /\ requests' \in [RequestKey -> RequestRecord]
      /\ log \in Seq(Event)
  BY <1>1 DEF BooksInv, IInv, TypeOK
<1>5. PICK k \in RequestKey : k = <<m, id>>
  BY DEF RequestKey
<1>6. PICK record : record = entry
  OBVIOUS
<1>7. record.outcome = "REFUSED" /\ record.sequence = sequence + 1
  BY <1>6
<1>8. requests' = [requests EXCEPT ![k] = record]
  BY <1>5, <1>6 DEF RecordRefusal
<1>9. record \in RequestRecord
  <2>1. requests'[k] = record
    BY <1>4, <1>8
  <2> QED
    BY <1>4, <2>1
<1>10. PICK e : e = [kind |-> "Refused", mandate |-> m, request |-> id,
                     record |-> record]
  OBVIOUS
<1>11. /\ e \in PaymentEvent
       /\ e.kind = "Refused" /\ e.mandate = m /\ e.record = record /\ KeyOf(e) = k
  BY <1>5, <1>9, <1>10 DEF PaymentEvent, KeyOf
<1>12. log' = Append(log, e)
  BY <1>6, <1>10 DEF RecordRefusal
<1>13. NewRecord(requests, requests', k, record)
  BY <1>2, <1>4, <1>5, <1>8, <1>9 DEF NewRecord
<1> HIDE DEF entry
<1>14. Evident(mandates, requests', sequence + 1, balance, Append(log, e))
  <2>1. NewRecord(requests, requests', KeyOf(e), e.record)
    BY <1>11, <1>13
  <2>2. /\ e.record.sequence = sequence + 1
        /\ e.record.outcome = IF e.kind = "Executed" THEN "EXECUTED" ELSE "REFUSED"
        /\ mandates[e.mandate].exists = TRUE
        /\ e.kind = "Executed" =>
              e.record.spentAfter = mandates[e.mandate].spent + e.record.attempted
    BY <1>2, <1>4, <1>7, <1>11 DEF Mandate
  <2>3. \A i \in MandateId : EntityOf(mandates[i]) =
           IF i = e.mandate /\ e.kind = "Executed"
           THEN [EntityOf(mandates[i]) EXCEPT !.spent = e.record.spentAfter]
           ELSE EntityOf(mandates[i])
    BY <1>11
  <2>4. \A a \in Outsider : balance[a] =
           IF a = e.record.recipient /\ e.record.outcome = "EXECUTED"
           THEN balance[a] + e.record.attempted ELSE balance[a]
    BY <1>7, <1>11
  <2>5. /\ mandates \in [MandateId -> Mandate] /\ sequence \in Nat
        /\ log \in Seq(Event) /\ e \in PaymentEvent
    BY <1>4, <1>11
  <2> QED
    BY ONLY <1>3, <2>1, <2>2, <2>3, <2>4, <2>5, PaymentEvident
<1> QED
  BY <1>1, <1>2, <1>12, <1>14 DEF EvidenceInv

\* The transfer leads where the open call said it would.
LEMMA TransferSucceedsEvidence ==
    ASSUME EvidenceInv, TransferSucceeds
    PROVE  EvidenceInv'
PROOF
<1>1. BooksInv /\ BooksInv' /\ frames # <<>>
  BY TransferSucceedsBooks DEF EvidenceInv, TransferSucceeds
<1>2. frames' = <<>>
  BY <1>1 DEF BooksInv, IInv, OpenCallSound, TransferSucceeds
<1>3. OpenEvidence(Head(frames))
  BY <1>1 DEF EvidenceInv
<1>4. Evident(mandates, requests, sequence, balance, log)'
  BY <1>3 DEF OpenEvidence, TransferSucceeds
<1> QED
  BY <1>1, <1>2, <1>4 DEF EvidenceInv

\* A revert brings back books that were in order.
LEMMA TransferFailsEvidence ==
    ASSUME EvidenceInv, TransferFails
    PROVE  EvidenceInv'
PROOF
<1>1. BooksInv /\ BooksInv' /\ frames # <<>>
  BY TransferFailsBooks DEF EvidenceInv, TransferFails
<1>2. frames' = <<>>
  BY <1>1 DEF BooksInv, IInv, OpenCallSound, TransferFails
<1>3. OpenEvidence(Head(frames))
  BY <1>1 DEF EvidenceInv
<1>4. Evident(mandates, requests, sequence, balance, log)'
  BY <1>3 DEF OpenEvidence, TransferFails, RestoreBooks
<1> QED
  BY <1>1, <1>2, <1>4 DEF EvidenceInv

\* Funds from outside come from the faucet and belong to the account.
LEMMA FundEvidence ==
    ASSUME EvidenceInv, NEW amount \in Amount, Fund(amount)
    PROVE  EvidenceInv'
PROOF
<1>1. BooksInv'
  BY BooksStep DEF EvidenceInv, Next
<1>2. /\ frames = <<>> /\ UNCHANGED <<mandates, requests, sequence, log, frames>>
      /\ balance' = Moved(Faucet, Self, amount)
  BY DEF Fund, NotEntered
<1>3. Evident(mandates, requests, sequence, balance, log)
  BY <1>2 DEF EvidenceInv
<1>4. \A a \in Outsider : balance'[a] = balance[a]
  <2>1. balance \in [Addr -> Nat]
    BY DEF EvidenceInv, BooksInv, IInv, TypeOK
  <2>2. \A a \in Outsider :
           Moved(Faucet, Self, amount)[a] = IF a = Self THEN balance[a] + amount
                                                        ELSE balance[a]
    BY <2>1, MovedOutside
  <2>3. \A a \in Outsider : a # Self
    BY DEF Outsider
  <2> QED
    BY <1>2, <2>2, <2>3
<1>5. ValueIsRecorded(balance', requests)
  BY <1>3, <1>4 DEF Evident, ValueIsRecorded
<1>6. Evident(mandates, requests, sequence, balance', log)
  BY <1>3, <1>5 DEF Evident
<1> QED
  BY <1>1, <1>2, <1>6 DEF EvidenceInv

\* No step of the contract leaves the evidence apart.
LEMMA EvidenceStep == EvidenceInv /\ [Next]_vars => EvidenceInv'
PROOF
<1> SUFFICES ASSUME EvidenceInv, [Next]_vars PROVE EvidenceInv'
  OBVIOUS
<1>1. CASE OwnerStep
  BY <1>1, CreateMandateEvidence, RevokeMandateEvidence, WithdrawEvidence DEF OwnerStep
<1>2. CASE AgentStep
  BY <1>2, ExecutePaymentEvidence, RecordRefusalEvidence DEF AgentStep, Pay
<1>3. CASE TransferSucceeds
  BY <1>3, TransferSucceedsEvidence
<1>4. CASE TransferFails
  BY <1>4, TransferFailsEvidence
<1>5. CASE \E amount \in Amount : Fund(amount)
  BY <1>5, FundEvidence
<1>6. CASE NextBlock \/ UNCHANGED vars
  <2>1. BooksInv'
    BY BooksStep DEF EvidenceInv
  <2>2. UNCHANGED <<mandates, requests, sequence, balance, log, frames>>
    BY <1>6 DEF NextBlock, vars
  <2>3. Moved(Self, Head(frames).to, Head(frames).amount)'
           = Moved(Self, Head(frames).to, Head(frames).amount)
    BY <2>2 DEF Moved
  <2> QED
    BY <2>1, <2>2, <2>3 DEF EvidenceInv, OpenEvidence
<1> QED
  BY <1>1, <1>2, <1>3, <1>4, <1>5, <1>6 DEF Next

\* Records, totals, payouts, events and index agree in every settled state, and
\* while a call is open in both states it can end in.
THEOREM EvidenceInvariance == Spec => []EvidenceInv
PROOF BY InitEvidence, EvidenceStep, PTL DEF Spec

\* Between transactions the events tell the stored records, all of them and in
\* their order, whatever was replayed, refused or undone before.
THEOREM EventsTellRecords == Spec => []EventsMatchRecords
PROOF
<1>1. EvidenceInv => EventsMatchRecords
  BY DEF EvidenceInv, Evident, EventsMatchRecords
<1> QED
  BY <1>1, EvidenceInvariance, PTL

\* A mandate's running total is the sum of its executed payments, at any moment.
THEOREM TotalsAreSums == Spec => []SpentIsExecutedTotal
PROOF
<1>1. EvidenceInv => SpentIsExecutedTotal
  BY DEF EvidenceInv, OpenEvidence, Evident, SpentIsExecutedTotal
<1> QED
  BY <1>1, EvidenceInvariance, PTL

\* Payees hold what the records say they were paid, to the last unit.
THEOREM RecordsAreMoney == Spec => []ValueFollowsEvidence
PROOF
<1>1. EvidenceInv => ValueFollowsEvidence
  BY DEF EvidenceInv, Evident, ValueFollowsEvidence
<1> QED
  BY <1>1, EvidenceInvariance, PTL

\* A store that is in step with a true log agrees with the contract: no request
\* has two actions, because no two events carry the same number.
LEMMA InStepAgrees ==
    ASSUME NEW store, NEW events, NEW ms, NEW rs, NEW n,
           events \in Seq(Event),
           InStep(store, events, ms), Recorded(events, rs, n)
    PROVE  IndexAgrees(store, ms, rs)
PROOF
<1>1. \A m \in MandateId : store.mandate[m] = EntityOf(ms[m])
  BY DEF InStep
<1>2. ASSUME NEW k \in RequestKey
      PROVE  /\ ActionsOf(store, k) = {} <=> rs[k].outcome = "UNSEEN"
             /\ \A i \in ActionsOf(store, k) :
                   /\ ActionsOf(store, k) = {i}
                   /\ store.action[i].record = rs[k]
                   /\ store.action[i].transferred =
                          IF rs[k].outcome = "EXECUTED" THEN rs[k].attempted ELSE 0
  <2>1. \A p \in Payments(events) :
           /\ KeyOf(store.action[p]) = KeyOf(events[p])
           /\ store.action[p].record = events[p].record
           /\ store.action[p].transferred =
                 IF events[p].kind = "Executed" THEN events[p].record.attempted ELSE 0
    <3> SUFFICES ASSUME NEW p \in Payments(events)
                 PROVE  /\ KeyOf(store.action[p]) = KeyOf(events[p])
                        /\ store.action[p].record = events[p].record
                        /\ store.action[p].transferred =
                              IF events[p].kind = "Executed"
                              THEN events[p].record.attempted ELSE 0
      OBVIOUS
    <3>1. store.action[p] = ActionOf(events[p])
      BY DEF InStep
    <3>2. /\ store.action[p].mandate = events[p].mandate
          /\ store.action[p].request = events[p].request
          /\ store.action[p].record = events[p].record
          /\ store.action[p].transferred =
                IF events[p].kind = "Executed" THEN events[p].record.attempted ELSE 0
      BY ONLY <3>1 DEF ActionOf
    <3> QED
      BY <3>2 DEF KeyOf
  <2>2. ActionsOf(store, k) = {p \in Payments(events) : KeyOf(events[p]) = k}
    BY <2>1 DEF ActionsOf, InStep
  <2>3. \A p \in ActionsOf(store, k) :
           /\ p \in Payments(events) /\ events[p].record = rs[k]
           /\ rs[k].outcome = IF events[p].kind = "Executed" THEN "EXECUTED"
                                                              ELSE "REFUSED"
    BY <2>2 DEF Recorded
  <2>4. ActionsOf(store, k) = {} <=> rs[k].outcome = "UNSEEN"
    <3>1. rs[k].outcome # "UNSEEN" => ActionsOf(store, k) # {}
      BY <2>2 DEF Recorded
    <3>2. ActionsOf(store, k) # {} => rs[k].outcome # "UNSEEN"
      BY <2>3
    <3> QED
      BY <3>1, <3>2
  <2>5. \A p, q \in ActionsOf(store, k) : p = q
    <3> SUFFICES ASSUME NEW p \in ActionsOf(store, k), NEW q \in ActionsOf(store, k),
                        p # q
                 PROVE  FALSE
      OBVIOUS
    <3>1. p \in Payments(events) /\ q \in Payments(events)
          /\ events[p].record = events[q].record
      BY <2>3
    <3>2. p \in Nat /\ q \in Nat
      BY <3>1 DEF Payments
    <3>3. p < q \/ q < p
      BY <3>2
    <3>4. events[p].record.sequence \in 1..n
      BY <3>1 DEF Recorded
    <3>5. \/ events[p].record.sequence < events[q].record.sequence
          \/ events[q].record.sequence < events[p].record.sequence
      BY <3>1, <3>3 DEF Recorded
    <3>6. events[p].record.sequence = events[q].record.sequence
      BY <3>1
    <3>7. PICK x \in Int : x = events[p].record.sequence
      BY <3>4
    <3> QED
      BY ONLY <3>5, <3>6, <3>7
  <2>6. ASSUME NEW i \in ActionsOf(store, k)
        PROVE  /\ ActionsOf(store, k) = {i}
               /\ store.action[i].record = rs[k]
               /\ store.action[i].transferred =
                      IF rs[k].outcome = "EXECUTED" THEN rs[k].attempted ELSE 0
    <3>1. ActionsOf(store, k) = {i}
      BY <2>5
    <3> QED
      BY <2>1, <2>3, <3>1
  <2> QED
    BY <2>4, <2>6
<1> QED
  BY <1>1, <1>2 DEF IndexAgrees

\* The subgraph that has caught up shows the contract's mandates and exactly its
\* records, for every log the contract can write.
THEOREM IndexIsFaithful == Spec => []IndexMatchesContract
PROOF
<1>1. EvidenceInv => IndexMatchesContract
  <2> SUFFICES ASSUME EvidenceInv, frames = <<>>
               PROVE  IndexAgrees(Index(log), mandates, requests)
    BY DEF IndexMatchesContract
  <2>1. /\ InStep(Index(log), log, mandates)
        /\ Recorded(log, requests, sequence)
    BY DEF EvidenceInv, Evident
  <2>2. log \in Seq(Event)
    BY DEF EvidenceInv, BooksInv, IInv, TypeOK
  <2> QED
    BY <2>1, <2>2, InStepAgrees
<1> QED
  BY <1>1, EvidenceInvariance, PTL

=============================================================================
