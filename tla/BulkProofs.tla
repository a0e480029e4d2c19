---------------------------- MODULE BulkProofs ----------------------------
(***************************************************************************)
(* What check_bulk promises and what the server bills, for any values, any *)
(* limits, any number of attempts and of other clients.                    *)
(*                                                                         *)
(* Lists and counts are built by folds, so the proofs need induction.  It  *)
(* is had from a least counterexample: a set of naturals that is not empty *)
(* has a least element.                                                    *)
(***************************************************************************)
EXTENDS BulkAgainstServer, CountingLemmas

-----------------------------------------------------------------------------
(* Induction, and folds.                                                   *)

(* The greatest of the first k indices is the last. *)
LEMMA MaxOfPrefix ==
    ASSUME NEW k \in Nat \ {0}
    PROVE  Max(1 .. k) = k /\ (1 .. k) \ {k} = 1 .. (k - 1)
<1>1. \E x \in 1 .. k : \A y \in 1 .. k : x >= y
  OBVIOUS
<1>2. Max(1 .. k) \in 1 .. k /\ \A y \in 1 .. k : Max(1 .. k) >= y
  BY <1>1 DEF Max
<1> QED
  BY <1>2

(* A set of the first n indices that has an element has a greatest one. *)
LEMMA MaxOfIndices ==
    ASSUME NEW n \in Nat, NEW s \in SUBSET (1 .. n), s # {}
    PROVE  Max(s) \in s /\ \A y \in s : Max(s) >= y
<1> DEFINE T == {n - x : x \in s}
<1>1. T \in SUBSET Nat /\ T # {}
  <2>1. \A x \in s : n - x \in Nat
    OBVIOUS
  <2>2. PICK x \in s : TRUE
    OBVIOUS
  <2>3. n - x \in T
    OBVIOUS
  <2> QED BY <2>1, <2>3
<1>2. PICK least \in T : \A t \in T : least <= t
  BY <1>1, LeastNatural
<1>3. PICK x \in s : least = n - x
  BY <1>2
<1>4. \A y \in s : x >= y
  <2> TAKE y \in s
  <2>1. n - y \in T
    OBVIOUS
  <2> HIDE DEF T
  <2> QED BY <1>2, <1>3, <2>1
<1>5. \E z \in s : \A y \in s : z >= y
  BY <1>4
<1> QED
  BY <1>5 DEF Max

(* What can be folded, and its fold over each set of indices. *)
Folding(A, B, base, step, n, seq) ==
    /\ base \in A /\ step \in [A \X B -> A]
    /\ n \in Nat /\ seq \in [1 .. n -> B]

IsFold(A, B, base, step, n, seq, iter) ==
    /\ iter[{}] = base
    /\ \A s \in SUBSET (1 .. n) : s # {} /\ iter[s \ {Max(s)}] \in A =>
           iter[s] = step[<<iter[s \ {Max(s)}], seq[Max(s)]>>]

HasFold(A, B, base, step, n, seq) ==
    \E fold \in [SUBSET (1 .. n) -> A] :
        \A s \in SUBSET (1 .. n) :
            fold[s] = IF s = {} THEN base ELSE step[<<fold[s \ {Max(s)}], seq[Max(s)]>>]

(* The fold over the first k elements, for each k. *)
IsRun(A, B, base, step, n, seq, run) ==
    /\ run \in [0 .. n -> A] /\ run[0] = base
    /\ \A k \in 0 .. n - 1 : run[k + 1] = step[<<run[k], seq[k + 1]>>]

(* A step over the elements of a sequence, greatest index last, has a fold. *)
LEMMA FoldExists ==
    ASSUME NEW A, NEW B, NEW base, NEW step, NEW n, NEW seq,
           Folding(A, B, base, step, n, seq)
    PROVE  HasFold(A, B, base, step, n, seq)
<1> base \in A /\ step \in [A \X B -> A] /\ n \in Nat /\ seq \in [1 .. n -> B]
  BY DEF Folding
<1> DEFINE Folds(k, fold) ==
              \A s \in SUBSET (1 .. k) :
                 fold[s] = IF s = {} THEN base
                           ELSE step[<<fold[s \ {Max(s)}], seq[Max(s)]>>]
           Good == {k \in Nat : k <= n => \E fold \in [SUBSET (1 .. k) -> A] : Folds(k, fold)}
<1>1. 0 \in Good
  <2> DEFINE fold == [s \in SUBSET (1 .. 0) |-> base]
  <2>1. fold \in [SUBSET (1 .. 0) -> A] /\ Folds(0, fold)
    <3>1. 1 .. 0 = {}
      OBVIOUS
    <3> QED BY <3>1
  <2> QED BY <2>1
<1>2. ASSUME NEW k \in 0 .. n - 1, k \in Good
      PROVE  k + 1 \in Good
  <2>1. PICK fold \in [SUBSET (1 .. k) -> A] : Folds(k, fold)
    <3>1. k <= n
      OBVIOUS
    <3> HIDE DEF Folds
    <3> QED BY <1>2, <3>1
  <2> DEFINE longer == [s \in SUBSET (1 .. (k + 1)) |->
                          IF s = {} THEN base
                          ELSE step[<<fold[s \ {Max(s)}], seq[Max(s)]>>]]
  <2>2. \A s \in SUBSET (1 .. (k + 1)) : s # {} =>
            /\ Max(s) \in 1 .. (k + 1) /\ s \ {Max(s)} \in SUBSET (1 .. k)
            /\ seq[Max(s)] \in B
    <3> SUFFICES ASSUME NEW s \in SUBSET (1 .. (k + 1)), s # {}
                 PROVE  /\ Max(s) \in 1 .. (k + 1) /\ s \ {Max(s)} \in SUBSET (1 .. k)
                        /\ seq[Max(s)] \in B
      OBVIOUS
    <3>1. Max(s) \in s /\ \A y \in s : Max(s) >= y
      BY MaxOfIndices, k + 1 \in Nat
    <3>2. Max(s) \in 1 .. (k + 1) /\ Max(s) \in 1 .. n
      <4>1. \A x \in 1 .. (k + 1) : x \in 1 .. n
        OBVIOUS
      <4> QED BY <3>1, <4>1
    <3>3. \A y \in s \ {Max(s)} : y \in 1 .. k
      BY <3>1, <3>2
    <3> QED BY <3>2, <3>3
  <2>3. longer \in [SUBSET (1 .. (k + 1)) -> A]
    BY <2>2
  <2>4. \A s \in SUBSET (1 .. k) : longer[s] = fold[s]
    <3>1. SUBSET (1 .. k) \subseteq SUBSET (1 .. (k + 1))
      OBVIOUS
    <3> QED BY <2>1, <3>1
  <2>5. Folds(k + 1, longer)
    BY <2>2, <2>4
  <2>6. k + 1 \in Nat
    OBVIOUS
  <2> HIDE DEF longer, Folds
  <2> QED BY <2>3, <2>5, <2>6
<1>3. n \in Good
  <2> HIDE DEF Good
  <2>1. Good \in SUBSET Nat
    BY DEF Good
  <2>2. \A k \in 0 .. n : k \in Good
    BY <1>1, <1>2, <2>1, Induction
  <2> QED BY <2>2
<1>4. n <= n
  OBVIOUS
<1> HIDE DEF Folds
<1>5. \E fold \in [SUBSET (1 .. n) -> A] : Folds(n, fold)
  BY <1>3, <1>4
<1> QED
  BY <1>5 DEF Folds, HasFold

(* The folds over the first k elements, for each k, are a run of the steps. *)
LEMMA FoldRuns ==
    ASSUME NEW A, NEW B, NEW base, NEW step, NEW n, NEW seq, NEW iter,
           Folding(A, B, base, step, n, seq), IsFold(A, B, base, step, n, seq, iter)
    PROVE  \E run : IsRun(A, B, base, step, n, seq, run) /\ run[n] = iter[1 .. n]
<1> base \in A /\ step \in [A \X B -> A] /\ n \in Nat /\ seq \in [1 .. n -> B]
  BY DEF Folding
<1> /\ iter[{}] = base
    /\ \A s \in SUBSET (1 .. n) : s # {} /\ iter[s \ {Max(s)}] \in A =>
           iter[s] = step[<<iter[s \ {Max(s)}], seq[Max(s)]>>]
  BY DEF IsFold
<1>1. iter[1 .. 0] = base
  <2>1. 1 .. 0 = {}
    OBVIOUS
  <2> QED BY <2>1
<1>2. ASSUME NEW k \in 0 .. n - 1, iter[1 .. k] \in A
      PROVE  /\ iter[1 .. (k + 1)] = step[<<iter[1 .. k], seq[k + 1]>>]
             /\ iter[1 .. (k + 1)] \in A
  <2>1. k + 1 \in Nat \ {0} /\ (k + 1) - 1 = k /\ k + 1 \in 1 .. n
    OBVIOUS
  <2>2. /\ Max(1 .. (k + 1)) = k + 1 /\ (1 .. (k + 1)) \ {k + 1} = 1 .. k
    BY <2>1, MaxOfPrefix
  <2>3. 1 .. (k + 1) \in SUBSET (1 .. n) /\ 1 .. (k + 1) # {}
    <3>1. k + 1 \in 1 .. (k + 1) /\ \A x \in 1 .. (k + 1) : x \in 1 .. n
      OBVIOUS
    <3> QED BY <3>1
  <2>4. iter[1 .. (k + 1)] = step[<<iter[1 .. k], seq[k + 1]>>]
    BY <1>2, <2>2, <2>3
  <2>5. seq[k + 1] \in B
    BY <2>1
  <2>6. <<iter[1 .. k], seq[k + 1]>> \in A \X B
    BY <1>2, <2>5
  <2> QED BY <2>4, <2>6
<1> DEFINE Good == {k \in Nat : k <= n => iter[1 .. k] \in A}
<1>3. 0 \in Good
  BY <1>1
<1>4. ASSUME NEW k \in 0 .. n - 1, k \in Good
      PROVE  k + 1 \in Good
  <2>1. iter[1 .. k] \in A
    BY <1>4
  <2>2. iter[1 .. (k + 1)] \in A
    BY <1>2, <2>1
  <2> QED BY <2>2
<1>5. \A k \in 0 .. n : iter[1 .. k] \in A
  <2>1. Good \in SUBSET Nat
    OBVIOUS
  <2>2. \A k \in 0 .. n : k \in Good
    <3> HIDE DEF Good
    <3> QED BY <1>3, <1>4, <2>1, Induction
  <2> QED BY <2>2
<1> DEFINE run == [k \in 0 .. n |-> iter[1 .. k]]
<1>6. run \in [0 .. n -> A] /\ run[0] = base /\ run[n] = iter[1 .. n]
  BY <1>1, <1>5
<1>7. ASSUME NEW k \in 0 .. n - 1
      PROVE  run[k + 1] = step[<<run[k], seq[k + 1]>>]
  <2>1. run[k + 1] = iter[1 .. (k + 1)] /\ run[k] = iter[1 .. k] /\ iter[1 .. k] \in A
    BY <1>5
  <2> HIDE DEF run
  <2> QED BY <1>2, <2>1
<1>8. IsRun(A, B, base, step, n, seq, run)
  <2> HIDE DEF run
  <2> QED BY <1>6, <1>7 DEF IsRun
<1> QED
  BY <1>6, <1>8

(* dict.fromkeys, EIN by EIN. *)
RunsToFirstSeen(E, n, eins, run) ==
    /\ run \in [0 .. n -> Seq(E)] /\ run[0] = <<>> /\ run[n] = FirstSeen(eins)
    /\ \A k \in 0 .. n - 1 :
          run[k + 1] = IF eins[k + 1] \in ToSet(run[k]) THEN run[k]
                       ELSE Append(run[k], eins[k + 1])

LEMMA FirstSeenRuns ==
    ASSUME NEW E, NEW n \in Nat, NEW eins \in [1 .. n -> E]
    PROVE  \E run : RunsToFirstSeen(E, n, eins, run)
<1> DEFINE Step(iter, s) ==
              IF s = {} THEN <<>>
              ELSE IF eins[Max(s)] \in ToSet(iter[s \ {Max(s)}]) THEN iter[s \ {Max(s)}]
                   ELSE Append(iter[s \ {Max(s)}], eins[Max(s)])
           IsIter(iter) == iter = [s \in SUBSET (1 .. n) |-> Step(iter, s)]
           step == [pair \in Seq(E) \X E |->
                      IF pair[2] \in ToSet(pair[1]) THEN pair[1]
                      ELSE Append(pair[1], pair[2])]
<1>1. FirstSeen(eins) = (CHOOSE i : IsIter(i))[1 .. n]
  BY DEF FirstSeen, FoldLeft, MapThenFoldSet
<1>2. /\ Folding(Seq(E), E, <<>>, step, n, eins)
      /\ \A kept \in Seq(E), ein \in E :
            step[<<kept, ein>>] = IF ein \in ToSet(kept) THEN kept ELSE Append(kept, ein)
  BY DEF Folding
<1>3. \A s \in SUBSET (1 .. n) : s # {} => eins[Max(s)] \in E
  BY MaxOfIndices
<1>4. \E i : IsIter(i)
  <2>1. PICK fold \in [SUBSET (1 .. n) -> Seq(E)] :
            \A s \in SUBSET (1 .. n) :
               fold[s] = IF s = {} THEN <<>>
                         ELSE step[<<fold[s \ {Max(s)}], eins[Max(s)]>>]
    <3> HIDE DEF step
    <3>1. HasFold(Seq(E), E, <<>>, step, n, eins)
      BY <1>2, FoldExists
    <3> QED BY <3>1 DEF HasFold
  <2>2. \A s \in SUBSET (1 .. n) : fold[s] = Step(fold, s)
    <3> SUFFICES ASSUME NEW s \in SUBSET (1 .. n), s # {}
                 PROVE  fold[s] = Step(fold, s)
      BY <2>1
    <3>1. fold[s \ {Max(s)}] \in Seq(E) /\ eins[Max(s)] \in E
      BY <2>1, <1>3
    <3> HIDE DEF step
    <3> QED BY <1>2, <2>1, <3>1
  <2> HIDE DEF Step
  <2> QED BY <2>1, <2>2
<1>5. PICK iter : IsIter(iter) /\ FirstSeen(eins) = iter[1 .. n]
  <2> HIDE DEF IsIter
  <2> QED BY <1>1, <1>4
<1>6. /\ iter[{}] = <<>>
      /\ \A s \in SUBSET (1 .. n) : iter[s] = Step(iter, s)
  <2>1. \A s \in SUBSET (1 .. n) : iter[s] = Step(iter, s)
    <3> HIDE DEF Step
    <3> QED BY <1>5
  <2>2. {} \in SUBSET (1 .. n)
    OBVIOUS
  <2> QED BY <2>1, <2>2
<1>7. IsFold(Seq(E), E, <<>>, step, n, eins, iter)
  <2> HIDE DEF step
  <2> QED BY <1>2, <1>3, <1>6 DEF IsFold
<1>8. PICK run : IsRun(Seq(E), E, <<>>, step, n, eins, run) /\ run[n] = iter[1 .. n]
  <2> HIDE DEF step, Step, IsIter
  <2> QED BY <1>2, <1>7, FoldRuns
<1>9. ASSUME NEW k \in 0 .. n - 1
      PROVE  run[k + 1] = IF eins[k + 1] \in ToSet(run[k]) THEN run[k]
                          ELSE Append(run[k], eins[k + 1])
  <2>1. run[k] \in Seq(E) /\ eins[k + 1] \in E
    BY <1>8 DEF IsRun
  <2> HIDE DEF step
  <2> QED BY <1>2, <1>8, <2>1 DEF IsRun
<1> QED
  BY <1>5, <1>8, <1>9 DEF IsRun, RunsToFirstSeen

(* Where a value is for the first time, and the place of an index in a set. *)
Firsts(eins, k) == {i \in 1 .. k : \A j \in 1 .. i - 1 : eins[j] # eins[i]}
Rank(set, i) == Cardinality({j \in set : j <= i})

ListsFirsts(kept, eins, k) ==
    /\ Len(kept) = Cardinality(Firsts(eins, k))
    /\ \A i \in Firsts(eins, k) : kept[Rank(Firsts(eins, k), i)] = eins[i]
    /\ ToSet(kept) = {eins[i] : i \in 1 .. k}

(* The places of a finite set of naturals are 1 to its size. *)
LEMMA RankInRange ==
    ASSUME NEW n \in Nat, NEW set \in SUBSET (1 .. n), NEW i \in set
    PROVE  /\ IsFiniteSet(set) /\ Cardinality(set) \in Nat
           /\ Rank(set, i) \in 1 .. Cardinality(set)
<1> DEFINE below == {j \in set : j <= i}
<1>1. IsFiniteSet(1 .. n)
  BY FS_Interval
<1>2. IsFiniteSet(set) /\ Cardinality(set) \in Nat
  BY <1>1, FS_Subset, FS_CardinalityType
<1>3. below \in SUBSET set
  OBVIOUS
<1>4. IsFiniteSet(below) /\ Cardinality(below) \in Nat /\ Cardinality(below) <= Cardinality(set)
  <2> HIDE DEF below
  <2> QED BY <1>2, <1>3, FS_Subset, FS_CardinalityType
<1>5. below # {}
  <2>1. i \in below
    OBVIOUS
  <2> QED BY <2>1
<1>6. Cardinality(below) # 0
  BY <1>4, <1>5, FS_EmptySet
<1> QED
  BY <1>2, <1>4, <1>6 DEF Rank

LEMMA FirstsStep ==
    ASSUME NEW E, NEW n \in Nat, NEW eins \in [1 .. n -> E], NEW k \in 0 .. n - 1,
           NEW kept \in Seq(E), ListsFirsts(kept, eins, k)
    PROVE  ListsFirsts(IF eins[k + 1] \in ToSet(kept) THEN kept
                       ELSE Append(kept, eins[k + 1]), eins, k + 1)
<1> DEFINE F == Firsts(eins, k)
           ein == eins[k + 1]
           longer == Append(kept, ein)
<1>1. /\ F \in SUBSET (1 .. n) /\ k + 1 \in 1 .. n /\ k + 1 \notin F
      /\ F \in SUBSET (1 .. k) /\ k \in Nat
  BY DEF Firsts
<1>2. Len(kept) = Cardinality(F) /\ ToSet(kept) = {eins[i] : i \in 1 .. k}
  BY DEF ListsFirsts
<1>3. {eins[i] : i \in 1 .. (k + 1)} = {eins[i] : i \in 1 .. k} \cup {ein}
  <2>1. 1 .. (k + 1) = (1 .. k) \cup {k + 1}
    BY <1>1
  <2> QED BY <2>1
<1>4. CASE ein \in ToSet(kept)
  <2>1. PICK j \in 1 .. k : eins[j] = ein
    BY <1>2, <1>4
  <2>2. Firsts(eins, k + 1) = F
    <3>1. k + 1 \notin Firsts(eins, k + 1)
      <4>1. j \in 1 .. (k + 1) - 1
        BY <2>1
      <4> QED BY <2>1, <4>1 DEF Firsts
    <3>2. \A i \in 1 .. (k + 1) : i # k + 1 => i \in 1 .. k
      OBVIOUS
    <3>3. \A i \in 1 .. k : i \in 1 .. (k + 1)
      OBVIOUS
    <3> QED BY <3>1, <3>2, <3>3 DEF Firsts
  <2>3. ToSet(kept) = {eins[i] : i \in 1 .. (k + 1)}
    BY <1>2, <1>3, <1>4
  <2> QED
    BY <1>4, <2>2, <2>3 DEF ListsFirsts
<1>5. CASE ein \notin ToSet(kept)
  <2>1. Firsts(eins, k + 1) = F \cup {k + 1}
    <3>1. k + 1 \in Firsts(eins, k + 1)
      <4>1. \A j \in 1 .. (k + 1) - 1 : j \in 1 .. k
        OBVIOUS
      <4>2. \A j \in 1 .. k : eins[j] # ein
        BY <1>2, <1>5
      <4> QED BY <1>1, <4>1, <4>2 DEF Firsts
    <3>2. \A i \in 1 .. (k + 1) : i # k + 1 => i \in 1 .. k
      OBVIOUS
    <3>3. \A i \in 1 .. k : i \in 1 .. (k + 1)
      OBVIOUS
    <3> QED BY <3>1, <3>2, <3>3 DEF Firsts
  <2>2. IsFiniteSet(F) /\ Cardinality(F) \in Nat
    <3>1. IsFiniteSet(1 .. n)
      BY FS_Interval
    <3> HIDE DEF F
    <3> QED BY <1>1, <3>1, FS_Subset, FS_CardinalityType
  <2>3. Cardinality(F \cup {k + 1}) = Cardinality(F) + 1
    <3> HIDE DEF F
    <3> QED BY <1>1, <2>2, FS_AddElement
  <2>4. /\ Len(longer) = Cardinality(F) + 1
        /\ longer[Cardinality(F) + 1] = ein
        /\ \A m \in 1 .. Cardinality(F) : longer[m] = kept[m]
        /\ ToSet(longer) = ToSet(kept) \cup {ein}
    <3>1. ein \in E
      BY <1>1
    <3>2. /\ Len(longer) = Len(kept) + 1 /\ longer[Len(kept) + 1] = ein
          /\ \A m \in 1 .. Len(kept) : longer[m] = kept[m]
      BY <3>1
    <3>3. DOMAIN kept = 1 .. Len(kept) /\ DOMAIN longer = 1 .. (Len(kept) + 1) /\ Len(kept) \in Nat
      BY <3>1
    <3>4. DOMAIN longer = DOMAIN kept \cup {Len(kept) + 1}
      BY <3>3
    <3>5. ToSet(longer) = ToSet(kept) \cup {ein}
      <4> HIDE DEF longer
      <4> QED BY <3>2, <3>3, <3>4 DEF ToSet
    <3> HIDE DEF longer, F
    <3> QED BY <1>2, <3>2, <3>5
  <2>5. ASSUME NEW i \in F \cup {k + 1}
        PROVE  longer[Rank(F \cup {k + 1}, i)] = eins[i]
    <3>1. CASE i \in F
      <4>1. i <= k
        BY <1>1, <3>1
      <4>2. {j \in F \cup {k + 1} : j <= i} = {j \in F : j <= i}
        <5> HIDE DEF F
        <5> QED BY <1>1, <3>1, <4>1
      <4>3. Rank(F \cup {k + 1}, i) = Rank(F, i)
        BY <4>2 DEF Rank
      <4>4. Rank(F, i) \in 1 .. Cardinality(F)
        BY <1>1, <3>1, RankInRange
      <4>5. kept[Rank(F, i)] = eins[i]
        BY <3>1 DEF ListsFirsts
      <4> HIDE DEF longer, F
      <4> QED BY <2>4, <4>3, <4>4, <4>5
    <3>2. CASE i = k + 1
      <4>1. {j \in F \cup {k + 1} : j <= i} = F \cup {k + 1}
        <5> HIDE DEF F
        <5>1. \A j \in F \cup {k + 1} : j <= i
          BY <1>1, <3>2
        <5> QED BY <5>1
      <4>2. Rank(F \cup {k + 1}, i) = Cardinality(F) + 1
        BY <4>1, <2>3 DEF Rank
      <4> HIDE DEF longer, F
      <4> QED BY <2>4, <3>2, <4>2
    <3> QED BY <3>1, <3>2
  <2>6. ToSet(longer) = {eins[i] : i \in 1 .. (k + 1)}
    <3> HIDE DEF longer
    <3> QED BY <1>2, <1>3, <2>4
  <2>7. ListsFirsts(longer, eins, k + 1)
    <3> HIDE DEF longer, F
    <3> QED BY <2>1, <2>3, <2>4, <2>5, <2>6 DEF ListsFirsts
  <2> QED
    BY <1>5, <2>7
<1> QED
  BY <1>4, <1>5

(* What list(dict.fromkeys(normalized)) is. *)
LEMMA FirstSeenIs ==
    ASSUME NEW E, NEW n \in Nat, NEW eins \in [1 .. n -> E]
    PROVE  FirstSeen(eins) \in Seq(E) /\ ListsFirsts(FirstSeen(eins), eins, n)
<1>0. PICK run : RunsToFirstSeen(E, n, eins, run)
  BY FirstSeenRuns
<1>1. /\ run \in [0 .. n -> Seq(E)] /\ run[0] = <<>> /\ run[n] = FirstSeen(eins)
      /\ \A k \in 0 .. n - 1 :
            run[k + 1] = IF eins[k + 1] \in ToSet(run[k]) THEN run[k]
                         ELSE Append(run[k], eins[k + 1])
  BY <1>0 DEF RunsToFirstSeen
<1> DEFINE Good == {k \in Nat : k <= n => ListsFirsts(run[k], eins, k)}
<1>2. 0 \in Good
  <2>1. Firsts(eins, 0) = {} /\ 1 .. 0 = {}
    BY DEF Firsts
  <2>2. ToSet(<<>>) = {}
    BY DEF ToSet
  <2>3. Len(<<>>) = 0 /\ {eins[i] : i \in {}} = {}
    OBVIOUS
  <2> QED
    BY <1>1, <2>1, <2>2, <2>3, FS_EmptySet DEF ListsFirsts
<1>3. ASSUME NEW k \in 0 .. n - 1, k \in Good
      PROVE  k + 1 \in Good
  <2>1. ListsFirsts(run[k], eins, k) /\ run[k] \in Seq(E)
    BY <1>1, <1>3
  <2>2. ListsFirsts(IF eins[k + 1] \in ToSet(run[k]) THEN run[k]
                    ELSE Append(run[k], eins[k + 1]), eins, k + 1)
    BY <2>1, FirstsStep
  <2>3. ListsFirsts(run[k + 1], eins, k + 1)
    BY <1>1, <2>2
  <2> QED BY <2>3
<1>4. n \in Good
  <2>1. Good \in SUBSET Nat
    OBVIOUS
  <2>2. \A k \in 0 .. n : k \in Good
    <3> HIDE DEF Good
    <3> QED BY <1>2, <1>3, <2>1, Induction
  <2> QED BY <2>2
<1> QED
  BY <1>1, <1>4

(* A list without the entries of a set, entry by entry. *)
RunsToDropping(E, n, list, set, run) ==
    /\ run \in [0 .. n -> Seq(E)] /\ run[0] = <<>> /\ run[n] = Dropping(list, set)
    /\ \A k \in 0 .. n - 1 :
          run[k + 1] = IF list[k + 1] \in set THEN run[k] ELSE Append(run[k], list[k + 1])

LEMMA DroppingRuns ==
    ASSUME NEW E, NEW n \in Nat, NEW list \in [1 .. n -> E], NEW set
    PROVE  \E run : RunsToDropping(E, n, list, set, run)
<1> DEFINE Step(iter, s) ==
              IF s = {} THEN <<>>
              ELSE IF list[Max(s)] \in set THEN iter[s \ {Max(s)}]
                   ELSE Append(iter[s \ {Max(s)}], list[Max(s)])
           IsIter(iter) == iter = [s \in SUBSET (1 .. n) |-> Step(iter, s)]
           step == [pair \in Seq(E) \X E |->
                      IF pair[2] \in set THEN pair[1] ELSE Append(pair[1], pair[2])]
<1>1. Dropping(list, set) = (CHOOSE i : IsIter(i))[1 .. n]
  BY DEF Dropping, FoldLeft, MapThenFoldSet
<1>2. /\ Folding(Seq(E), E, <<>>, step, n, list)
      /\ \A kept \in Seq(E), entry \in E :
            step[<<kept, entry>>] = IF entry \in set THEN kept ELSE Append(kept, entry)
  BY DEF Folding
<1>3. \A s \in SUBSET (1 .. n) : s # {} => list[Max(s)] \in E
  BY MaxOfIndices
<1>4. \E i : IsIter(i)
  <2>1. PICK fold \in [SUBSET (1 .. n) -> Seq(E)] :
            \A s \in SUBSET (1 .. n) :
               fold[s] = IF s = {} THEN <<>>
                         ELSE step[<<fold[s \ {Max(s)}], list[Max(s)]>>]
    <3> HIDE DEF step
    <3>1. HasFold(Seq(E), E, <<>>, step, n, list)
      BY <1>2, FoldExists
    <3> QED BY <3>1 DEF HasFold
  <2>2. \A s \in SUBSET (1 .. n) : fold[s] = Step(fold, s)
    <3> SUFFICES ASSUME NEW s \in SUBSET (1 .. n), s # {}
                 PROVE  fold[s] = Step(fold, s)
      BY <2>1
    <3>1. fold[s \ {Max(s)}] \in Seq(E) /\ list[Max(s)] \in E
      BY <2>1, <1>3
    <3> HIDE DEF step
    <3> QED BY <1>2, <2>1, <3>1
  <2> HIDE DEF Step
  <2> QED BY <2>1, <2>2
<1>5. PICK iter : IsIter(iter) /\ Dropping(list, set) = iter[1 .. n]
  <2> HIDE DEF IsIter
  <2> QED BY <1>1, <1>4
<1>6. /\ iter[{}] = <<>>
      /\ \A s \in SUBSET (1 .. n) : iter[s] = Step(iter, s)
  <2>1. \A s \in SUBSET (1 .. n) : iter[s] = Step(iter, s)
    <3> HIDE DEF Step
    <3> QED BY <1>5
  <2>2. {} \in SUBSET (1 .. n)
    OBVIOUS
  <2> QED BY <2>1, <2>2
<1>7. IsFold(Seq(E), E, <<>>, step, n, list, iter)
  <2> HIDE DEF step
  <2> QED BY <1>2, <1>3, <1>6 DEF IsFold
<1>8. PICK run : IsRun(Seq(E), E, <<>>, step, n, list, run) /\ run[n] = iter[1 .. n]
  <2> HIDE DEF step, Step, IsIter
  <2> QED BY <1>2, <1>7, FoldRuns
<1>9. ASSUME NEW k \in 0 .. n - 1
      PROVE  run[k + 1] = IF list[k + 1] \in set THEN run[k] ELSE Append(run[k], list[k + 1])
  <2>1. run[k] \in Seq(E) /\ list[k + 1] \in E
    BY <1>8 DEF IsRun
  <2> HIDE DEF step
  <2> QED BY <1>2, <1>8, <2>1 DEF IsRun
<1> QED
  BY <1>5, <1>8, <1>9 DEF IsRun, RunsToDropping

(* What a longer sequence holds. *)
LEMMA AppendHolds ==
    ASSUME NEW E, NEW kept \in Seq(E), NEW entry \in E
    PROVE  ToSet(Append(kept, entry)) = ToSet(kept) \cup {entry}
<1> DEFINE longer == Append(kept, entry)
<1>1. /\ Len(longer) = Len(kept) + 1 /\ longer[Len(kept) + 1] = entry
      /\ \A m \in 1 .. Len(kept) : longer[m] = kept[m]
  OBVIOUS
<1>2. DOMAIN kept = 1 .. Len(kept) /\ DOMAIN longer = 1 .. (Len(kept) + 1) /\ Len(kept) \in Nat
  OBVIOUS
<1>3. DOMAIN longer = DOMAIN kept \cup {Len(kept) + 1}
  BY <1>2
<1> HIDE DEF longer
<1>4. ToSet(longer) = ToSet(kept) \cup {entry}
  BY <1>1, <1>2, <1>3 DEF ToSet
<1> QED
  BY <1>4 DEF longer

(* What is left of a list without a set is what the list has outside it. *)
LEMMA DroppingIs ==
    ASSUME NEW E, NEW n \in Nat, NEW list \in [1 .. n -> E], NEW set
    PROVE  /\ Dropping(list, set) \in Seq(E)
           /\ ToSet(Dropping(list, set)) = {list[i] : i \in 1 .. n} \ set
<1>0. PICK run : RunsToDropping(E, n, list, set, run)
  BY DroppingRuns
<1>1. /\ run \in [0 .. n -> Seq(E)] /\ run[0] = <<>> /\ run[n] = Dropping(list, set)
      /\ \A k \in 0 .. n - 1 :
            run[k + 1] = IF list[k + 1] \in set THEN run[k] ELSE Append(run[k], list[k + 1])
  BY <1>0 DEF RunsToDropping
<1> DEFINE Good == {k \in Nat : k <= n => ToSet(run[k]) = {list[i] : i \in 1 .. k} \ set}
<1>2. 0 \in Good
  <2>1. ToSet(<<>>) = {} /\ 1 .. 0 = {}
    BY DEF ToSet
  <2>2. {list[i] : i \in {}} \ set = {}
    OBVIOUS
  <2> QED BY <1>1, <2>1, <2>2
<1>3. ASSUME NEW k \in 0 .. n - 1, k \in Good
      PROVE  k + 1 \in Good
  <2>1. /\ ToSet(run[k]) = {list[i] : i \in 1 .. k} \ set
        /\ run[k] \in Seq(E) /\ list[k + 1] \in E
    <3>1. k <= n /\ k \in 0 .. n /\ k + 1 \in 1 .. n
      OBVIOUS
    <3>2. ToSet(run[k]) = {list[i] : i \in 1 .. k} \ set
      BY <1>3, <3>1
    <3> HIDE DEF Good
    <3> QED BY <1>1, <3>1, <3>2
  <2>2. {list[i] : i \in 1 .. (k + 1)} = {list[i] : i \in 1 .. k} \cup {list[k + 1]}
    <3>1. 1 .. (k + 1) = (1 .. k) \cup {k + 1}
      OBVIOUS
    <3> QED BY <3>1
  <2>3. ToSet(Append(run[k], list[k + 1])) = ToSet(run[k]) \cup {list[k + 1]}
    BY <2>1, AppendHolds
  <2>4. run[k + 1] = IF list[k + 1] \in set THEN run[k] ELSE Append(run[k], list[k + 1])
    BY <1>1
  <2>5. ToSet(run[k + 1]) = {list[i] : i \in 1 .. (k + 1)} \ set
    BY <2>1, <2>2, <2>3, <2>4
  <2> QED BY <2>5
<1>4. n \in Good
  <2>1. Good \in SUBSET Nat
    OBVIOUS
  <2>2. \A k \in 0 .. n : k \in Good
    <3> HIDE DEF Good
    <3> QED BY <1>2, <1>3, <2>1, Induction
  <2> QED BY <2>2
<1>5. n <= n
  OBVIOUS
<1> QED
  BY <1>1, <1>4, <1>5

(* A list has as many firsts as it has values. *)
LEMMA FirstsCounted ==
    ASSUME NEW n \in Nat, NEW eins, DOMAIN eins = 1 .. n
    PROVE  Cardinality(Firsts(eins, n)) = Cardinality({eins[i] : i \in 1 .. n})
<1> DEFINE F == Firsts(eins, n)
           V == {eins[i] : i \in 1 .. n}
           f == [i \in F |-> eins[i]]
<1>1. F \in SUBSET (1 .. n)
  BY DEF Firsts
<1>2. IsFiniteSet(F)
  <2>1. IsFiniteSet(1 .. n)
    BY FS_Interval
  <2> HIDE DEF F
  <2> QED BY <1>1, <2>1, FS_Subset
<1>3. f \in [F -> V]
  BY <1>1
<1>4. \A a, b \in F : f[a] = f[b] => a = b
  <2> SUFFICES ASSUME NEW a \in F, NEW b \in F, a < b
               PROVE  eins[a] # eins[b]
    <3> HIDE DEF F
    <3>1. \A a, b \in F : a \in Int /\ b \in Int
      BY <1>1
    <3>2. \A a, b \in F : a < b => eins[a] # eins[b]
      OBVIOUS
    <3> QED BY <3>1, <3>2
  <2>1. a \in 1 .. b - 1
    BY <1>1
  <2> QED BY <2>1 DEF Firsts
<1>5. \A v \in V : \E i \in F : f[i] = v
  <2> TAKE v \in V
  <2> DEFINE T == {i \in 1 .. n : eins[i] = v}
  <2>1. T \in SUBSET Nat /\ T # {}
    OBVIOUS
  <2>2. PICK least \in T : \A m \in T : least <= m
    <3> HIDE DEF T
    <3> QED BY <2>1, LeastNatural
  <2>3. \A j \in 1 .. least - 1 : eins[j] # eins[least]
    <3> SUFFICES ASSUME NEW j \in 1 .. least - 1, eins[j] = eins[least] PROVE FALSE
      OBVIOUS
    <3>1. j \in T
      BY <2>2
    <3> HIDE DEF T
    <3>2. least <= j
      BY <2>2, <3>1
    <3> QED BY <2>1, <2>2, <3>1, <3>2
  <2>4. least \in F
    BY <2>2, <2>3 DEF Firsts
  <2> QED BY <2>2, <2>4
<1>6. f \in Bijection(F, V)
  <2> HIDE DEF F, V, f
  <2> QED BY <1>3, <1>4, <1>5 DEF Bijection, Injection, Surjection, IsInjective
<1>7. ExistsBijection(F, V)
  BY <1>6 DEF ExistsBijection
<1> HIDE DEF F, V, f
<1>8. Cardinality(V) = Cardinality(F)
  BY <1>2, <1>7, FS_Bijection
<1> QED
  BY <1>8 DEF F, V

(* The EINs a list may name. *)
Eins == {value.ein : value \in Values}

(* What the body of a list is: the EINs of the list, in its order, each as
   often as it is there or, with dedupe, once and where it first was. *)
Wanted(items) ==
    {i \in DOMAIN items : dedupe => \A j \in 1 .. i - 1 : items[j].ein # items[i].ein}
Size(items) ==
    IF dedupe THEN Cardinality({items[i].ein : i \in DOMAIN items}) ELSE Len(items)

IsBodyOf(body, items) ==
    /\ body \in Seq(Eins)
    /\ Len(body) = Cardinality(Wanted(items))
    /\ Len(body) = Size(items)
    /\ \A i \in Wanted(items) : body[Rank(Wanted(items), i)] = items[i].ein
    /\ ToSet(body) = {items[i].ein : i \in DOMAIN items}

LEMMA BodyIs ==
    ASSUME NEW items \in Seq(Values), dedupe \in BOOLEAN
    PROVE  IsBodyOf(BodyOf(items), items)
<1> DEFINE n == Len(items)
           normalized == [i \in DOMAIN items |-> Clean(items[i])]
<1>1. n \in Nat /\ DOMAIN items = 1 .. n /\ \A i \in 1 .. n : items[i] \in Values
  OBVIOUS
<1>2. /\ normalized \in [1 .. n -> Eins] /\ \A i \in 1 .. n : normalized[i] = items[i].ein
      /\ normalized \in Seq(Eins) /\ Len(normalized) = n
  BY <1>1 DEF Clean, Eins
<1>3. {normalized[i] : i \in 1 .. n} = {items[i].ein : i \in DOMAIN items}
  <2> HIDE DEF normalized
  <2> QED BY <1>1, <1>2
<1>4. CASE dedupe
  <2>1. BodyOf(items) = FirstSeen(normalized)
    BY <1>4 DEF BodyOf
  <2>2. Wanted(items) = Firsts(normalized, n)
    <3> HIDE DEF normalized
    <3>1. ASSUME NEW i \in 1 .. n, NEW j \in 1 .. i - 1
          PROVE  (normalized[j] # normalized[i]) = (items[j].ein # items[i].ein)
      <4>1. j \in 1 .. n
        BY <1>1
      <4> QED BY <1>2, <4>1
    <3> QED BY <1>1, <1>4, <3>1 DEF Wanted, Firsts
  <2>3. FirstSeen(normalized) \in Seq(Eins) /\ ListsFirsts(FirstSeen(normalized), normalized, n)
    <3> HIDE DEF normalized
    <3> QED BY <1>1, <1>2, FirstSeenIs
  <2>4. Cardinality(Firsts(normalized, n)) = Cardinality({normalized[i] : i \in 1 .. n})
    <3> HIDE DEF normalized
    <3> QED BY <1>1, <1>2, FirstsCounted
  <2>5. \A i \in Wanted(items) : normalized[i] = items[i].ein
    BY <1>1, <1>2 DEF Wanted
  <2>6. Size(items) = Cardinality({normalized[i] : i \in 1 .. n})
    BY <1>3, <1>4 DEF Size
  <2> HIDE DEF normalized, n
  <2> QED
    BY <1>3, <2>1, <2>2, <2>3, <2>4, <2>5, <2>6 DEF IsBodyOf, ListsFirsts
<1>5. CASE ~dedupe
  <2>1. BodyOf(items) = normalized /\ Wanted(items) = 1 .. n /\ Size(items) = n
    BY <1>1, <1>5 DEF BodyOf, Wanted, Size
  <2>2. Cardinality(1 .. n) = n
    BY <1>1, FS_Interval
  <2>3. \A i \in 1 .. n : Rank(1 .. n, i) = i
    <3> TAKE i \in 1 .. n
    <3>1. {j \in 1 .. n : j <= i} = 1 .. i
      BY <1>1
    <3>2. Cardinality(1 .. i) = i
      BY <1>1, FS_Interval
    <3> QED BY <3>1, <3>2 DEF Rank
  <2>4. ToSet(normalized) = {items[i].ein : i \in DOMAIN items}
    BY <1>2, <1>3 DEF ToSet
  <2> HIDE DEF normalized, n
  <2> QED
    BY <1>2, <2>1, <2>2, <2>3, <2>4 DEF IsBodyOf
<1> QED
  BY <1>4, <1>5

-----------------------------------------------------------------------------
(* What is made of an answer.                                              *)

LEMMA NoiseIsNoEin ==
    Noise \notin Eins
BY BulkCheckAssumption DEF Eins

LEMMA DroppingOfSeq ==
    ASSUME NEW E, NEW list \in Seq(E), NEW set
    PROVE  /\ Dropping(list, set) \in Seq(E)
           /\ ToSet(Dropping(list, set)) = ToSet(list) \ set
<1>1. Len(list) \in Nat /\ list \in [1 .. Len(list) -> E]
  OBVIOUS
<1>2. ToSet(list) = {list[i] : i \in 1 .. Len(list)}
  BY DEF ToSet
<1> QED
  BY <1>1, <1>2, DroppingIs

(* A list of one list is that list. *)
LEMMA FlattenOne ==
    ASSUME NEW part
    PROVE  FlattenSeq([i \in 1 .. 1 |-> part]) = part
<1> DEFINE parts == [i \in 1 .. 1 |-> part]
           Flat(f) == f = [i \in 1 .. 1 |-> IF i = 1 THEN parts[i] ELSE f[i - 1] \o parts[i]]
<1>1. \A i \in 1 .. 1 : i = 1
  OBVIOUS
<1>2. parts \in Seq({part}) /\ Len(parts) = 1 /\ parts[1] = part
  OBVIOUS
<1> HIDE DEF parts
<1>3. Flat([i \in 1 .. 1 |-> parts[1]])
  BY <1>1
<1>4. Flat(CHOOSE f : Flat(f))
  <2> HIDE DEF Flat
  <2> QED BY <1>3
<1>5. FlattenSeq(parts) = (CHOOSE f : Flat(f))[1]
  BY <1>2 DEF FlattenSeq
<1>6. (CHOOSE f : Flat(f))[1] = parts[1]
  BY <1>4
<1>7. FlattenSeq(parts) = part
  BY <1>2, <1>5, <1>6
<1> QED
  BY <1>7 DEF parts

(* Every shape of a 200 for a list of EINs gives the ones with a record as
   organizations and the others as not found. *)
LEMMA AnswerAccountsForAll ==
    ASSUME NEW eins \in Seq(Eins),
           NEW dataShape \in {"array", "wrapped"}, NEW errorShape \in {"list", "object"},
           NEW form
    PROVE  /\ ToSet(ExtractOrganizations(DataOf(eins, dataShape))) = ToSet(eins) \cap Known
           /\ ToSet(ExtractNotFoundEins(NormalizeApiErrors(ErrorsOf(eins, errorShape, form))))
                 = ToSet(eins) \ Known
<1> DEFINE n == Len(eins)
           All == Eins \cup {Noise}
           matches == Matches(eins)
           misses == Misses(eins)
<1>1. n \in Nat /\ eins \in [1 .. n -> Eins] /\ ToSet(eins) = {eins[i] : i \in 1 .. n}
  BY DEF ToSet
<1>2. ToSet(eins) \subseteq Eins /\ ToSet(eins) \ {Noise} = ToSet(eins)
  BY <1>1, NoiseIsNoEin
<1>3. misses \in Seq(Eins) /\ ToSet(misses) = ToSet(eins) \ Known
  BY <1>1, DroppingIs DEF Misses
<1>4. IsFiniteSet(matches)
  <2> DEFINE V == {eins[i] : i \in 1 .. n}
             f == [i \in 1 .. n |-> eins[i]]
  <2>1. f \in Surjection(1 .. n, V)
    BY DEF Surjection
  <2>2. IsFiniteSet(1 .. n)
    BY <1>1, FS_Interval
  <2>3. IsFiniteSet(V)
    <3> HIDE DEF f, V
    <3> QED BY <2>1, <2>2, FS_Surjection
  <2>4. matches \in SUBSET V
    BY <1>1 DEF Matches
  <2> HIDE DEF V, matches
  <2> QED BY <2>3, <2>4, FS_Subset
<1>5. /\ SetToSeq(matches) \in Seq(All)
      /\ ToSet(SetToSeq(matches)) = matches
  <2> DEFINE size == Cardinality(matches)
             list == SetToSeq(matches)
  <2>1. size \in Nat /\ ExistsBijection(1 .. size, matches)
    <3> HIDE DEF matches
    <3> QED BY <1>4, FS_CardinalityType
  <2>2. \E f \in [1 .. size -> matches] : IsInjective(f)
    <3> HIDE DEF matches
    <3> QED BY <2>1 DEF ExistsBijection, Bijection, Injection
  <2>3. list \in [1 .. size -> matches] /\ IsInjective(list)
    <3> HIDE DEF matches
    <3> QED BY <2>2 DEF SetToSeq
  <2>4. list \in Injection(1 .. size, matches)
    BY <2>3 DEF Injection
  <2>5. Cardinality(1 .. size) = size
    BY <2>1, FS_Interval
  <2>6. list \in Surjection(1 .. size, matches)
    <3> HIDE DEF matches, list
    <3>1. Cardinality(1 .. size) = Cardinality(matches)
      BY <2>5
    <3> HIDE DEF size
    <3> QED BY <1>4, <2>4, <3>1, FS_Injection
  <2>7. ToSet(list) = matches
    <3> HIDE DEF matches, list, size
    <3> QED BY <2>3, <2>6 DEF Surjection, ToSet
  <2>8. matches \subseteq All
    BY <1>2 DEF Matches
  <2> HIDE DEF matches, All, size
  <2> QED BY <2>1, <2>3, <2>7, <2>8
<1>6. ToSet(ExtractOrganizations(DataOf(eins, dataShape))) = ToSet(eins) \cap Known
  <2> DEFINE entries == Append(SetToSeq(matches), Noise)
  <2>1. entries \in Seq(All) /\ ToSet(entries) = matches \cup {Noise}
    <3> HIDE DEF matches
    <3> QED BY <1>5, AppendHolds
  <2>2. ToSet(Dropping(entries, {Noise})) = ToSet(entries) \ {Noise}
    <3> HIDE DEF entries, All
    <3> QED BY <2>1, DroppingOfSeq
  <2>4. ExtractOrganizations(DataOf(eins, dataShape)) = Dropping(entries, {Noise})
    BY DEF ExtractOrganizations, DataOf
  <2>5. matches \ {Noise} = ToSet(eins) \cap Known
    BY <1>2 DEF Matches
  <2> HIDE DEF entries, matches
  <2> QED BY <2>1, <2>2, <2>4, <2>5
<1>7. ToSet(ExtractNotFoundEins(NormalizeApiErrors(ErrorsOf(eins, errorShape, form))))
         = ToSet(eins) \ Known
  <2>1. CASE misses = <<>>
    <3>1. NormalizeApiErrors(ErrorsOf(eins, errorShape, form)) = <<>>
      BY <2>1 DEF NormalizeApiErrors, ErrorsOf
    <3>2. ToSet(ExtractNotFoundEins(<<>>)) = {}
      BY DEF ExtractNotFoundEins, FlattenSeq, ToSet
    <3>3. ToSet(misses) = {}
      BY <2>1 DEF ToSet
    <3> QED BY <1>3, <3>1, <3>2, <3>3
  <2>2. CASE misses # <<>>
    <3> DEFINE named == <<Noise>> \o misses
               details == <<[form |-> form, eins |-> named]>>
               size == Len(named)
    <3>1. NormalizeApiErrors(ErrorsOf(eins, errorShape, form)) = details
      BY <2>2 DEF NormalizeApiErrors, ErrorsOf
    <3>2. /\ named \in Seq(All) /\ size = 1 + Len(misses)
          /\ named[1] = Noise /\ \A i \in 1 .. Len(misses) : named[i + 1] = misses[i]
      <4> HIDE DEF misses
      <4> QED BY <1>3
    <3>3. size \in Nat /\ named \in [1 .. size -> All]
      <4> HIDE DEF named, All
      <4> QED BY <3>2
    <3>4. {named[i] : i \in 1 .. size} = ToSet(misses) \cup {Noise}
      <4>1. /\ Len(misses) \in Nat /\ ToSet(misses) = {misses[i] : i \in 1 .. Len(misses)}
        <5> HIDE DEF misses
        <5> QED BY <1>3 DEF ToSet
      <4> HIDE DEF named, misses
      <4>2. \A i \in 1 .. size : i = 1 \/ (i - 1 \in 1 .. Len(misses) /\ i = (i - 1) + 1)
        BY <3>2, <4>1
      <4>3. \A i \in 1 .. size : named[i] = Noise \/ named[i] \in ToSet(misses)
        <5> TAKE i \in 1 .. size
        <5>1. CASE i = 1
          BY <3>2, <5>1
        <5>2. CASE i # 1
          <6>1. PICK j \in 1 .. Len(misses) : i = j + 1
            BY <4>2, <5>2
          <6> QED BY <3>2, <4>1, <6>1
        <5> QED BY <5>1, <5>2
      <4>4. \A i \in 1 .. Len(misses) : i + 1 \in 1 .. size
        BY <3>2, <4>1
      <4>5. 1 \in 1 .. size
        BY <3>2, <4>1
      <4>6. \A x \in ToSet(misses) : \E i \in 1 .. size : named[i] = x
        BY <3>2, <4>1, <4>4
      <4> QED BY <3>2, <4>3, <4>5, <4>6
    <3>5. ExtractNotFoundEins(details) = Dropping(named, {Noise})
      <4> DEFINE parts == [i \in DOMAIN details |-> Dropping(details[i].eins, {Noise})]
      <4>1. DOMAIN details = 1 .. 1 /\ details[1].eins = named
        <5> HIDE DEF named
        <5> QED OBVIOUS
      <4>2. parts = [i \in 1 .. 1 |-> Dropping(details[i].eins, {Noise})]
        <5> HIDE DEF details
        <5> QED BY <4>1
      <4>3. FlattenSeq(parts) = Dropping(details[1].eins, {Noise})
        <5> HIDE DEF details
        <5> DEFINE d == Dropping(details[1].eins, {Noise})
        <5>1. parts = [i \in 1 .. 1 |-> d]
          <6>1. \A i \in 1 .. 1 : i = 1
            OBVIOUS
          <6> QED BY <4>2, <6>1
        <5> HIDE DEF parts, d
        <5>2. FlattenSeq(parts) = d
          BY <5>1, FlattenOne
        <5> QED BY <5>2 DEF d
      <4>4. ExtractNotFoundEins(details) = FlattenSeq(parts)
        BY DEF ExtractNotFoundEins
      <4> HIDE DEF parts, details, named
      <4> QED BY <4>1, <4>3, <4>4
    <3>6. ToSet(Dropping(named, {Noise})) = ToSet(named) \ {Noise}
      <4> HIDE DEF named, size, All
      <4> QED BY <3>2, DroppingOfSeq
    <3>7. ToSet(named) = {named[i] : i \in 1 .. size}
      <4> HIDE DEF named, All
      <4> QED BY <3>3 DEF ToSet
    <3> HIDE DEF named, details, size, misses
    <3> QED BY <1>2, <1>3, <3>1, <3>4, <3>5, <3>6, <3>7
  <2> QED BY <2>1, <2>2
<1> QED
  BY <1>6, <1>7

-----------------------------------------------------------------------------
(* The client.                                                             *)

Arguments == [kind : {"list"}, items : Seq(Values)] \cup {BareString}

(* What a call that was not refused had been passed, and what it was not. *)
Acceptable(list) ==
    list.kind = "list" /\ Issues(list.items) = {} /\ Size(list.items) \in 1 .. MaxBulkEins

Accounted(list) ==
    LET eins == {list.items[i].ein : i \in DOMAIN list.items}
    IN  /\ ToSet(result.organizations) = eins \cap Known
        /\ ToSet(result.not_found_eins) = eins \ Known

ListInv ==
    /\ argument \in Arguments /\ passed \in Arguments /\ dedupe \in BOOLEAN
    /\ pc # "idle" => supplied = passed.items

StageInv ==
    /\ pc \in {"idle", "validating", "sending", "waiting", "done"}
    /\ pc # "done" => result = Pending
    /\ pc \in {"idle", "validating"} => requests = <<>>
    /\ pc = "validating" => passed.kind = "list" /\ passed.items # <<>>
    /\ pc = "sending" => Len(requests) < MaxAttempts
    /\ pc = "waiting" => requests # <<>> /\ Len(requests) <= MaxAttempts

BodyInv ==
    /\ payload \in Seq(Eins) /\ requests \in Seq({payload})
    /\ pc \in {"sending", "waiting"} \/ (pc = "done" /\ result.kind # "invalid") =>
          Acceptable(passed) /\ payload = BodyOf(passed.items)

ResultInv ==
    /\ pc = "done" /\ result.kind = "invalid" =>
          /\ requests = <<>> /\ result.indices = Issues(passed.items)
          /\ ~Acceptable(passed)
    /\ pc = "done" /\ result.kind = "returned" => Accounted(passed)

ClientInv == ListInv /\ StageInv /\ BodyInv /\ ResultInv

ClientStep ==
    \/ Materialize \/ Validate \/ Send \/ Retry \/ CallerEdits
    \/ \E status, form : \E dataShape \in {"array", "wrapped"}, errorShape \in {"list", "object"} :
          Answer(status, dataShape, errorShape, form)
    \/ UNCHANGED vars

LEMMA ArgumentItems ==
    ASSUME NEW list \in Arguments
    PROVE  list.items \in Seq(Values)
<1>1. CASE list = BareString
  <2>1. <<>> \in Seq(Values)
    OBVIOUS
  <2> QED BY <1>1, <2>1 DEF BareString
<1>2. CASE list \in [kind : {"list"}, items : Seq(Values)]
  BY <1>2
<1> QED
  BY <1>1, <1>2 DEF Arguments

LEMMA ClientInvInitially ==
    ASSUME Init
    PROVE  ClientInv
<1>1. argument \in Arguments /\ passed = argument
  <2>1. BoundedSeq(Values, MaxLength) \subseteq Seq(Values)
    BY BulkCheckAssumption DEF BoundedSeq, SeqOf
  <2> QED BY <2>1 DEF Init, Lists, Arguments
<1>2. Pending.kind = "pending"
  BY DEF Pending
<1> QED
  BY <1>1, <1>2 DEF Init, ClientInv, ListInv, StageInv, BodyInv, ResultInv

(* The EINs of an acceptable list are one at least, and as many as its body has. *)
LEMMA BodyOfAcceptable ==
    ASSUME NEW list \in Arguments, list.kind = "list", list.items # <<>>, dedupe \in BOOLEAN
    PROVE  /\ list.items \in Seq(Values)
           /\ IsBodyOf(BodyOf(list.items), list.items)
           /\ Size(list.items) = Len(BodyOf(list.items))
           /\ Size(list.items) \in Nat \ {0}
<1>1. list.items \in Seq(Values)
  BY DEF Arguments, BareString
<1>2. IsBodyOf(BodyOf(list.items), list.items)
  BY <1>1, BodyIs
<1> DEFINE body == BodyOf(list.items)
<1>3. /\ body \in Seq(Eins) /\ Len(body) = Size(list.items)
      /\ ToSet(body) = {list.items[i].ein : i \in DOMAIN list.items}
  BY <1>2 DEF IsBodyOf
<1>4. ToSet(body) # {}
  <2>1. 1 \in DOMAIN list.items
    BY <1>1
  <2> HIDE DEF body
  <2> QED BY <1>3, <2>1
<1>5. Len(body) # 0
  <2> HIDE DEF body
  <2> QED BY <1>3, <1>4 DEF ToSet
<1> HIDE DEF body
<1>6. Size(list.items) \in Nat \ {0}
  BY <1>3, <1>5
<1> QED
  BY <1>1, <1>2, <1>3, <1>6 DEF body

LEMMA MaterializeKeepsInv ==
    ASSUME ClientInv, Materialize
    PROVE  ClientInv'
<1>1. /\ argument' = argument /\ dedupe' = dedupe /\ payload' = payload /\ requests' = requests
      /\ passed' = argument /\ supplied' = argument.items /\ pc = "idle"
  BY DEF Materialize
<1>2. /\ argument \in Arguments /\ dedupe \in BOOLEAN /\ requests = <<>> /\ result = Pending
      /\ payload \in Seq(Eins) /\ requests \in Seq({payload})
  BY <1>1 DEF ClientInv, ListInv, StageInv, BodyInv
<1>3. CASE argument.kind # "list" /\ Reject("not a sequence", {})
  <2>1. argument = BareString
    BY <1>2, <1>3 DEF Arguments
  <2>2. Issues(argument.items) = {}
    BY <2>1 DEF BareString, Issues
  <2>3. pc' = "done" /\ result'.kind = "invalid" /\ result'.indices = {}
    BY <1>3 DEF Reject, Invalid
  <2>4. ~Acceptable(passed)'
    BY <1>1, <1>3 DEF Acceptable
  <2>5. Issues(passed.items)' = {}
    BY <1>1, <2>2 DEF Issues
  <2> QED
    BY <1>1, <1>2, <2>3, <2>4, <2>5 DEF ClientInv, ListInv, StageInv, BodyInv, ResultInv
<1>4. CASE argument.kind = "list" /\ argument.items = <<>> /\ Reject("no EIN", {})
  <2>1. Issues(argument.items) = {}
    <3>1. DOMAIN <<>> = {}
      OBVIOUS
    <3> QED BY <1>4, <3>1 DEF Issues
  <2>2. pc' = "done" /\ result'.kind = "invalid" /\ result'.indices = {}
    BY <1>4 DEF Reject, Invalid
  <2>3. ~Acceptable(passed)'
    <3>1. Cardinality({}) = 0 /\ Len(<<>>) = 0 /\ DOMAIN <<>> = {}
      BY FS_EmptySet
    <3>2. {argument.items[i].ein : i \in DOMAIN argument.items} = {}
      BY <1>4, <3>1
    <3>3. Size(passed.items)' = 0
      BY <1>1, <1>4, <3>1, <3>2 DEF Size
    <3> QED BY <3>3 DEF Acceptable
  <2>4. Issues(passed.items)' = {}
    BY <1>1, <2>1 DEF Issues
  <2> QED
    BY <1>1, <1>2, <2>2, <2>3, <2>4 DEF ClientInv, ListInv, StageInv, BodyInv, ResultInv
<1>5. CASE argument.kind = "list" /\ argument.items # <<>> /\ pc' = "validating" /\ UNCHANGED result
  BY <1>1, <1>2, <1>5 DEF ClientInv, ListInv, StageInv, BodyInv, ResultInv
<1> QED
  BY <1>3, <1>4, <1>5 DEF Materialize

LEMMA ValidateKeepsInv ==
    ASSUME ClientInv, Validate
    PROVE  ClientInv'
<1>1. /\ argument' = argument /\ dedupe' = dedupe /\ supplied' = supplied /\ requests' = requests
      /\ passed' = passed /\ pc = "validating"
  BY DEF Validate
<1>2. /\ argument \in Arguments /\ passed \in Arguments /\ dedupe \in BOOLEAN
      /\ requests = <<>> /\ payload \in Seq(Eins) /\ result = Pending
      /\ supplied = passed.items /\ passed.kind = "list" /\ passed.items # <<>>
  BY <1>1 DEF ClientInv, ListInv, StageInv, BodyInv
<1> DEFINE body == BodyOf(supplied)
<1>3. /\ IsBodyOf(body, passed.items) /\ body \in Seq(Eins)
      /\ Size(passed.items) = Len(body) /\ Size(passed.items) \in Nat \ {0}
  BY <1>2, BodyOfAcceptable DEF IsBodyOf
<1>4. Acceptable(passed)' = Acceptable(passed) /\ Issues(passed.items)' = Issues(passed.items)
  BY <1>1 DEF Acceptable, Issues, Size
<1>5. requests \in Seq({payload}) /\ \A other : <<>> \in Seq({other})
  BY <1>2
<1>6. CASE Issues(supplied) # {} /\ Reject("bad EIN", Issues(supplied)) /\ UNCHANGED payload
  <2>1. pc' = "done" /\ result'.kind = "invalid" /\ result'.indices = Issues(supplied)
    BY <1>6 DEF Reject, Invalid
  <2>2. ~Acceptable(passed)
    BY <1>2, <1>6 DEF Acceptable
  <2> QED
    BY <1>1, <1>2, <1>4, <1>5, <1>6, <2>1, <2>2 DEF ClientInv, ListInv, StageInv, BodyInv, ResultInv
<1>7. CASE /\ Issues(supplied) = {} /\ Len(body) > MaxBulkEins
           /\ Reject("too many", {}) /\ UNCHANGED payload
  <2>1. pc' = "done" /\ result'.kind = "invalid" /\ result'.indices = {}
    BY <1>7 DEF Reject, Invalid
  <2>2. ~Acceptable(passed)
    <3> HIDE DEF body
    <3>1. ~(Size(passed.items) <= MaxBulkEins)
      <4>1. Len(body) > MaxBulkEins /\ MaxBulkEins \in Nat
        BY <1>7, BulkCheckAssumption
      <4>2. Len(body) = Size(passed.items) /\ Size(passed.items) \in Nat
        BY <1>3
      <4> QED BY <4>1, <4>2
    <3> QED BY <3>1, <1>3, BulkCheckAssumption DEF Acceptable
  <2> QED
    BY <1>1, <1>2, <1>4, <1>5, <1>7, <2>1, <2>2 DEF ClientInv, ListInv, StageInv, BodyInv, ResultInv
<1>8. CASE /\ Issues(supplied) = {} /\ Len(body) <= MaxBulkEins
           /\ payload' = body /\ pc' = "sending" /\ UNCHANGED result
  <2>1. Acceptable(passed)
    <3> HIDE DEF body
    <3> QED BY <1>2, <1>3, <1>8, BulkCheckAssumption DEF Acceptable
  <2>2. payload' = BodyOf(passed.items)'
    BY <1>1, <1>2, <1>8 DEF BodyOf
  <2>3. payload' \in Seq(Eins) /\ requests' \in Seq({payload'})
    BY <1>1, <1>2, <1>3, <1>5, <1>8
  <2>4. (Len(requests) < MaxAttempts)'
    <3>1. Len(<<>>) = 0 /\ requests' = <<>>
      BY <1>1, <1>2
    <3> QED BY <3>1, BulkCheckAssumption
  <2> QED
    BY <1>1, <1>2, <1>4, <1>8, <2>1, <2>2, <2>3, <2>4 DEF ClientInv, ListInv, StageInv, BodyInv, ResultInv
<1> QED
  BY <1>6, <1>7, <1>8 DEF Validate

(* Nothing that is said of the list that was passed changes later. *)
LEMMA PassedStays ==
    ASSUME passed' = passed, dedupe' = dedupe, result' = result
    PROVE  /\ Acceptable(passed)' = Acceptable(passed)
           /\ Issues(passed.items)' = Issues(passed.items)
           /\ BodyOf(passed.items)' = BodyOf(passed.items)
           /\ Accounted(passed)' = Accounted(passed)
BY DEF Acceptable, Issues, Size, BodyOf, Accounted

LEMMA SendKeepsInv ==
    ASSUME ClientInv, Send
    PROVE  ClientInv'
<1>1. /\ pc = "sending" /\ pc' = "waiting" /\ requests' = Append(requests, payload)
      /\ UNCHANGED <<argument, dedupe, supplied, payload, result, passed, edits>>
  BY DEF Send
<1>2. requests \in Seq({payload})
  BY DEF ClientInv, BodyInv
<1>3. requests' \in Seq({payload'}) /\ requests' # <<>>
  BY <1>1, <1>2
<1>5. (Len(requests) <= MaxAttempts)'
  <2>1. Len(requests) \in Nat /\ Len(requests)' = Len(requests) + 1
    BY <1>1, <1>2
  <2>2. Len(requests) < MaxAttempts
    BY <1>1 DEF ClientInv, StageInv
  <2> QED BY <2>1, <2>2, BulkCheckAssumption
<1>4. /\ Acceptable(passed)' = Acceptable(passed)
      /\ BodyOf(passed.items)' = BodyOf(passed.items)
  BY <1>1, PassedStays
<1> QED
  BY <1>1, <1>3, <1>4, <1>5 DEF ClientInv, ListInv, StageInv, BodyInv, ResultInv

LEMMA RetryKeepsInv ==
    ASSUME ClientInv, Retry
    PROVE  ClientInv'
<1>1. /\ pc = "waiting" /\ pc' \in {"sending", "done"}
      /\ pc' = "sending" => result' = result /\ Len(requests) < MaxAttempts
      /\ pc' = "done" => result' = [kind |-> "failed"]
      /\ UNCHANGED <<argument, dedupe, supplied, payload, requests, passed, edits>>
  BY DEF Retry
<1>2. /\ Acceptable(passed)' = Acceptable(passed)
      /\ BodyOf(passed.items)' = BodyOf(passed.items)
  BY <1>1 DEF Acceptable, Issues, Size, BodyOf
<1>3. [kind |-> "failed"].kind = "failed"
  OBVIOUS
<1>4. pc' = "done" => result'.kind = "failed"
  BY <1>1, <1>3
<1> QED
  BY <1>1, <1>2, <1>4 DEF ClientInv, ListInv, StageInv, BodyInv, ResultInv

LEMMA AnswerKeepsInv ==
    ASSUME ClientInv, NEW status, NEW form,
           NEW dataShape \in {"array", "wrapped"}, NEW errorShape \in {"list", "object"},
           Answer(status, dataShape, errorShape, form)
    PROVE  ClientInv'
<1> DEFINE eins == requests[Len(requests)]
           organizations == ExtractOrganizations(DataOf(eins, dataShape))
           missing == ExtractNotFoundEins(NormalizeApiErrors(ErrorsOf(eins, errorShape, form)))
<1>1. /\ pc = "waiting" /\ pc' = "done"
      /\ UNCHANGED <<argument, dedupe, supplied, payload, requests, passed, edits>>
      /\ result' = IF status = 404 THEN [kind |-> "not found"]
                   ELSE IF status # 200 THEN [kind |-> "failed"]
                   ELSE [kind |-> "returned", organizations |-> organizations,
                         not_found_eins |-> missing]
  BY DEF Answer
<1>2. /\ requests \in Seq({payload}) /\ requests # <<>> /\ payload \in Seq(Eins)
      /\ Acceptable(passed) /\ payload = BodyOf(passed.items)
      /\ passed \in Arguments /\ dedupe \in BOOLEAN
  BY <1>1 DEF ClientInv, ListInv, StageInv, BodyInv
<1>3. eins = payload
  BY <1>2
<1>4. /\ ToSet(organizations) = ToSet(payload) \cap Known
      /\ ToSet(missing) = ToSet(payload) \ Known
  BY <1>2, <1>3, AnswerAccountsForAll
<1>5. ToSet(payload) = {passed.items[i].ein : i \in DOMAIN passed.items}
  <2>1. passed.items \in Seq(Values)
    BY <1>2, ArgumentItems
  <2> QED BY <1>2, <2>1, BodyIs DEF IsBodyOf
<1>6. result'.kind \in {"not found", "failed", "returned"}
  <2> HIDE DEF organizations, missing
  <2> QED BY <1>1
<1>7. result'.kind = "returned" =>
         result'.organizations = organizations /\ result'.not_found_eins = missing
  <2> HIDE DEF organizations, missing
  <2> QED BY <1>1
<1>8. result'.kind = "returned" => Accounted(passed)'
  <2> SUFFICES ASSUME result'.kind = "returned" PROVE Accounted(passed)'
    OBVIOUS
  <2>1. /\ result'.organizations = organizations /\ result'.not_found_eins = missing
        /\ passed' = passed
    BY <1>1, <1>7
  <2> HIDE DEF organizations, missing
  <2>2. /\ ToSet(result'.organizations) = ToSet(payload) \cap Known
        /\ ToSet(result'.not_found_eins) = ToSet(payload) \ Known
    BY <1>4, <2>1
  <2>3. {passed'.items[i].ein : i \in DOMAIN passed'.items} = ToSet(payload)
    BY <1>5, <2>1
  <2> QED
    BY <2>2, <2>3 DEF Accounted
<1>9. /\ Acceptable(passed)' = Acceptable(passed)
      /\ BodyOf(passed.items)' = BodyOf(passed.items)
  BY <1>1 DEF Acceptable, Issues, Size, BodyOf
<1> HIDE DEF organizations, missing, eins
<1> QED
  BY <1>1, <1>6, <1>8, <1>9 DEF ClientInv, ListInv, StageInv, BodyInv, ResultInv

LEMMA CallerEditsKeepsInv ==
    ASSUME ClientInv, CallerEdits
    PROVE  ClientInv'
<1>1. /\ pc \notin {"idle", "done"} /\ argument.kind = "list"
      /\ UNCHANGED <<dedupe, pc, supplied, payload, requests, result, passed>>
  BY DEF CallerEdits
<1>2. argument \in [kind : {"list"}, items : Seq(Values)]
  BY <1>1 DEF ClientInv, ListInv, Arguments, BareString
<1>3. argument' \in Arguments
  <2>1. PICK value \in Values :
            \/ \E i \in DOMAIN argument.items : argument' = [argument EXCEPT !.items[i] = value]
            \/ argument' = [argument EXCEPT !.items = Append(@, value)]
    BY DEF CallerEdits
  <2>2. argument.items \in Seq(Values)
    BY <1>2
  <2>3. Append(argument.items, value) \in Seq(Values)
    BY <2>2
  <2>4. \A i \in DOMAIN argument.items : [argument.items EXCEPT ![i] = value] \in Seq(Values)
    BY <2>2
  <2>5. argument' \in [kind : {"list"}, items : Seq(Values)]
    BY <1>2, <2>1, <2>3, <2>4
  <2> QED BY <2>5 DEF Arguments
<1>4. /\ Acceptable(passed)' = Acceptable(passed)
      /\ BodyOf(passed.items)' = BodyOf(passed.items)
  BY <1>1, PassedStays
<1> QED
  BY <1>1, <1>3, <1>4 DEF ClientInv, ListInv, StageInv, BodyInv, ResultInv

LEMMA ClientStepKeepsInv ==
    ASSUME ClientInv, ClientStep
    PROVE  ClientInv'
<1>1. CASE UNCHANGED vars
  <2>1. UNCHANGED <<argument, dedupe, pc, supplied, payload, requests, result, passed>>
    BY <1>1 DEF vars
  <2>2. /\ Acceptable(passed)' = Acceptable(passed)
        /\ Issues(passed.items)' = Issues(passed.items)
        /\ BodyOf(passed.items)' = BodyOf(passed.items)
        /\ Accounted(passed)' = Accounted(passed)
    BY <2>1, PassedStays
  <2> QED
    BY <2>1, <2>2 DEF ClientInv, ListInv, StageInv, BodyInv, ResultInv
<1> QED
  BY <1>1, MaterializeKeepsInv, ValidateKeepsInv, SendKeepsInv, RetryKeepsInv,
     AnswerKeepsInv, CallerEditsKeepsInv DEF ClientStep

(* Every step of the composition is a step of the client, or none of it. *)
LEMMA ClientInvariant ==
    CompositeSpec => []ClientInv
<1>1. CompositeInit => ClientInv
  BY ClientInvInitially DEF CompositeInit
<1>2. ClientInv /\ [CompositeNext]_allVars => ClientInv'
  <2>1. [CompositeNext]_allVars => ClientStep
    BY DEF CompositeNext, Client, Attempt, Deliver, AnotherAsks, Serving, allVars, ClientStep
  <2> QED BY <2>1, ClientStepKeepsInv
<1> QED
  BY <1>1, <1>2, PTL DEF CompositeSpec

(* A call is refused exactly when the list it was passed has a value that is no
   EIN, or too many or no EINs, and then nothing was sent and every offending
   index is reported (check_bulk and _bulk_payload). *)
THEOREM AllOrNothingTheorem ==
    CompositeSpec => []AllOrNothing
<1>1. ClientInv => AllOrNothing
  <2> SUFFICES ASSUME ClientInv, pc # "idle", pc # "validating"
               PROVE  IF Acceptable(passed) THEN result.kind # "invalid"
                      ELSE /\ result.kind = "invalid"
                           /\ result.indices = Issues(passed.items) /\ requests = <<>>
    BY DEF AllOrNothing, Acceptable, Issues, Size
  <2>1. CASE pc = "done"
    BY <2>1 DEF ClientInv, BodyInv, ResultInv
  <2>2. CASE pc # "done"
    <3>1. result = Pending /\ Acceptable(passed)
      BY <2>2 DEF ClientInv, StageInv, BodyInv
    <3> QED BY <3>1 DEF Pending
  <2> QED BY <2>1, <2>2
<1> QED
  BY <1>1, ClientInvariant, PTL

(* Every attempt has the EINs of the list that was passed, in its order, each
   as often as it is there or, with dedupe, once and where it first was,
   whatever has become of the list since the call (_bulk_payload and the
   request plan). *)
THEOREM SendsTheorem ==
    CompositeSpec => []SendsWhatWasPassed
<1>1. ClientInv => SendsWhatWasPassed
  <2> SUFFICES ASSUME ClientInv, NEW k \in DOMAIN requests
               PROVE  /\ Len(requests[k]) = Cardinality(Wanted(passed.items))
                      /\ \A i \in Wanted(passed.items) :
                            requests[k][Rank(Wanted(passed.items), i)] = passed.items[i].ein
    BY DEF SendsWhatWasPassed, Wanted, Rank
  <2>1. /\ requests \in Seq({payload}) /\ requests[k] = payload /\ requests # <<>>
        /\ passed \in Arguments /\ dedupe \in BOOLEAN
    BY DEF ClientInv, ListInv, BodyInv
  <2>2. Acceptable(passed) /\ payload = BodyOf(passed.items)
    BY <2>1 DEF ClientInv, StageInv, BodyInv, ResultInv
  <2>3. passed.items \in Seq(Values)
    BY <2>1, ArgumentItems
  <2>4. IsBodyOf(BodyOf(passed.items), passed.items)
    BY <2>1, <2>3, BodyIs
  <2> QED
    BY <2>1, <2>2, <2>4 DEF IsBodyOf
<1> QED
  BY <1>1, ClientInvariant, PTL

(* Every EIN passed comes back as an organization or among not_found_eins,
   never as both and never as neither, in every shape of the response
   (_extract_organizations, _extract_not_found_eins). *)
THEOREM EveryEinTheorem ==
    CompositeSpec => []EveryEinAccountedFor
<1>1. ClientInv => EveryEinAccountedFor
  <2> SUFFICES ASSUME ClientInv, result.kind = "returned"
               PROVE  EveryEinAccountedFor
    BY DEF EveryEinAccountedFor
  <2>1. pc = "done"
    BY DEF ClientInv, StageInv, Pending
  <2>2. Accounted(passed)
    BY <2>1 DEF ClientInv, ResultInv
  <2> QED
    BY <2>2 DEF Accounted, EveryEinAccountedFor
<1> QED
  BY <1>1, ClientInvariant, PTL

-----------------------------------------------------------------------------
(* Sums over the connections.                                              *)

Pick(s) == CHOOSE x \in s : TRUE

IsSum(g, iter) ==
    iter = [s \in SUBSET Connections |->
              IF s = {} THEN 0 ELSE g[Pick(s)] + iter[s \ {Pick(s)}]]

HasSum(g, total) == \E iter : IsSum(g, iter) /\ total = iter[Connections]

LEMMA Picked ==
    ASSUME NEW s \in SUBSET Connections
    PROVE  /\ IsFiniteSet(s) /\ Cardinality(s) \in Nat
           /\ s # {} => /\ Pick(s) \in s /\ Pick(s) \in Connections
                        /\ s \ {Pick(s)} \in SUBSET Connections
                        /\ Cardinality(s) # 0
                        /\ Cardinality(s \ {Pick(s)}) = Cardinality(s) - 1
<1>1. IsFiniteSet(s) /\ Cardinality(s) \in Nat
  BY MockServerAssumption, FS_Subset, FS_CardinalityType
<1>2. ASSUME s # {}
      PROVE  /\ Pick(s) \in s /\ Pick(s) \in Connections
             /\ s \ {Pick(s)} \in SUBSET Connections
  <2>1. \E x \in s : TRUE
    BY <1>2
  <2>2. Pick(s) \in s
    BY <2>1 DEF Pick
  <2> QED BY <2>2
<1>3. ASSUME s # {}
      PROVE  Cardinality(s) # 0 /\ Cardinality(s \ {Pick(s)}) = Cardinality(s) - 1
  BY <1>1, <1>2, <1>3, FS_EmptySet, FS_RemoveElement
<1> QED
  BY <1>1, <1>2, <1>3

(* Induction over the sets of connections, an element at a time. *)
LEMMA SubsetInduction ==
    ASSUME NEW Good \in SUBSET (SUBSET Connections), {} \in Good,
           \A s \in SUBSET Connections : s # {} /\ s \ {Pick(s)} \in Good => s \in Good
    PROVE  \A s \in SUBSET Connections : s \in Good
<1> DEFINE n == Cardinality(Connections)
           Upto == {k \in Nat : \A s \in SUBSET Connections : Cardinality(s) <= k => s \in Good}
<1>1. n \in Nat
  BY MockServerAssumption, FS_CardinalityType
<1>2. 0 \in Upto
  <2> SUFFICES ASSUME NEW s \in SUBSET Connections, Cardinality(s) <= 0 PROVE s \in Good
    OBVIOUS
  <2>1. Cardinality(s) \in Nat /\ (s # {} => Cardinality(s) # 0)
    BY Picked
  <2>2. s = {}
    BY <2>1
  <2> QED BY <2>2
<1>3. ASSUME NEW k \in 0 .. n - 1, k \in Upto
      PROVE  k + 1 \in Upto
  <2>1. k + 1 \in Nat
    BY <1>1
  <2> SUFFICES ASSUME NEW s \in SUBSET Connections, Cardinality(s) <= k + 1, s # {}
               PROVE  s \in Good
    BY <2>1
  <2>2. s \ {Pick(s)} \in SUBSET Connections /\ Cardinality(s) \in Nat
        /\ Cardinality(s \ {Pick(s)}) = Cardinality(s) - 1
    BY Picked
  <2>3. Cardinality(s \ {Pick(s)}) <= k
    BY <1>1, <2>2
  <2>4. s \ {Pick(s)} \in Good
    BY <1>3, <2>2, <2>3
  <2> QED BY <2>4
<1>4. n \in Upto
  <2> HIDE DEF Upto, n
  <2>1. Upto \in SUBSET Nat
    BY DEF Upto
  <2>2. \A k \in 0 .. n : k \in Upto
    BY <1>1, <1>2, <1>3, <2>1, Induction
  <2> QED BY <1>1, <2>2
<1>5. \A s \in SUBSET Connections : Cardinality(s) <= n
  BY MockServerAssumption, FS_Subset
<1> QED
  BY <1>4, <1>5

(* Whatever is to be summed, it has a sum. *)
LEMMA SumExists ==
    ASSUME NEW g \in [Connections -> Nat]
    PROVE  \E iter : IsSum(g, iter)
<1> DEFINE n == Cardinality(Connections)
           Next1(iter, s) == IF s = {} THEN 0 ELSE g[Pick(s)] + iter[s \ {Pick(s)}]
           Sums(k, iter) ==
              \A s \in SUBSET Connections : Cardinality(s) <= k => iter[s] = Next1(iter, s)
           Good == {k \in Nat : \E iter \in [SUBSET Connections -> Nat] : Sums(k, iter)}
<1>1. n \in Nat
  BY MockServerAssumption, FS_CardinalityType
<1>2. 0 \in Good
  <2> DEFINE zero == [s \in SUBSET Connections |-> 0]
  <2>1. zero \in [SUBSET Connections -> Nat]
    OBVIOUS
  <2>2. Sums(0, zero)
    <3> SUFFICES ASSUME NEW s \in SUBSET Connections, Cardinality(s) <= 0
                 PROVE  zero[s] = Next1(zero, s)
      OBVIOUS
    <3>1. Cardinality(s) \in Nat /\ (s # {} => Cardinality(s) # 0)
      BY Picked
    <3>2. s = {}
      BY <3>1
    <3> QED BY <3>2
  <2> HIDE DEF Sums
  <2> QED BY <2>1, <2>2
<1>3. ASSUME NEW k \in 0 .. n - 1, k \in Good
      PROVE  k + 1 \in Good
  <2>1. k \in Nat /\ k + 1 \in Nat
    BY <1>1
  <2>2. PICK iter \in [SUBSET Connections -> Nat] : Sums(k, iter)
    <3> HIDE DEF Sums
    <3> QED BY <1>3
  <2> DEFINE longer == [s \in SUBSET Connections |->
                          IF Cardinality(s) <= k THEN iter[s] ELSE Next1(iter, s)]
  <2>3. ASSUME NEW s \in SUBSET Connections, s # {}
        PROVE  g[Pick(s)] \in Nat /\ iter[s \ {Pick(s)}] \in Nat
    <3>1. Pick(s) \in Connections /\ s \ {Pick(s)} \in SUBSET Connections
      BY <2>3, Picked
    <3> QED BY <3>1, <2>2
  <2>4. longer \in [SUBSET Connections -> Nat]
    BY <2>2, <2>3
  <2>5. Sums(k + 1, longer)
    <3> SUFFICES ASSUME NEW s \in SUBSET Connections, Cardinality(s) <= k + 1
                 PROVE  longer[s] = Next1(longer, s)
      OBVIOUS
    <3>1. longer[s] = Next1(iter, s)
      BY <2>2
    <3>2. s # {} => longer[s \ {Pick(s)}] = iter[s \ {Pick(s)}]
      <4> SUFFICES ASSUME s # {} PROVE longer[s \ {Pick(s)}] = iter[s \ {Pick(s)}]
        OBVIOUS
      <4>1. s \ {Pick(s)} \in SUBSET Connections /\ Cardinality(s) \in Nat
            /\ Cardinality(s \ {Pick(s)}) = Cardinality(s) - 1
        BY Picked
      <4>2. Cardinality(s \ {Pick(s)}) <= k
        BY <2>1, <4>1
      <4> QED BY <4>1, <4>2
    <3> HIDE DEF longer
    <3> QED BY <3>1, <3>2
  <2> HIDE DEF longer, Sums
  <2> QED BY <2>1, <2>4, <2>5
<1>4. n \in Good
  <2> HIDE DEF Good, n
  <2>1. Good \in SUBSET Nat
    BY DEF Good
  <2>2. \A k \in 0 .. n : k \in Good
    BY <1>1, <1>2, <1>3, <2>1, Induction
  <2> QED BY <1>1, <2>2
<1>5. PICK iter \in [SUBSET Connections -> Nat] : Sums(n, iter)
  <2> HIDE DEF Sums
  <2> QED BY <1>4
<1>6. \A s \in SUBSET Connections : Cardinality(s) <= n
  BY MockServerAssumption, FS_Subset
<1>7. IsSum(g, iter)
  <2>1. \A s \in SUBSET Connections : iter[s] = Next1(iter, s)
    BY <1>5, <1>6
  <2>2. iter = [s \in SUBSET Connections |-> Next1(iter, s)]
    <3> HIDE DEF Next1
    <3> QED BY <1>5, <2>1
  <2> QED BY <2>2 DEF IsSum
<1> QED
  BY <1>7

LEMMA SumType ==
    ASSUME NEW g \in [Connections -> Nat], NEW total, HasSum(g, total)
    PROVE  total \in Nat
<1>1. PICK iter : IsSum(g, iter) /\ total = iter[Connections]
  BY DEF HasSum
<1>2. \A s \in SUBSET Connections : iter[s] = IF s = {} THEN 0 ELSE g[Pick(s)] + iter[s \ {Pick(s)}]
  BY <1>1 DEF IsSum
<1> DEFINE Good == {s \in SUBSET Connections : iter[s] \in Nat}
<1>3. {} \in Good
  <2>1. {} \in SUBSET Connections
    OBVIOUS
  <2>2. iter[{}] = 0
    BY <1>2, <2>1
  <2> QED BY <2>2
<1>4. ASSUME NEW s \in SUBSET Connections, s # {}, s \ {Pick(s)} \in Good
      PROVE  s \in Good
  <2>1. iter[s] = g[Pick(s)] + iter[s \ {Pick(s)}] /\ g[Pick(s)] \in Nat
    BY <1>2, <1>4, Picked
  <2>2. iter[s \ {Pick(s)}] \in Nat
    BY <1>4
  <2>3. iter[s] \in Nat
    BY <2>1, <2>2
  <2> QED BY <2>3
<1>5. \A s \in SUBSET Connections : s \in Good
  <2>1. Good \in SUBSET (SUBSET Connections)
    OBVIOUS
  <2> HIDE DEF Good
  <2> QED BY <1>3, <1>4, <2>1, SubsetInduction
<1> QED
  BY <1>1, <1>5

(* A sum changes by what one of its terms changes. *)
LEMMA SumChanges ==
    ASSUME NEW g \in [Connections -> Nat], NEW h \in [Connections -> Nat],
           NEW a, NEW b, HasSum(g, a), HasSum(h, b), NEW c \in Connections,
           \A d \in Connections : d # c => h[d] = g[d]
    PROVE  b = a + (h[c] - g[c])
<1>1. PICK iter : IsSum(g, iter) /\ a = iter[Connections]
  BY DEF HasSum
<1>2. PICK jter : IsSum(h, jter) /\ b = jter[Connections]
  BY DEF HasSum
<1>3. \A s \in SUBSET Connections :
         /\ iter[s] = IF s = {} THEN 0 ELSE g[Pick(s)] + iter[s \ {Pick(s)}]
         /\ jter[s] = IF s = {} THEN 0 ELSE h[Pick(s)] + jter[s \ {Pick(s)}]
  BY <1>1, <1>2 DEF IsSum
<1> DEFINE Good == {s \in SUBSET Connections :
                      /\ iter[s] \in Nat /\ jter[s] \in Nat
                      /\ jter[s] = IF c \in s THEN iter[s] + (h[c] - g[c]) ELSE iter[s]}
<1>4. {} \in Good
  BY <1>3
<1>5. ASSUME NEW s \in SUBSET Connections, s # {}, s \ {Pick(s)} \in Good
      PROVE  s \in Good
  <2>1. Pick(s) \in s /\ Pick(s) \in Connections
    BY <1>5, Picked
  <2>2. /\ iter[s] = g[Pick(s)] + iter[s \ {Pick(s)}]
        /\ jter[s] = h[Pick(s)] + jter[s \ {Pick(s)}]
    BY <1>3, <1>5
  <2>3. g[Pick(s)] \in Nat /\ h[Pick(s)] \in Nat /\ g[c] \in Nat /\ h[c] \in Nat
    BY <2>1
  <2>4. CASE Pick(s) = c
    BY <1>5, <2>1, <2>2, <2>3, <2>4
  <2>5. CASE Pick(s) # c
    <3>1. h[Pick(s)] = g[Pick(s)] /\ (c \in s \ {Pick(s)} <=> c \in s)
      BY <2>1, <2>5
    <3> QED BY <1>5, <2>2, <2>3, <3>1
  <2> QED BY <2>4, <2>5
<1>6. \A s \in SUBSET Connections : s \in Good
  <2>1. Good \in SUBSET (SUBSET Connections)
    OBVIOUS
  <2> HIDE DEF Good
  <2> QED BY <1>4, <1>5, <2>1, SubsetInduction
<1> QED
  BY <1>1, <1>2, <1>6

(* Nothing to sum is nothing. *)
LEMMA SumOfZeros ==
    ASSUME NEW g \in [Connections -> Nat], NEW total, HasSum(g, total),
           \A c \in Connections : g[c] = 0
    PROVE  total = 0
<1>1. PICK iter : IsSum(g, iter) /\ total = iter[Connections]
  BY DEF HasSum
<1>2. \A s \in SUBSET Connections : iter[s] = IF s = {} THEN 0 ELSE g[Pick(s)] + iter[s \ {Pick(s)}]
  BY <1>1 DEF IsSum
<1> DEFINE Good == {s \in SUBSET Connections : iter[s] = 0}
<1>3. {} \in Good
  BY <1>2
<1>4. ASSUME NEW s \in SUBSET Connections, s # {}, s \ {Pick(s)} \in Good
      PROVE  s \in Good
  BY <1>2, <1>4, Picked
<1>5. \A s \in SUBSET Connections : s \in Good
  <2>1. Good \in SUBSET (SUBSET Connections)
    OBVIOUS
  <2> HIDE DEF Good
  <2> QED BY <1>3, <1>4, <2>1, SubsetInduction
<1> QED
  BY <1>1, <1>5

-----------------------------------------------------------------------------
(* The server.                                                             *)

Requests == {Keyless} \cup OtherRequests \cup {Bulk(eins) : eins \in Seq(Eins)}
Replies == {NoAnswer} \cup [status : Nat, count : Int]
Stages == {"waiting", "arrived", "failing", "serving", "counted", "answered"}
Handlers == [pc : Stages, request : Requests, answer : Replies]

(* What a thread is due and what it owes, of its state. *)
FoundIn(eins) == {i \in DOMAIN eins : eins[i] \in FixtureEins}
NotFoundIn(eins) == DOMAIN eins \ FoundIn(eins)
DueOf(handler) ==
    CASE handler.request.kind = "bulk" /\ handler.pc \in {"counted", "answered"}
         /\ RefusedWith(handler.request) = 0 -> Cardinality(FoundIn(handler.request.eins))
      [] handler.request.kind = "single" /\ handler.answer.status = 200 -> 1
      [] OTHER -> 0
OwedOf(handler) ==
    IF handler.pc = "counted" THEN Cardinality(NotFoundIn(handler.request.eins)) ELSE 0

DueBy == [c \in Connections |-> DueOf(handlers[c])]
OwedBy == [c \in Connections |-> OwedOf(handlers[c])]

(* What is true of a thread at each of its stages. *)
InOrder(handler) ==
    /\ handler.pc = "waiting" => handler = Waiting
    /\ handler.pc # "answered" => handler.answer = NoAnswer
    /\ handler.pc \in {"failing", "serving"} => handler.request.kind = "single"
    /\ handler.pc = "counted" => handler.request.kind = "bulk"

ThreadInv ==
    /\ used \in Int
    /\ handlers \in [Connections -> Handlers]
    /\ \A c \in Connections : InOrder(handlers[c])

LEMMA RequestShape ==
    ASSUME NEW request \in Requests
    PROVE  /\ Len(request.eins) \in Nat /\ DOMAIN request.eins = 1 .. Len(request.eins)
           /\ IsFiniteSet(FoundIn(request.eins)) /\ IsFiniteSet(NotFoundIn(request.eins))
           /\ Cardinality(FoundIn(request.eins)) \in Nat
           /\ Cardinality(NotFoundIn(request.eins)) \in Nat
           /\ Cardinality(FoundIn(request.eins)) + Cardinality(NotFoundIn(request.eins))
                 = Len(request.eins)
<1> DEFINE eins == request.eins
           found == FoundIn(eins)
           missing == NotFoundIn(eins)
           all == 1 .. Len(eins)
<1>1. Len(eins) \in Nat /\ DOMAIN eins = all
  <2>1. CASE request = Keyless
    <3>1. Len(<<>>) = 0 /\ DOMAIN <<>> = 1 .. 0
      OBVIOUS
    <3>2. eins = <<>>
      BY <2>1 DEF Keyless
    <3> QED BY <3>1, <3>2
  <2>2. CASE request \in OtherRequests
    BY <2>2, BulkAgainstServerAssumption
  <2>3. CASE request \in {Bulk(list) : list \in Seq(Eins)}
    <3>1. eins \in Seq(Eins)
      BY <2>3 DEF Bulk
    <3> HIDE DEF eins
    <3> QED BY <3>1
  <2> QED BY <2>1, <2>2, <2>3 DEF Requests
<1>2. IsFiniteSet(all) /\ Cardinality(all) = Len(eins)
  <2> DEFINE size == Len(eins)
  <2>1. size \in Nat
    BY <1>1
  <2> HIDE DEF size
  <2>2. IsFiniteSet(1 .. size) /\ Cardinality(1 .. size) = size
    BY <2>1, FS_Interval
  <2> QED BY <2>2 DEF size
<1>3. found \in SUBSET all /\ missing = all \ found
  <2> HIDE DEF eins
  <2> QED BY <1>1 DEF FoundIn, NotFoundIn
<1> HIDE DEF eins, all, found, missing
<1>4. /\ IsFiniteSet(missing)
      /\ Cardinality(missing) = Cardinality(all) - Cardinality(all \cap found)
  BY <1>2, <1>3, FS_Difference
<1>5. all \cap found = found /\ IsFiniteSet(found)
  BY <1>2, <1>3, FS_Subset
<1>6. Cardinality(found) \in Nat /\ Cardinality(missing) \in Nat
  BY <1>4, <1>5, FS_CardinalityType
<1>7. Cardinality(found) + Cardinality(missing) = Len(eins)
  <2>1. Cardinality(missing) = Cardinality(all) - Cardinality(found)
    BY <1>4, <1>5
  <2>2. Cardinality(all) \in Nat
    BY <1>2, FS_CardinalityType
  <2>3. Cardinality(found) + Cardinality(missing) = Cardinality(all)
    BY <1>6, <2>1, <2>2
  <2> QED BY <1>2, <2>3
<1> QED
  BY <1>1, <1>4, <1>5, <1>6, <1>7 DEF eins, all, found, missing

LEMMA RefusedWithIs ==
    ASSUME NEW request
    PROVE  RefusedWith(request) \in {0, 400, 401, 404, 429}
<1> DEFINE keyless == request.kind = "keyless"
           elsewhere == request.kind = "elsewhere"
           garbled == request.kind = "garbled"
           long == request.kind = "bulk" /\ Len(request.eins) > MAX_BULK_EINS
           limited == request.kind = "single" /\ request.eins = <<RateLimited>>
           unknown == /\ request.kind = "single" /\ request.eins # <<RateLimited>>
                      /\ request.eins[1] \notin FixtureEins \cup {Transient, Slow}
           chosen == CASE keyless -> 401 [] elsewhere -> 404 [] garbled -> 400
                       [] long -> 400 [] limited -> 429 [] unknown -> 404 [] OTHER -> 0
<1>1. RefusedWith(request) = chosen
  BY DEF RefusedWith
<1>2. /\ keyless => ~elsewhere /\ ~garbled /\ ~long /\ ~limited /\ ~unknown
      /\ elsewhere => ~garbled /\ ~long /\ ~limited /\ ~unknown
      /\ garbled => ~long /\ ~limited /\ ~unknown
      /\ long => ~limited /\ ~unknown
      /\ limited => ~unknown
  OBVIOUS
<1> HIDE DEF keyless, elsewhere, garbled, long, limited, unknown
<1>3. CASE keyless
  BY <1>2, <1>3, <1>1, Zenon
<1>4. CASE elsewhere
  BY <1>2, <1>4, <1>1, Zenon
<1>5. CASE garbled
  BY <1>2, <1>5, <1>1, Zenon
<1>6. CASE long
  BY <1>2, <1>6, <1>1, Zenon
<1>7. CASE limited
  BY <1>2, <1>7, <1>1, Zenon
<1>8. CASE unknown
  BY <1>2, <1>8, <1>1, Zenon
<1>9. CASE ~keyless /\ ~elsewhere /\ ~garbled /\ ~long /\ ~limited /\ ~unknown
  BY <1>9, <1>1, Zenon
<1> QED
  BY <1>3, <1>4, <1>5, <1>6, <1>7, <1>8, <1>9

LEMMA DueOfIs ==
    ASSUME NEW handler
    PROVE  /\ /\ handler.request.kind = "bulk" /\ handler.pc \in {"counted", "answered"}
              /\ RefusedWith(handler.request) = 0
              => DueOf(handler) = Cardinality(FoundIn(handler.request.eins))
           /\ handler.request.kind = "single" /\ handler.answer.status = 200
              => DueOf(handler) = 1
           /\ /\ ~(/\ handler.request.kind = "bulk" /\ handler.pc \in {"counted", "answered"}
                   /\ RefusedWith(handler.request) = 0)
              /\ ~(handler.request.kind = "single" /\ handler.answer.status = 200)
              => DueOf(handler) = 0
<1>1. "single" # "bulk"
  OBVIOUS
<1> QED
  BY <1>1, Zenon DEF DueOf

LEMMA DueType ==
    ASSUME NEW handler \in Handlers
    PROVE  DueOf(handler) \in Nat /\ OwedOf(handler) \in Nat
<1>1. handler.request \in Requests
  BY DEF Handlers
<1>2. /\ Cardinality(FoundIn(handler.request.eins)) \in Nat
      /\ Cardinality(NotFoundIn(handler.request.eins)) \in Nat
  BY <1>1, RequestShape
<1>3. OwedOf(handler) \in Nat
  BY <1>2 DEF OwedOf
<1>4. DueOf(handler) \in Nat
  BY <1>2, DueOfIs
<1> QED
  BY <1>3, <1>4

(* The totals are the sums of what each thread is due and owes. *)
LEMMA Totals ==
    ThreadInv =>
        /\ DueBy \in [Connections -> Nat] /\ OwedBy \in [Connections -> Nat]
        /\ HasSum(DueBy, Total(Due)) /\ HasSum(OwedBy, Total(Owed))
<1> SUFFICES ASSUME ThreadInv
             PROVE  /\ DueBy \in [Connections -> Nat] /\ OwedBy \in [Connections -> Nat]
                    /\ HasSum(DueBy, Total(Due)) /\ HasSum(OwedBy, Total(Owed))
  OBVIOUS
<1>1. DueBy \in [Connections -> Nat] /\ OwedBy \in [Connections -> Nat]
  BY DueType DEF ThreadInv, DueBy, OwedBy
<1>2. \A c \in Connections : Due(c) = DueBy[c] /\ Owed(c) = OwedBy[c]
  <2> TAKE c \in Connections
  <2>1. Due(c) = DueOf(handlers[c])
    BY Zenon DEF Due, DueOf, Found, FoundIn
  <2>2. Owed(c) = OwedOf(handlers[c])
    BY DEF Owed, OwedOf, At, NotFound, NotFoundIn, Found, FoundIn
  <2> QED BY <2>1, <2>2 DEF DueBy, OwedBy
<1> DEFINE SumsDue(iter) ==
              iter = [s \in SUBSET Connections |->
                        IF s = {} THEN 0 ELSE Due(Pick(s)) + iter[s \ {Pick(s)}]]
           SumsOwed(iter) ==
              iter = [s \in SUBSET Connections |->
                        IF s = {} THEN 0 ELSE Owed(Pick(s)) + iter[s \ {Pick(s)}]]
<1>3. /\ Total(Due) = (CHOOSE iter : SumsDue(iter))[Connections]
      /\ Total(Owed) = (CHOOSE iter : SumsOwed(iter))[Connections]
  BY DEF Total, MapThenSumSet, MapThenFoldSet, Pick
<1>4. \A s \in SUBSET Connections : s # {} =>
         /\ Due(Pick(s)) = DueBy[Pick(s)] /\ Owed(Pick(s)) = OwedBy[Pick(s)]
  BY <1>2, Picked
<1>5. \A iter : (SumsDue(iter) <=> IsSum(DueBy, iter)) /\ (SumsOwed(iter) <=> IsSum(OwedBy, iter))
  <2> TAKE iter
  <2>1. [s \in SUBSET Connections |-> IF s = {} THEN 0 ELSE Due(Pick(s)) + iter[s \ {Pick(s)}]]
        = [s \in SUBSET Connections |-> IF s = {} THEN 0 ELSE DueBy[Pick(s)] + iter[s \ {Pick(s)}]]
    BY <1>4
  <2>2. [s \in SUBSET Connections |-> IF s = {} THEN 0 ELSE Owed(Pick(s)) + iter[s \ {Pick(s)}]]
        = [s \in SUBSET Connections |-> IF s = {} THEN 0 ELSE OwedBy[Pick(s)] + iter[s \ {Pick(s)}]]
    BY <1>4
  <2> QED BY <2>1, <2>2, Zenon DEF IsSum
<1>6. (\E iter : SumsDue(iter)) /\ (\E iter : SumsOwed(iter))
  <2> HIDE DEF SumsDue, SumsOwed
  <2>1. (\E iter : IsSum(DueBy, iter)) /\ (\E iter : IsSum(OwedBy, iter))
    BY <1>1, SumExists
  <2> QED BY <1>5, <2>1
<1>7. SumsDue(CHOOSE iter : SumsDue(iter)) /\ SumsOwed(CHOOSE iter : SumsOwed(iter))
  <2> HIDE DEF SumsDue, SumsOwed
  <2> QED BY <1>6
<1>8. HasSum(DueBy, Total(Due)) /\ HasSum(OwedBy, Total(Owed))
  <2> HIDE DEF SumsDue, SumsOwed
  <2> QED BY <1>3, <1>5, <1>7 DEF HasSum
<1> QED
  BY <1>1, <1>8

(* The step of one thread: what it makes of the thread and of the count. *)
Effect(c, handler) ==
    /\ handlers' = [handlers EXCEPT ![c] = handler]
    /\ handler \in Handlers /\ InOrder(handler)
    /\ used' = used + (DueOf(handler) - DueOf(handlers[c]))
                    + (OwedOf(handler) - OwedOf(handlers[c]))
    /\ handler.answer # NoAnswer /\ handler.answer.count # NoCount
       => handler.answer.count = used'

(* Such a step keeps the count, and what it tells is within the refunds. *)
LEMMA EffectKeepsCount ==
    ASSUME ThreadInv, UsedIsServedAndOwed, NEW c \in Connections, NEW handler,
           Effect(c, handler)
    PROVE  ThreadInv' /\ UsedIsServedAndOwed' /\ ToldWithinRefunds
<1>1. /\ handlers' = [handlers EXCEPT ![c] = handler] /\ handler \in Handlers /\ InOrder(handler)
      /\ used' = used + (DueOf(handler) - DueOf(handlers[c]))
                      + (OwedOf(handler) - OwedOf(handlers[c]))
      /\ handlers \in [Connections -> Handlers] /\ used \in Int
  BY DEF Effect, ThreadInv
<1>2. /\ handlers' \in [Connections -> Handlers] /\ handlers'[c] = handler
      /\ \A d \in Connections : d # c => handlers'[d] = handlers[d]
  BY <1>1
<1>3. /\ DueOf(handler) \in Nat /\ OwedOf(handler) \in Nat
      /\ DueOf(handlers[c]) \in Nat /\ OwedOf(handlers[c]) \in Nat
  BY <1>1, DueType
<1>4. ThreadInv'
  <2>1. used' \in Int
    BY <1>1, <1>3
  <2>2. \A d \in Connections : InOrder(handlers'[d])
    BY <1>1, <1>2 DEF ThreadInv
  <2> QED
    BY <1>2, <2>1, <2>2 DEF ThreadInv, InOrder
<1> DEFINE due == DueBy
           due2 == DueBy'
           owed == OwedBy
           owed2 == OwedBy'
<1>5. /\ due \in [Connections -> Nat] /\ owed \in [Connections -> Nat]
      /\ HasSum(due, Total(Due)) /\ HasSum(owed, Total(Owed))
  BY Totals
<1>6. /\ due2 \in [Connections -> Nat] /\ owed2 \in [Connections -> Nat]
      /\ HasSum(due2, Total(Due)') /\ HasSum(owed2, Total(Owed)')
  <2>1. (ThreadInv =>
           /\ DueBy \in [Connections -> Nat] /\ OwedBy \in [Connections -> Nat]
           /\ HasSum(DueBy, Total(Due)) /\ HasSum(OwedBy, Total(Owed)))'
    BY Totals, PTL
  <2>2. /\ DueBy' \in [Connections -> Nat] /\ OwedBy' \in [Connections -> Nat]
        /\ HasSum(DueBy, Total(Due))' /\ HasSum(OwedBy, Total(Owed))'
    BY <1>4, <2>1
  <2> QED BY <2>2 DEF HasSum, IsSum
<1>7. /\ due[c] = DueOf(handlers[c]) /\ due2[c] = DueOf(handler)
      /\ owed[c] = OwedOf(handlers[c]) /\ owed2[c] = OwedOf(handler)
      /\ \A d \in Connections : d # c => due2[d] = due[d] /\ owed2[d] = owed[d]
  BY <1>2 DEF DueBy, OwedBy
<1> HIDE DEF due, due2, owed, owed2
<1>8. /\ Total(Due)' = Total(Due) + (due2[c] - due[c])
      /\ Total(Owed)' = Total(Owed) + (owed2[c] - owed[c])
  BY <1>5, <1>6, <1>7, SumChanges
<1>9. /\ Total(Due) \in Nat /\ Total(Owed) \in Nat
      /\ Total(Due)' \in Nat /\ Total(Owed)' \in Nat
  BY <1>5, <1>6, SumType
<1>10. used' = Total(Due)' + Total(Owed)'
  <2>1. used = Total(Due) + Total(Owed)
    BY DEF UsedIsServedAndOwed
  <2> QED
    BY <1>1, <1>3, <1>7, <1>8, <1>9, <2>1
<1>11. ToldWithinRefunds
  <2> SUFFICES ASSUME NEW d \in Connections, handlers[d].answer = NoAnswer,
                      handlers'[d].answer # NoAnswer, handlers'[d].answer.count # NoCount
               PROVE  /\ handlers'[d].answer.count >= Total(Due)'
                      /\ handlers'[d].answer.count <= Total(Due)' + Total(Owed)'
    BY DEF ToldWithinRefunds
  <2>1. d = c
    BY <1>2
  <2>2. handlers'[d].answer.count = used'
    BY <1>2, <2>1 DEF Effect
  <2> QED
    BY <1>9, <1>10, <2>2
<1> QED
  BY <1>4, <1>10, <1>11 DEF UsedIsServedAndOwed

(* A thread with some of its fields changed. *)
LEMMA AskedFields ==
    ASSUME NEW handler \in Handlers, NEW p, NEW new
    PROVE  [handler EXCEPT !.pc = p, !.request = new] =
              [pc |-> p, request |-> new, answer |-> handler.answer]
<1> DEFINE moved == [handler EXCEPT !.pc = p]
<1>1. moved = [pc |-> p, request |-> handler.request, answer |-> handler.answer]
  BY DEF Handlers
<1>2. [handler EXCEPT !.pc = p, !.request = new] = [moved EXCEPT !.request = new]
  OBVIOUS
<1> HIDE DEF moved
<1>3. [moved EXCEPT !.request = new] = [pc |-> p, request |-> new, answer |-> handler.answer]
  BY <1>1
<1> QED
  BY <1>2, <1>3

LEMMA HandlerFields ==
    ASSUME NEW handler \in Handlers, NEW p, NEW new
    PROVE  [handler EXCEPT !.pc = p, !.answer = new] =
              [pc |-> p, request |-> handler.request, answer |-> new]
<1> DEFINE moved == [handler EXCEPT !.pc = p]
<1>1. moved = [pc |-> p, request |-> handler.request, answer |-> handler.answer]
  BY DEF Handlers
<1>2. [handler EXCEPT !.pc = p, !.answer = new] = [moved EXCEPT !.answer = new]
  OBVIOUS
<1> HIDE DEF moved
<1>3. [moved EXCEPT !.answer = new] = [pc |-> p, request |-> handler.request, answer |-> new]
  BY <1>1
<1> QED
  BY <1>2, <1>3

(* A request arrives at a thread that waits for one. *)
LEMMA ArriveHasEffect ==
    ASSUME ThreadInv, NEW c \in Connections, NEW request \in Requests, Arrive(c, request)
    PROVE  \E handler : Effect(c, handler)
<1> DEFINE handler == [handlers[c] EXCEPT !.pc = "arrived", !.request = request]
<1>1. /\ handlers[c].pc = "waiting" /\ used' = used
      /\ handlers' = [handlers EXCEPT ![c] = handler]
  BY DEF Arrive, At
<1>2. handlers[c] \in Handlers /\ handlers[c] = Waiting /\ used \in Int
  BY <1>1 DEF ThreadInv, InOrder
<1>3. handler = [pc |-> "arrived", request |-> request, answer |-> NoAnswer]
  <2>1. handlers[c].answer = NoAnswer
    BY <1>2 DEF Waiting
  <2>2. handlers[c] \in Handlers
    BY <1>2
  <2>3. handler = [pc |-> "arrived", request |-> request, answer |-> handlers[c].answer]
    BY <2>2, AskedFields
  <2> QED BY <2>1, <2>3
<1>4. handler \in Handlers /\ InOrder(handler)
  BY <1>3 DEF Handlers, Stages, Replies, InOrder
<1>5. /\ handler.pc = "arrived" /\ handler.answer = NoAnswer /\ NoAnswer.status = 0
      /\ handlers[c].pc = "waiting" /\ handlers[c].answer = NoAnswer
  BY <1>2, <1>3 DEF Waiting, NoAnswer
<1>6. DueOf(handler) = 0 /\ OwedOf(handler) = 0
  <2> HIDE DEF handler
  <2> QED BY <1>5, DueOfIs DEF OwedOf
<1>7. DueOf(handlers[c]) = 0 /\ OwedOf(handlers[c]) = 0
  BY <1>5, DueOfIs DEF OwedOf
<1> HIDE DEF handler
<1>8. Effect(c, handler)
  BY <1>1, <1>2, <1>4, <1>5, <1>6, <1>7 DEF Effect
<1> QED
  BY <1>8

(* What a thread has been billed before it answers. *)
LEMMA NothingDueYet ==
    ASSUME ThreadInv, NEW c \in Connections,
           handlers[c].pc \in {"arrived", "failing", "serving"}
    PROVE  /\ DueOf(handlers[c]) = 0 /\ OwedOf(handlers[c]) = 0
           /\ handlers[c] \in Handlers /\ used \in Int
<1>1. handlers[c].answer = NoAnswer /\ handlers[c] \in Handlers /\ used \in Int
  BY DEF ThreadInv, InOrder
<1>2. handlers[c].answer.status = 0
  BY <1>1 DEF NoAnswer
<1> QED
  BY <1>1, <1>2, DueOfIs DEF OwedOf

(* A thread that answers without serving is billed nothing. *)
LEMMA RefusalHasEffect ==
    ASSUME ThreadInv, NEW c \in Connections,
           handlers[c].pc \in {"arrived", "failing"},
           NEW status \in Nat, status # 0, status # 200, NEW count \in {used, NoCount},
           Answers(c, status, count), used' = used,
           handlers[c].request.kind = "bulk" => RefusedWith(handlers[c].request) # 0
    PROVE  \E handler : Effect(c, handler)
<1> DEFINE handler == [handlers[c] EXCEPT !.pc = "answered",
                                         !.answer = [status |-> status, count |-> count]]
<1>1. handlers' = [handlers EXCEPT ![c] = handler]
  BY DEF Answers
<1>2. /\ DueOf(handlers[c]) = 0 /\ OwedOf(handlers[c]) = 0
      /\ handlers[c] \in Handlers /\ used \in Int
  BY NothingDueYet
<1>3. handler = [pc |-> "answered", request |-> handlers[c].request,
                 answer |-> [status |-> status, count |-> count]]
  BY <1>2, HandlerFields
<1>4. count \in Int
  BY <1>2 DEF NoCount
<1>5. handler \in Handlers /\ InOrder(handler)
  BY <1>2, <1>3, <1>4 DEF Handlers, Stages, Replies, InOrder
<1>6. /\ handler.pc = "answered" /\ handler.request = handlers[c].request
      /\ handler.answer.status = status /\ handler.answer.count = count
  BY <1>3
<1>7. DueOf(handler) = 0 /\ OwedOf(handler) = 0
  <2> HIDE DEF handler
  <2> QED BY <1>6, DueOfIs DEF OwedOf
<1> HIDE DEF handler
<1>8. Effect(c, handler)
  BY <1>1, <1>2, <1>5, <1>6, <1>7 DEF Effect
<1> QED
  BY <1>8

LEMMA RefuseHasEffect ==
    ASSUME ThreadInv, NEW c \in Connections, Refuse(c)
    PROVE  \E handler : Effect(c, handler)
<1> DEFINE status == RefusedWith(handlers[c].request)
           count == IF handlers[c].request \in {Keyless, Elsewhere} THEN NoCount ELSE used
<1>1. /\ handlers[c].pc = "arrived" /\ status # 0 /\ Answers(c, status, count)
      /\ used' = used
  BY DEF Refuse, At
<1>2. status \in {0, 400, 401, 404, 429}
  BY RefusedWithIs
<1>3. status \in Nat /\ status # 200 /\ count \in {used, NoCount}
  <2>1. count \in {used, NoCount}
    OBVIOUS
  <2> HIDE DEF status, count
  <2> QED BY <1>2, <2>1
<1>4. RefusedWith(handlers[c].request) # 0
  BY <1>1
<1> HIDE DEF status, count
<1> QED
  BY <1>1, <1>3, <1>4, RefusalHasEffect

LEMMA FailHasEffect ==
    ASSUME ThreadInv, NEW c \in Connections, Fail(c)
    PROVE  \E handler : Effect(c, handler)
<1>1. handlers[c].pc = "failing" /\ Answers(c, 503, used) /\ used' = used
  BY DEF Fail, At
<1>2. handlers[c].request.kind = "single"
  BY <1>1 DEF ThreadInv, InOrder
<1> QED
  BY <1>1, <1>2, RefusalHasEffect

LEMMA TransientHasEffect ==
    ASSUME ThreadInv, NEW c \in Connections, TakeTransientFailure(c)
    PROVE  \E handler : Effect(c, handler)
<1>1. PICK next \in {"failing", "serving"} : Moves(c, next)
  BY DEF TakeTransientFailure
<1> DEFINE handler == [handlers[c] EXCEPT !.pc = next]
<1>2. /\ handlers[c].pc = "arrived" /\ handlers[c].request = Single(Transient)
      /\ used' = used /\ handlers' = [handlers EXCEPT ![c] = handler]
  BY <1>1 DEF TakeTransientFailure, At, Moves
<1>3. /\ DueOf(handlers[c]) = 0 /\ OwedOf(handlers[c]) = 0
      /\ handlers[c] \in Handlers /\ used \in Int
  BY <1>2, NothingDueYet
<1>4. handlers[c].answer = NoAnswer /\ handlers[c].request.kind = "single"
  BY <1>2 DEF ThreadInv, InOrder, Single
<1>5. handler = [pc |-> next, request |-> handlers[c].request, answer |-> NoAnswer]
  BY <1>3, <1>4 DEF Handlers
<1>6. handler \in Handlers /\ InOrder(handler)
  BY <1>3, <1>4, <1>5 DEF Handlers, Stages, InOrder
<1>7. /\ handler.pc = next /\ handler.answer = NoAnswer /\ NoAnswer.status = 0
  BY <1>5 DEF NoAnswer
<1>8. DueOf(handler) = 0 /\ OwedOf(handler) = 0
  <2> HIDE DEF handler
  <2> QED BY <1>7, DueOfIs DEF OwedOf
<1> HIDE DEF handler
<1>9. Effect(c, handler)
  BY <1>2, <1>3, <1>6, <1>7, <1>8 DEF Effect
<1> QED
  BY <1>9

LEMMA ServeHasEffect ==
    ASSUME ThreadInv, NEW c \in Connections, Serve(c)
    PROVE  \E handler : Effect(c, handler)
<1> DEFINE reply == [status |-> 200, count |-> used + 1]
           handler == [handlers[c] EXCEPT !.pc = "answered", !.answer = reply]
<1>1. /\ handlers[c].pc \in {"arrived", "serving"} /\ used' = used + 1
      /\ handlers' = [handlers EXCEPT ![c] = handler]
  BY DEF Serve, At, Answers
<1>2. handlers[c].request.kind = "single"
  BY DEF Serve, At, ThreadInv, InOrder
<1>3. /\ DueOf(handlers[c]) = 0 /\ OwedOf(handlers[c]) = 0
      /\ handlers[c] \in Handlers /\ used \in Int
  BY <1>1, NothingDueYet
<1>4. handler = [pc |-> "answered", request |-> handlers[c].request, answer |-> reply]
  <2> HIDE DEF reply
  <2> QED BY <1>3, HandlerFields
<1>5. handler \in Handlers /\ InOrder(handler)
  BY <1>3, <1>4 DEF Handlers, Stages, Replies, InOrder
<1>6. /\ handler.pc = "answered" /\ handler.request.kind = "single"
      /\ handler.answer.status = 200 /\ handler.answer.count = used'
  BY <1>1, <1>2, <1>4
<1>7. DueOf(handler) = 1 /\ OwedOf(handler) = 0
  <2> HIDE DEF handler
  <2> QED BY <1>6, DueOfIs DEF OwedOf
<1> HIDE DEF handler
<1>8. Effect(c, handler)
  BY <1>1, <1>3, <1>5, <1>6, <1>7 DEF Effect
<1> QED
  BY <1>8

LEMMA CountHasEffect ==
    ASSUME ThreadInv, NEW c \in Connections, Count(c)
    PROVE  \E handler : Effect(c, handler)
<1> DEFINE handler == [handlers[c] EXCEPT !.pc = "counted"]
           eins == handlers[c].request.eins
<1>1. /\ handlers[c].pc = "arrived" /\ handlers[c].request.kind = "bulk"
      /\ RefusedWith(handlers[c].request) = 0
      /\ used' = used + Len(eins) /\ handlers' = [handlers EXCEPT ![c] = handler]
  BY DEF Count, At, Moves
<1>2. /\ DueOf(handlers[c]) = 0 /\ OwedOf(handlers[c]) = 0
      /\ handlers[c] \in Handlers /\ used \in Int
  BY <1>1, NothingDueYet
<1>3. handlers[c].answer = NoAnswer
  BY <1>1 DEF ThreadInv, InOrder
<1>4. handler = [pc |-> "counted", request |-> handlers[c].request, answer |-> NoAnswer]
  BY <1>2, <1>3 DEF Handlers
<1>5. handler \in Handlers /\ InOrder(handler)
  BY <1>1, <1>2, <1>3, <1>4 DEF Handlers, Stages, InOrder
<1>6. /\ handler.pc = "counted" /\ handler.request = handlers[c].request
      /\ handler.answer = NoAnswer
  BY <1>4
<1>7. DueOf(handler) = Cardinality(FoundIn(eins)) /\ OwedOf(handler) = Cardinality(NotFoundIn(eins))
  <2> HIDE DEF handler
  <2> QED BY <1>1, <1>6, DueOfIs DEF OwedOf
<1>8. /\ Cardinality(FoundIn(eins)) \in Nat /\ Cardinality(NotFoundIn(eins)) \in Nat
      /\ Cardinality(FoundIn(eins)) + Cardinality(NotFoundIn(eins)) = Len(eins)
  <2>1. handlers[c].request \in Requests
    BY <1>2 DEF Handlers
  <2> QED BY <2>1, RequestShape
<1> HIDE DEF handler, eins
<1>9. used' = used + (DueOf(handler) - DueOf(handlers[c]))
                   + (OwedOf(handler) - OwedOf(handlers[c]))
  <2>1. used' = used + Len(eins)
    BY <1>1
  <2> QED BY <1>2, <1>7, <1>8, <2>1
<1>10. Effect(c, handler)
  BY <1>1, <1>5, <1>6, <1>9 DEF Effect
<1> QED
  BY <1>10

LEMMA RefundHasEffect ==
    ASSUME ThreadInv, NEW c \in Connections, Refund(c)
    PROVE  \E handler : Effect(c, handler)
<1> DEFINE eins == handlers[c].request.eins
           count == used - Cardinality(NotFoundIn(eins))
           status == IF FoundIn(eins) = {} THEN 404 ELSE 200
           reply == [status |-> status, count |-> count]
           handler == [handlers[c] EXCEPT !.pc = "answered", !.answer = reply]
<1>1. /\ handlers[c].pc = "counted" /\ used' = count
      /\ handlers' = [handlers EXCEPT ![c] = handler]
  BY DEF Refund, At, Answers, Found, NotFound, FoundIn, NotFoundIn
<1>2. handlers[c] \in Handlers /\ used \in Int /\ handlers[c].request.kind = "bulk"
  BY <1>1 DEF ThreadInv, InOrder
<1>3. Cardinality(NotFoundIn(eins)) \in Nat /\ Cardinality(FoundIn(eins)) \in Nat
  <2>1. handlers[c].request \in Requests
    BY <1>2 DEF Handlers
  <2> QED BY <2>1, RequestShape
<1>4. count \in Int /\ status \in Nat
  BY <1>2, <1>3
<1>5. handler = [pc |-> "answered", request |-> handlers[c].request, answer |-> reply]
  <2> HIDE DEF reply
  <2> QED BY <1>2, HandlerFields
<1>6. reply \in Replies
  <2> HIDE DEF count, status
  <2> QED BY <1>4 DEF Replies
<1>7. handler \in Handlers /\ InOrder(handler)
  <2> HIDE DEF reply
  <2> QED BY <1>2, <1>5, <1>6 DEF Handlers, Stages, InOrder
<1>8. /\ handler.pc = "answered" /\ handler.request = handlers[c].request
      /\ handler.answer.count = count
  <2> HIDE DEF count, status
  <2> QED BY <1>5
<1> HIDE DEF handler
<1>9. DueOf(handler) = DueOf(handlers[c]) /\ OwedOf(handler) = 0
  <2>1. OwedOf(handler) = 0
    BY <1>8 DEF OwedOf
  <2>2. CASE RefusedWith(handlers[c].request) = 0
    BY <1>1, <1>2, <1>8, <2>1, <2>2, DueOfIs
  <2>3. CASE RefusedWith(handlers[c].request) # 0
    BY <1>1, <1>2, <1>8, <2>1, <2>3, DueOfIs
  <2> QED BY <2>2, <2>3
<1>10. OwedOf(handlers[c]) = Cardinality(NotFoundIn(eins)) /\ DueOf(handlers[c]) \in Nat
  BY <1>1, <1>2, DueType DEF OwedOf
<1> HIDE DEF eins, status
<1>11. Effect(c, handler)
  BY <1>1, <1>2, <1>3, <1>7, <1>8, <1>9, <1>10 DEF Effect
<1> QED
  BY <1>11

-----------------------------------------------------------------------------
(* The server and its clients.                                             *)

ServerInv == ThreadInv /\ UsedIsServedAndOwed

LEMMA ServerInvInitially ==
    ASSUME ServerInit
    PROVE  ServerInv
<1>1. \A c \in Connections : handlers[c] = Waiting
  BY DEF ServerInit
<1>2. ThreadInv
  <2>1. Waiting \in Handlers
    BY DEF Waiting, Handlers, Stages, Requests, Replies
  <2>2. InOrder(Waiting)
    BY DEF InOrder, Waiting
  <2> QED BY <1>1, <2>1, <2>2 DEF ServerInit, ThreadInv
<1>3. DueOf(Waiting) = 0 /\ OwedOf(Waiting) = 0
  <2>1. Waiting.pc = "waiting" /\ Waiting.answer.status = 0
    BY DEF Waiting, NoAnswer
  <2> QED BY <2>1, DueOfIs DEF OwedOf
<1>4. \A c \in Connections : DueBy[c] = 0 /\ OwedBy[c] = 0
  BY <1>1, <1>3 DEF DueBy, OwedBy
<1>5. Total(Due) = 0 /\ Total(Owed) = 0
  <2>1. /\ DueBy \in [Connections -> Nat] /\ OwedBy \in [Connections -> Nat]
        /\ HasSum(DueBy, Total(Due)) /\ HasSum(OwedBy, Total(Owed))
    BY <1>2, Totals
  <2> QED BY <1>4, <2>1, SumOfZeros
<1> QED
  BY <1>2, <1>5 DEF ServerInv, UsedIsServedAndOwed, ServerInit

LEMMA StutterKeepsServerInv ==
    ASSUME ServerInv, UNCHANGED serverVars
    PROVE  ServerInv'
<1>0. used' = used /\ handlers' = handlers
  BY DEF serverVars
<1>1. PICK c \in Connections : TRUE
  BY BulkAgainstServerAssumption, BulkCheckAssumption DEF Attempts
<1>2. ThreadInv'
  BY <1>0 DEF ServerInv, ThreadInv, InOrder
<1>3. /\ DueBy \in [Connections -> Nat] /\ OwedBy \in [Connections -> Nat]
      /\ HasSum(DueBy, Total(Due)) /\ HasSum(OwedBy, Total(Owed))
  BY Totals DEF ServerInv
<1>4. (ThreadInv =>
         /\ DueBy \in [Connections -> Nat] /\ OwedBy \in [Connections -> Nat]
         /\ HasSum(DueBy, Total(Due)) /\ HasSum(OwedBy, Total(Owed)))'
  BY Totals, PTL
<1>5. HasSum(DueBy', Total(Due)') /\ HasSum(OwedBy', Total(Owed)')
  BY <1>2, <1>4 DEF HasSum, IsSum
<1>6. DueBy' = DueBy /\ OwedBy' = OwedBy
  BY <1>0 DEF DueBy, OwedBy
<1>7. /\ Total(Due)' = Total(Due) + (DueBy[c] - DueBy[c])
      /\ Total(Owed)' = Total(Owed) + (OwedBy[c] - OwedBy[c])
  BY <1>3, <1>5, <1>6, SumChanges
<1>8. Total(Due) \in Nat /\ Total(Owed) \in Nat
  BY <1>3, SumType
<1>9. DueBy[c] \in Nat /\ OwedBy[c] \in Nat
  BY <1>3
<1>10. Total(Due)' = Total(Due) /\ Total(Owed)' = Total(Owed)
  BY <1>7, <1>8, <1>9
<1> QED BY <1>0, <1>2, <1>10 DEF ServerInv, UsedIsServedAndOwed

LEMMA ServerStepKeepsInv ==
    ASSUME ServerInv, ClientInv, CompositeNext
    PROVE  ServerInv' /\ UsedIsServedAndOwed' /\ ToldWithinRefunds
<1>1. CASE UNCHANGED serverVars
  <2>1. used' = used /\ handlers' = handlers
    BY <1>1 DEF serverVars
  <2>2. ServerInv'
    BY <1>1, StutterKeepsServerInv
  <2> QED
    BY <2>1, <2>2 DEF ServerInv, ToldWithinRefunds
<1>2. ASSUME NEW c \in Connections, NEW handler, Effect(c, handler)
      PROVE  ServerInv' /\ UsedIsServedAndOwed' /\ ToldWithinRefunds
  BY <1>2, EffectKeepsCount DEF ServerInv
<1>3. ASSUME NEW c \in Connections, NEW request \in Requests, Arrive(c, request)
      PROVE  ServerInv' /\ UsedIsServedAndOwed' /\ ToldWithinRefunds
  BY <1>2, <1>3, ArriveHasEffect DEF ServerInv
<1>4. CASE Attempt
  <2>1. pc = "sending" /\ Arrive(Len(requests) + 1, Bulk(payload))
    BY <1>4 DEF Attempt, Send
  <2>2. /\ Len(requests) < MaxAttempts /\ payload \in Seq(Eins)
        /\ requests \in Seq({payload})
    BY <2>1 DEF ClientInv, StageInv, BodyInv
  <2>3. Len(requests) \in Nat
    BY <2>2
  <2>4. Len(requests) + 1 \in Connections
    <3>1. Len(requests) + 1 \in 1 .. MaxAttempts
      BY <2>2, <2>3, BulkCheckAssumption
    <3> QED BY <3>1, BulkAgainstServerAssumption DEF Attempts
  <2>5. Bulk(payload) \in Requests
    BY <2>2 DEF Requests
  <2> QED
    BY <1>3, <2>1, <2>4, <2>5
<1>5. CASE AnotherAsks
  <2>1. PICK c \in Others, request \in OtherRequests : Arrive(c, request)
    BY <1>5 DEF AnotherAsks
  <2>2. c \in Connections /\ request \in Requests
    BY DEF Others, Requests
  <2> QED
    BY <1>3, <2>1, <2>2
<1>6. CASE Serving
  <2>1. PICK c \in Connections :
            \/ Refuse(c) \/ TakeTransientFailure(c) \/ Fail(c)
            \/ Serve(c) \/ Count(c) \/ Refund(c)
    BY <1>6 DEF Serving, ServerStep
  <2>2. \E handler : Effect(c, handler)
    BY <2>1, RefuseHasEffect, TransientHasEffect, FailHasEffect, ServeHasEffect,
       CountHasEffect, RefundHasEffect DEF ServerInv
  <2> QED
    BY <1>2, <2>2
<1>7. Client \/ Deliver => UNCHANGED serverVars
  BY DEF Client, Deliver
<1> QED
  BY <1>1, <1>4, <1>5, <1>6, <1>7 DEF CompositeNext

(* However the threads interleave, and whether or not a client waited for its
   answer, the count of checks is what was served and what is about to be given
   back; the count an answer reports is never below what has been billed by
   then, and above it by no more than the refunds still to be made (_State,
   _handle_bulk and the error envelopes of the mock server). *)
THEOREM BillingTheorem ==
    CompositeSpec => BillsWhatItServes
<1>1. CompositeInit => ServerInv
  BY ServerInvInitially DEF CompositeInit
<1>2. ServerInv /\ ClientInv /\ [CompositeNext]_allVars => ServerInv'
  <2> SUFFICES ASSUME ServerInv, ClientInv, [CompositeNext]_allVars PROVE ServerInv'
    OBVIOUS
  <2>1. CASE CompositeNext
    BY <2>1, ServerStepKeepsInv
  <2>2. CASE UNCHANGED allVars
    <3>1. UNCHANGED serverVars
      BY <2>2 DEF allVars
    <3> QED BY <3>1, StutterKeepsServerInv
  <2> QED BY <2>1, <2>2
<1>3. ServerInv /\ ClientInv /\ [CompositeNext]_allVars
         => [UsedIsServedAndOwed' /\ ToldWithinRefunds]_allVars
  BY ServerStepKeepsInv
<1> QED
  BY <1>1, <1>2, <1>3, ClientInvariant, PTL DEF CompositeSpec, BillsWhatItServes
=============================================================================
