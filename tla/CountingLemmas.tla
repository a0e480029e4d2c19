---------------------------- MODULE CountingLemmas ----------------------------
(***************************************************************************)
(* Facts that several proofs need: what appending to a list of results     *)
(* leaves, how many attempts a call has made, and how many requests a rate *)
(* allows by an instant.                                                   *)
(***************************************************************************)
EXTENDS Integers, Sequences, FiniteSets, Powers, FiniteSetTheorems,
        WellFoundedInduction, TLAPS

(* A list, whatever its entries are. *)
IsSequence(s) == s \in Seq({s[i] : i \in DOMAIN s})

(* Appending an entry leaves the ones before it where they were. *)
LEMMA Appended ==
  ASSUME NEW s, IsSequence(s), NEW e
  PROVE  /\ IsSequence(Append(s, e))
         /\ Len(s) \in Nat
         /\ DOMAIN s = 1 .. Len(s) /\ DOMAIN Append(s, e) = 1 .. (Len(s) + 1)
         /\ Len(Append(s, e)) = Len(s) + 1
         /\ Append(s, e)[Len(s) + 1] = e
         /\ \A i \in 1 .. Len(s) : Append(s, e)[i] = s[i]
         /\ Append(s, e) # <<>>
<1> DEFINE S == {s[i] : i \in DOMAIN s} \cup {e}
           t == Append(s, e)
<1>1. s \in Seq(S) /\ e \in S
  BY DEF IsSequence
<1>2. /\ t \in Seq(S) /\ Len(t) = Len(s) + 1 /\ t[Len(s) + 1] = e
      /\ \A i \in 1 .. Len(s) : t[i] = s[i]
      /\ Len(s) \in Nat /\ DOMAIN s = 1 .. Len(s) /\ DOMAIN t = 1 .. (Len(s) + 1)
  BY <1>1
<1>3. IsSequence(t)
  <2> HIDE DEF t
  <2> QED BY <1>2 DEF IsSequence
<1> QED
  BY <1>2, <1>3

-----------------------------------------------------------------------------
(* Induction and recursion, from a least counterexample: the theorems of   *)
(* the library that take an operator cannot be used.                       *)

(* Every set of naturals with an element has a least one. *)
LEMMA LeastNatural ==
    ASSUME NEW T \in SUBSET Nat, T # {}
    PROVE  \E n \in T : \A m \in T : n <= m
<1> DEFINE R == {pair \in Nat \X Nat : pair[1] < pair[2]}
<1>1. IsWellFoundedOn(R, Nat)
  BY NatLessThanWellFounded DEF OpToRel
<1>2. \E n \in T : \A m \in T : ~(<<m, n>> \in R)
  <2> HIDE DEF R
  <2> QED BY <1>1, WFMin
<1>3. PICK n \in T : \A m \in T : <<m, n>> \notin R
  BY <1>2
<1>4. \A m \in T : n <= m
  <2> SUFFICES ASSUME NEW m \in T, m < n PROVE FALSE
    OBVIOUS
  <2>1. <<m, n>> \in R
    OBVIOUS
  <2> QED BY <1>3, <2>1
<1> QED
  BY <1>4

(* Induction over the naturals up to a bound, for a set of them. *)
LEMMA Induction ==
    ASSUME NEW n \in Nat, NEW Good \in SUBSET Nat, 0 \in Good,
           \A k \in 0 .. n - 1 : k \in Good => k + 1 \in Good
    PROVE  \A k \in 0 .. n : k \in Good
<1> DEFINE Bad == (0 .. n) \ Good
<1> SUFFICES ASSUME Bad # {} PROVE FALSE
  OBVIOUS
<1>1. PICK least \in Bad : \A m \in Bad : least <= m
  <2>1. Bad \in SUBSET Nat
    OBVIOUS
  <2> QED BY <2>1, LeastNatural
<1>2. least # 0
  BY <1>1
<1>3. least - 1 \in 0 .. n - 1
  BY <1>1, <1>2
<1>4. least - 1 \in Good
  BY <1>1, <1>3
<1> QED
  BY <1>1, <1>3, <1>4

(* A function that starts at base and goes from k to k + 1 by a step. *)
Starts(f, n, base, step) ==
    /\ f[0] = base
    /\ \A k \in 0 .. n - 1 : f[k + 1] = step[<<k, f[k]>>]

LEMMA StartsExist ==
    ASSUME NEW A, NEW base \in A, NEW step \in [Nat \X A -> A], NEW n \in Nat
    PROVE  \E f \in [0 .. n -> A] : Starts(f, n, base, step)
<1> DEFINE Good == {k \in Nat : \E f \in [0 .. k -> A] : Starts(f, k, base, step)}
<1>1. 0 \in Good
  <2> DEFINE f == [k \in 0 .. 0 |-> base]
  <2>1. f \in [0 .. 0 -> A] /\ Starts(f, 0, base, step)
    BY DEF Starts
  <2> QED BY <2>1
<1>2. ASSUME NEW k \in 0 .. n - 1, k \in Good PROVE k + 1 \in Good
  <2>1. PICK f \in [0 .. k -> A] : Starts(f, k, base, step)
    BY <1>2
  <2> DEFINE g == [i \in 0 .. k + 1 |-> IF i = k + 1 THEN step[<<k, f[k]>>] ELSE f[i]]
  <2>2. g \in [0 .. k + 1 -> A]
    <3>1. \A i \in 0 .. k + 1 : i # k + 1 => i \in 0 .. k
      OBVIOUS
    <3> QED BY <2>1, <3>1
  <2>3. g[k + 1] = step[<<k, f[k]>>] /\ \A i \in 0 .. k : g[i] = f[i]
    OBVIOUS
  <2>4. Starts(g, k + 1, base, step)
    <3>1. g[0] = base
      BY <2>1, <2>3 DEF Starts
    <3>2. ASSUME NEW i \in 0 .. k PROVE g[i + 1] = step[<<i, g[i]>>]
      <4>1. CASE i = k
        <5> HIDE DEF g
        <5> QED BY <2>3, <4>1
      <4>2. CASE i # k
        <5>1. i \in 0 .. k - 1 /\ i + 1 \in 0 .. k
          BY <4>2
        <5> HIDE DEF g
        <5> QED BY <2>1, <2>3, <5>1 DEF Starts
      <4> QED BY <4>1, <4>2
    <3>3. (k + 1) - 1 = k
      OBVIOUS
    <3> HIDE DEF g
    <3> QED BY <3>1, <3>2, <3>3 DEF Starts
  <2>5. k + 1 \in Nat
    OBVIOUS
  <2> HIDE DEF g
  <2> QED BY <2>2, <2>4, <2>5
<1>3. Good \in SUBSET Nat
  OBVIOUS
<1> HIDE DEF Good
<1>4. n \in Good
  <2>1. \A k \in 0 .. n : k \in Good
    BY <1>1, <1>2, <1>3, Induction
  <2> QED BY <2>1
<1> QED BY <1>4 DEF Good

LEMMA StartsAgree ==
    ASSUME NEW m \in Nat, NEW n \in Nat, m <= n, NEW base, NEW step, NEW f, NEW g,
           Starts(f, m, base, step), Starts(g, n, base, step)
    PROVE  \A k \in 0 .. m : f[k] = g[k]
<1> DEFINE Good == {k \in Nat : k <= m => f[k] = g[k]}
<1>1. 0 \in Good /\ Good \in SUBSET Nat
  BY DEF Starts
<1>2. \A k \in 0 .. m - 1 : k \in Good => k + 1 \in Good
  <2> TAKE k \in 0 .. m - 1
  <2> HAVE k \in Good
  <2>1. k \in 0 .. n - 1 /\ f[k] = g[k] /\ k + 1 \in Nat
    OBVIOUS
  <2> QED BY <2>1 DEF Starts
<1> HIDE DEF Good
<1>3. \A k \in 0 .. m : k \in Good
  BY <1>1, <1>2, Induction
<1> QED BY <1>3 DEF Good

(* The function on all naturals: definition by recursion. *)
Recursion(f, base, step) ==
    f = [k \in Nat |-> IF k = 0 THEN base ELSE step[<<k - 1, f[k - 1]>>]]

LEMMA RecursionExists ==
    ASSUME NEW A, NEW base \in A, NEW step \in [Nat \X A -> A]
    PROVE  \E f \in [Nat -> A] :
              /\ Recursion(f, base, step)
              /\ f[0] = base
              /\ \A k \in Nat : f[k + 1] = step[<<k, f[k]>>]
<1> DEFINE part(n) == CHOOSE f \in [0 .. n -> A] : Starts(f, n, base, step)
           all == [n \in Nat |-> part(n)[n]]
<1>1. \A n \in Nat : part(n) \in [0 .. n -> A] /\ Starts(part(n), n, base, step)
  BY StartsExist
<1> HIDE DEF part
<1>2. all \in [Nat -> A]
  BY <1>1
<1>3. all[0] = base
  BY <1>1 DEF Starts
<1>4. ASSUME NEW k \in Nat PROVE all[k + 1] = step[<<k, all[k]>>]
  <2>1. k + 1 \in Nat /\ k <= k + 1 /\ k \in 0 .. (k + 1) - 1 /\ k \in 0 .. k
    OBVIOUS
  <2>2. part(k)[k] = part(k + 1)[k]
    BY <1>1, <2>1, StartsAgree
  <2>3. part(k + 1)[k + 1] = step[<<k, part(k + 1)[k]>>]
    BY <1>1, <2>1 DEF Starts
  <2> QED BY <2>1, <2>2, <2>3
<1>5. all = [k \in Nat |-> IF k = 0 THEN base ELSE step[<<k - 1, all[k - 1]>>]]
  <2>1. ASSUME NEW k \in Nat, k # 0 PROVE all[k] = step[<<k - 1, all[k - 1]>>]
    <3>1. k - 1 \in Nat /\ (k - 1) + 1 = k
      BY <2>1
    <3> HIDE DEF all
    <3> QED BY <1>4, <3>1
  <2>2. \A k \in Nat : all[k] = IF k = 0 THEN base ELSE step[<<k - 1, all[k - 1]>>]
    BY <1>3, <2>1
  <2> HIDE DEF all
  <2> QED BY <1>2, <2>2
<1> HIDE DEF all
<1> QED BY <1>2, <1>3, <1>4, <1>5 DEF Recursion

(* A power of naturals is a natural, one factor more for each exponent. *)
LEMMA PowerIs ==
    ASSUME NEW b \in Nat
    PROVE  /\ Power(b, 0) = 1
           /\ \A n \in Nat : /\ Power(b, n) \in Nat /\ Power(b, n + 1) = b * Power(b, n)
<1> DEFINE step == [pair \in Nat \X Nat |-> b * pair[2]]
           Is(f) == f = [k \in Nat |-> IF k = 0 THEN 1 ELSE b * f[k - 1]]
           power == CHOOSE f : Is(f)
<1>1. \A n : Power(b, n) = power[n]
  BY DEF Power
<1>2. \E f : Is(f)
  <2>1. step \in [Nat \X Nat -> Nat]
    OBVIOUS
  <2>2. PICK f \in [Nat -> Nat] : Recursion(f, 1, step)
    <3>1. 1 \in Nat
      OBVIOUS
    <3> HIDE DEF step
    <3> QED BY <2>1, <3>1, RecursionExists
  <2>3. \A k \in Nat : k # 0 => step[<<k - 1, f[k - 1]>>] = b * f[k - 1]
    OBVIOUS
  <2>4. Is(f)
    <3> HIDE DEF step
    <3> QED BY <2>2, <2>3 DEF Recursion
  <2> QED BY <2>4
<1>3. Is(power)
  BY <1>2
<1> HIDE DEF power
<1>4. power[0] = 1
  BY <1>3
<1>5. \A n \in Nat : power[n + 1] = b * power[n]
  <2> TAKE n \in Nat
  <2>1. n + 1 \in Nat /\ n + 1 # 0 /\ (n + 1) - 1 = n
    OBVIOUS
  <2> QED BY <1>3, <2>1
<1> HIDE DEF Is
<1>6. \A n \in Nat : power[n] \in Nat
  <2> TAKE n \in Nat
  <2> DEFINE Good == {k \in Nat : power[k] \in Nat}
  <2>1. 0 \in Good /\ Good \in SUBSET Nat
    BY <1>4
  <2>2. \A k \in 0 .. n - 1 : k \in Good => k + 1 \in Good
    BY <1>5
  <2> HIDE DEF Good
  <2>3. n \in Good
    <3>1. \A k \in 0 .. n : k \in Good
      BY <2>1, <2>2, Induction
    <3> QED BY <3>1
  <2> QED BY <2>3 DEF Good
<1> QED BY <1>1, <1>4, <1>5, <1>6

-----------------------------------------------------------------------------
(* Requests.                                                               *)

(* A call whose requests are its attempts 1 .. k has made k (what
   error.attempts reports). *)
LEMMA AttemptsCounted ==
  ASSUME NEW c, NEW k \in Nat, NEW requests,
         \A r \in requests : r = <<r[1], r[2]>> /\ r[2] \in Nat,
         \A n \in Nat : <<c, n>> \in requests <=> n \in 1 .. k
  PROVE  Cardinality({r \in requests : r[1] = c}) = k
<1>1. {r \in requests : r[1] = c} = {c} \X (1 .. k)
  OBVIOUS
<1>2. IsFiniteSet({c}) /\ Cardinality({c}) = 1
  BY FS_Singleton
<1>3. IsFiniteSet(1 .. k) /\ Cardinality(1 .. k) = k
  BY FS_Interval
<1>4. Cardinality({c} \X (1 .. k)) = Cardinality({c}) * Cardinality(1 .. k)
  BY <1>2, <1>3, FS_Product, Zenon
<1>5. Cardinality({c} \X (1 .. k)) = 1 * k
  BY <1>2, <1>3, <1>4
<1>6. 1 * k = k
  OBVIOUS
<1> QED
  BY <1>1, <1>5, <1>6, Zenon

-----------------------------------------------------------------------------
(* A set of requests granted by instant t, one per interval from instant 0. *)

Paced(granted, interval, t) == (Cardinality(granted) - 1) * interval <= t

(* Division with remainder. *)
LEMMA DivMod ==
  ASSUME NEW d \in Nat, NEW g \in Nat \ {0}
  PROVE  /\ d \div g \in Nat /\ d % g \in 0 .. g - 1
         /\ d = g * (d \div g) + (d % g)
OBVIOUS

(* A product grows with a natural factor. *)
LEMMA ProductMonotonic ==
  ASSUME NEW m \in Int, NEW n \in Int, NEW k \in Nat, m <= n
  PROVE  m * k <= n * k /\ m * k \in Int /\ n * k \in Int
<1>1. PICK e \in Nat : n = m + e
  <2>1. n - m \in Nat /\ n = m + (n - m)
    OBVIOUS
  <2> QED
    BY <2>1
<1>2. (m + e) * k = m * k + e * k /\ e * k \in Nat /\ m * k \in Int
  OBVIOUS
<1> QED
  BY <1>1, <1>2

(* A power of a factor that is not zero is not zero. *)
LEMMA PowerPositive ==
    ASSUME NEW b \in Nat \ {0}, NEW n \in Nat
    PROVE  Power(b, n) >= 1
<1> DEFINE Good == {k \in Nat : Power(b, k) >= 1}
<1>1. 0 \in Good /\ Good \in SUBSET Nat
  BY PowerIs
<1>2. \A k \in 0 .. n - 1 : k \in Good => k + 1 \in Good
  <2> TAKE k \in 0 .. n - 1
  <2> HAVE k \in Good
  <2>1. Power(b, k) \in Nat \ {0} /\ Power(b, k + 1) = b * Power(b, k)
    BY PowerIs
  <2>2. 1 * Power(b, k) <= b * Power(b, k)
    BY <2>1, ProductMonotonic
  <2> QED BY <2>1, <2>2
<1> HIDE DEF Good
<1>3. \A k \in 0 .. n : k \in Good
  BY <1>1, <1>2, Induction
<1> QED BY <1>3 DEF Good

(* A draw of less than all the parts takes no more than the whole. *)
LEMMA DrawnPart ==
  ASSUME NEW whole \in Nat, NEW parts \in Nat \ {0}, NEW draw \in 0 .. parts - 1
  PROVE  (draw * whole) \div parts \in 0 .. whole
<1>1. draw * whole <= parts * whole /\ draw * whole \in Nat
  BY ProductMonotonic
<1> DEFINE q == (draw * whole) \div parts
<1>2. /\ q \in Nat /\ (draw * whole) % parts \in 0 .. parts - 1
      /\ draw * whole = parts * q + ((draw * whole) % parts)
  BY <1>1, DivMod
<1> HIDE DEF q
<1>3. q <= whole
  <2>1. CASE q >= whole + 1
    <3>1. (whole + 1) * parts <= q * parts
      BY <1>2, <2>1, ProductMonotonic
    <3>2. (whole + 1) * parts = parts * whole + parts /\ q * parts = parts * q
      BY <1>2
    <3>3. /\ parts * q \in Nat /\ parts * whole \in Nat /\ parts * q <= draw * whole
      BY <1>1, <1>2
    <3> QED
      BY <1>1, <3>1, <3>2, <3>3
  <2> QED
    BY <1>2, <2>1
<1> QED
  BY <1>2, <1>3 DEF q

(* Fewer requests, or a later instant, keep the pace. *)
LEMMA PacedLess ==
  ASSUME NEW S, IsFiniteSet(S), NEW T \in SUBSET S, NEW interval \in Nat,
         NEW t \in Int, NEW u \in Int, t <= u, Paced(S, interval, t)
  PROVE  IsFiniteSet(T) /\ Paced(T, interval, u)
<1>1. IsFiniteSet(T) /\ Cardinality(T) <= Cardinality(S)
  BY FS_Subset
<1>2. Cardinality(T) \in Nat /\ Cardinality(S) \in Nat
  BY <1>1, FS_CardinalityType
<1>3. /\ (Cardinality(T) - 1) * interval <= (Cardinality(S) - 1) * interval
      /\ (Cardinality(T) - 1) * interval \in Int
      /\ (Cardinality(S) - 1) * interval \in Int
  <2>1. Cardinality(T) - 1 \in Int /\ Cardinality(S) - 1 \in Int
        /\ Cardinality(T) - 1 <= Cardinality(S) - 1
    BY <1>1, <1>2
  <2> QED
    BY <2>1, ProductMonotonic, Zenon
<1> QED
  BY <1>1, <1>3 DEF Paced

(* One more request, when all of those before it fit the time so far. *)
LEMMA PacedMore ==
  ASSUME NEW S, IsFiniteSet(S), NEW x, NEW interval \in Nat, NEW t \in Int,
         Cardinality(S) * interval <= t
  PROVE  IsFiniteSet(S \cup {x}) /\ Paced(S \cup {x}, interval, t)
<1>1. /\ IsFiniteSet(S \cup {x}) /\ Cardinality(S) \in Nat
      /\ Cardinality(S \cup {x}) \in {Cardinality(S), Cardinality(S) + 1}
  BY FS_AddElement, FS_CardinalityType
<1>2. /\ (Cardinality(S \cup {x}) - 1) * interval <= Cardinality(S) * interval
      /\ (Cardinality(S \cup {x}) - 1) * interval \in Int
      /\ Cardinality(S) * interval \in Int
  <2>1. /\ Cardinality(S \cup {x}) - 1 \in Int /\ Cardinality(S) \in Int
        /\ Cardinality(S \cup {x}) - 1 <= Cardinality(S)
    BY <1>1
  <2> QED
    BY <2>1, ProductMonotonic, Zenon
<1> QED
  BY <1>1, <1>2 DEF Paced

(* A request granted and not yet released leaves room for its release. *)
LEMMA ReleaseFits ==
  ASSUME NEW S, IsFiniteSet(S), NEW T \in SUBSET S, NEW x \in S \ T,
         NEW interval \in Nat, NEW t \in Int, Paced(S, interval, t)
  PROVE  /\ IsFiniteSet(T)
         /\ Cardinality(T \cup {x}) = Cardinality(T) + 1
         /\ Cardinality(T) * interval <= t
<1>1. T \subseteq S \ {x}
  OBVIOUS
<1>2. /\ IsFiniteSet(S \ {x}) /\ Cardinality(S \ {x}) = Cardinality(S) - 1
      /\ Cardinality(S) \in Nat
  BY FS_RemoveElement, FS_CardinalityType
<1>3. IsFiniteSet(T) /\ Cardinality(T) <= Cardinality(S) - 1
  <2>1. IsFiniteSet(T) /\ Cardinality(T) <= Cardinality(S \ {x})
    BY <1>1, <1>2, FS_Subset, Zenon
  <2> QED
    BY <1>2, <2>1
<1>4. Cardinality(T) \in Nat /\ Cardinality(T \cup {x}) = Cardinality(T) + 1
  BY <1>3, FS_AddElement, FS_CardinalityType
<1>5. /\ Cardinality(T) * interval <= (Cardinality(S) - 1) * interval
      /\ Cardinality(T) * interval \in Int
      /\ (Cardinality(S) - 1) * interval \in Int
  <2>1. Cardinality(T) \in Int /\ Cardinality(S) - 1 \in Int
    BY <1>2, <1>4
  <2> QED
    BY <1>3, <2>1, ProductMonotonic, Zenon
<1> QED
  BY <1>3, <1>4, <1>5 DEF Paced

-----------------------------------------------------------------------------
(* A schedule that gives a turn to each request.  `all` are the requests that
   have one, granted[t] those whose turn has come by t, and `next` is the
   first instant still free.  No instant from now on sees more turns than
   intervals, and the schedule is past all of them.  A caller that gives up
   while it waits leaves its turn to nobody, so turns are counted and not
   numbered. *)
OnSchedule(all, granted, interval, next, now) ==
    /\ IsFiniteSet(all)
    /\ Cardinality(all) * interval <= next
    /\ \A t \in Nat : granted[t] \subseteq all
    /\ \A t \in Nat : t >= now => Paced(granted[t], interval, t)

(* A step that gives no turn leaves the schedule kept. *)
LEMMA ScheduleKept ==
  ASSUME NEW all, NEW all2 \in SUBSET all, NEW granted, NEW granted2,
         NEW interval \in Nat, NEW next \in Nat, NEW now \in Nat, NEW now2 \in Nat,
         now <= now2, OnSchedule(all, granted, interval, next, now),
         \A t \in Nat : granted2[t] \subseteq all2,
         \A t \in Nat : t >= now2 => granted2[t] \subseteq granted[t]
  PROVE  OnSchedule(all2, granted2, interval, next, now2)
<1>1. IsFiniteSet(all2) /\ Cardinality(all2) <= Cardinality(all)
  BY FS_Subset DEF OnSchedule
<1>2. Cardinality(all2) \in Nat /\ Cardinality(all) \in Nat
  BY <1>1, FS_CardinalityType DEF OnSchedule
<1>3. Cardinality(all2) * interval <= next
  BY <1>1, <1>2, ProductMonotonic DEF OnSchedule
<1>4. ASSUME NEW t \in Nat, t >= now2 PROVE Paced(granted2[t], interval, t)
  <2>1. t >= now /\ granted2[t] \subseteq granted[t] /\ granted[t] \subseteq all
    BY <1>4 DEF OnSchedule
  <2>2. Paced(granted[t], interval, t) /\ IsFiniteSet(granted[t])
    BY <2>1, FS_Subset DEF OnSchedule
  <2> QED
    BY <2>1, <2>2, PacedLess
<1> QED
  BY <1>1, <1>3, <1>4 DEF OnSchedule

(* x takes the instant `turn`, which is free; all2, granted2 and next2 are the
   schedule afterwards. *)
Claimed(x, turn, all, all2, granted, granted2, interval, next, next2, now) ==
    /\ all2 \subseteq all \cup {x}
    /\ \/ interval = 0 /\ next2 = next
       \/ turn >= next /\ next2 = turn + interval
    /\ \A t \in Nat : granted2[t] \subseteq all2
    /\ \A t \in Nat : t >= now =>
          /\ granted2[t] \subseteq granted[t] \cup {x}
          /\ interval # 0 /\ t < turn => granted2[t] \subseteq granted[t]

LEMMA ScheduleClaimed ==
  ASSUME NEW x, NEW turn \in Nat, NEW all, NEW all2, NEW granted, NEW granted2,
         NEW interval \in Nat, NEW next \in Nat, NEW next2 \in Nat, NEW now \in Nat,
         OnSchedule(all, granted, interval, next, now),
         Claimed(x, turn, all, all2, granted, granted2, interval, next, next2, now)
  PROVE  OnSchedule(all2, granted2, interval, next2, now)
<1> DEFINE k == Cardinality(all)
           kk == Cardinality(all2)
<1>0. IsFiniteSet(all) /\ IsFiniteSet(all \cup {x})
  BY FS_AddElement DEF OnSchedule
<1>1. k * interval <= next
  BY DEF OnSchedule
<1>2. /\ k \in Nat /\ kk \in Nat /\ kk <= k + 1 /\ IsFiniteSet(all2)
  <2>1. Cardinality(all \cup {x}) <= k + 1 /\ k \in Nat
    <3>1. Cardinality(all) \in Nat
      BY <1>0, FS_CardinalityType
    <3>2. Cardinality(all \cup {x}) \in {Cardinality(all), Cardinality(all) + 1}
      BY <1>0, FS_AddElement
    <3> QED
      BY <3>1, <3>2
  <2>2. IsFiniteSet(all2) /\ kk <= Cardinality(all \cup {x})
    BY <1>0, FS_Subset DEF Claimed
  <2>3. kk \in Nat /\ Cardinality(all \cup {x}) \in Nat
    BY <1>0, <2>2, FS_CardinalityType
  <2> QED
    BY <2>1, <2>2, <2>3
<1> HIDE DEF k, kk
<1>3. kk * interval <= next2
  <2>1. kk * interval <= (k + 1) * interval
    BY <1>2, ProductMonotonic
  <2>2. /\ (k + 1) * interval = k * interval + interval
        /\ k * interval \in Nat /\ kk * interval \in Nat
    BY <1>2
  <2>3. CASE interval = 0 /\ next2 = next
    BY <1>2, <2>3
  <2>4. CASE turn >= next /\ next2 = turn + interval
    BY <1>1, <2>1, <2>2, <2>4
  <2> QED
    BY <2>3, <2>4 DEF Claimed
<1>4. ASSUME NEW t \in Nat, t >= now PROVE Paced(granted2[t], interval, t)
  <2>1. /\ Paced(granted[t], interval, t) /\ IsFiniteSet(granted[t])
        /\ granted[t] \subseteq all
    BY <1>0, <1>4, FS_Subset DEF OnSchedule
  <2>2. CASE interval # 0 /\ t < turn
    <3>1. granted2[t] \in SUBSET granted[t] /\ t \in Int
      BY <1>4, <2>2 DEF Claimed
    <3>2. t <= t
      OBVIOUS
    <3> QED
      BY <2>1, <3>1, <3>2, PacedLess, Zenon
  <2>3. CASE interval = 0 \/ t >= turn
    <3>1. /\ Cardinality(granted[t]) \in Nat
          /\ Cardinality(granted[t]) * interval <= k * interval
          /\ Cardinality(granted[t]) * interval \in Int
      <4>1. Cardinality(granted[t]) <= k /\ Cardinality(granted[t]) \in Nat
        BY <1>0, <2>1, FS_Subset, FS_CardinalityType DEF k
      <4> QED
        BY <1>2, <4>1, ProductMonotonic
    <3>2. Cardinality(granted[t]) * interval <= t
      <4>1. CASE interval = 0
        BY <3>1, <4>1
      <4>2. CASE interval # 0 /\ t >= turn
        <5>1. k * interval \in Int /\ turn >= next
          BY <1>2, <4>2 DEF Claimed
        <5> QED
          BY <1>1, <3>1, <4>2, <5>1
      <4> QED
        BY <2>3, <4>1, <4>2
    <3>3. IsFiniteSet(granted[t] \cup {x}) /\ Paced(granted[t] \cup {x}, interval, t)
      <4>1. t \in Int
        OBVIOUS
      <4> QED
        BY <2>1, <3>2, <4>1, PacedMore
    <3>4. granted2[t] \in SUBSET (granted[t] \cup {x}) /\ t \in Int
      BY <1>4 DEF Claimed
    <3>5. t <= t
      OBVIOUS
    <3> QED
      BY <3>3, <3>4, <3>5, PacedLess, Zenon
  <2> QED
    BY <2>2, <2>3
<1> QED
  BY <1>2, <1>3, <1>4 DEF OnSchedule, Claimed, kk

(* A request whose turn has come and that is not out: there is room for it. *)
LEMMA TurnFits ==
  ASSUME NEW all, NEW granted, NEW interval \in Nat, NEW next, NEW now \in Nat,
         OnSchedule(all, granted, interval, next, now),
         NEW sent, sent \subseteq granted[now], NEW x \in granted[now] \ sent
  PROVE  /\ Cardinality(sent \cup {x}) = Cardinality(sent) + 1
         /\ Cardinality(sent) * interval <= now
<1>1. IsFiniteSet(granted[now]) /\ Paced(granted[now], interval, now)
  BY FS_Subset DEF OnSchedule
<1>2. sent \in SUBSET granted[now] /\ now \in Int
  OBVIOUS
<1> QED
  BY <1>1, <1>2, ReleaseFits
=============================================================================
