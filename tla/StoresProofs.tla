---------------------------- MODULE StoresProofs ----------------------------
(***************************************************************************)
(* Proofs about what the server thread keeps between requests:             *)
(* RoundRobinRouter.tla for any number of runners and any width of the     *)
(* counter that can count them, StatsStore.tla for any minute and window,  *)
(* LogStore.tla for any streams and limit.  MCStores composes these with   *)
(* the registry and the pages.                                             *)
(***************************************************************************)
EXTENDS MCStores, DashboardProofs, FiniteSetTheorems, FunctionTheorems,
        WellFoundedInduction

-----------------------------------------------------------------------------
(* Division with remainder.                                                *)

\* The quotient and the remainder of a natural number.
LEMMA Division ==
  ASSUME NEW n \in Nat \ {0}, NEW c \in Nat
  PROVE  /\ c = n * (c \div n) + (c % n)
         /\ c \div n \in Nat
         /\ c % n \in 0 .. n - 1
  BY SMTT(60)

\* A positive multiple of n is at least n.
LEMMA Multiples ==
  ASSUME NEW n \in Nat \ {0}, NEW d \in Int, d >= 1
  PROVE  n * d >= n
  BY SMT

\* Remainders are unique.
LEMMA OneRemainder ==
  ASSUME NEW n \in Nat \ {0}, NEW p \in Int, NEW q \in Int,
         NEW r \in 0 .. n - 1, NEW t \in 0 .. n - 1,
         n * p + r = n * q + t
  PROVE  r = t
<1>1. n * (p - q) = t - r /\ n * (q - p) = r - t
  BY SMT
<1>2. CASE p = q
  BY <1>2, SMT
<1>3. CASE p - q >= 1
  <2>1. n * (p - q) >= n
    BY <1>3, Multiples
  <2> QED BY <2>1, <1>1, SMT
<1>4. CASE q - p >= 1
  <2>1. n * (q - p) >= n
    BY <1>4, Multiples
  <2> QED BY <2>1, <1>1, SMT
<1> QED BY <1>2, <1>3, <1>4, SMT

\* The remainder of the next number.
LEMMA NextRemainder ==
  ASSUME NEW n \in Nat \ {0}, NEW c \in Nat
  PROVE  (c + 1) % n = IF c % n = n - 1 THEN 0 ELSE (c % n) + 1
<1> DEFINE p == c \div n
           q == (c + 1) \div n
           r == c % n
           t == (c + 1) % n
<1>1. p \in Int /\ q \in Int /\ r \in 0 .. n - 1 /\ t \in 0 .. n - 1
  BY Division
<1>2. c = n * p + r /\ c + 1 = n * q + t
  BY Division
<1> HIDE DEF p, q, r, t
<1>3. CASE r = n - 1
  <2>1. n * (p + 1) + 0 = n * q + t
    BY <1>1, <1>2, <1>3, SMT
  <2>2. 0 \in 0 .. n - 1 /\ p + 1 \in Int
    BY <1>1, SMT
  <2> QED BY <1>1, <1>3, <2>1, <2>2, OneRemainder DEF r, t
<1>4. CASE r # n - 1
  <2>1. n * p + (r + 1) = n * q + t
    BY <1>1, <1>2, SMT
  <2>2. r + 1 \in 0 .. n - 1
    BY <1>1, <1>4, SMT
  <2>3. r + 1 = t
    BY <1>1, <2>1, <2>2, OneRemainder
  <2> QED BY <1>4, <2>3 DEF r, t
<1> QED BY <1>3, <1>4

\* A number below n is its own remainder.
LEMMA SmallRemainder ==
  ASSUME NEW n \in Nat \ {0}, NEW c \in Nat, c < n
  PROVE  c % n = c
  OBVIOUS

-----------------------------------------------------------------------------
(* Types.                                                                  *)

LEMMA RunnersPositive ==
  ASSUME NEW s \in Services
  PROVE  Runners[s] \in Nat \ {0}
  BY RunnersAssumption

LEMMA TypesAtStart == RouterInit => RouterTypeOK
<1> SUFFICES ASSUME RouterInit PROVE RouterTypeOK
  OBVIOUS
<1>1. 0 \in 0 .. Modulus - 1 /\ 0 \in Nat
  BY ModulusAssumption, SMT
<1>2. counters \in [Services -> 0 .. Modulus - 1]
  BY <1>1 DEF RouterInit
<1> QED BY <1>1, <1>2 DEF RouterInit, RouterTypeOK

\* The values that a pick leaves behind.
LEMMA Pick ==
  ASSUME RouterTypeOK, NEW s \in Services, NextBaseUrl(s)
  PROVE  /\ counters'[s] = IF Runners[s] <= 1 THEN counters[s]
                           ELSE (counters[s] + 1) % Modulus
         /\ waits'[s] = [k \in RunnersOf(s) |->
                           IF k = Position(s) THEN 0 ELSE waits[s][k] + 1]
         /\ \A r \in Services \ {s} :
              counters'[r] = counters[r] /\ waits'[r] = waits[r]
         /\ DOMAIN counters' = Services /\ DOMAIN waits' = Services
  BY DEF NextBaseUrl, RouterTypeOK

LEMMA CounterKept ==
  ASSUME RouterTypeOK, NEW s \in Services, NextBaseUrl(s)
  PROVE  counters'[s] \in 0 .. Modulus - 1
<1> DEFINE c == counters[s]
<1>1. c \in 0 .. Modulus - 1
  BY DEF RouterTypeOK
<1> HIDE DEF c
<1>2. c + 1 \in Nat /\ c \in Nat
  BY <1>1, ModulusAssumption, SMT
<1>3. (c + 1) % Modulus \in 0 .. Modulus - 1
  BY <1>2, ModulusAssumption, Division
<1> QED BY <1>1, <1>3, Pick DEF c

LEMMA TypesKept ==
  ASSUME RouterTypeOK, [RouterNext]_routerVars
  PROVE  RouterTypeOK'
<1>1. CASE UNCHANGED routerVars
  BY <1>1 DEF RouterTypeOK, routerVars
<1>2. ASSUME NEW s \in Services, NextBaseUrl(s)
      PROVE  RouterTypeOK'
  <2>1. counters' \in [Services -> 0 .. Modulus - 1]
    <3>1. counters'[s] \in 0 .. Modulus - 1
      BY <1>2, CounterKept
    <3>2. \A r \in Services \ {s} : counters'[r] \in 0 .. Modulus - 1
      BY <1>2, Pick DEF RouterTypeOK
    <3>3. counters' = [r \in Services |-> counters'[r]]
      BY <1>2 DEF NextBaseUrl, RouterTypeOK
    <3> QED BY <3>1, <3>2, <3>3
  <2>2. ASSUME NEW r \in Services
        PROVE  waits'[r] \in [RunnersOf(r) -> Nat]
    <3>1. waits[r] \in [RunnersOf(r) -> Nat]
      BY DEF RouterTypeOK
    <3>2. CASE r = s
      <4>1. waits'[s] = [k \in RunnersOf(s) |->
                           IF k = Position(s) THEN 0 ELSE waits[s][k] + 1]
        BY <1>2, Pick
      <4>2. \A k \in RunnersOf(s) : waits[s][k] \in Nat
        BY <3>1, <3>2
      <4>3. \A k \in RunnersOf(s) : waits[s][k] + 1 \in Nat /\ 0 \in Nat
        BY <4>2
      <4> QED BY <3>2, <4>1, <4>3
    <3> QED BY <1>2, <3>1, <3>2, Pick
  <2> QED BY <1>2, <2>1, <2>2, Pick DEF RouterTypeOK
<1> QED BY <1>1, <1>2 DEF RouterNext

(* The counters of the router never leave the range of a usize.             *)
THEOREM RouterTypes == RouterSpec => []RouterTypeOK
<1> QED BY TypesAtStart, TypesKept, PTL DEF RouterSpec
-----------------------------------------------------------------------------
(* Turns.                                                                  *)

(* Of n runners, with the counter at c: one that was picked since the       *)
(* counter last started at 0 has waited since then, any other at most one   *)
(* pick less than n longer than the counter has run.                        *)
Turns(n, c, w) ==
  \A k \in 0 .. n - 1 :
    /\ c >= n \/ k < c =>
         w[k] = IF k < c % n THEN (c % n) - 1 - k ELSE (c % n) - 1 - k + n
    /\ c < n /\ k >= c => w[k] <= c + n - 1

Waited(n, c, w) == [k \in 0 .. n - 1 |-> IF k = c % n THEN 0 ELSE w[k] + 1]

\* The next pick while the counter does not wrap.
LEMMA NextTurn ==
  ASSUME NEW n \in Nat \ {0}, NEW c \in Nat, NEW w \in [0 .. n - 1 -> Nat],
         Turns(n, c, w)
  PROVE  Turns(n, c + 1, Waited(n, c, w))
<1> DEFINE p == c % n
           q == (c + 1) % n
<1>1. p \in 0 .. n - 1 /\ (c < n => p = c)
  BY Division, SmallRemainder
<1>2. q = IF p = n - 1 THEN 0 ELSE p + 1
  BY NextRemainder
<1>3. ASSUME NEW k \in 0 .. n - 1
      PROVE  /\ c >= n \/ k < c =>
                  w[k] = IF k < p THEN p - 1 - k ELSE p - 1 - k + n
             /\ c < n /\ k >= c => w[k] <= c + n - 1
             /\ w[k] \in Nat
  BY DEF Turns
<1> HIDE DEF p, q
<1>4. ASSUME NEW k \in 0 .. n - 1,
             NEW v, v = IF k = p THEN 0 ELSE w[k] + 1
      PROVE  /\ c + 1 >= n \/ k < c + 1 =>
                  v = IF k < q THEN q - 1 - k ELSE q - 1 - k + n
             /\ c + 1 < n /\ k >= c + 1 => v <= c + 1 + n - 1
  BY <1>1, <1>2, <1>3, <1>4, SMT
<1> QED BY <1>4 DEF Turns, Waited, p, q

\* The pick after which the counter is 0 again.
LEMMA WrapTurn ==
  ASSUME NEW n \in Nat \ {0}, NEW c \in Nat, NEW w \in [0 .. n - 1 -> Nat],
         c + 1 >= n, Turns(n, c, w)
  PROVE  Turns(n, 0, Waited(n, c, w))
<1> DEFINE p == c % n
<1>1. p \in 0 .. n - 1 /\ (c < n => p = c)
  BY Division, SmallRemainder
<1>2. ASSUME NEW k \in 0 .. n - 1
      PROVE  /\ c >= n \/ k < c =>
                  w[k] = IF k < p THEN p - 1 - k ELSE p - 1 - k + n
             /\ w[k] \in Nat
  BY DEF Turns
<1> HIDE DEF p
<1>3. ASSUME NEW k \in 0 .. n - 1,
             NEW v, v = IF k = p THEN 0 ELSE w[k] + 1
      PROVE  ~(0 >= n) /\ ~(k < 0) /\ v <= 0 + n - 1
  BY <1>1, <1>2, <1>3, SMT
<1> QED BY <1>3 DEF Turns, Waited, p

InTurn(s) == Turns(Runners[s], counters[s], waits[s])

RouterInv == RouterTypeOK /\ \A s \in Services : InTurn(s)

LEMMA InTurnAtStart == RouterInit => \A s \in Services : InTurn(s)
<1> SUFFICES ASSUME RouterInit, NEW s \in Services PROVE InTurn(s)
  OBVIOUS
<1>1. Runners[s] \in Nat \ {0}
  BY RunnersPositive
<1>2. counters[s] = 0 /\ \A k \in 0 .. Runners[s] - 1 : waits[s][k] = 0
  BY DEF RouterInit, RunnersOf
<1> DEFINE n == Runners[s]
           w == waits[s]
<1> HIDE DEF n, w
<1>3. ASSUME NEW k \in 0 .. n - 1
      PROVE  ~(0 >= n) /\ ~(k < 0) /\ w[k] <= 0 + n - 1
  BY <1>1, <1>2, SMT DEF n, w
<1>4. Turns(n, 0, w)
  BY <1>3 DEF Turns
<1> QED BY <1>2, <1>4 DEF InTurn, n, w

LEMMA InTurnKept ==
  ASSUME RouterInv, [RouterNext]_routerVars
  PROVE  \A s \in Services : InTurn(s)'
<1>1. CASE UNCHANGED routerVars
  BY <1>1 DEF RouterInv, InTurn, routerVars
<1>2. ASSUME NEW s \in Services, NextBaseUrl(s), NEW r \in Services
      PROVE  InTurn(r)'
  <2> USE DEF RouterInv
  <2>1. CASE r # s
    <3>1. counters'[r] = counters[r] /\ waits'[r] = waits[r]
      BY <1>2, <2>1, Pick
    <3> QED BY <1>2, <3>1 DEF InTurn
  <2>2. CASE r = s
    <3> DEFINE n == Runners[s]
               c == counters[s]
               w == waits[s]
    <3>1. n \in Nat \ {0} /\ n <= Modulus /\ Modulus \in Nat \ {0}
      BY RunnersPositive, WidthAssumption, ModulusAssumption
    <3>2. c \in 0 .. Modulus - 1 /\ w \in [0 .. n - 1 -> Nat]
      BY DEF RouterTypeOK, RunnersOf
    <3>3. c \in Nat
      BY <3>1, <3>2, SMT
    <3>4. Turns(n, c, w)
      BY <1>2 DEF InTurn
    <3>5. counters'[s] = IF n <= 1 THEN c ELSE (c + 1) % Modulus
      BY <1>2, Pick
    <3>6. waits'[s] = [k \in 0 .. n - 1 |->
                         IF k = Position(s) THEN 0 ELSE w[k] + 1]
      BY <1>2, Pick DEF RunnersOf
    <3>7. Position(s) = IF n <= 1 THEN 0 ELSE c % n
      BY DEF Position
    <3>8. InTurn(r)' = Turns(n, counters'[s], waits'[s])
      BY <2>2 DEF InTurn
    <3> HIDE DEF n, c, w
    <3>9. CASE n <= 1
      <4>1. n = 1
        BY <3>1, <3>9, SMT
      <4>2. ASSUME NEW k \in 0 .. n - 1, NEW v,
                   v = IF k = 0 THEN 0 ELSE w[k] + 1
            PROVE  v = 0 /\ k = 0
        BY <4>1, <4>2, SMT
      <4>3. c % n = 0
        BY <3>3, <4>1, Division, SMT
      <4>4. ASSUME NEW k \in 0 .. n - 1, k = 0
            PROVE  /\ c >= n \/ k < c =>
                        0 = IF k < 0 THEN 0 - 1 - k ELSE 0 - 1 - k + n
                   /\ c < n /\ k >= c => 0 <= c + n - 1
        BY <3>3, <4>1, <4>4, SMT
      <4>5. \A k \in 0 .. n - 1 : k = 0 /\ waits'[s][k] = 0
        BY <3>6, <3>7, <3>9, <4>2
      <4>6. Turns(n, c, waits'[s])
        BY <4>3, <4>4, <4>5 DEF Turns
      <4> QED BY <3>5, <3>8, <3>9, <4>6
    <3>10. CASE ~(n <= 1)
      <4>1. waits'[s] = Waited(n, c, w)
        BY <3>6, <3>7, <3>10 DEF Waited
      <4>2. CASE c + 1 = Modulus
        <5>1. (c + 1) % Modulus = 0
          <6>1. c % Modulus = c
            BY <3>1, <3>2, <3>3, SmallRemainder, SMT
          <6>2. c = Modulus - 1
            BY <3>1, <3>3, <4>2, SMT
          <6> QED BY <3>1, <3>3, <6>1, <6>2, NextRemainder
        <5>2. c + 1 >= n
          BY <3>1, <3>3, <4>2, SMT
        <5> QED BY <3>1, <3>2, <3>3, <3>4, <3>5, <3>8, <3>10, <4>1, <5>1, <5>2, WrapTurn
      <4>3. CASE c + 1 # Modulus
        <5>1. c + 1 < Modulus /\ c + 1 \in Nat
          BY <3>1, <3>2, <4>3, SMT
        <5>2. (c + 1) % Modulus = c + 1
          BY <3>1, <5>1, SmallRemainder
        <5> QED BY <3>1, <3>2, <3>3, <3>4, <3>5, <3>8, <3>10, <4>1, <5>2, NextTurn
      <4> QED BY <4>2, <4>3
    <3> QED BY <3>9, <3>10
  <2> QED BY <2>1, <2>2
<1> QED BY <1>1, <1>2 DEF RouterNext

LEMMA TurnsSuffice == RouterInv => EveryRunnerInTurn
<1> SUFFICES ASSUME RouterInv, NEW s \in Services, NEW k \in RunnersOf(s)
             PROVE  \/ waits[s][k] < Runners[s]
                    \/ counters[s] < Runners[s] /\ waits[s][k] < 2 * Runners[s] - 1
  BY DEF EveryRunnerInTurn
<1> DEFINE n == Runners[s]
           c == counters[s]
           w == waits[s]
           p == c % n
<1>1. n \in Nat \ {0} /\ c \in 0 .. Modulus - 1 /\ Modulus \in Nat \ {0}
      /\ k \in 0 .. n - 1 /\ w[k] \in Nat
  BY RunnersPositive, ModulusAssumption DEF RouterInv, RouterTypeOK, RunnersOf
<1>2. p \in 0 .. n - 1
  BY <1>1, Division, SMT
<1>3. /\ c >= n \/ k < c => w[k] = IF k < p THEN p - 1 - k ELSE p - 1 - k + n
      /\ c < n /\ k >= c => w[k] <= c + n - 1
  BY <1>1 DEF RouterInv, InTurn, Turns
<1> HIDE DEF n, c, w, p
<1>4. w[k] < n \/ (c < n /\ w[k] < 2 * n - 1)
  BY <1>1, <1>2, <1>3, SMT
<1> QED BY <1>4 DEF n, c, w

(* Every copy of a service has its turn, also when the counter wraps, for   *)
(* any number of copies that the counter can count.                         *)
THEOREM TurnsComeRound == RouterSpec => []EveryRunnerInTurn
<1>1. RouterInit => RouterInv
  BY TypesAtStart, InTurnAtStart DEF RouterInv
<1>2. RouterInv /\ [RouterNext]_routerVars => RouterInv'
  BY TypesKept, InTurnKept DEF RouterInv
<1>3. RouterInv => EveryRunnerInTurn
  BY TurnsSuffice
<1> QED BY <1>1, <1>2, <1>3, PTL DEF RouterSpec

-----------------------------------------------------------------------------
(* Sums.                                                                   *)

(* A sum over a finite set, as a count: of each element as many units as it *)
(* adds.  The recursion that computes the sum has a solution, the function  *)
(* that counts the units, and by induction on the size no other.            *)
Units(w, S) == UNION {{x} \X (1 .. w[x]) : x \in S}

LEMMA SmallestSet ==
  ASSUME NEW S, IsFiniteSet(S), NEW Bad, Bad \subseteq SUBSET S, Bad # {}
  PROVE  \E s \in Bad : \A r \in Bad : Cardinality(s) <= Cardinality(r)
<1> DEFINE sizes == {Cardinality(s) : s \in Bad}
<1>1. \A s \in Bad : Cardinality(s) \in Nat
  BY FS_Subset, FS_CardinalityType
<1>2. sizes \subseteq Nat /\ sizes # {}
  BY <1>1
<1> HIDE DEF sizes
<1>3. PICK n \in sizes : \A k \in sizes : ~(<<k, n>> \in OpToRel(<, Nat))
  BY <1>2, NatLessThanWellFounded, WFMin
<1>4. PICK s \in Bad : Cardinality(s) = n
  BY <1>3 DEF sizes
<1>5. ASSUME NEW r \in Bad
      PROVE  Cardinality(s) <= Cardinality(r)
  <2> DEFINE k == Cardinality(r)
  <2>1. k \in sizes /\ k \in Nat /\ n \in Nat
    BY <1>1, <1>2 DEF sizes
  <2> HIDE DEF k
  <2>2. <<k, n>> \in Nat \X Nat /\ ~(<<k, n>> \in OpToRel(<, Nat))
    BY <1>3, <2>1
  <2>3. ~(k < n)
    BY <2>1, <2>2 DEF OpToRel
  <2>4. n <= k
    BY <2>1, <2>3
  <2> QED BY <1>4, <2>4 DEF k
<1> QED BY <1>5

LEMMA UnitsFinite ==
  ASSUME NEW S, IsFiniteSet(S), NEW w \in [S -> Nat]
  PROVE  \A s \in SUBSET S : IsFiniteSet(Units(w, s))
<1> DEFINE parts == {{x} \X (1 .. w[x]) : x \in S}
           part == [x \in S |-> {x} \X (1 .. w[x])]
<1>1. IsFiniteSet(parts)
  <2>1. part \in Surjection(S, parts)
    BY DEF Surjection
  <2> QED BY <2>1, FS_Surjection
<1>2. ASSUME NEW x \in S
      PROVE  IsFiniteSet({x} \X (1 .. w[x]))
  <2>1. w[x] \in Int /\ 1 \in Int
    OBVIOUS
  <2>2. IsFiniteSet(1 .. w[x]) /\ IsFiniteSet({x})
    BY <2>1, FS_Interval, FS_Singleton
  <2> QED BY <2>2, FS_Product
<1>3. \A part_1 \in parts : IsFiniteSet(part_1)
  BY <1>2
<1>4. IsFiniteSet(Units(w, S))
  BY <1>1, <1>3, FS_UNION DEF Units
<1>5. \A s \in SUBSET S : Units(w, s) \subseteq Units(w, S)
  BY DEF Units
<1> QED BY <1>4, <1>5, FS_Subset

LEMMA OneElementMore ==
  ASSUME NEW S, IsFiniteSet(S), NEW w \in [S -> Nat], NEW s \in SUBSET S, NEW x \in s
  PROVE  Cardinality(Units(w, s)) = w[x] + Cardinality(Units(w, s \ {x}))
<1> DEFINE rest == Units(w, s \ {x})
           mine == {x} \X (1 .. w[x])
<1>1. Units(w, s) = mine \cup rest /\ mine \cap rest = {}
  BY DEF Units
<1>2. IsFiniteSet(rest)
  BY UnitsFinite
<1>3. IsFiniteSet(mine) /\ Cardinality(mine) = w[x]
  <2>1. w[x] \in Nat /\ w[x] \in Int /\ 1 \in Int
    OBVIOUS
  <2>2. IsFiniteSet(1 .. w[x]) /\ Cardinality(1 .. w[x]) = w[x]
    BY <2>1, FS_Interval
  <2>3. IsFiniteSet({x}) /\ Cardinality({x}) = 1
    BY FS_Singleton
  <2>4. /\ IsFiniteSet(mine)
        /\ Cardinality(mine) = Cardinality({x}) * Cardinality(1 .. w[x])
    BY <2>2, <2>3, FS_Product, Zenon
  <2>5. 1 * w[x] = w[x]
    BY <2>1
  <2> QED BY <2>2, <2>3, <2>4, <2>5, Zenon
<1>4. Cardinality(rest) \in Nat /\ Cardinality(mine) \in Nat
  BY <1>2, <1>3, FS_CardinalityType
<1>5. Cardinality(mine \cap rest) = 0
  BY <1>1, FS_EmptySet
<1>6. Cardinality(mine \cup rest) =
        Cardinality(mine) + Cardinality(rest) - Cardinality(mine \cap rest)
  BY <1>2, <1>3, FS_Union, Zenon
<1> HIDE DEF rest, mine
<1> QED BY <1>1, <1>3, <1>4, <1>5, <1>6 DEF rest

LEMMA SumCountsUnits ==
  ASSUME NEW S, IsFiniteSet(S), NEW w \in [S -> Nat]
  PROVE  MapThenSumSet(LAMBDA x : w[x], S) = Cardinality(Units(w, S))
<1> DEFINE Chosen(s) == CHOOSE x \in s : TRUE
           Step(iter) == [s \in SUBSET S |->
                            IF s = {} THEN 0 ELSE w[Chosen(s)] + iter[s \ {Chosen(s)}]]
           size == [s \in SUBSET S |-> Cardinality(Units(w, s))]
           sum == CHOOSE iter : iter = Step(iter)
<1>1. MapThenSumSet(LAMBDA x : w[x], S) = sum[S]
  BY Zenon DEF MapThenSumSet, MapThenFoldSet
<1>2. \A s \in SUBSET S : s # {} => Chosen(s) \in s
  OBVIOUS
<1>3. Units(w, {}) = {}
  BY DEF Units
<1> HIDE DEF Chosen
<1>4. ASSUME NEW s \in SUBSET S
      PROVE  size[s] = Step(size)[s]
  <2>1. CASE s = {}
    BY <2>1, <1>3, FS_EmptySet
  <2>2. CASE s # {}
    <3>1. Chosen(s) \in s /\ s \ {Chosen(s)} \in SUBSET S
      BY <2>2, <1>2
    <3>2. Cardinality(Units(w, s)) = w[Chosen(s)] + Cardinality(Units(w, s \ {Chosen(s)}))
      BY <3>1, OneElementMore
    <3> QED BY <2>2, <3>1, <3>2
  <2> QED BY <2>1, <2>2
<1>5. size = Step(size)
  BY <1>4
<1>6. sum = Step(sum)
  BY <1>5
<1> HIDE DEF sum
<1>7. ASSUME NEW s \in SUBSET S, sum[s] # size[s]
      PROVE  FALSE
  <2> DEFINE bad == {r \in SUBSET S : sum[r] # size[r]}
  <2>1. PICK t \in bad : \A r \in bad : Cardinality(t) <= Cardinality(r)
    <3>1. bad \subseteq SUBSET S /\ bad # {}
      BY <1>7
    <3> HIDE DEF bad
    <3> QED BY <3>1, SmallestSet
  <2>2. t \in SUBSET S /\ sum[t] # size[t]
    BY <2>1
  <2>3. sum[t] = Step(sum)[t] /\ size[t] = Step(size)[t]
    BY <1>5, <1>6, Zenon
  <2>4. t # {}
    BY <2>2, <2>3
  <2> DEFINE x == Chosen(t)
             r == t \ {x}
  <2>5. x \in t /\ r \in SUBSET S
    BY <1>2, <2>2, <2>4
  <2>6. sum[r] # size[r]
    BY <2>2, <2>3, <2>4, <2>5
  <2>7. Cardinality(t) <= Cardinality(r)
    BY <2>1, <2>5, <2>6
  <2>8. IsFiniteSet(t)
    BY <2>2, FS_Subset
  <2>9. Cardinality(r) = Cardinality(t) - 1 /\ Cardinality(t) \in Nat
    BY <2>5, <2>8, FS_RemoveElement, FS_CardinalityType
  <2> HIDE DEF r
  <2> QED BY <2>7, <2>9
<1>8. sum[S] = size[S]
  BY <1>7
<1> QED BY <1>1, <1>8

(* Things that belong to someone, counted one owner after the other.        *)
LEMMA CountedByOwner ==
  ASSUME NEW K, IsFiniteSet(K), NEW E, NEW own \in [K -> E], NEW w \in [E -> Nat],
         \A e \in E : w[e] = Cardinality({i \in K : own[i] = e})
  PROVE  Cardinality(Units(w, E)) = Cardinality(K)
<1> DEFINE Of(e) == {i \in K : own[i] = e}
           number == [e \in E |-> CHOOSE b : b \in Bijection(Of(e), 1 .. w[e])]
           unit == [i \in K |-> <<own[i], number[own[i]][i]>>]
<1>1. ASSUME NEW e \in E
      PROVE  number[e] \in Bijection(Of(e), 1 .. w[e])
  <2>1. IsFiniteSet(Of(e))
    BY FS_Subset
  <2>2. ExistsBijection(1 .. w[e], Of(e))
    BY <2>1, FS_CardinalityType
  <2>3. ExistsBijection(Of(e), 1 .. w[e])
    BY <2>2, Fun_ExistsBijSymmetric
  <2>4. \E b : b \in Bijection(Of(e), 1 .. w[e])
    BY <2>3 DEF ExistsBijection
  <2> QED BY <2>4
<1> HIDE DEF number
<1>2. ASSUME NEW i \in K
      PROVE  own[i] \in E /\ i \in Of(own[i]) /\ number[own[i]][i] \in 1 .. w[own[i]]
  <2>1. own[i] \in E /\ i \in Of(own[i])
    OBVIOUS
  <2> QED BY <2>1, <1>1 DEF Bijection, Injection
<1>3. unit \in [K -> Units(w, E)]
  BY <1>2 DEF Units
<1>4. ASSUME NEW i \in K, NEW j \in K, unit[i] = unit[j]
      PROVE  i = j
  <2>1. own[i] = own[j] /\ number[own[i]][i] = number[own[i]][j]
    BY <1>4
  <2>2. i \in Of(own[i]) /\ j \in Of(own[i]) /\ own[i] \in E
    BY <1>2, <2>1
  <2> QED BY <1>1, <2>1, <2>2 DEF Bijection, Injection, IsInjective
<1>5. ASSUME NEW u \in Units(w, E)
      PROVE  \E i \in K : unit[i] = u
  <2>1. PICK e \in E : u \in {e} \X (1 .. w[e])
    BY DEF Units
  <2>2. PICK k \in 1 .. w[e] : u = <<e, k>>
    BY <2>1
  <2>3. PICK i \in Of(e) : number[e][i] = k
    BY <1>1 DEF Bijection, Surjection
  <2> QED BY <2>2, <2>3
<1>6. unit \in Bijection(K, Units(w, E))
  BY <1>3, <1>4, <1>5 DEF Bijection, Injection, Surjection, IsInjective
<1>7. ExistsBijection(K, Units(w, E))
  BY <1>6 DEF ExistsBijection
<1> QED BY <1>7, FS_Bijection

-----------------------------------------------------------------------------
(* Statistics.                                                             *)

\* A time that is not after the last one is in no later minute.
LEMMA MinuteInRange ==
  ASSUME NEW time \in 0 .. LastTick
  PROVE  Minute(time) \in 0 .. LastMinute
<1> DEFINE n == MinuteLength
           p == time \div n
           q == LastTick \div n
<1>1. n \in Nat \ {0} /\ time \in Nat /\ LastTick \in Nat /\ time <= LastTick
  BY StatsAssumption
<1>2. /\ time = n * p + (time % n) /\ p \in Nat /\ time % n \in 0 .. n - 1
      /\ LastTick = n * q + (LastTick % n) /\ q \in Nat /\ LastTick % n \in 0 .. n - 1
  BY <1>1, Division
<1> DEFINE r == time % n
           t == LastTick % n
<1>3. r \in 0 .. n - 1 /\ t \in 0 .. n - 1 /\ time = n * p + r /\ LastTick = n * q + t
  BY <1>2
<1> HIDE DEF n, p, q, r, t
<1>4. p <= q
  <2>1. SUFFICES ASSUME p - q >= 1 PROVE FALSE
    BY <1>2
  <2>2. n * (p - q) >= n
    BY <1>1, <1>2, <2>1, Multiples
  <2>3. n * (p - q) = n * p - n * q
    BY <1>1, <1>2
  <2>4. n * p \in Nat /\ n * q \in Nat
    BY <1>1, <1>2
  <2> QED BY <1>1, <1>3, <2>2, <2>3, <2>4
<1> QED BY <1>2, <1>4 DEF Minute, LastMinute, n, p, q

LEMMA LastMinuteType == LastMinute \in Nat
BY StatsAssumption, Division DEF LastMinute, Minute

\* What an endpoint keeps of the past when it records in a minute.
LEMMA CutoffOf ==
  ASSUME NEW minute \in Nat, NEW m \in Nat
  PROVE  m >= Cutoff(minute) <=> minute < m + MaxMinutes
BY StatsAssumption DEF Cutoff

WellCounted(counts) ==
  /\ DOMAIN counts \subseteq 0 .. LastMinute
  /\ \A m \in DOMAIN counts : counts[m] \in [Statuses -> Nat]

\* What a record does to the counts of its endpoint.
LEMMA CountsOfRecord ==
  ASSUME NEW counts, WellCounted(counts), NEW time \in 0 .. LastTick,
         NEW status \in Statuses
  PROVE  LET new == Retained(CountedIn(counts, time, status), Minute(time)) IN
         /\ WellCounted(new)
         /\ \A m \in 0 .. LastMinute, s \in Statuses :
              CountAt(new, m, s) =
                IF Minute(time) >= m + MaxMinutes THEN 0
                ELSE CountAt(counts, m, s)
                       + (IF m = Minute(time) /\ s = status THEN 1 ELSE 0)
<1> DEFINE minute == Minute(time)
           all == CountedIn(counts, time, status)
           new == Retained(all, minute)
<1>1. minute \in 0 .. LastMinute
  BY MinuteInRange
<1>2. LastMinute \in Nat
  BY LastMinuteType
<1>3. /\ DOMAIN all = DOMAIN counts \cup {minute}
      /\ \A m \in DOMAIN all, s \in Statuses :
           all[m][s] = IF m = minute /\ s = status THEN CountAt(counts, m, s) + 1
                       ELSE CountAt(counts, m, s)
      /\ \A m \in DOMAIN all :
           all[m] = [s \in Statuses |->
                       IF m = minute /\ s = status THEN CountAt(counts, m, s) + 1
                       ELSE CountAt(counts, m, s)]
  BY DEF CountedIn
<1>4. \A m, s : s \in Statuses => CountAt(counts, m, s) \in Nat
  BY DEF CountAt, WellCounted
<1>5. ASSUME NEW m \in DOMAIN all
      PROVE  all[m] \in [Statuses -> Nat]
  <2>1. \A s \in Statuses : all[m][s] \in Nat
    BY <1>3, <1>4
  <2>2. \E body : all[m] = [s \in Statuses |-> body[s]] /\ \A s \in Statuses : body[s] = all[m][s]
    BY <1>3
  <2> QED BY <2>1, <2>2
<1>6. DOMAIN all \subseteq 0 .. LastMinute
  BY <1>1, <1>3 DEF WellCounted
<1> HIDE DEF all
<1>7. /\ DOMAIN new = {m \in DOMAIN all : m >= Cutoff(minute)}
      /\ \A m \in DOMAIN new : new[m] = all[m]
  BY DEF Retained, Restrict
<1> HIDE DEF new
<1>8. WellCounted(new)
  BY <1>5, <1>6, <1>7 DEF WellCounted
<1>9. ASSUME NEW m \in 0 .. LastMinute, NEW s \in Statuses
      PROVE  CountAt(new, m, s) =
               IF minute >= m + MaxMinutes THEN 0
               ELSE CountAt(counts, m, s) + (IF m = minute /\ s = status THEN 1 ELSE 0)
  <2>1. m \in DOMAIN new <=> m \in DOMAIN all /\ minute < m + MaxMinutes
    BY <1>1, <1>2, <1>7, CutoffOf
  <2>2. MaxMinutes \in Nat \ {0} /\ m \in Nat /\ minute \in Nat
    BY <1>1, <1>2, StatsAssumption
  <2>3. CountAt(counts, m, s) \in Nat
    BY <1>4
  <2> HIDE DEF minute
  <2>4. CASE minute >= m + MaxMinutes
    <3>1. m \notin DOMAIN new
      BY <2>1, <2>2, <2>4
    <3> QED BY <2>4, <3>1 DEF CountAt
  <2>5. CASE ~(minute >= m + MaxMinutes) /\ m \in DOMAIN all
    <3>1. m \in DOMAIN new
      BY <2>1, <2>2, <2>5
    <3>2. CountAt(new, m, s) = all[m][s]
      BY <1>7, <3>1 DEF CountAt
    <3> QED BY <1>3, <2>3, <2>5, <3>2
  <2>6. CASE ~(minute >= m + MaxMinutes) /\ m \notin DOMAIN all
    <3>1. CountAt(new, m, s) = 0
      BY <2>1, <2>6 DEF CountAt
    <3>2. m # minute /\ CountAt(counts, m, s) = 0
      BY <1>3, <2>6 DEF CountAt
    <3> QED BY <2>6, <3>1, <3>2
  <2> QED BY <2>4, <2>5, <2>6
<1> QED BY <1>8, <1>9 DEF new, all

StatsInv == StatsTypeOK /\ \A e \in Endpoints : Shows(data[e], {e})

\* The records that an endpoint keeps, when anyone records.
LEMMA KeptAfterRecord ==
  ASSUME NEW records \in Seq(Records), NEW r \in Records, NEW f \in Endpoints,
         NEW who, \A e : e \in who <=> e = f,
         NEW m \in 0 .. LastMinute, NEW s \in Statuses
  PROVE  \A i : i \in Kept(Append(records, r), who, m, s) <=>
                  \/ /\ i \in Kept(records, who, m, s)
                     /\ ~(f = r.endpoint /\ r.minute >= m + MaxMinutes)
                  \/ /\ i = Len(records) + 1
                     /\ f = r.endpoint /\ m = r.minute /\ s = r.status
<1> DEFINE n == Len(records)
           longer == Append(records, r)
<1>1. r.minute \in Nat /\ m \in Nat /\ MaxMinutes \in Nat \ {0}
  BY LastMinuteType, StatsAssumption DEF Records
<1>2. /\ n \in Nat /\ DOMAIN records = 1 .. n
      /\ Len(longer) = n + 1 /\ DOMAIN longer = 1 .. n + 1
      /\ \A i \in 1 .. n : longer[i] = records[i]
      /\ longer[n + 1] = r
  OBVIOUS
<1> HIDE DEF n, longer
<1>3. ASSUME NEW i \in 1 .. n
      PROVE  OutOfWindow(longer, i) <=>
               \/ OutOfWindow(records, i)
               \/ records[i].endpoint = r.endpoint
                  /\ r.minute >= records[i].minute + MaxMinutes
  <2>1. n + 1 \in i .. n + 1 /\ n + 1 \notin i .. n
    BY <1>2
  <2>2. \A j : j \in i .. n + 1 <=> j \in i .. n \/ j = n + 1
    BY <1>2
  <2>3. \A j \in i .. n : j \in 1 .. n
    BY <1>2
  <2>4. OutOfWindow(longer, i) <=>
          \E j \in i .. n + 1 : /\ longer[j].endpoint = records[i].endpoint
                               /\ longer[j].minute >= records[i].minute + MaxMinutes
    BY <1>2 DEF OutOfWindow
  <2>5. OutOfWindow(records, i) <=>
          \E j \in i .. n : /\ records[j].endpoint = records[i].endpoint
                           /\ records[j].minute >= records[i].minute + MaxMinutes
    BY DEF OutOfWindow, n
  <2>6. \A j \in i .. n : longer[j] = records[j]
    BY <1>2, <2>3
  <2> QED BY <1>2, <2>1, <2>2, <2>4, <2>5, <2>6
<1>4. ~OutOfWindow(longer, n + 1)
  <2>1. \A j \in n + 1 .. n + 1 : j = n + 1
    BY <1>2
  <2>2. ~(r.minute >= r.minute + MaxMinutes)
    BY <1>1
  <2> QED BY <1>2, <2>1, <2>2 DEF OutOfWindow
<1>5. ASSUME NEW i
      PROVE  i \in Kept(longer, who, m, s) <=>
               \/ /\ i \in Kept(records, who, m, s)
                  /\ ~(f = r.endpoint /\ r.minute >= m + MaxMinutes)
               \/ i = n + 1 /\ f = r.endpoint /\ m = r.minute /\ s = r.status
  <2>1. CASE i \in 1 .. n
    <3>1. i # n + 1 /\ i \in 1 .. n + 1
      BY <1>2, <2>1
    <3>2. i \in Kept(longer, who, m, s) <=>
            /\ records[i].endpoint = f /\ records[i].minute = m
            /\ records[i].status = s /\ ~OutOfWindow(longer, i)
      BY <1>2, <2>1, <3>1 DEF Kept
    <3>3. i \in Kept(records, who, m, s) <=>
            /\ records[i].endpoint = f /\ records[i].minute = m
            /\ records[i].status = s /\ ~OutOfWindow(records, i)
      BY <1>2, <2>1 DEF Kept
    <3> QED BY <2>1, <1>3, <3>1, <3>2, <3>3
  <2>2. CASE i = n + 1
    <3>1. i \notin 1 .. n /\ i \in 1 .. n + 1
      BY <1>2, <2>2
    <3>2. i \notin Kept(records, who, m, s)
      BY <1>2, <3>1 DEF Kept
    <3>3. i \in Kept(longer, who, m, s) <=> r.endpoint = f /\ r.minute = m /\ r.status = s
      BY <1>2, <1>4, <2>2, <3>1 DEF Kept
    <3> QED BY <2>2, <3>2, <3>3
  <2>3. CASE i \notin 1 .. n /\ i # n + 1
    <3>1. i \notin 1 .. n + 1
      BY <1>2, <2>3
    <3> QED BY <1>2, <2>3, <3>1 DEF Kept
  <2> QED BY <2>1, <2>2, <2>3
<1> QED BY <1>5 DEF n, longer

\* The records that are kept are some of those that were made.
LEMMA KeptFinite ==
  ASSUME StatsTypeOK, NEW who, NEW m, NEW s
  PROVE  IsFiniteSet(Kept(log, who, m, s)) /\ Kept(log, who, m, s) \subseteq 1 .. Len(log)
<1>1. DOMAIN log = 1 .. Len(log) /\ Len(log) \in Nat
  BY DEF StatsTypeOK
<1>2. IsFiniteSet(1 .. Len(log))
  BY <1>1, FS_Interval
<1>3. Kept(log, who, m, s) \subseteq 1 .. Len(log)
  BY <1>1 DEF Kept
<1> QED BY <1>2, <1>3, FS_Subset

LEMMA StatsAtStart == StatsInit => StatsInv
<1> SUFFICES ASSUME StatsInit PROVE StatsInv
  OBVIOUS
<1>1. 0 \in 0 .. LastTick
  BY StatsAssumption
<1>2. \A e \in Endpoints : data[e] = <<>> /\ DOMAIN data[e] = {}
  BY DEF StatsInit
<1>3. log \in Seq(Records)
      /\ DOMAIN log = {}
  BY DEF StatsInit
<1>4. StatsTypeOK
  BY <1>1, <1>2, <1>3 DEF StatsInit, StatsTypeOK
<1>5. ASSUME NEW e \in Endpoints, NEW m, NEW s
      PROVE  CountAt(data[e], m, s) = Cardinality(Kept(log, {e}, m, s))
  <2>1. Kept(log, {e}, m, s) = {}
    BY <1>3 DEF Kept
  <2> QED BY <1>2, <2>1, FS_EmptySet DEF CountAt
<1> QED BY <1>4, <1>5 DEF StatsInv, Shows

LEMMA StatsKept ==
  ASSUME StatsInv, [StatsNext]_statsVars
  PROVE  StatsInv'
<1>1. CASE UNCHANGED <<data, log>> /\ now' \in 0 .. LastTick
  <2>1. StatsTypeOK'
    BY <1>1 DEF StatsInv, StatsTypeOK
  <2>2. (\A e \in Endpoints : Shows(data[e], {e}))'
    BY <1>1 DEF StatsInv, Shows, Kept, OutOfWindow
  <2> QED BY <2>1, <2>2 DEF StatsInv
<1>2. ASSUME NEW e \in Endpoints, NEW status \in Statuses, Record(e, status)
      PROVE  StatsInv'
  <2> DEFINE new == Retained(CountedIn(data[e], now, status), Minute(now))
  <2>1. StatsTypeOK /\ now \in 0 .. LastTick /\ WellCounted(data[e])
    BY DEF StatsInv, StatsTypeOK, WellCounted
  <2>2. /\ DOMAIN data = Endpoints /\ DOMAIN data' = Endpoints
        /\ data'[e] = new
        /\ \A f \in Endpoints \ {e} : data'[f] = data[f]
    BY <1>2, <2>1 DEF Record, StatsTypeOK
  <2>3. /\ WellCounted(new)
        /\ \A m \in 0 .. LastMinute, s \in Statuses :
             CountAt(new, m, s) =
               IF Minute(now) >= m + MaxMinutes THEN 0
               ELSE CountAt(data[e], m, s)
                      + (IF m = Minute(now) /\ s = status THEN 1 ELSE 0)
    BY <2>1, CountsOfRecord
  <2> HIDE DEF new
  <2>4. StatsTypeOK'
    <3>1. log' \in Seq(Records)
      BY <1>2, <2>1, MinuteInRange DEF Record, StatsTypeOK, Records
    <3>2. \A f \in Endpoints : WellCounted(data'[f])
      BY <2>1, <2>2, <2>3 DEF StatsTypeOK, WellCounted
    <3>3. now' \in 0 .. LastTick
      BY <1>2, <2>1 DEF Record
    <3> QED BY <2>2, <3>1, <3>2, <3>3 DEF StatsTypeOK, WellCounted
  <2>5. ASSUME NEW f \in Endpoints, NEW m \in 0 .. LastMinute, NEW s \in Statuses
        PROVE  CountAt(data[f], m, s)' = Cardinality(Kept(log', {f}, m, s))
    <3>1. CountAt(data[f], m, s) = Cardinality(Kept(log, {f}, m, s))
      BY DEF StatsInv, Shows
    <3> DEFINE kept == Kept(log, {f}, m, s)
               r == [endpoint |-> e, minute |-> Minute(now), status |-> status]
    <3>2. \A i : i \in Kept(log', {f}, m, s) <=>
                   \/ i \in kept /\ ~(f = e /\ Minute(now) >= m + MaxMinutes)
                   \/ i = Len(log) + 1 /\ f = e /\ m = Minute(now) /\ s = status
      <4>1. log \in Seq(Records) /\ log' = Append(log, r) /\ r \in Records
        BY <1>2, <2>1, MinuteInRange DEF Record, StatsTypeOK, Records
      <4>2. r.endpoint = e /\ r.minute = Minute(now) /\ r.status = status
        OBVIOUS
      <4>3. \A i : i \in {f} <=> i = f
        OBVIOUS
      <4> HIDE DEF r
      <4>4. \A i : i \in Kept(Append(log, r), {f}, m, s) <=>
                     \/ i \in kept /\ ~(f = r.endpoint /\ r.minute >= m + MaxMinutes)
                     \/ i = Len(log) + 1 /\ f = r.endpoint /\ m = r.minute /\ s = r.status
        BY <4>1, <4>3, KeptAfterRecord
      <4> QED BY <4>1, <4>2, <4>4
    <3>3. CASE f # e
      <4>1. data'[f] = data[f]
        BY <2>2, <3>3
      <4>2. Kept(log', {f}, m, s) = kept
        BY <3>2, <3>3, Zenon
      <4> QED BY <3>1, <4>1, <4>2 DEF CountAt
    <3>4. CASE f = e /\ Minute(now) >= m + MaxMinutes
      <4>1. m # Minute(now)
        BY <2>1, <3>4, MinuteInRange, LastMinuteType, StatsAssumption
      <4>2. Kept(log', {f}, m, s) = {}
        BY <3>2, <3>4, <4>1, Zenon
      <4>3. CountAt(new, m, s) = 0
        BY <2>3, <3>4
      <4>4. CountAt(data[f], m, s)' = 0
        BY <2>2, <3>4, <4>3 DEF CountAt
      <4> QED BY <4>2, <4>4, FS_EmptySet
    <3>5. CASE f = e /\ ~(Minute(now) >= m + MaxMinutes)
      <4>1. IsFiniteSet(kept) /\ Len(log) + 1 \notin kept
        <5>1. Len(log) \in Nat
          BY <2>1 DEF StatsTypeOK
        <5>2. Len(log) + 1 \notin 1 .. Len(log)
          BY <5>1
        <5> QED BY <2>1, <5>2, KeptFinite
      <4>2. Cardinality(kept) \in Nat
        BY <4>1, FS_CardinalityType
      <4>3. CountAt(data[f], m, s)' =
              CountAt(data[e], m, s) + (IF m = Minute(now) /\ s = status THEN 1 ELSE 0)
        BY <2>2, <2>3, <3>5 DEF CountAt
      <4>4. CASE m = Minute(now) /\ s = status
        <5>1. Kept(log', {f}, m, s) = kept \cup {Len(log) + 1}
          <6>1. \A i : i \in Kept(log', {f}, m, s) <=> i \in kept \/ i = Len(log) + 1
            BY <3>2, <3>5, <4>4
          <6> QED BY <6>1, Zenon
        <5>2. Cardinality(kept \cup {Len(log) + 1}) = Cardinality(kept) + 1
          BY <4>1, FS_AddElement
        <5> QED BY <3>1, <3>5, <4>3, <4>4, <5>1, <5>2
      <4>5. CASE ~(m = Minute(now) /\ s = status)
        <5>1. Kept(log', {f}, m, s) = kept
          <6>1. \A i : i \in Kept(log', {f}, m, s) <=> i \in kept
            BY <3>2, <3>5, <4>5
          <6> QED BY <6>1, Zenon
        <5> QED BY <3>1, <3>5, <4>2, <4>3, <4>5, <5>1
      <4> QED BY <4>4, <4>5
    <3> QED BY <3>3, <3>4, <3>5
  <2>6. (\A f \in Endpoints : Shows(data[f], {f}))'
    BY <2>5 DEF Shows
  <2> QED BY <2>4, <2>6 DEF StatsInv
<1>3. CASE UNCHANGED statsVars
  <2>1. UNCHANGED <<data, log>> /\ now' \in 0 .. LastTick
    BY <1>3 DEF statsVars, StatsInv, StatsTypeOK
  <2> QED BY <1>1, <2>1
<1> QED BY <1>1, <1>2, <1>3 DEF StatsNext, SetClock

\* The sum over the endpoints counts every kept record once.
LEMMA AllEndpoints ==
  ASSUME StatsInv, NEW m \in 0 .. LastMinute, NEW s \in Statuses
  PROVE  Cardinality(Kept(log, Endpoints, m, s)) =
           IF m \in UNION {DOMAIN data[e] : e \in Endpoints} THEN GlobalCount(m, s) ELSE 0
<1> DEFINE K == Kept(log, Endpoints, m, s)
           own == [i \in K |-> log[i].endpoint]
           w == [e \in Endpoints |-> CountAt(data[e], m, s)]
           S == {e \in Endpoints : m \in DOMAIN data[e]}
           v == [e \in S |-> data[e][m][s]]
<1>1. IsFiniteSet(K) /\ IsFiniteSet(Endpoints) /\ IsFiniteSet(S)
  BY StatsAssumption, KeptFinite, FS_Subset DEF StatsInv
<1>2. own \in [K -> Endpoints]
  BY DEF Kept
<1>3. w \in [Endpoints -> Nat] /\ v \in [S -> Nat]
  BY DEF StatsInv, StatsTypeOK, CountAt
<1>4. ASSUME NEW e \in Endpoints
      PROVE  w[e] = Cardinality({i \in K : own[i] = e})
  <2>1. {i \in K : own[i] = e} = Kept(log, {e}, m, s)
    BY DEF Kept
  <2> QED BY <2>1 DEF StatsInv, Shows
<1>5. Cardinality(Units(w, Endpoints)) = Cardinality(K)
  <2> HIDE DEF K, own, w
  <2> QED BY <1>1, <1>2, <1>3, <1>4, CountedByOwner
<1>6. Units(w, Endpoints) = Units(v, S)
  <2>1. \A e \in S : w[e] = v[e]
    BY DEF CountAt
  <2>2. \A e \in Endpoints \ S : 1 .. w[e] = {}
    BY DEF CountAt
  <2>3. S \subseteq Endpoints
    OBVIOUS
  <2> HIDE DEF w, v, S
  <2> QED BY <2>1, <2>2, <2>3 DEF Units
<1>7. Cardinality(Units(v, S)) = MapThenSumSet(LAMBDA e : v[e], S)
  <2> HIDE DEF v, S
  <2> QED BY <1>1, <1>3, SumCountsUnits
<1>8. CASE m \in UNION {DOMAIN data[e] : e \in Endpoints}
  <2>1. MapThenSumSet(LAMBDA e : v[e], S) = GlobalCount(m, s)
    BY DEF GlobalCount, MapThenSumSet, MapThenFoldSet
  <2> QED BY <1>5, <1>6, <1>7, <1>8, <2>1
<1>9. CASE m \notin UNION {DOMAIN data[e] : e \in Endpoints}
  <2>1. S = {}
    BY <1>9
  <2>2. Units(v, S) = {}
    BY <2>1 DEF Units
  <2> QED BY <1>5, <1>6, <1>9, <2>2, FS_EmptySet
<1> QED BY <1>8, <1>9

LEMMA WindowFromInv == StatsInv => CountsTheWindow
<1> SUFFICES ASSUME StatsInv PROVE CountsTheWindow
  OBVIOUS
<1>1. Shows(StatsSnapshot.global, Endpoints)
  <2>1. ASSUME NEW m \in 0 .. LastMinute, NEW s \in Statuses
        PROVE  CountAt(StatsSnapshot.global, m, s) =
                 IF m \in UNION {DOMAIN data[e] : e \in Endpoints} THEN GlobalCount(m, s)
                 ELSE 0
    BY DEF StatsSnapshot, CountAt
  <2> QED BY <2>1, AllEndpoints DEF Shows
<1>2. ASSUME NEW e \in Endpoints
      PROVE  Shows(IF e \in DOMAIN StatsSnapshot.services THEN StatsSnapshot.services[e]
                   ELSE <<>>, {e})
  <2>1. (IF e \in DOMAIN StatsSnapshot.services THEN StatsSnapshot.services[e] ELSE <<>>)
          = data[e]
    BY DEF StatsSnapshot, Restrict
  <2>2. Shows(data[e], {e})
    BY DEF StatsInv
  <2> QED BY <2>1, <2>2
<1> QED BY <1>1, <1>2 DEF CountsTheWindow

(* Every status that was recorded is counted until its endpoint records an  *)
(* hour or more later, and no longer, for each endpoint and for all of them *)
(* together, whatever the clock does.                                       *)
THEOREM WindowIsCounted == StatsSpec => []CountsTheWindow
<1> QED BY StatsAtStart, StatsKept, WindowFromInv, PTL DEF StatsSpec

-----------------------------------------------------------------------------
(* Log lines.                                                              *)

Lines == [forwarder : Forwarders, number : 1 .. MaxLines]

\* The places of a stream in a deque, and those after one of them.
Shown(lines, f) == {i \in DOMAIN lines : lines[i].forwarder = f}

Later(lines, f, i) == {j \in Shown(lines, f) : j > i}

(* What ShowsLatest says of one stream and one deque, with due the number   *)
(* of the last line.                                                        *)
Latest(lines, f, due) ==
  /\ \A i \in Shown(lines, f) : lines[i].number = due - Cardinality(Later(lines, f, i))
  /\ Cardinality(Shown(lines, f)) < due => Len(lines) = MaxStored

ForwardersInv ==
  /\ LogTypeOK
  /\ \A f \in Forwarders :
       /\ state[f] = "ended" => f \notin open /\ read[f] = written[f]
       /\ state[f] = "recording" => read[f] >= 1

LogInv == ForwardersInv /\ \A f \in Forwarders : Latest(store[ServiceOf[f]], f, Due(f))

LEMMA PlacesFinite ==
  ASSUME NEW lines \in Seq(Lines), NEW f, NEW i
  PROVE  /\ DOMAIN lines = 1 .. Len(lines) /\ Len(lines) \in Nat
         /\ IsFiniteSet(Shown(lines, f)) /\ IsFiniteSet(Later(lines, f, i))
         /\ Shown(lines, f) \subseteq 1 .. Len(lines)
         /\ Cardinality(Shown(lines, f)) \in Nat /\ Cardinality(Later(lines, f, i)) \in Nat
<1>1. DOMAIN lines = 1 .. Len(lines) /\ Len(lines) \in Nat
  OBVIOUS
<1>2. IsFiniteSet(1 .. Len(lines))
  BY <1>1, FS_Interval
<1>3. Shown(lines, f) \subseteq 1 .. Len(lines) /\ Later(lines, f, i) \subseteq Shown(lines, f)
  BY <1>1 DEF Shown, Later
<1>4. IsFiniteSet(Shown(lines, f)) /\ IsFiniteSet(Later(lines, f, i))
  BY <1>2, <1>3, FS_Subset
<1> QED BY <1>1, <1>3, <1>4, FS_CardinalityType

(* A line more, when there is room for it.                                  *)
LEMMA LatestAppended ==
  ASSUME NEW lines \in Seq(Lines), NEW line \in Lines, NEW f \in Forwarders, NEW due \in Nat,
         NEW next \in Nat, Latest(lines, f, due),
         IF line.forwarder = f THEN next = due + 1 /\ line.number = next ELSE next = due
  PROVE  /\ \A i \in Shown(Append(lines, line), f) :
              Append(lines, line)[i].number =
                next - Cardinality(Later(Append(lines, line), f, i))
         /\ Cardinality(Shown(Append(lines, line), f)) =
              Cardinality(Shown(lines, f)) + (next - due)
<1> DEFINE n == Len(lines)
           all == Append(lines, line)
<1>1. /\ n \in Nat /\ DOMAIN lines = 1 .. n /\ DOMAIN all = 1 .. n + 1 /\ Len(all) = n + 1
      /\ \A i \in 1 .. n : all[i] = lines[i]
      /\ all[n + 1] = line
      /\ all \in Seq(Lines)
  OBVIOUS
<1> HIDE DEF n, all
<1>2. n + 1 \notin 1 .. n /\ \A i : i \in 1 .. n + 1 <=> i \in 1 .. n \/ i = n + 1
  BY <1>1
<1>3. \A i : i \in Shown(all, f) <=> \/ i \in Shown(lines, f)
                                     \/ i = n + 1 /\ line.forwarder = f
  BY <1>1, <1>2 DEF Shown
<1>4. Shown(lines, f) \subseteq 1 .. n /\ n + 1 \notin Shown(lines, f)
  BY <1>1, <1>2 DEF Shown
<1> DEFINE Goal == /\ \A i \in Shown(all, f) :
                        all[i].number = next - Cardinality(Later(all, f, i))
                   /\ Cardinality(Shown(all, f)) = Cardinality(Shown(lines, f)) + (next - due)
<1>5. ASSUME line.forwarder # f PROVE Goal
  <2>1. Shown(all, f) = Shown(lines, f)
    BY <1>3, <1>5, Zenon
  <2>2. \A i : Later(all, f, i) = Later(lines, f, i)
    BY <2>1 DEF Later
  <2>3. \A i \in Shown(lines, f) : all[i] = lines[i]
    BY <1>1, <1>4
  <2>4. Cardinality(Shown(lines, f)) \in Nat
    BY PlacesFinite
  <2>5. \A i \in Shown(lines, f) : all[i].number = due - Cardinality(Later(all, f, i))
    BY <2>2, <2>3 DEF Latest
  <2>6. next = due /\ next - due = 0
    BY <1>5
  <2> QED BY <2>1, <2>4, <2>5, <2>6
<1>6. ASSUME line.forwarder = f PROVE Goal
  <2>7. next = due + 1 /\ next - due = 1
    BY <1>6
  <2>1. Shown(all, f) = Shown(lines, f) \cup {n + 1}
    BY <1>3, <1>6
  <2>2. IsFiniteSet(Shown(lines, f))
    BY PlacesFinite
  <2>3. Cardinality(Shown(all, f)) = Cardinality(Shown(lines, f)) + 1
    BY <1>4, <2>1, <2>2, FS_AddElement
  <2>4. ASSUME NEW i \in Shown(lines, f)
        PROVE  all[i].number = next - Cardinality(Later(all, f, i))
    <3>1. i \in 1 .. n /\ n + 1 > i
      BY <1>1, <1>4
    <3>2. Later(all, f, i) = Later(lines, f, i) \cup {n + 1}
      BY <2>1, <3>1 DEF Later
    <3>3. n + 1 \notin Later(lines, f, i)
      BY <1>4 DEF Later
    <3>4. IsFiniteSet(Later(lines, f, i)) /\ Cardinality(Later(lines, f, i)) \in Nat
      BY PlacesFinite
    <3>5. Cardinality(Later(all, f, i)) = Cardinality(Later(lines, f, i)) + 1
      BY <3>2, <3>3, <3>4, FS_AddElement
    <3>6. lines[i].number = due - Cardinality(Later(lines, f, i))
      BY DEF Latest
    <3> QED BY <1>1, <2>7, <3>1, <3>4, <3>5, <3>6
  <2>5. all[n + 1].number = next - Cardinality(Later(all, f, n + 1))
    <3>1. Later(all, f, n + 1) = {}
      BY <1>1, <1>4, <2>1 DEF Later
    <3>2. Cardinality(Later(all, f, n + 1)) = 0
      BY <3>1, FS_EmptySet
    <3> QED BY <1>1, <1>6, <3>2
  <2>6. \A i \in Shown(all, f) : all[i].number = next - Cardinality(Later(all, f, i))
    BY <2>1, <2>4, <2>5
  <2>8. Cardinality(Shown(lines, f)) \in Nat
    BY PlacesFinite
  <2> QED BY <2>3, <2>6, <2>7, <2>8
<1> QED BY <1>5, <1>6, Zenon DEF all

(* The oldest line less.                                                    *)
LEMMA LatestDropped ==
  ASSUME NEW lines \in Seq(Lines), NEW f \in Forwarders, NEW due \in Nat,
         lines # <<>>,
         \A i \in Shown(lines, f) : lines[i].number = due - Cardinality(Later(lines, f, i))
  PROVE  \A i \in Shown(Tail(lines), f) :
           Tail(lines)[i].number = due - Cardinality(Later(Tail(lines), f, i))
<1> DEFINE n == Len(lines)
           rest == Tail(lines)
<1>1. /\ n \in Nat /\ n >= 1 /\ DOMAIN lines = 1 .. n /\ DOMAIN rest = 1 .. n - 1
      /\ \A i \in 1 .. n - 1 : rest[i] = lines[i + 1]
  OBVIOUS
<1> HIDE DEF n, rest
<1>2. ASSUME NEW i
      PROVE  i \in Shown(rest, f) <=> i \in 1 .. n - 1 /\ i + 1 \in Shown(lines, f)
  <2>1. CASE i \in 1 .. n - 1
    <3>1. i + 1 \in 1 .. n
      BY <1>1, <2>1
    <3> QED BY <1>1, <2>1, <3>1 DEF Shown
  <2>2. CASE i \notin 1 .. n - 1
    BY <1>1, <2>2 DEF Shown
  <2> QED BY <2>1, <2>2
<1>3. ASSUME NEW i \in Shown(rest, f)
      PROVE  rest[i].number = due - Cardinality(Later(rest, f, i))
  <2> DEFINE next == [j \in Later(rest, f, i) |-> j + 1]
  <2>1. i \in 1 .. n - 1 /\ i + 1 \in Shown(lines, f)
    BY <1>2
  <2>2. \A j \in Later(rest, f, i) : j \in 1 .. n - 1 /\ j + 1 \in Later(lines, f, i + 1)
    BY <1>1, <1>2, <2>1 DEF Later
  <2>3. ASSUME NEW k \in Later(lines, f, i + 1)
        PROVE  \E j \in Later(rest, f, i) : j + 1 = k
    <3>1. k \in 1 .. n /\ k > i + 1 /\ k \in Shown(lines, f)
      BY <1>1 DEF Later, Shown
    <3>2. k - 1 \in 1 .. n - 1 /\ (k - 1) + 1 = k /\ k - 1 > i
      BY <1>1, <2>1, <3>1
    <3> QED BY <1>2, <3>1, <3>2 DEF Later
  <2>4. next \in Bijection(Later(rest, f, i), Later(lines, f, i + 1))
    <3>1. next \in [Later(rest, f, i) -> Later(lines, f, i + 1)]
      BY <2>2
    <3>2. \A j, k \in Later(rest, f, i) : next[j] = next[k] => j = k
      BY <1>1, <2>2
    <3>3. \A k \in Later(lines, f, i + 1) : \E j \in Later(rest, f, i) : next[j] = k
      BY <2>3
    <3> QED BY <3>1, <3>2, <3>3 DEF Bijection, Injection, Surjection, IsInjective
  <2>5. IsFiniteSet(Later(rest, f, i))
    <3>1. IsFiniteSet(1 .. n - 1)
      BY <1>1, FS_Interval
    <3>2. Later(rest, f, i) \subseteq 1 .. n - 1
      BY <2>2
    <3> QED BY <3>1, <3>2, FS_Subset
  <2>6. Cardinality(Later(lines, f, i + 1)) = Cardinality(Later(rest, f, i))
    BY <2>4, <2>5, FS_Bijection DEF ExistsBijection
  <2> QED BY <1>1, <2>1, <2>6
<1> QED BY <1>3 DEF rest

\* The deque is full: its first line makes room.
LEMMA PushedOut ==
  ASSUME NEW lines \in Seq(Lines), Len(lines) = MaxStored, NEW line \in Lines
  PROVE  /\ Pushed(lines, line) = Tail(Append(lines, line))
         /\ Len(Tail(Append(lines, line))) = MaxStored
<1> DEFINE all == Append(lines, line)
<1>1. /\ MaxStored \in Nat /\ Len(all) = MaxStored + 1 /\ all \in Seq(Lines) /\ all # <<>>
      /\ Len(Tail(all)) = MaxStored
  BY LogAssumption
<1>2. (MaxStored + 1) - MaxStored + 1 = 2 /\ MaxStored + 1 > MaxStored
  BY <1>1
<1>3. Pushed(lines, line) = SubSeq(all, 2, Len(all))
  BY <1>1, <1>2 DEF Pushed
<1> HIDE DEF all
<1>4. Tail(all) = SubSeq(all, 2, Len(all))
  BY <1>1
<1> QED BY <1>1, <1>3, <1>4 DEF all

(* What record_log_line makes of a deque that shows the latest lines of     *)
(* every stream.                                                            *)
LEMMA LatestPushed ==
  ASSUME NEW lines \in Seq(Lines), Len(lines) <= MaxStored, NEW line \in Lines,
         NEW f \in Forwarders, NEW due \in Nat, NEW next \in Nat, Latest(lines, f, due),
         IF line.forwarder = f THEN next = due + 1 /\ line.number = next ELSE next = due
  PROVE  Latest(Pushed(lines, line), f, next)
<1> DEFINE all == Append(lines, line)
           n == Len(lines)
<1>1. n \in Nat /\ Len(all) = n + 1 /\ all \in Seq(Lines) /\ all # <<>> /\ MaxStored \in Nat
  BY LogAssumption
<1>2. /\ \A i \in Shown(all, f) : all[i].number = next - Cardinality(Later(all, f, i))
      /\ Cardinality(Shown(all, f)) = Cardinality(Shown(lines, f)) + (next - due)
  BY LatestAppended, Zenon
<1>3. Cardinality(Shown(lines, f)) \in Nat
  BY PlacesFinite
<1>4. CASE n + 1 <= MaxStored
  <2>1. Pushed(lines, line) = all
    BY <1>1, <1>4 DEF Pushed
  <2>2. Cardinality(Shown(lines, f)) >= due
    BY <1>1, <1>3, <1>4 DEF Latest
  <2> HIDE DEF all
  <2>3. ~(Cardinality(Shown(all, f)) < next)
    BY <1>2, <1>3, <2>2
  <2> QED BY <1>2, <2>1, <2>3 DEF Latest
<1>5. CASE ~(n + 1 <= MaxStored)
  <2>1. n = MaxStored
    BY <1>1, <1>5
  <2>2. Pushed(lines, line) = Tail(all) /\ Len(Tail(all)) = MaxStored
    BY <1>1, <2>1, PushedOut
  <2> HIDE DEF all
  <2>3. \A i \in Shown(Tail(all), f) :
          Tail(all)[i].number = next - Cardinality(Later(Tail(all), f, i))
    BY <1>1, <1>2, LatestDropped
  <2> QED BY <2>2, <2>3 DEF Latest
<1> QED BY <1>4, <1>5

\* A deque keeps its type and its limit.
LEMMA PushedType ==
  ASSUME NEW lines \in Seq(Lines), Len(lines) <= MaxStored, NEW line \in Lines
  PROVE  Pushed(lines, line) \in Seq(Lines) /\ Len(Pushed(lines, line)) <= MaxStored
<1> DEFINE all == Append(lines, line)
           n == Len(lines)
<1>1. n \in Nat /\ Len(all) = n + 1 /\ all \in Seq(Lines) /\ all # <<>> /\ MaxStored \in Nat
  BY LogAssumption
<1>2. CASE n + 1 <= MaxStored
  <2>1. Pushed(lines, line) = all
    BY <1>1, <1>2 DEF Pushed
  <2> QED BY <1>1, <1>2, <2>1
<1>3. CASE ~(n + 1 <= MaxStored)
  <2>1. n = MaxStored
    BY <1>1, <1>3
  <2>2. Pushed(lines, line) = Tail(all) /\ Len(Tail(all)) = MaxStored
    BY <1>1, <2>1, PushedOut
  <2>3. Tail(all) \in Seq(Lines)
    BY <1>1, HeadTailProperties
  <2> QED BY <1>1, <2>2, <2>3
<1> QED BY <1>2, <1>3

\* What the services and the forwarders do, seen without the deques.
LEMMA LogsAtStart == LogInit => LogInv
<1> SUFFICES ASSUME LogInit PROVE LogInv
  OBVIOUS
<1>1. MaxStored \in Nat /\ MaxLines \in Nat /\ 0 \in 0 .. MaxLines /\ MaxLines \in 0 .. MaxLines
      /\ ServiceOf \in [Forwarders -> LoggedServices]
  BY LogAssumption
<1>2. \A s \in LoggedServices : store[s] = <<>>
  BY DEF LogInit
<1>3. LogTypeOK
  <2>1. read \in [Forwarders -> 0 .. MaxLines] /\ \A f \in Forwarders : read[f] <= written[f]
    BY <1>1 DEF LogInit
  <2>2. store \in [LoggedServices -> Seq(Lines)]
    BY DEF LogInit
  <2>3. written \in [Forwarders -> 0 .. MaxLines]
    BY <1>1 DEF LogInit
  <2> QED BY <1>1, <1>2, <2>1, <2>2, <2>3 DEF LogInit, LogTypeOK, Lines
<1>4. ForwardersInv
  BY <1>3 DEF LogInit, ForwardersInv
<1>5. ASSUME NEW f \in Forwarders
      PROVE  Latest(store[ServiceOf[f]], f, Due(f))
  <2>1. store[ServiceOf[f]] = <<>>
    BY <1>1, <1>2
  <2>2. Due(f) = 0
    BY DEF LogInit, Due
  <2>3. Shown(<<>>, f) = {}
    BY DEF Shown
  <2> QED BY <2>1, <2>2, <2>3, FS_EmptySet DEF Latest
<1> QED BY <1>4, <1>5 DEF LogInv

\* The steps that write no deque: no line is due that was not before.
LEMMA DueKept ==
  ASSUME ForwardersInv, NEW f \in Forwarders,
         Write(f) \/ Close(f) \/ Read(f) \/ ReadFails(f) \/ End(f)
  PROVE  ForwardersInv' /\ store' = store /\ \A g \in Forwarders : Due(g)' = Due(g)
<1> USE DEF ForwardersInv, LogTypeOK, Due
<1>1. /\ MaxLines \in Nat
      /\ \A g \in Forwarders : read[g] \in Nat /\ written[g] \in Nat /\ read[g] <= written[g]
  BY LogAssumption
<1>2. CASE Write(f)
  <2>1. written' \in [Forwarders -> 0 .. MaxLines]
        /\ \A g \in Forwarders : read[g] <= written'[g]
    BY <1>1, <1>2 DEF Write
  <2>2. state[f] # "ended" /\ \A g \in Forwarders \ {f} : written'[g] = written[g]
    BY <1>2 DEF Write
  <2> QED BY <1>2, <2>1, <2>2 DEF Write
<1>3. CASE Close(f)
  BY <1>3 DEF Close
<1>4. CASE Read(f)
  <2>1. /\ read' \in [Forwarders -> 0 .. MaxLines]
        /\ \A g \in Forwarders : read'[g] <= written[g]
        /\ read'[f] = read[f] + 1 /\ read'[f] >= 1
        /\ \A g \in Forwarders \ {f} : read'[g] = read[g]
    BY <1>1, <1>4 DEF Read
  <2>2. /\ state' \in [Forwarders -> {"reading", "recording", "ended", "failed"}]
        /\ state[f] = "reading" /\ state'[f] = "recording"
        /\ \A g \in Forwarders \ {f} : state'[g] = state[g]
    BY <1>4 DEF Read
  <2>3. read'[f] - 1 = read[f]
    BY <1>1, <2>1
  <2> QED BY <1>4, <2>1, <2>2, <2>3 DEF Read
<1>5. CASE ReadFails(f)
  BY <1>5 DEF ReadFails
<1>6. CASE End(f)
  BY <1>6 DEF End
<1> QED BY <1>2, <1>3, <1>4, <1>5, <1>6

\* The step that writes one: what it writes was due next.
LEMMA DueRecorded ==
  ASSUME ForwardersInv, NEW f \in Forwarders, RecordLine(f)
  PROVE  /\ ForwardersInv'
         /\ [forwarder |-> f, number |-> read[f]] \in Lines
         /\ Due(f) \in Nat /\ Due(f)' = Due(f) + 1 /\ Due(f)' = read[f]
         /\ \A g \in Forwarders \ {f} : Due(g)' = Due(g)
         /\ store' = [store EXCEPT ![ServiceOf[f]] =
                         Pushed(@, [forwarder |-> f, number |-> read[f]])]
<1> DEFINE line == [forwarder |-> f, number |-> read[f]]
<1>0. MaxLines \in Nat /\ ServiceOf[f] \in LoggedServices
  BY LogAssumption
<1>a. state[f] = "recording"
  BY DEF RecordLine
<1>b. read[f] >= 1
  BY <1>a DEF ForwardersInv
<1>c. read[f] \in 0 .. MaxLines
  BY DEF ForwardersInv, LogTypeOK
<1>1. /\ MaxLines \in Nat /\ ServiceOf[f] \in LoggedServices
      /\ read[f] \in 1 .. MaxLines /\ read[f] \in Nat /\ read[f] - 1 \in Nat
  BY <1>0, <1>b, <1>c
<1> USE DEF ForwardersInv, LogTypeOK, Due
<1>2. line \in Lines
  BY <1>1 DEF Lines
<1>3. /\ state' \in [Forwarders -> {"reading", "recording", "ended", "failed"}]
      /\ state[f] = "recording" /\ state'[f] = "reading"
      /\ \A g \in Forwarders \ {f} : state'[g] = state[g]
      /\ UNCHANGED <<read, written, open>>
  BY DEF RecordLine
<1>4. store' = [store EXCEPT ![ServiceOf[f]] = Pushed(@, line)]
  BY DEF RecordLine
<1>5. store' \in [LoggedServices -> Seq(Lines)] /\ \A s \in LoggedServices : Len(store'[s]) <= MaxStored
  <2> DEFINE new == Pushed(store[ServiceOf[f]], line)
  <2>1. store[ServiceOf[f]] \in Seq(Lines) /\ Len(store[ServiceOf[f]]) <= MaxStored
    BY <1>1 DEF Lines
  <2>2. new \in Seq(Lines) /\ Len(new) <= MaxStored
    BY <1>2, <2>1, PushedType
  <2>3. store \in [LoggedServices -> Seq(Lines)]
    BY DEF Lines
  <2>4. store' = [store EXCEPT ![ServiceOf[f]] = new]
    BY <1>4
  <2> HIDE DEF new, line
  <2> QED BY <1>1, <2>2, <2>3, <2>4
<1>6. ForwardersInv'
  BY <1>3, <1>5 DEF Lines
<1>7. Due(f)' = Due(f) + 1 /\ Due(f)' = read[f] /\ Due(f) \in Nat
  BY <1>1, <1>3
<1>8. \A g \in Forwarders \ {f} : Due(g)' = Due(g)
  BY <1>3
<1> QED BY <1>2, <1>4, <1>6, <1>7, <1>8

LEMMA DueType ==
  ASSUME ForwardersInv, NEW f \in Forwarders
  PROVE  Due(f) \in Nat
BY LogAssumption DEF ForwardersInv, LogTypeOK, Due

LEMMA LogsKept ==
  ASSUME LogInv, [LogNext]_logVars
  PROVE  LogInv'
<1>1. CASE UNCHANGED logVars
  BY <1>1 DEF logVars, LogInv, ForwardersInv, LogTypeOK, Due
<1>2. ASSUME NEW f \in Forwarders,
             Write(f) \/ Close(f) \/ Read(f) \/ ReadFails(f) \/ End(f)
      PROVE  LogInv'
  BY <1>2, DueKept DEF LogInv
<1>3. ASSUME NEW f \in Forwarders, RecordLine(f)
      PROVE  LogInv'
  <2> DEFINE line == [forwarder |-> f, number |-> read[f]]
  <2>1. /\ ForwardersInv /\ ForwardersInv' /\ line \in Lines
        /\ Due(f) \in Nat /\ Due(f)' = Due(f) + 1 /\ Due(f)' = read[f]
        /\ \A g \in Forwarders \ {f} : Due(g)' = Due(g)
        /\ store' = [store EXCEPT ![ServiceOf[f]] = Pushed(@, line)]
    BY <1>3, DueRecorded DEF LogInv
  <2>2. line.forwarder = f /\ line.number = read[f]
    OBVIOUS
  <2> HIDE DEF line
  <2>3. ASSUME NEW g \in Forwarders
        PROVE  Latest(store[ServiceOf[g]], g, Due(g))'
    <3> DEFINE lines == store[ServiceOf[g]]
    <3>1. /\ lines \in Seq(Lines) /\ Len(lines) <= MaxStored
          /\ ServiceOf[g] \in LoggedServices /\ ServiceOf[f] \in LoggedServices
          /\ DOMAIN store = LoggedServices
      BY <2>1, LogAssumption DEF ForwardersInv, LogTypeOK, Lines
    <3>2. Latest(lines, g, Due(g))
      BY DEF LogInv
    <3>3. Due(g) \in Nat /\ Due(g)' \in Nat
      BY <2>1, DueType
    <3>4. CASE ServiceOf[g] = ServiceOf[f]
      <4>1. store'[ServiceOf[g]] = Pushed(lines, line)
        BY <2>1, <3>1, <3>4
      <4>2. IF line.forwarder = g THEN Due(g)' = Due(g) + 1 /\ line.number = Due(g)'
            ELSE Due(g)' = Due(g)
        BY <2>1, <2>2
      <4> HIDE DEF lines
      <4>3. PICK due, next : due = Due(g) /\ next = Due(g)'
        OBVIOUS
      <4>4. Latest(Pushed(lines, line), g, next)
        BY <2>1, <3>1, <3>2, <3>3, <4>2, <4>3, LatestPushed
      <4> QED BY <4>1, <4>3, <4>4 DEF Latest, Shown, Later
    <3>5. CASE ServiceOf[g] # ServiceOf[f]
      <4>1. store'[ServiceOf[g]] = lines /\ g # f
        BY <2>1, <3>1, <3>5
      <4>2. Due(g)' = Due(g)
        BY <2>1, <4>1
      <4> QED BY <3>2, <4>1, <4>2 DEF Latest, Shown, Later
    <3> QED BY <3>4, <3>5
  <2> QED BY <2>1, <2>3 DEF LogInv
<1> QED BY <1>1, <1>2, <1>3 DEF LogNext

(* The dashboard shows the latest lines of every stream, in order and       *)
(* without a gap, however many streams and services share the store, and    *)
(* the last ones that a forwarder could read when a service has ended.      *)
THEOREM LatestAreShown == LogSpec => []ShowsLatest
<1>1. LogInv => ShowsLatest
  BY DEF LogInv, Latest, Shown, Later, ShowsLatest
<1> QED BY LogsAtStart, LogsKept, <1>1, PTL DEF LogSpec

-----------------------------------------------------------------------------
(* All of them together: a step of one leaves the others where they are.   *)

LEMMA OneMoves ==
  ASSUME [StoresNext]_<<registryVars, routerVars, statsVars, logVars, dashboardVars>>
  PROVE  /\ [Next]_registryVars
         /\ [RouterNext]_routerVars
         /\ [StatsNext]_statsVars
         /\ [LogNext]_logVars
         /\ [DashboardNext]_dashboardVars
<1>1. CASE RegistryMoves
  BY <1>1 DEF RegistryMoves
<1>2. CASE RouterMoves
  BY <1>2 DEF RouterMoves
<1>3. CASE StatsMove
  BY <1>3 DEF StatsMove
<1>4. CASE LogsMove
  BY <1>4 DEF LogsMove
<1>5. CASE PagesMove
  BY <1>5 DEF PagesMove
<1> QED BY <1>1, <1>2, <1>3, <1>4, <1>5 DEF StoresNext

(* What TLC runs as one system is a behaviour of each of the five: what is  *)
(* proved of one component holds beside the others.                         *)
THEOREM StoresRefined ==
  StoresSpec => Spec /\ RouterSpec /\ StatsSpec /\ LogSpec /\ DashboardSpec
<1>1. StoresInit => Init /\ RouterInit /\ StatsInit /\ LogInit /\ DashboardInit
  BY DEF StoresInit
<1>2. [StoresNext]_<<registryVars, routerVars, statsVars, logVars, dashboardVars>> =>
        /\ [Next]_registryVars /\ [RouterNext]_routerVars /\ [StatsNext]_statsVars
        /\ [LogNext]_logVars /\ [DashboardNext]_dashboardVars
  BY OneMoves
<1> QED BY <1>1, <1>2, PTL DEF StoresSpec, Spec, RouterSpec, StatsSpec, LogSpec,
                               DashboardSpec
=============================================================================
