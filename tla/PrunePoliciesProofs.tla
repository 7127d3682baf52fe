------------------------ MODULE PrunePoliciesProofs ------------------------
(***************************************************************************)
(* Proofs about PrunePolicies, for any devices, configurations and clocks:    *)
(* any number of midnights in the middle of runs.                           *)
(*                                                                         *)
(* The argument: left is at every moment the number of backups of the device  *)
(* that are not condemned (Looking), so that the age policy stops in time     *)
(* (Enough) and not too early (Judged); what was old when it was condemned has *)
(* not grown younger when it is marked (OldEnough); and while it is the day on *)
(* which the run began, ages and buckets stay (SameDay), so that the second    *)
(* loop of the decay policy finds the buckets of the first (Filled) and leaves *)
(* the oldest of each (Windowed).                                            *)
(*                                                                         *)
(* From day to day: the n-th window is a multiple of the one before, so that a *)
(* window has just one of the days that are a multiple of its length from the  *)
(* first day on. With a run on every day it is the backup of that day that is  *)
(* left of a window (Thinned), whatever windows it has been through.          *)
(***************************************************************************)
EXTENDS PrunePolicies, FiniteSetTheorems, WellFoundedInduction, TLAPS

(* A set of numbers has a least one: induction, as the provers take it.         *)
LEMMA LeastNumber ==
  ASSUME NEW T \in SUBSET Nat, T # {}
  PROVE  \E x \in T : \A y \in T : x <= y
<1>1. PICK x \in T : \A y \in T : ~ (<<y, x>> \in OpToRel(<, Nat))
  BY WFMin, NatLessThanWellFounded, Zenon
<1>2. \A y \in T : ~ (y < x)
  BY <1>1 DEF OpToRel
<1> QED
  BY <1>2

(* A function on the numbers may be defined by its first value and by what each  *)
(* makes of the next.                                                         *)
LEMMA Recursion ==
  ASSUME NEW first \in Nat, NEW step \in [Nat \X Nat -> Nat]
  PROVE  \E f \in [Nat -> Nat] : f[0] = first /\ \A n \in Nat : f[n + 1] = step[<<n, f[n]>>]
<1> DEFINE Begins(n, g) == /\ g \in [0 .. n -> Nat] /\ g[0] = first
                           /\ \A m \in Nat : m < n => g[m + 1] = step[<<m, g[m]>>]
<1>1. \A n \in Nat : \E g : Begins(n, g)
  <2> DEFINE T == {n \in Nat : ~ \E g : Begins(n, g)}
  <2> SUFFICES ASSUME T # {} PROVE FALSE
    OBVIOUS
  <2> HIDE DEF T
  <2>1. PICK n \in T : \A m \in T : n <= m
    <3>1. T \in SUBSET Nat
      BY DEF T
    <3> QED
      BY <3>1, LeastNumber
  <2>2. n \in Nat /\ ~ \E g : Begins(n, g)
    BY <2>1 DEF T
  <2>3. n # 0
    <3>1. Begins(0, [m \in 0 .. 0 |-> first])
      OBVIOUS
    <3> QED
      BY <2>2, <3>1
  <2>4. PICK g : Begins(n - 1, g)
    <3>1. n - 1 \in Nat /\ n - 1 \notin T
      BY <2>1, <2>2, <2>3
    <3> QED
      BY <3>1 DEF T
  <2> DEFINE h == [m \in 0 .. n |-> IF m = n THEN step[<<n - 1, g[n - 1]>>] ELSE g[m]]
  <2>5. Begins(n, h)
    <3>1. /\ h \in [0 .. n -> Nat] /\ h[0] = first
          /\ \A m \in 0 .. n - 1 : h[m] = g[m]
          /\ h[n] = step[<<n - 1, g[n - 1]>>]
      BY <2>2, <2>3, <2>4
    <3>2. ASSUME NEW m \in Nat, m < n
          PROVE  h[m + 1] = step[<<m, h[m]>>]
      <4>1. CASE m = n - 1
        <5>1. m + 1 = n /\ m \in 0 .. n - 1
          BY <2>2, <4>1
        <5> QED
          BY <3>1, <4>1, <5>1
      <4>2. CASE m # n - 1
        <5>1. m < n - 1 /\ m + 1 \in 0 .. n - 1 /\ m \in 0 .. n - 1
          BY <2>2, <3>2, <4>2
        <5> QED
          BY <3>1, <2>4, <5>1
      <4> QED
        BY <4>1, <4>2
    <3> HIDE DEF h
    <3> QED
      BY <3>1, <3>2
  <2> QED
    BY <2>2, <2>5
<1>2. ASSUME NEW n \in Nat, NEW g, NEW h, Begins(n, g), Begins(n + 1, h)
      PROVE  g[n] = h[n]
  <2> DEFINE T == {m \in 0 .. n : g[m] # h[m]}
  <2>1. CASE T = {}
    BY <2>1
  <2>2. CASE T # {}
    <3>1. T \in SUBSET Nat
      OBVIOUS
    <3> HIDE DEF T
    <3>2. PICK m \in T : \A k \in T : m <= k
      BY <2>2, <3>1, LeastNumber
    <3>3. m \in 0 .. n /\ g[m] # h[m]
      BY <3>2 DEF T
    <3>4. m # 0
      BY <1>2, <3>3
    <3>5. m - 1 \in 0 .. n /\ m - 1 \in Nat /\ ~ (m <= m - 1) /\ m - 1 < n
      BY <3>3, <3>4
    <3>6. g[m - 1] = h[m - 1]
      BY <3>2, <3>5 DEF T
    <3>7. (m - 1) + 1 = m /\ m - 1 < n + 1
      BY <3>3, <3>5
    <3>8. g[(m - 1) + 1] = step[<<m - 1, g[m - 1]>>]
      BY <1>2, <3>5
    <3>9. h[(m - 1) + 1] = step[<<m - 1, h[m - 1]>>]
      BY <1>2, <3>5, <3>7
    <3> QED
      BY <3>3, <3>6, <3>7, <3>8, <3>9
  <2> QED
    BY <2>1, <2>2
<1> DEFINE G(n) == CHOOSE g : Begins(n, g)
<1>3. \A n \in Nat : Begins(n, G(n))
  BY <1>1
<1> DEFINE f == [n \in Nat |-> G(n)[n]]
<1> HIDE DEF G
<1>4. f \in [Nat -> Nat] /\ f[0] = first
  BY <1>3
<1>5. ASSUME NEW n \in Nat
      PROVE  f[n + 1] = step[<<n, f[n]>>]
  <2>1. n + 1 \in Nat /\ n < n + 1
    OBVIOUS
  <2>2. Begins(n, G(n)) /\ Begins(n + 1, G(n + 1))
    BY <1>3, <2>1
  <2>3. G(n + 1)[n + 1] = step[<<n, G(n + 1)[n]>>]
    BY <2>1, <2>2
  <2>4. G(n)[n] = G(n + 1)[n]
    <3> HIDE DEF Begins
    <3> QED
      BY <1>2, <2>2
  <2> QED
    BY <2>1, <2>3, <2>4
<1> QED
  BY <1>4, <1>5


(* The powers of the scale, and the ends of the windows, are what their          *)
(* definitions say.                                                          *)
LEMMA PowerRule ==
  ASSUME NEW s \in Nat
  PROVE  /\ Power(s) \in [Nat -> Nat] /\ Power(s)[0] = 1
         /\ \A n \in Nat : Power(s)[n + 1] = s * Power(s)[n]
<1> DEFINE Rule(P) == P = [n \in Nat |-> IF n = 0 THEN 1 ELSE s * P[n - 1]]
           step == [p \in Nat \X Nat |-> s * p[2]]
<1>1. step \in [Nat \X Nat -> Nat] /\ \A n \in Nat, m \in Nat : step[<<n, m>>] = s * m
  <2>1. \A m \in Nat : s * m \in Nat
    OBVIOUS
  <2>2. \A p \in Nat \X Nat : p[2] \in Nat
    OBVIOUS
  <2>3. \A p \in Nat \X Nat : s * p[2] \in Nat
    BY <2>1, <2>2
  <2>4. step \in [Nat \X Nat -> Nat]
    BY <2>3
  <2>5. ASSUME NEW n \in Nat, NEW m \in Nat
        PROVE  step[<<n, m>>] = s * m
    <3>1. <<n, m>> \in Nat \X Nat /\ <<n, m>>[2] = m
      OBVIOUS
    <3> QED
      BY <3>1, Zenon
  <2> HIDE DEF step
  <2> QED
    BY <2>4, <2>5
<1>2. PICK f \in [Nat -> Nat] : f[0] = 1 /\ \A n \in Nat : f[n + 1] = step[<<n, f[n]>>]
  <2> DEFINE first == 1
  <2> HIDE DEF step, first
  <2>1. step \in [Nat \X Nat -> Nat]
    BY <1>1
  <2>2. first \in Nat
    BY DEF first
  <2>3. \E f \in [Nat -> Nat] : f[0] = first /\ \A n \in Nat : f[n + 1] = step[<<n, f[n]>>]
    BY <2>1, <2>2, Recursion
  <2> QED
    BY <2>3 DEF first
<1>3. \A n \in Nat : f[n + 1] = s * f[n]
  <2> HIDE DEF step
  <2> QED
    BY <1>1, <1>2
<1>4. Rule(f)
  <2>1. ASSUME NEW n \in Nat
        PROVE  f[n] = IF n = 0 THEN 1 ELSE s * f[n - 1]
    <3>1. CASE n # 0
      <4>1. n - 1 \in Nat /\ (n - 1) + 1 = n
        BY <3>1
      <4>2. f[(n - 1) + 1] = s * f[n - 1]
        BY <1>3, <4>1
      <4> QED
        BY <3>1, <4>1, <4>2
    <3> QED
      BY <1>2, <3>1
  <2> QED
    BY <2>1
<1>5. Power(s) = CHOOSE P : Rule(P)
  BY DEF Power
<1>6. Rule(Power(s))
  <2> HIDE DEF Rule
  <2> QED
    BY <1>4, <1>5
<1>7. \A P : Rule(P) => P = f
  <2> SUFFICES ASSUME NEW P, Rule(P) PROVE P = f
    OBVIOUS
  <2> DEFINE T == {n \in Nat : P[n] # f[n]}
  <2>1. CASE T = {}
    BY <2>1
  <2>2. CASE T # {}
    <3>1. T \in SUBSET Nat
      OBVIOUS
    <3>2. PICK n \in T : \A m \in T : n <= m
      <4> HIDE DEF T
      <4> QED
        BY <2>2, <3>1, LeastNumber
    <3>3. n \in Nat /\ P[n] # f[n]
      BY <3>2
    <3>4. n # 0
      BY <1>2, <3>3
    <3>5. n - 1 \in Nat /\ ~ (n <= n - 1)
      BY <3>3, <3>4
    <3>6. P[n - 1] = f[n - 1]
      BY <3>2, <3>5
    <3> QED
      BY <1>4, <3>3, <3>4, <3>6
  <2> QED
    BY <2>1, <2>2
<1>8. Power(s) = f
  BY <1>6, <1>7
<1> QED
  BY <1>2, <1>3, <1>8

LEMMA EndsRule ==
  ASSUME NEW w \in Nat, NEW s \in Nat
  PROVE  /\ Ends(w, s) \in [Nat -> Nat] /\ Ends(w, s)[0] = w
         /\ \A n \in Nat : Ends(w, s)[n + 1] = w * Power(s)[n + 1] + Ends(w, s)[n]
<1> DEFINE p == Power(s)
           Rule(P) == P = [n \in Nat |-> w * p[n] + (IF n = 0 THEN 0 ELSE P[n - 1])]
           step == [q \in Nat \X Nat |-> w * p[q[1] + 1] + q[2]]
<1>0. p \in [Nat -> Nat] /\ p[0] = 1
  BY PowerRule
<1> HIDE DEF p
<1>1. /\ step \in [Nat \X Nat -> Nat]
      /\ \A n \in Nat, m \in Nat : step[<<n, m>>] = w * p[n + 1] + m
  <2>1. \A m \in Nat : w * m \in Nat
    OBVIOUS
  <2>2. \A q \in Nat \X Nat : q[2] \in Nat /\ p[q[1] + 1] \in Nat
    BY <1>0
  <2>3. \A q \in Nat \X Nat : w * p[q[1] + 1] + q[2] \in Nat
    BY <2>1, <2>2
  <2>4. step \in [Nat \X Nat -> Nat]
    BY <2>3
  <2>5. ASSUME NEW n \in Nat, NEW m \in Nat
        PROVE  step[<<n, m>>] = w * p[n + 1] + m
    <3>1. <<n, m>> \in Nat \X Nat /\ <<n, m>>[2] = m /\ <<n, m>>[1] = n
      OBVIOUS
    <3> QED
      BY <3>1, Zenon
  <2> HIDE DEF step
  <2> QED
    BY <2>4, <2>5
<1>2. PICK f \in [Nat -> Nat] : f[0] = w /\ \A n \in Nat : f[n + 1] = step[<<n, f[n]>>]
  <2> HIDE DEF step
  <2>1. step \in [Nat \X Nat -> Nat]
    BY <1>1
  <2> QED
    BY <2>1, Recursion
<1>3. \A n \in Nat : f[n + 1] = w * p[n + 1] + f[n]
  <2> HIDE DEF step
  <2> QED
    BY <1>1, <1>2
<1>4. Rule(f)
  <2>1. ASSUME NEW n \in Nat
        PROVE  f[n] = w * p[n] + (IF n = 0 THEN 0 ELSE f[n - 1])
    <3>1. CASE n # 0
      <4>1. n - 1 \in Nat /\ (n - 1) + 1 = n
        BY <3>1
      <4>2. f[(n - 1) + 1] = w * p[(n - 1) + 1] + f[n - 1]
        BY <1>3, <4>1
      <4> QED
        BY <3>1, <4>1, <4>2
    <3>2. CASE n = 0
      <4>1. w * 1 = w /\ w + 0 = w
        OBVIOUS
      <4> QED
        BY <1>0, <1>2, <3>2, <4>1
    <3> QED
      BY <3>1, <3>2
  <2> QED
    BY <2>1
<1>5. Ends(w, s) = CHOOSE P : Rule(P)
  BY DEF Ends, p
<1>6. Rule(Ends(w, s))
  <2> HIDE DEF Rule
  <2> QED
    BY <1>4, <1>5
<1>7. \A P : Rule(P) => P = f
  <2> SUFFICES ASSUME NEW P, Rule(P) PROVE P = f
    OBVIOUS
  <2> DEFINE T == {n \in Nat : P[n] # f[n]}
  <2>1. CASE T = {}
    BY <2>1
  <2>2. CASE T # {}
    <3>1. T \in SUBSET Nat
      OBVIOUS
    <3>2. PICK n \in T : \A m \in T : n <= m
      <4> HIDE DEF T
      <4> QED
        BY <2>2, <3>1, LeastNumber
    <3>3. n \in Nat /\ P[n] # f[n]
      BY <3>2
    <3>4. n # 0
      <4>1. CASE n = 0
        <5>1. P[n] = w * p[n] + 0 /\ f[n] = w * p[n] + 0
          BY <1>4, <4>1
        <5> QED
          BY <3>3, <5>1
      <4> QED
        BY <4>1
    <3>5. n - 1 \in Nat /\ ~ (n <= n - 1)
      BY <3>3, <3>4
    <3>6. P[n - 1] = f[n - 1]
      BY <3>2, <3>5
    <3>7. P[n] = w * p[n] + P[n - 1] /\ f[n] = w * p[n] + f[n - 1]
      BY <1>4, <3>3, <3>4
    <3> QED
      BY <3>3, <3>6, <3>7
  <2> QED
    BY <2>1, <2>2
<1>8. Ends(w, s) = f
  BY <1>6, <1>7
<1> QED
  BY <1>2, <1>3, <1>8 DEF p

(* The sum of the windows, in closed form: why the bucket of the code, which     *)
(* counts powers, is the window of the manual.                                *)
LEMMA WindowsSum ==
  ASSUME NEW w \in Nat, NEW s \in Nat \ {0}
  PROVE  \A n \in Nat : (s - 1) * Ends(w, s)[n] = w * (Power(s)[n + 1] - 1)
<1> DEFINE p == Power(s)
           e == Ends(w, s)
           T == {n \in Nat : (s - 1) * e[n] # w * (p[n + 1] - 1)}
<1>1. /\ p \in [Nat -> Nat] /\ p[0] = 1 /\ \A n \in Nat : p[n + 1] = s * p[n]
      /\ e \in [Nat -> Nat] /\ e[0] = w /\ \A n \in Nat : e[n + 1] = w * p[n + 1] + e[n]
  BY PowerRule, EndsRule
<1> HIDE DEF p, e
<1> SUFFICES ASSUME T # {} PROVE FALSE
  BY DEF p, e
<1>2. PICK n \in T : \A m \in T : n <= m
  <2>1. T \in SUBSET Nat
    OBVIOUS
  <2> HIDE DEF T
  <2> QED
    BY <2>1, LeastNumber
<1>3. n \in Nat /\ (s - 1) * e[n] # w * (p[n + 1] - 1)
  OBVIOUS
<1>4. n # 0
  <2>1. p[0 + 1] = s * 1
    BY <1>1
  <2>2. s * 1 = s /\ (s - 1) * w = w * (s - 1)
    OBVIOUS
  <2> QED
    BY <1>1, <1>3, <2>1, <2>2
<1>5. PICK m \in Nat : n = m + 1
  <2>1. n - 1 \in Nat /\ n = (n - 1) + 1
    BY <1>3, <1>4
  <2> QED
    BY <2>1
<1>6. (s - 1) * e[m] = w * (p[m + 1] - 1)
  <2>1. ~ (n <= m)
    BY <1>5
  <2> QED
    BY <1>2, <2>1
<1>7. e[n] = w * p[n] + e[m] /\ p[n + 1] = s * p[n] /\ p[n] \in Nat /\ e[m] \in Nat
  BY <1>1, <1>5
<1>8. (s - 1) * e[m] = w * (p[n] - 1)
  BY <1>5, <1>6
<1>9. ASSUME NEW x \in Nat, NEW y \in Nat, (s - 1) * y = w * (x - 1)
      PROVE  (s - 1) * (w * x + y) = w * (s * x - 1)
  <2>1. (s - 1) * (w * x + y) = (s - 1) * (w * x) + (s - 1) * y
    OBVIOUS
  <2>2. (s - 1) * (w * x) = w * (s * x) - w * x
    OBVIOUS
  <2>3. w * (x - 1) = w * x - w /\ w * (s * x - 1) = w * (s * x) - w
    OBVIOUS
  <2> QED
    BY <1>9, <2>1, <2>2, <2>3
<1>10. (s - 1) * (w * p[n] + e[m]) = w * (s * p[n] - 1)
  <2> DEFINE x == p[n]
             y == e[m]
  <2>1. x \in Nat /\ y \in Nat /\ (s - 1) * y = w * (x - 1)
    BY <1>7, <1>8
  <2> HIDE DEF x, y
  <2>2. (s - 1) * (w * x + y) = w * (s * x - 1)
    BY <1>9, <2>1, Zenon
  <2> QED
    BY <2>2 DEF x, y
<1> QED
  BY <1>3, <1>7, <1>10, Zenon

(* Every window ends later than the one before.                               *)
LEMMA WindowsGrow ==
  ASSUME NEW w \in Nat \ {0}, NEW s \in Nat \ {0}
  PROVE  \A n \in Nat : /\ Power(s)[n] >= 1
                        /\ Ends(w, s)[n] >= n + 1
                        /\ \A m \in 0 .. n : Ends(w, s)[m] <= Ends(w, s)[n]
<1> DEFINE p == Power(s)
           e == Ends(w, s)
           Holds(n) == p[n] >= 1 /\ e[n] >= n + 1 /\ \A m \in 0 .. n : e[m] <= e[n]
           T == {n \in Nat : ~ Holds(n)}
<1>1. /\ p \in [Nat -> Nat] /\ p[0] = 1 /\ \A n \in Nat : p[n + 1] = s * p[n]
      /\ e \in [Nat -> Nat] /\ e[0] = w /\ \A n \in Nat : e[n + 1] = w * p[n + 1] + e[n]
  BY PowerRule, EndsRule
<1> HIDE DEF p, e
<1> SUFFICES ASSUME T # {} PROVE FALSE
  BY DEF p, e
<1>2. PICK n \in T : \A m \in T : n <= m
  <2>1. T \in SUBSET Nat
    OBVIOUS
  <2> HIDE DEF T
  <2> QED
    BY <2>1, LeastNumber
<1>3. n \in Nat /\ ~ Holds(n)
  OBVIOUS
<1>4. n # 0
  <2>1. Holds(0)
    BY <1>1
  <2> HIDE DEF Holds
  <2> QED
    BY <1>3, <2>1
<1>5. PICK m \in Nat : n = m + 1
  <2>1. n - 1 \in Nat /\ n = (n - 1) + 1
    BY <1>3, <1>4
  <2> QED
    BY <2>1
<1>6. Holds(m)
  <2>1. ~ (n <= m)
    BY <1>5
  <2> HIDE DEF Holds
  <2> QED
    BY <1>2, <2>1
<1>7. \A x \in Nat, y \in Nat : x >= 1 /\ y >= 1 => x * y >= 1
  OBVIOUS
<1>8. p[n] = s * p[m] /\ e[n] = w * p[n] + e[m] /\ p[m] \in Nat /\ p[n] \in Nat
  BY <1>1, <1>5
<1>9. s * p[m] >= 1
  BY <1>6, <1>7, <1>8
<1>10. p[n] >= 1
  BY <1>8, <1>9
<1>11. w * p[n] >= 1 /\ w * p[n] \in Nat
  BY <1>7, <1>8, <1>10
<1>12. e[n] \in Nat /\ e[m] \in Nat
  BY <1>1, <1>5
<1>13. e[n] >= e[m] + 1
  <2> DEFINE x == w * p[n]
  <2>1. e[n] = x + e[m] /\ x \in Nat /\ x >= 1
    BY <1>8, <1>11
  <2> HIDE DEF x
  <2> QED
    BY <1>12, <2>1
<1>14. ASSUME NEW k \in 0 .. n
       PROVE  e[k] <= e[n]
  <2>1. CASE k = n
    BY <1>12, <2>1
  <2>2. CASE k # n
    <3>1. k \in Nat /\ k \in 0 .. m
      BY <1>5, <2>2
    <3>2. e[k] \in Nat
      BY <1>1, <3>1, Zenon
    <3> QED
      BY <1>6, <1>12, <1>13, <3>1, <3>2
  <2> QED
    BY <2>1, <2>2
<1>15. e[n] >= n + 1
  BY <1>5, <1>6, <1>12, <1>13
<1> QED
  BY <1>3, <1>10, <1>14, <1>15

(* What the configuration gives to the decay policy.                          *)
LEMMA DecayConf ==
  ASSUME conf \in Configuration
  PROVE  /\ conf.decayStart \in Nat \ {0} /\ conf.decayWindow \in Nat \ {0}
         /\ conf.decayScale \in Nat \ {0, 1} /\ conf.decayLimit \in Nat \ {0}
BY PolicyAssumption DEF Configurable

LEMMA ReachIs ==
  ASSUME conf \in Configuration
  PROVE  /\ \A n \in Int : Reach(n) \in Nat /\ (n < 0 => Reach(n) = 0)
         /\ \A n \in Nat : Reach(n) >= n + 1
         /\ \A n \in Int : \A m \in Int : m <= n => Reach(m) <= Reach(n)
<1> DEFINE e == Ends(conf.decayWindow, conf.decayScale)
<1>1. e \in [Nat -> Nat]
  BY DecayConf, EndsRule
<1>2. \A n \in Nat : e[n] >= n + 1 /\ \A m \in 0 .. n : e[m] <= e[n]
  BY DecayConf, WindowsGrow
<1>3. \A n \in Int : IF n < 0 THEN Reach(n) = 0 ELSE Reach(n) = e[n]
  BY DEF Reach
<1> HIDE DEF e
<1>4. ASSUME NEW n \in Int
      PROVE  Reach(n) \in Nat /\ (n < 0 => Reach(n) = 0) /\ (n \in Nat => Reach(n) = e[n])
  BY <1>1, <1>3
<1>5. ASSUME NEW n \in Nat
      PROVE  Reach(n) >= n + 1
  <2>1. Reach(n) = e[n] /\ e[n] >= n + 1
    BY <1>2, <1>4
  <2> QED
    BY <2>1
<1>6. ASSUME NEW n \in Int, NEW m \in Int, m <= n
      PROVE  Reach(m) <= Reach(n)
  <2>1. CASE m < 0
    BY <1>4, <2>1
  <2>2. CASE ~ (m < 0)
    <3>1. n \in Nat /\ m \in Nat /\ m \in 0 .. n
      BY <1>6, <2>2
    <3>2. Reach(n) = e[n] /\ Reach(m) = e[m] /\ e[m] <= e[n]
      BY <1>2, <1>4, <3>1
    <3> QED
      BY <3>2
  <2> QED
    BY <2>1, <2>2
<1> QED
  BY <1>4, <1>5, <1>6

(* Beyond a power is within the windows before it.                            *)
LEMMA BeyondIs ==
  ASSUME conf \in Configuration
  PROVE  \A n \in Nat : \A a \in Int : Beyond(n + 1, a) <=> Reach(n) >= a
<1> SUFFICES ASSUME NEW n \in Nat, NEW a \in Int
             PROVE  Beyond(n + 1, a) <=> Reach(n) >= a
  OBVIOUS
<1> DEFINE s == conf.decayScale
           r == Reach(n)
           b == conf.decayWindow * (Power(s)[n + 1] - 1)
<1>1. s \in Nat /\ s - 1 >= 1 /\ r \in Nat
  <2>1. s \in Nat \ {0, 1}
    BY DecayConf
  <2>2. r \in Nat
    BY ReachIs
  <2> HIDE DEF s, r
  <2> QED
    BY <2>1, <2>2
<1>2. (s - 1) * r = b
  <2>1. r = Ends(conf.decayWindow, s)[n]
    BY DEF Reach
  <2>2. \A m \in Nat : (s - 1) * Ends(conf.decayWindow, s)[m]
                        = conf.decayWindow * (Power(s)[m + 1] - 1)
    <3>1. s \in Nat \ {0} /\ conf.decayWindow \in Nat
      BY DecayConf
    <3> HIDE DEF s
    <3> QED
      BY <3>1, WindowsSum
  <2> QED
    BY <2>1, <2>2, Zenon
<1>3. Beyond(n + 1, a) <=> b >= (s - 1) * a
  BY DEF Beyond
<1> HIDE DEF s, r, b
<1>4. Beyond(n + 1, a) <=> (s - 1) * r >= (s - 1) * a
  BY <1>2, <1>3, Zenon
<1>5. (s - 1) * r >= (s - 1) * a <=> r >= a
  <2> DEFINE t == s - 1
  <2>1. t \in Nat /\ t >= 1
    BY <1>1
  <2> HIDE DEF t
  <2>2. r >= a => t * r >= t * a
    BY <1>1, <2>1
  <2>3. r < a => t * r < t * a
    BY <1>1, <2>1
  <2>4. t * r \in Int /\ t * a \in Int
    BY <1>1, <2>1
  <2>5. t * r >= t * a <=> r >= a
    <3> DEFINE x == t * r
               y == t * a
    <3>1. x \in Int /\ y \in Int /\ (r >= a => x >= y) /\ (r < a => x < y)
      BY <2>2, <2>3, <2>4
    <3> HIDE DEF x, y
    <3>2. x >= y <=> r >= a
      BY <1>1, <3>1
    <3> QED
      BY <3>2 DEF x, y
  <2> QED
    BY <2>5 DEF t
<1> QED
  BY <1>4, <1>5 DEF r

(* The bucket of an age is the window in which it lies.                       *)
LEMMA BucketIs ==
  ASSUME conf \in Configuration, NEW a \in Nat \ {0}, NEW n \in Nat,
         Reach(n - 1) < a, a <= Reach(n)
  PROVE  Bucket(a) = n
<1>1. \A k \in 1 .. a : Beyond(k, a) <=> Reach(k - 1) >= a
  <2> SUFFICES ASSUME NEW k \in 1 .. a PROVE Beyond(k, a) <=> Reach(k - 1) >= a
    OBVIOUS
  <2>1. k - 1 \in Nat /\ (k - 1) + 1 = k /\ a \in Int
    OBVIOUS
  <2>2. Beyond((k - 1) + 1, a) <=> Reach(k - 1) >= a
    BY <2>1, BeyondIs
  <2> QED
    BY <2>1, <2>2
<1>2. \A k \in 1 .. a : ~ Beyond(k, a) <=> k <= n
  <2> SUFFICES ASSUME NEW k \in 1 .. a PROVE ~ (Reach(k - 1) >= a) <=> k <= n
    BY <1>1
  <2>1. Reach(k - 1) \in Nat /\ Reach(n - 1) \in Nat /\ Reach(n) \in Nat
    <3>1. k - 1 \in Int /\ n - 1 \in Int /\ n \in Int
      OBVIOUS
    <3> QED
      BY <3>1, ReachIs
  <2>2. ASSUME k <= n PROVE Reach(k - 1) <= Reach(n - 1)
    <3>1. k - 1 \in Int /\ n - 1 \in Int /\ k - 1 <= n - 1
      BY <2>2
    <3> QED
      BY <3>1, ReachIs
  <2>3. ASSUME k > n PROVE Reach(n) <= Reach(k - 1)
    <3>1. k - 1 \in Int /\ n \in Int /\ n <= k - 1
      BY <2>3
    <3> QED
      BY <3>1, ReachIs
  <2> QED
    BY <2>1, <2>2, <2>3
<1>3. n <= a
  <2>1. n # 0 => Reach(n - 1) >= n
    <3>1. ASSUME n # 0 PROVE Reach(n - 1) >= (n - 1) + 1
      BY <3>1, ReachIs
    <3> QED
      BY <3>1
  <2> QED
    BY <2>1, ReachIs
<1>4. {k \in 1 .. a : ~ Beyond(k, a)} = 1 .. n
  BY <1>2, <1>3
<1>5. Cardinality(1 .. n) = n
  <2>1. Cardinality(1 .. n) = IF 1 > n THEN 0 ELSE n - 1 + 1
    BY FS_Interval
  <2> QED
    BY <2>1
<1> QED
  BY <1>4, <1>5 DEF Bucket

(* Every age lies in a window.                                               *)
LEMMA WindowOf ==
  ASSUME conf \in Configuration, NEW a \in Nat \ {0}
  PROVE  /\ Bucket(a) \in Nat
         /\ Reach(Bucket(a) - 1) < a /\ a <= Reach(Bucket(a))
<1> DEFINE T == {n \in Nat : a <= Reach(n)}
<1>1. a - 1 \in T
  <2>1. a - 1 \in Nat /\ Reach(a - 1) >= (a - 1) + 1
    BY ReachIs
  <2> QED
    BY <2>1
<1>2. PICK n \in T : \A m \in T : n <= m
  <2>1. T \in SUBSET Nat
    OBVIOUS
  <2> HIDE DEF T
  <2> QED
    BY <1>1, <2>1, LeastNumber
<1>3. n \in Nat /\ a <= Reach(n) /\ Reach(n - 1) \in Nat
  BY ReachIs
<1>4. Reach(n - 1) < a
  <2>1. CASE n = 0
    BY <1>3, <2>1, ReachIs
  <2>2. CASE n # 0
    <3>1. n - 1 \in Nat /\ ~ (n <= n - 1)
      BY <1>3, <2>2
    <3>2. n - 1 \notin T
      BY <1>2, <3>1
    <3> QED
      BY <1>3, <3>1, <3>2
  <2> QED
    BY <2>1, <2>2
<1> QED
  BY <1>3, <1>4, BucketIs

(* The days of the n-th window: each window is a multiple of the one before.        *)
Length(n) == conf.decayWindow * Power(conf.decayScale)[n]

LEMMA LengthIs ==
  ASSUME conf \in Configuration, NEW n \in Nat
  PROVE  /\ Length(n) \in Nat \ {0}
         /\ Reach(n) = Reach(n - 1) + Length(n)
         /\ Length(n + 1) = conf.decayScale * Length(n)
<1> DEFINE w == conf.decayWindow
           s == conf.decayScale
           p == Power(s)
           e == Ends(w, s)
<1>1. w \in Nat \ {0} /\ s \in Nat \ {0}
  BY DecayConf
<1>2. /\ p[n] \in Nat /\ p[n + 1] = s * p[n] /\ e \in [Nat -> Nat]
      /\ e[0] = w /\ p[0] = 1 /\ \A m \in Nat : e[m + 1] = w * p[m + 1] + e[m]
  <2>1. p \in [Nat -> Nat] /\ p[0] = 1 /\ \A m \in Nat : p[m + 1] = s * p[m]
    BY <1>1, PowerRule
  <2>2. e \in [Nat -> Nat] /\ e[0] = w /\ \A m \in Nat : e[m + 1] = w * p[m + 1] + e[m]
    BY <1>1, EndsRule
  <2> HIDE DEF w, s, p, e
  <2> QED
    BY <2>1, <2>2
<1>3. p[n] >= 1
  BY <1>1, WindowsGrow
<1>4. Length(n) = w * p[n] /\ Length(n + 1) = w * p[n + 1]
  BY DEF Length
<1>5. Reach(n) = e[n] /\ (n # 0 => Reach(n - 1) = e[n - 1]) /\ (n = 0 => Reach(n - 1) = 0)
  BY DEF Reach
<1> HIDE DEF w, s, p, e
<1>6. w * p[n] \in Nat \ {0}
  BY <1>1, <1>2, <1>3
<1>7. w * p[n + 1] = s * (w * p[n])
  BY <1>1, <1>2
<1>8. Reach(n) = Reach(n - 1) + w * p[n]
  <2>1. CASE n = 0
    <3>1. Reach(n) = w /\ Reach(n - 1) = 0 /\ w * p[n] = w * 1
      BY <1>2, <1>5, <2>1
    <3> QED
      BY <1>1, <3>1
  <2>2. CASE n # 0
    <3>1. n - 1 \in Nat /\ (n - 1) + 1 = n
      BY <2>2
    <3>2. e[n] = w * p[n] + e[n - 1] /\ e[n - 1] \in Nat
      BY <1>2, <3>1
    <3> QED
      BY <1>5, <1>6, <2>2, <3>2
  <2> QED
    BY <2>1, <2>2
<1> QED
  BY <1>4, <1>6, <1>7, <1>8 DEF s

(* Of the days of an interval one is a multiple of its length, and only one.    *)
LEMMA AMultiple ==
  ASSUME NEW l \in Nat \ {0}, NEW a \in Nat
  PROVE  \E q \in Nat : q * l <= a /\ a < q * l + l
<1> DEFINE T == {m \in Nat : a < m * l}
<1>1. a + 1 \in T
  <2>1. (a + 1) * l >= a + 1
    OBVIOUS
  <2>2. (a + 1) * l \in Nat
    OBVIOUS
  <2> QED
    BY <2>1, <2>2
<1>2. PICK m \in T : \A k \in T : m <= k
  <2>1. T \in SUBSET Nat
    OBVIOUS
  <2> HIDE DEF T
  <2> QED
    BY <1>1, <2>1, LeastNumber
<1>3. m \in Nat /\ a < m * l /\ m # 0
  OBVIOUS
<1>4. m - 1 \in Nat /\ ~ (m <= m - 1)
  BY <1>3
<1>5. ~ (a < (m - 1) * l)
  BY <1>2, <1>4
<1>6. (m - 1) * l + l = m * l /\ (m - 1) * l \in Nat
  BY <1>3, <1>4
<1>7. (m - 1) * l <= a /\ a < (m - 1) * l + l
  BY <1>3, <1>5, <1>6
<1> QED
  BY <1>4, <1>7

LEMMA OneMultiple ==
  ASSUME NEW l \in Nat \ {0}, NEW p \in Nat, NEW q \in Nat, NEW x \in Int,
         x < p * l, p * l <= x + l, x < q * l, q * l <= x + l
  PROVE  p = q
<1>0. ASSUME NEW i \in Nat, NEW j \in Nat, i < j
      PROVE  i * l + l <= j * l
  <2>1. i + 1 <= j
    BY <1>0
  <2>2. (i + 1) * l <= j * l
    BY <2>1
  <2> QED
    BY <2>2
<1>1. p * l \in Int /\ q * l \in Int
  OBVIOUS
<1>2. ~ (p < q)
  BY <1>0, <1>1
<1>3. ~ (q < p)
  BY <1>0, <1>1
<1> QED
  BY <1>2, <1>3

-----------------------------------------------------------------------------
USE PolicyAssumption
    DEF Configurable, Time, None, NoBucket, history

(* Days do not go back.                                                     *)
LEMMA DayType == \A t \in Nat : Day(t) \in Nat
BY DEF Day

LEMMA DayMonotone == \A t \in Nat, u \in Nat : t <= u => Day(t) <= Day(u)
BY DEF Day

LEMMA BucketType == \A a \in Int : Bucket(a) \in Nat
<1> SUFFICES ASSUME NEW a \in Int PROVE Bucket(a) \in Nat
  OBVIOUS
<1>1. IsFiniteSet(1 .. a)
  BY FS_Interval
<1>2. IsFiniteSet({n \in 1 .. a : ~ Beyond(n, a)})
  BY <1>1, FS_Subset
<1> QED
  BY <1>2, FS_CardinalityType DEF Bucket

(* Sets of backups can be counted.                                          *)
LEMMA Countable ==
  ASSUME NEW S \in SUBSET Time
  PROVE  IsFiniteSet(S) /\ Cardinality(S) \in Nat
<1>1. IsFiniteSet(Time)
  BY FS_Interval
<1> QED
  BY <1>1, FS_Subset, FS_CardinalityType

LEMMA InitConsistent == Init => Consistent
BY DayType DEF Init, Consistent, TypeOK, Condemned, Looking, Enough, OldEnough,
   Dated, Judged, Filled

(* Ages are whole numbers of days.                                          *)
LEMMA AgeType == ASSUME TypeOK, NEW b \in Time PROVE Age(b) \in Int
BY DayType DEF TypeOK, Age

(* On one day nothing ages, and the buckets stay.                            *)
LEMMA SameDay ==
  ASSUME conf' = conf, Day(now') = Day(now)
  PROVE  \A b \in Time : /\ Age(b)' = Age(b)
                          /\ Young(b)' = Young(b)
                          /\ TooOld(b)' = TooOld(b)
                          /\ BucketOf(b)' = BucketOf(b)
<1> TAKE b \in Time
<1>1. Age(b)' = Age(b)
  BY DEF Age
<1>2. \A n, a : Beyond(n, a)' = Beyond(n, a)
  BY DEF Beyond
<1>3. \A a : Bucket(a)' = Bucket(a)
  BY <1>2 DEF Bucket
<1> QED
  BY <1>1, <1>3 DEF Young, TooOld, BucketOf

(* No run is under way, and nothing is condemned.                            *)
LEMMA CompleteConsistent ==
  ASSUME Consistent, NEW d \in Device, Complete(d)
  PROVE  Consistent'
<1>1. TypeOK'
  BY DEF Complete, Consistent, TypeOK
<1>2. Condemned'
  BY DEF Complete, Consistent, TypeOK, Condemned, Looking
<1>3. Looking'
  BY DEF Complete, Consistent, TypeOK, Condemned, Looking
<1>4. Enough'
  BY DEF Complete, Consistent, TypeOK, Condemned, Looking, Enough
<1>5. OldEnough'
  BY DEF Complete, Consistent, TypeOK, Condemned, Looking, OldEnough, Age, Threshold
<1>6. Dated'
  BY DEF Complete, Consistent, Dated
<1>7. Judged'
  BY SameDay DEF Complete, Consistent, TypeOK, Looking, Judged
<1>8. Filled'
  BY SameDay DEF Complete, Consistent, TypeOK, Looking, Filled
<1> QED
  BY <1>1, <1>2, <1>3, <1>4, <1>5, <1>6, <1>7, <1>8 DEF Consistent

(* Backups only get older.                                                   *)
LEMMA TickConsistent ==
  ASSUME Consistent, Tick
  PROVE  Consistent'
<1>0. Day(now) \in Nat /\ Day(now') \in Nat /\ Day(now) <= Day(now') /\ since \in Nat
  BY DayType, DayMonotone DEF Tick, Consistent, TypeOK
<1>1. TypeOK'
  BY DEF Tick, Consistent, TypeOK
<1>2. Condemned'
  BY DEF Tick, Consistent, TypeOK, Condemned, Looking
<1>3. Looking'
  BY DEF Tick, Consistent, TypeOK, Condemned, Looking
<1>4. Enough'
  BY DEF Tick, Consistent, TypeOK, Condemned, Looking, Enough
<1>5. OldEnough'
  <2> SUFFICES ASSUME conf.policy \in {"age", "decay"},
                      NEW d \in Device, NEW b \in prune[d]
               PROVE  Age(b)' > Threshold
    BY DEF OldEnough, Threshold, Tick
  <2>1. Age(b) > Threshold
    BY DEF Consistent, OldEnough
  <2>2. now \in Nat /\ now' \in Nat /\ now <= now' /\ b \in Nat /\ Age(b)' = Day(now') - Day(b)
    BY DEF Tick, Consistent, TypeOK, Age
  <2>3. Day(now) <= Day(now')
    BY <2>2, DayMonotone
  <2>4. Day(now) \in Nat /\ Day(now') \in Nat /\ Day(b) \in Nat
    BY <2>2, DayType
  <2>5. Threshold \in Nat
    BY DEF Consistent, TypeOK, Threshold
  <2> QED
    BY <2>1, <2>2, <2>3, <2>4, <2>5 DEF Age
<1>6. Dated'
  BY <1>0 DEF Tick, Consistent, Dated
<1>7. Judged'
  <2> SUFFICES ASSUME since' = Day(now')
               PROVE  Judged'
    BY DEF Judged
  <2>1. Day(now') = Day(now) /\ conf' = conf
    BY <1>0 DEF Tick, Consistent, Dated
  <2> QED
    BY <2>1, SameDay DEF Tick, Consistent, TypeOK, Looking, Judged
<1>8. Filled'
  <2> SUFFICES ASSUME since' = Day(now')
               PROVE  Filled'
    BY DEF Filled
  <2>1. Day(now') = Day(now) /\ conf' = conf
    BY <1>0 DEF Tick, Consistent, Dated
  <2> QED
    BY <2>1, SameDay DEF Tick, Consistent, TypeOK, Looking, Filled
<1> QED
  BY <1>1, <1>2, <1>3, <1>4, <1>5, <1>6, <1>7, <1>8 DEF Consistent

(* The run begins with the devices that have backups.                        *)
LEMMA FindConsistent ==
  ASSUME Consistent, Find
  PROVE  Consistent'
<1>1. TypeOK'
  <2>1. Day(now) \in Nat
    BY DayType DEF Consistent, TypeOK
  <2> QED
    BY <2>1 DEF Find, Consistent, TypeOK
<1>2. Condemned'
  BY DEF Find, Consistent, TypeOK, Condemned, Looking
<1>3. Looking'
  BY DEF Find, Consistent, TypeOK, Condemned, Looking
<1>4. Enough'
  BY DEF Find, Consistent, TypeOK, Condemned, Looking, Enough
<1>5. OldEnough'
  BY DEF Find, Consistent, TypeOK, Condemned, Looking, OldEnough, Age, Threshold
<1>6. Dated'
  BY DayType DEF Find, Consistent, TypeOK, Dated
<1>7. Judged'
  BY SameDay DEF Find, Consistent, TypeOK, Looking, Judged
<1>8. Filled'
  BY SameDay DEF Find, Consistent, TypeOK, Looking, Filled
<1> QED
  BY <1>1, <1>2, <1>3, <1>4, <1>5, <1>6, <1>7, <1>8 DEF Consistent

(* The policy takes a device of which nothing is condemned yet.              *)
LEMMA ExamineConsistent ==
  ASSUME Consistent, NEW d \in Device, Examine(d)
  PROVE  Consistent'
<1>1. TypeOK'
  <2>1. Cardinality(complete[d]) \in Nat
    BY Countable DEF Consistent, TypeOK
  <2>2. pc' \in {"devices", "age", "sort", "exec"} /\ queue' \subseteq Time /\ left' \in Nat
    BY <2>1 DEF Examine, Untouched, FirstLoop, Leave, Consistent, TypeOK
  <2> QED
    BY <2>2 DEF Examine, Leave, Consistent, TypeOK
<1>2. Condemned'
  <2>1. pc' # "idle"
    BY DEF Examine, Untouched, FirstLoop, Consistent, TypeOK
  <2> QED
    BY <2>1 DEF Examine, Consistent, Condemned
<1>3. Looking'
  <2>1. prune'[d] = {} /\ complete'[d] \ prune'[d] = complete[d]
    BY DEF Examine, Consistent, Condemned
  <2>2. conf' = conf /\ device' = d /\ d \notin rest'
    BY DEF Examine
  <2>3. CASE Untouched(d)
    BY <2>3 DEF Examine, Looking
  <2>4. CASE ~ Untouched(d)
    <3>1. conf.policy \in {"age", "decay", "exec"}
      BY <2>4 DEF Untouched, Consistent, TypeOK
    <3>2. pc' = FirstLoop[conf.policy] /\ queue' = complete[d] /\ left' = Cardinality(complete[d])
      BY <2>4 DEF Examine
    <3>3. complete'[d] = complete[d]
      BY DEF Examine
    <3>7. /\ left' = Cardinality(complete'[device'] \ prune'[device'])
         /\ queue' = complete'[device'] \ prune'[device']
      BY <2>1, <2>2, <3>2
    <3>4. CASE conf.policy = "age"
      BY <3>7, <2>1, <2>2, <3>2, <3>3, <3>4 DEF FirstLoop, Looking
    <3>5. CASE conf.policy = "decay"
      BY <2>1, <2>2, <3>2, <3>3, <3>5 DEF FirstLoop, Looking
    <3>6. CASE conf.policy = "exec"
      BY <2>1, <2>2, <3>2, <3>3, <3>6 DEF FirstLoop, Looking
    <3> QED
      BY <3>1, <3>4, <3>5, <3>6
  <2> QED
    BY <2>3, <2>4
<1>4. Enough'
  BY DEF Examine, Consistent, TypeOK, Condemned, Looking, Enough
<1>5. OldEnough'
  BY DEF Examine, Consistent, TypeOK, Condemned, Looking, OldEnough, Age, Threshold
<1>6. Dated'
  BY DEF Examine, Consistent, Dated
<1>7. Judged'
  <2> SUFFICES ASSUME since = Day(now), conf.policy = "age",
                      NEW e \in Device, e \notin rest'
               PROVE  \/ Cardinality(complete'[e] \ prune'[e]) <= conf.minBackups
                      \/ \A b \in complete'[e] \ prune'[e] :
                           \/ Age(b)' <= conf.pruneAge
                           \/ pc' = "age" /\ e = device' /\ b \in queue'
    BY DEF Examine, Judged
  <2>1. pc' = "age" /\ device' = d /\ queue' = complete[d]
    BY DEF Examine, Untouched, FirstLoop
  <2>2. CASE e = d
    BY <2>1, <2>2 DEF Examine
  <2>3. CASE e # d
    BY <2>3, SameDay DEF Examine, Consistent, TypeOK, Judged
  <2> QED
    BY <2>2, <2>3
<1>8. Filled'
  <2>1. pc' = "sort" => queue' = complete[d] /\ device' = d
    BY DEF Examine, Leave
  <2>2. pc' \in {"devices", "age", "sort", "exec"}
    BY DEF Examine, Untouched, FirstLoop, Consistent, TypeOK
  <2> QED
    BY <2>1, <2>2 DEF Examine, Filled
<1> QED
  BY <1>1, <1>2, <1>3, <1>4, <1>5, <1>6, <1>7, <1>8 DEF Consistent

(* The policy is done with a device.                                         *)
LEMMA ExaminedConsistent ==
  ASSUME Consistent, Examined
  PROVE  Consistent'
<1>1. TypeOK'
  BY DEF Examined, Leave, Consistent, TypeOK
<1>2. Condemned'
  BY DEF Examined, Consistent, TypeOK, Condemned, Looking
<1>3. Looking'
  BY DEF Examined, Consistent, TypeOK, Condemned, Looking
<1>4. Enough'
  BY DEF Examined, Consistent, TypeOK, Condemned, Looking, Enough
<1>5. OldEnough'
  BY DEF Examined, Consistent, TypeOK, Condemned, Looking, OldEnough, Age, Threshold
<1>6. Dated'
  BY DEF Examined, Consistent, Dated
<1>7. Judged'
  BY SameDay DEF Examined, Consistent, TypeOK, Looking, Judged
<1>8. Filled'
  BY SameDay DEF Examined, Consistent, TypeOK, Looking, Filled
<1> QED
  BY <1>1, <1>2, <1>3, <1>4, <1>5, <1>6, <1>7, <1>8 DEF Consistent

(* The age policy condemns a backup only while more than min-backups are left. *)
LEMMA JudgeByAgeConsistent ==
  ASSUME Consistent, NEW b \in queue, JudgeByAge(b)
  PROVE  Consistent'
<1>0. /\ left = Cardinality(complete[device] \ prune[device])
     /\ Cardinality((complete[device] \ prune[device]) \ {b}) = left - 1
     /\ complete[device] \ (prune[device] \cup {b})
          = (complete[device] \ prune[device]) \ {b}
  <2>1. /\ complete[device] \ prune[device] \in SUBSET Time
        /\ b \in complete[device] \ prune[device]
        /\ left = Cardinality(complete[device] \ prune[device])
    BY DEF JudgeByAge, Consistent, TypeOK, Looking
  <2>2. IsFiniteSet(complete[device] \ prune[device])
    BY <2>1, Countable
  <2>3. Cardinality((complete[device] \ prune[device]) \ {b}) = left - 1
    BY <2>1, <2>2, FS_RemoveElement
  <2> QED
    BY <2>1, <2>3
<1>1. TypeOK'
  <2>1. prune' \in [Device -> SUBSET Time] /\ left' \in Nat
    BY DEF JudgeByAge, Condemn, Consistent, TypeOK
  <2> QED
    BY <2>1 DEF JudgeByAge, Consistent, TypeOK
<1>2. Condemned'
  BY DEF JudgeByAge, Condemn, Consistent, TypeOK, Condemned, Looking
<1>3. Looking'
  BY <1>0 DEF JudgeByAge, Condemn, Consistent, TypeOK, Looking
<1>4. Enough'
  <2>1. device \in Device /\ left \in Nat /\ conf.minBackups \in Nat
    BY DEF Consistent, TypeOK
  <2>2. CASE UNCHANGED prune
    BY <2>2 DEF JudgeByAge, Consistent, Enough
  <2>3. CASE Condemn(b) /\ ~ (left <= conf.minBackups)
    <3>1. Cardinality(complete'[device] \ prune'[device]) >= conf.minBackups
      <4>1. complete'[device] \ prune'[device] = (complete[device] \ prune[device]) \ {b}
        BY <1>0, <2>1, <2>3 DEF JudgeByAge, Condemn, Consistent, TypeOK
      <4>2. Cardinality(complete'[device] \ prune'[device]) = left - 1
        BY <4>1, <1>0, Zenon
      <4> QED
        BY <2>1, <2>3, <4>2
    <3>2. \A d \in Device \ {device} : prune'[d] = prune[d]
      BY <2>3 DEF Condemn, Consistent, TypeOK
    <3> QED
      BY <3>1, <3>2 DEF JudgeByAge, Consistent, Enough
  <2> QED
    BY <2>2, <2>3 DEF JudgeByAge
<1>5. OldEnough'
  <2>1. conf.policy = "age"
    BY DEF JudgeByAge, Consistent, Looking
  <2>2. ~ (Age(b) <= conf.pruneAge) => Age(b) > conf.pruneAge
    BY AgeType DEF Consistent, TypeOK
  <2> QED
    BY <2>1, <2>2 DEF JudgeByAge, Condemn, Consistent, TypeOK, OldEnough, Age, Threshold
<1>6. Dated'
  BY DEF JudgeByAge, Consistent, Dated
<1>7. Judged'
  <2> SUFFICES ASSUME since = Day(now), conf.policy = "age",
                      NEW e \in Device, e \notin rest
               PROVE  \/ Cardinality(complete[e] \ prune'[e]) <= conf.minBackups
                      \/ \A c \in complete[e] \ prune'[e] :
                           \/ Age(c)' <= conf.pruneAge
                           \/ pc = "age" /\ e = device /\ c \in queue'
    BY DEF JudgeByAge, Judged
  <2>1. \A c \in Time : Age(c)' = Age(c)
    BY SameDay DEF JudgeByAge
  <2>2. complete[e] \in SUBSET Time /\ device \in Device /\ left \in Nat /\ conf.minBackups \in Nat
    BY DEF Consistent, TypeOK
  <2>3. \/ Cardinality(complete[e] \ prune[e]) <= conf.minBackups
        \/ \A c \in complete[e] \ prune[e] :
             Age(c) <= conf.pruneAge \/ (pc = "age" /\ e = device /\ c \in queue)
    <3>1. Judged /\ pc # "idle"
      BY DEF JudgeByAge, Consistent
    <3>2. e \in Device \ rest /\ since = Day(now) /\ conf.policy = "age"
      OBVIOUS
    <3> QED
      BY <3>1, <3>2 DEF Judged
  <2>4. CASE e # device
    <3>1. prune'[e] = prune[e]
      BY <2>4 DEF JudgeByAge, Condemn, Consistent, TypeOK
    <3> QED
      BY <3>1, <2>1, <2>2, <2>3, <2>4
  <2>5. CASE e = device /\ (Age(b) <= conf.pruneAge \/ left <= conf.minBackups)
    <3>1. queue' = queue \ {b} /\ prune' = prune
      BY <2>5 DEF JudgeByAge
    <3> QED
      BY <3>1, <1>0, <2>1, <2>2, <2>3, <2>5
  <2>6. CASE e = device /\ ~ (Age(b) <= conf.pruneAge \/ left <= conf.minBackups)
    <3>1. complete[e] \ prune'[e] = (complete[e] \ prune[e]) \ {b}
      BY <1>0, <2>6 DEF JudgeByAge, Condemn, Consistent, TypeOK
    <3>2. queue' = queue \ {b}
      BY DEF JudgeByAge
    <3>3. Cardinality(complete[e] \ prune[e]) = left
      BY <1>0, <2>6, Zenon
    <3>4. ~ (Cardinality(complete[e] \ prune[e]) <= conf.minBackups)
      BY <3>3, <2>6
    <3>5. \A c \in complete[e] \ prune[e] :
            Age(c) <= conf.pruneAge \/ (pc = "age" /\ e = device /\ c \in queue)
      BY <2>3, <3>4
    <3> QED
      BY <3>1, <3>2, <3>5, <2>1, <2>2
  <2> QED
    BY <2>4, <2>5, <2>6
<1>8. Filled'
  BY SameDay DEF JudgeByAge, Consistent, TypeOK, Looking, Filled
<1> QED
  BY <1>1, <1>2, <1>3, <1>4, <1>5, <1>6, <1>7, <1>8 DEF Consistent

(* The decay policy condemns what is too old.                                *)
LEMMA SortConsistent ==
  ASSUME Consistent, NEW b \in queue, Sort(b)
  PROVE  Consistent'
<1>1. TypeOK'
  <2>1. prune' \in [Device -> SUBSET Time]
    BY DEF Sort, Condemn, Consistent, TypeOK
  <2>2. BucketOf(b) \in Nat /\ b \in Time
    BY AgeType, BucketType DEF BucketOf, Consistent, TypeOK
  <2>3. DOMAIN oldest' \subseteq Nat /\ \A n \in DOMAIN oldest' : oldest'[n] \in Time
    BY <2>2 DEF Sort, Put, Consistent, TypeOK
  <2> QED
    BY <2>1, <2>3 DEF Sort, Consistent, TypeOK
<1>2. Condemned'
  BY DEF Sort, Condemn, Consistent, TypeOK, Condemned, Looking
<1>3. Looking'
  BY DEF Sort, Consistent, TypeOK, Looking
<1>4. Enough'
  BY DEF Sort, Consistent, Looking, Enough
<1>5. OldEnough'
  <2>1. conf.policy = "decay"
    BY DEF Sort, Consistent, Looking
  <2>2. ~ Young(b) => Age(b) > conf.decayStart
    BY AgeType DEF Young, Consistent, TypeOK
  <2>3. prune' = prune \/ (~ Young(b) /\ Condemn(b))
    BY DEF Sort, TooOld
  <2> QED
    BY <2>1, <2>2, <2>3 DEF Sort, Condemn, Consistent, TypeOK, OldEnough, Age, Threshold
<1>6. Dated'
  BY DEF Sort, Consistent, Dated
<1>7. Judged'
  BY SameDay DEF Sort, Consistent, TypeOK, Looking, Judged
<1>8. Filled'
  <2> SUFFICES ASSUME since = Day(now), NEW c \in complete[device]
               PROVE  \/ c \in queue'
                      \/ Young(c)' \/ TooOld(c)'
                      \/ BucketOf(c)' \in DOMAIN oldest'
    BY DEF Sort, Consistent, Filled
  <2>1. c \in Time /\ b \in Time /\ queue' = queue \ {b}
    BY DEF Sort, Consistent, TypeOK
  <2>2. /\ Young(c)' = Young(c) /\ TooOld(c)' = TooOld(c)
        /\ BucketOf(c)' = BucketOf(c)
    BY <2>1, SameDay DEF Sort
  <2>3. DOMAIN oldest \subseteq DOMAIN oldest'
    BY DEF Sort, Put
  <2>4. CASE c = b
    BY <2>2, <2>4 DEF Sort, Put
  <2>5. CASE c # b
    BY <2>1, <2>2, <2>3, <2>5 DEF Sort, Consistent, Filled
  <2> QED
    BY <2>4, <2>5
<1> QED
  BY <1>1, <1>2, <1>3, <1>4, <1>5, <1>6, <1>7, <1>8 DEF Consistent

(* The second loop starts from all the backups of the device.                *)
LEMMA SortedConsistent ==
  ASSUME Consistent, Sorted
  PROVE  Consistent'
<1>1. TypeOK'
  BY DEF Sorted, Consistent, TypeOK
<1>2. Condemned'
  BY DEF Sorted, Consistent, TypeOK, Condemned, Looking
<1>3. Looking'
  BY DEF Sorted, Consistent, TypeOK, Condemned, Looking
<1>4. Enough'
  BY DEF Sorted, Consistent, TypeOK, Condemned, Looking, Enough
<1>5. OldEnough'
  BY DEF Sorted, Consistent, TypeOK, Condemned, Looking, OldEnough, Age, Threshold
<1>6. Dated'
  BY DEF Sorted, Consistent, Dated
<1>7. Judged'
  BY SameDay DEF Sorted, Consistent, TypeOK, Looking, Judged
<1>8. Filled'
  BY SameDay DEF Sorted, Consistent, TypeOK, Looking, Filled
<1> QED
  BY <1>1, <1>2, <1>3, <1>4, <1>5, <1>6, <1>7, <1>8 DEF Consistent

(* The decay policy condemns all but the oldest of a window, and no young one. *)
LEMMA JudgeConsistent ==
  ASSUME Consistent, NEW b \in queue, Judge(b)
  PROVE  Consistent'
<1>1. TypeOK'
  <2>1. prune' \in [Device -> SUBSET Time]
    BY DEF Judge, Condemn, Consistent, TypeOK
  <2> QED
    BY <2>1 DEF Judge, Consistent, TypeOK
<1>2. Condemned'
  BY DEF Judge, Condemn, Consistent, TypeOK, Condemned, Looking
<1>3. Looking'
  BY DEF Judge, Consistent, TypeOK, Looking
<1>4. Enough'
  BY DEF Judge, Consistent, Looking, Enough
<1>5. OldEnough'
  <2>1. conf.policy = "decay"
    BY DEF Judge, Consistent, Looking
  <2>2. ~ Young(b) => Age(b) > conf.decayStart
    BY AgeType DEF Young, Consistent, TypeOK
  <2>3. prune' = prune \/ (~ Young(b) /\ Condemn(b))
    BY DEF Judge, TooOld
  <2> QED
    BY <2>1, <2>2, <2>3 DEF Judge, Condemn, Consistent, TypeOK, OldEnough, Age, Threshold
<1>6. Dated'
  BY DEF Judge, Consistent, Dated
<1>7. Judged'
  BY SameDay DEF Judge, Consistent, TypeOK, Looking, Judged
<1>8. Filled'
  BY SameDay DEF Judge, Consistent, TypeOK, Looking, Filled
<1> QED
  BY <1>1, <1>2, <1>3, <1>4, <1>5, <1>6, <1>7, <1>8 DEF Consistent

(* The exec policy condemns any backups of the device.                       *)
LEMMA ExecuteConsistent ==
  ASSUME Consistent, Execute
  PROVE  Consistent'
<1>1. TypeOK'
  BY DEF Execute, Leave, Consistent, TypeOK
<1>2. Condemned'
  BY DEF Execute, Consistent, TypeOK, Condemned, Looking
<1>3. Looking'
  BY DEF Execute, Consistent, TypeOK, Condemned, Looking
<1>4. Enough'
  BY DEF Execute, Consistent, TypeOK, Condemned, Looking, Enough
<1>5. OldEnough'
  BY DEF Execute, Consistent, TypeOK, Condemned, Looking, OldEnough, Age, Threshold
<1>6. Dated'
  BY DEF Execute, Consistent, Dated
<1>7. Judged'
  BY SameDay DEF Execute, Consistent, TypeOK, Looking, Judged
<1>8. Filled'
  BY SameDay DEF Execute, Consistent, TypeOK, Looking, Filled
<1> QED
  BY <1>1, <1>2, <1>3, <1>4, <1>5, <1>6, <1>7, <1>8 DEF Consistent

(* An invalid list condemns nothing.                                         *)
LEMMA ExecuteFailsConsistent ==
  ASSUME Consistent, ExecuteFails
  PROVE  Consistent'
<1>1. TypeOK'
  BY DEF ExecuteFails, Leave, Consistent, TypeOK
<1>2. Condemned'
  BY DEF ExecuteFails, Consistent, TypeOK, Condemned, Looking
<1>3. Looking'
  BY DEF ExecuteFails, Consistent, TypeOK, Condemned, Looking
<1>4. Enough'
  BY DEF ExecuteFails, Consistent, TypeOK, Condemned, Looking, Enough
<1>5. OldEnough'
  BY DEF ExecuteFails, Consistent, TypeOK, Condemned, Looking, OldEnough, Age, Threshold
<1>6. Dated'
  BY DEF ExecuteFails, Consistent, Dated
<1>7. Judged'
  BY SameDay DEF ExecuteFails, Consistent, TypeOK, Looking, Judged
<1>8. Filled'
  BY SameDay DEF ExecuteFails, Consistent, TypeOK, Looking, Filled
<1> QED
  BY <1>1, <1>2, <1>3, <1>4, <1>5, <1>6, <1>7, <1>8 DEF Consistent

(* What was condemned is complete no longer.                                 *)
LEMMA MarkConsistent ==
  ASSUME Consistent, Mark
  PROVE  Consistent'
<1>1. TypeOK'
  BY DEF Mark, Consistent, TypeOK
<1>2. Condemned'
  BY DEF Mark, Consistent, TypeOK, Condemned, Looking
<1>3. Looking'
  BY DEF Mark, Consistent, TypeOK, Condemned, Looking
<1>4. Enough'
  BY DEF Mark, Consistent, TypeOK, Condemned, Looking, Enough
<1>5. OldEnough'
  BY DEF Mark, Consistent, TypeOK, Condemned, Looking, OldEnough, Age, Threshold
<1>6. Dated'
  BY DEF Mark, Consistent, Dated
<1>7. Judged'
  BY SameDay DEF Mark, Consistent, TypeOK, Looking, Judged
<1>8. Filled'
  BY SameDay DEF Mark, Consistent, TypeOK, Looking, Filled
<1> QED
  BY <1>1, <1>2, <1>3, <1>4, <1>5, <1>6, <1>7, <1>8 DEF Consistent

LEMMA StutterConsistent ==
  ASSUME Consistent, UNCHANGED vars
  PROVE  Consistent'
<1>1. TypeOK' /\ Condemned' /\ Looking'
  BY DEF vars, Consistent, TypeOK, Condemned, Looking
<1>2. Enough' /\ OldEnough' /\ Dated'
  BY DEF vars, Consistent, Enough, OldEnough, Age, Threshold, Dated
<1>3. Judged' /\ Filled'
  BY SameDay DEF vars, Consistent, TypeOK, Judged, Filled
<1> QED
  BY <1>1, <1>2, <1>3 DEF Consistent

LEMMA NextConsistent ==
  ASSUME Consistent, [Next]_vars
  PROVE  Consistent'
<1>1. CASE \E d \in Device : Complete(d)
  BY <1>1, CompleteConsistent
<1>2. CASE \E d \in Device : Examine(d)
  BY <1>2, ExamineConsistent
<1>3. CASE \E b \in queue : JudgeByAge(b)
  BY <1>3, JudgeByAgeConsistent
<1>4. CASE \E b \in queue : Sort(b)
  BY <1>4, SortConsistent
<1>5. CASE \E b \in queue : Judge(b)
  BY <1>5, JudgeConsistent
<1>6. CASE Tick
  BY <1>6, TickConsistent
<1>7. CASE Find
  BY <1>7, FindConsistent
<1>8. CASE Examined
  BY <1>8, ExaminedConsistent
<1>9. CASE Sorted
  BY <1>9, SortedConsistent
<1>10. CASE Execute
  BY <1>10, ExecuteConsistent
<1>11. CASE ExecuteFails
  BY <1>11, ExecuteFailsConsistent
<1>12. CASE Mark
  BY <1>12, MarkConsistent
<1>13. CASE Finished \/ UNCHANGED vars
  BY <1>13, StutterConsistent DEF Finished
<1> QED
  BY <1>1, <1>2, <1>3, <1>4, <1>5, <1>6, <1>7, <1>8, <1>9, <1>10, <1>11, <1>12,
     <1>13 DEF Next

(* The inductive invariant.                                                  *)
THEOREM AlwaysConsistent == Spec => []Consistent
<1>1. Init => Consistent
  BY InitConsistent
<1>2. Consistent /\ [Next]_vars => Consistent'
  BY NextConsistent
<1> QED
  BY <1>1, <1>2, PTL DEF Spec

(* Every variable has its type.                                              *)
THEOREM TypeCorrect == Spec => []TypeOK
<1>1. Consistent => TypeOK
  BY DEF Consistent
<1> QED
  BY <1>1, AlwaysConsistent, PTL

(* Only markObsoleteBackups() takes backups from those that are complete.     *)
LEMMA OnlyMarkRemoves ==
  ASSUME Consistent, [Next]_vars
  PROVE  Mark \/ \A d \in Device : complete[d] \subseteq complete'[d]
<1>1. CASE \E d \in Device : Complete(d)
  BY <1>1 DEF Complete, Consistent, TypeOK
<1>2. CASE complete' = complete
  BY <1>2
<1> QED
  BY <1>1, <1>2 DEF Next, vars, Examine, JudgeByAge, Sort, Judge, Tick, Find,
     Examined, Sorted, Execute, ExecuteFails, Finished

(* However many runs there are, and whenever midnight passes, the age policy   *)
(* leaves min-backups on each device (PrunePolicyAge.cc).                     *)
THEOREM MinBackupsAlwaysKept == Spec => MinBackupsKept
<1> DEFINE Keeps == conf.policy = "age" =>
                      \A d \in Device :
                        \/ complete[d] \subseteq complete'[d]
                        \/ Cardinality(complete'[d]) >= conf.minBackups
<1>1. ASSUME Consistent, [Next]_vars PROVE Keeps
  <2>1. CASE Mark
    BY <1>1, <2>1 DEF Mark, Consistent, Enough
  <2> QED
    BY <1>1, <2>1, OnlyMarkRemoves
<1>2. Consistent /\ [Next]_vars => [Keeps]_vars
  BY <1>1
<1> QED
  BY <1>2, AlwaysConsistent, PTL DEF Spec, MinBackupsKept

(* No policy that counts days prunes a backup before its age (PrunePolicyAge.cc, *)
(* PrunePolicyDecay.cc).                                                     *)
THEOREM YoungAlwaysKept == Spec => YoungKept
<1> DEFINE Spares == conf.policy \in {"age", "decay"} =>
                       \A d \in Device : \A b \in complete[d] \ complete'[d] :
                         Age(b) > Threshold
<1>1. ASSUME Consistent, [Next]_vars PROVE Spares
  <2>1. CASE Mark
    BY <1>1, <2>1 DEF Mark, Consistent, OldEnough
  <2> QED
    BY <1>1, <2>1, OnlyMarkRemoves
<1>2. Consistent /\ [Next]_vars => [Spares]_vars
  BY <1>1
<1> QED
  BY <1>2, AlwaysConsistent, PTL DEF Spec, YoungKept

(* The assertion of prunable() (PrunePolicyDecay.cc) holds in every run during *)
(* which midnight does not pass.                                             *)
THEOREM BucketAlwaysFound == Spec => []BucketFound
<1>1. Consistent => BucketFound
  <2> SUFFICES ASSUME Consistent, pc = "aborted"
               PROVE  since < Day(now)
    BY DEF BucketFound
  <2>1. since <= Day(now) /\ since # Day(now)
    BY DEF Consistent, Dated, Filled
  <2>2. since \in Nat /\ Day(now) \in Nat
    BY DayType DEF Consistent, TypeOK
  <2> QED
    BY <2>1, <2>2
<1> QED
  BY <1>1, AlwaysConsistent, PTL

(* A run of the age policy that one day sees whole leaves nothing that it might *)
(* have pruned (PrunePolicyAge.cc).                                          *)
THEOREM AgeAlwaysThorough == Spec => AgeThorough
<1> DEFINE Thorough == Marking /\ conf.policy = "age" =>
                         \A d \in Device :
                           \/ Cardinality(complete'[d]) <= conf.minBackups
                           \/ \A b \in complete'[d] : Age(b) <= conf.pruneAge
<1>1. ASSUME Consistent, [Next]_vars PROVE Thorough
  <2> SUFFICES ASSUME Marking, conf.policy = "age", NEW d \in Device
               PROVE  \/ Cardinality(complete'[d]) <= conf.minBackups
                      \/ \A b \in complete'[d] : Age(b) <= conf.pruneAge
    OBVIOUS
  <2>1. Mark
    BY <1>1 DEF Marking, Next, vars, Complete, Examine, JudgeByAge, Sort, Judge, Tick,
       Find, Examined, Sorted, Execute, ExecuteFails, Finished
  <2>2. \/ Cardinality(complete[d] \ prune[d]) <= conf.minBackups
        \/ \A b \in complete[d] \ prune[d] : Age(b) <= conf.pruneAge
    <3>1. Judged /\ pc = "devices" /\ rest = {} /\ since = Day(now)
      BY <1>1 DEF Consistent, Marking
    <3> QED
      BY <3>1 DEF Judged
  <2>3. complete'[d] = complete[d] \ prune[d]
    BY <2>1 DEF Mark
  <2> QED
    BY <2>2, <2>3, Zenon
<1>2. Consistent /\ [Next]_vars => [Thorough]_vars
  BY <1>1
<1> QED
  BY <1>2, AlwaysConsistent, PTL DEF Spec, AgeThorough

-----------------------------------------------------------------------------
(* What the decay policy makes of a device, on the day on which the run began.  *)
Bucketed(b) == ~ Young(b) /\ ~ TooOld(b)

Superseded(d, b) ==
  \E c \in complete[d] : Bucketed(c) /\ BucketOf(c) = BucketOf(b) /\ c < b

(* A device that it is done with loses what has an older one in its bucket; and  *)
(* on the device before it oldest holds the oldest of every bucket: in the first *)
(* loop of those sorted, in the second of all.                               *)
Done(d) ==
  \A b \in complete[d] : Bucketed(b) => (b \in prune[d] <=> Superseded(d, b))

OldestFound ==
  /\ \A n \in DOMAIN oldest :
       oldest[n] \in complete[device] /\ Bucketed(oldest[n]) /\ BucketOf(oldest[n]) = n
  /\ \A b \in complete[device] :
       Bucketed(b) /\ (pc = "judge" \/ b \notin queue) =>
         BucketOf(b) \in DOMAIN oldest /\ oldest[BucketOf(b)] <= b

OthersCondemned ==
  \A b \in complete[device] :
    Bucketed(b) =>
      (b \in prune[device] <=>
         pc = "judge" /\ b \notin queue /\ b # oldest[BucketOf(b)])

Windowed ==
  since = Day(now) /\ conf.policy = "decay" /\ pc # "idle" =>
    /\ \A d \in Device \ rest : (pc \in {"sort", "judge"} /\ d = device) \/ Done(d)
    /\ pc \in {"sort", "judge"} => OldestFound /\ OthersCondemned

(* While nothing else changes on a device, it stays done with.                  *)
LEMMA DoneStays ==
  ASSUME TypeOK, conf' = conf, Day(now') = Day(now), NEW d \in Device,
         complete'[d] = complete[d], prune'[d] = prune[d], Done(d)
  PROVE  Done(d)'
<1>1. complete[d] \subseteq Time
  BY DEF TypeOK
<1>2. \A b \in Time : /\ Bucketed(b)' = Bucketed(b)
                      /\ BucketOf(b)' = BucketOf(b)
  BY SameDay DEF Bucketed
<1>3. \A b \in complete[d] : Superseded(d, b)' <=> Superseded(d, b)
  BY <1>1, <1>2 DEF Superseded
<1> QED
  BY <1>1, <1>2, <1>3 DEF Done

LEMMA WindowedInit == Init => Windowed
BY DEF Init, Windowed

(* A step that does not end the day and touches no device that is under way.    *)
LEMMA WindowedUntouched ==
  ASSUME Consistent, Windowed, Day(now') = Day(now),
         UNCHANGED <<conf, complete, since, rest, device, queue, oldest, prune, pc>>
  PROVE  Windowed'
<1> SUFFICES ASSUME since' = Day(now'), conf'.policy = "decay", pc' # "idle"
             PROVE  /\ \A d \in Device \ rest' :
                         (pc' \in {"sort", "judge"} /\ d = device') \/ Done(d)'
                    /\ pc' \in {"sort", "judge"} => OldestFound' /\ OthersCondemned'
  BY DEF Windowed
<1>0. TypeOK
  BY DEF Consistent
<1>1. \A b \in Time : Bucketed(b)' = Bucketed(b) /\ BucketOf(b)' = BucketOf(b)
  BY SameDay DEF Bucketed
<1>2. complete[device] \subseteq Time /\ \A n \in DOMAIN oldest : oldest[n] \in Time
  BY <1>0 DEF TypeOK
<1>3. \A d \in Device \ rest' : (pc' \in {"sort", "judge"} /\ d = device') \/ Done(d)'
  BY <1>0, DoneStays DEF Windowed
<1>4. ASSUME pc \in {"sort", "judge"}
      PROVE  OldestFound' /\ OthersCondemned'
  <2>1. OldestFound /\ OthersCondemned
    BY <1>4 DEF Windowed
  <2>2. OldestFound'
    BY <1>1, <1>2, <2>1 DEF OldestFound
  <2>3. OthersCondemned'
    BY <1>1, <1>2, <2>1 DEF OthersCondemned
  <2> QED
    BY <2>2, <2>3
<1> QED
  BY <1>3, <1>4

(* A single backup is the oldest of its bucket.                               *)
LEMMA SingleDone ==
  ASSUME TypeOK, NEW d \in Device, Cardinality(complete[d]) = 1, prune[d] = {}
  PROVE  Done(d)
<1>1. IsFiniteSet(complete[d]) /\ complete[d] \subseteq Time
  BY Countable DEF TypeOK
<1>2. PICK x : complete[d] = {x}
  BY <1>1, FS_Singleton
<1>3. x \in Nat
  BY <1>1, <1>2
<1>4. \A b \in complete[d] : ~ Superseded(d, b)
  BY <1>2, <1>3 DEF Superseded
<1> QED
  BY <1>4 DEF Done

LEMMA WindowedExamine ==
  ASSUME Consistent, Windowed, NEW d \in Device, Examine(d)
  PROVE  Windowed'
<1> SUFFICES ASSUME since = Day(now), conf.policy = "decay"
             PROVE  /\ \A e \in Device \ rest' :
                         (pc' \in {"sort", "judge"} /\ e = device') \/ Done(e)'
                    /\ pc' \in {"sort", "judge"} => OldestFound' /\ OthersCondemned'
  BY DEF Windowed, Examine
<1>0. /\ TypeOK /\ pc = "devices" /\ d \in rest /\ prune[d] = {} /\ device' = d
      /\ rest' = rest \ {d} /\ UNCHANGED <<conf, now, complete, prune>>
  BY DEF Consistent, Condemned, Examine
<1>1. \A e \in Device \ rest : Done(e)'
  BY <1>0, DoneStays DEF Windowed
<1>2. CASE Untouched(d)
  <2>1. Cardinality(complete[d]) = 1 /\ pc' = "devices"
    BY <1>2 DEF Untouched, Examine
  <2>2. Done(d)'
    BY <1>0, <2>1, SingleDone, DoneStays
  <2> QED
    BY <1>0, <1>1, <2>1, <2>2
<1>3. CASE ~ Untouched(d)
  <2>1. pc' = "sort" /\ queue' = complete[d] /\ oldest' = [n \in {} |-> 0]
    BY <1>3 DEF Examine, FirstLoop
  <2>2. OldestFound'
    BY <1>0, <2>1 DEF OldestFound
  <2>3. OthersCondemned'
    BY <1>0, <2>1 DEF OthersCondemned
  <2> QED
    BY <1>0, <1>1, <2>1, <2>2, <2>3
<1> QED
  BY <1>2, <1>3

(* The loops: a backup is sorted, and one is judged.                          *)
LEMMA WindowedSort ==
  ASSUME Consistent, Windowed, NEW b \in queue, Sort(b)
  PROVE  Windowed'
<1> SUFFICES ASSUME since = Day(now), conf.policy = "decay"
             PROVE  /\ \A d \in Device \ rest : d = device \/ Done(d)'
                    /\ OldestFound' /\ OthersCondemned'
  BY DEF Windowed, Sort
<1>0. /\ TypeOK /\ pc = "sort" /\ pc' = "sort" /\ device' = device /\ queue' = queue \ {b}
      /\ UNCHANGED <<conf, now, complete, rest>>
      /\ device \in Device /\ complete[device] \subseteq Time
      /\ b \in complete[device] /\ b \in Nat
  BY DEF Consistent, TypeOK, Looking, Sort
<1>1. \A c \in Time : Bucketed(c)' = Bucketed(c) /\ BucketOf(c)' = BucketOf(c)
  BY <1>0, SameDay DEF Bucketed
<1>2. OldestFound /\ OthersCondemned
  BY <1>0 DEF Windowed
<1>3. /\ \A d \in Device : d # device => prune'[d] = prune[d]
      /\ \A c \in complete[device] : Bucketed(c) => (c \in prune'[device] <=> c \in prune[device])
  <2>1. CASE UNCHANGED prune
    BY <2>1
  <2>2. CASE TooOld(b) /\ Condemn(b)
    BY <1>0, <2>2 DEF Condemn, TypeOK, Bucketed
  <2> QED
    BY <2>1, <2>2 DEF Sort
<1>4. \A d \in Device \ rest : d = device \/ Done(d)'
  BY <1>0, <1>3, DoneStays DEF Windowed
<1>5. OthersCondemned'
  BY <1>0, <1>1, <1>2, <1>3 DEF OthersCondemned
<1>6. OldestFound'
  <2>1. CASE UNCHANGED oldest /\ ~ Bucketed(b)
    BY <1>0, <1>1, <1>2, <2>1 DEF OldestFound
  <2>2. CASE /\ UNCHANGED oldest
             /\ BucketOf(b) \in DOMAIN oldest /\ b >= oldest[BucketOf(b)]
    <3>1. oldest[BucketOf(b)] \in Nat
      BY <2>2, <1>0 DEF TypeOK
    <3>2. oldest[BucketOf(b)] <= b
      BY <1>0, <2>2, <3>1
    <3> QED
      BY <1>0, <1>1, <1>2, <2>2, <3>2 DEF OldestFound
  <2>3. CASE /\ Bucketed(b)
             /\ ~ (BucketOf(b) \in DOMAIN oldest /\ b >= oldest[BucketOf(b)])
             /\ Put(BucketOf(b), b)
    <3> DEFINE n == BucketOf(b)
    <3>1. /\ DOMAIN oldest' = DOMAIN oldest \cup {n} /\ oldest'[n] = b
          /\ \A m \in DOMAIN oldest : m # n => oldest'[m] = oldest[m]
      BY <2>3 DEF Put
    <3>2. n \in DOMAIN oldest => oldest[n] \in Nat /\ b <= oldest[n]
      BY <1>0, <2>3 DEF TypeOK
    <3>3. \A m \in DOMAIN oldest' : \A c \in Time :
            c = oldest'[m] =>
              c \in complete'[device] /\ Bucketed(c)' /\ BucketOf(c)' = m
      BY <1>0, <1>1, <1>2, <2>3, <3>1 DEF OldestFound
    <3>5. \A m \in DOMAIN oldest' : oldest'[m] \in Time
      BY <1>0, <3>1 DEF TypeOK
    <3>4. ASSUME NEW c \in complete[device], Bucketed(c)', c \notin queue'
          PROVE  BucketOf(c)' \in DOMAIN oldest' /\ oldest'[BucketOf(c)'] <= c
      <4>1. c \in Time /\ Bucketed(c) /\ BucketOf(c)' = BucketOf(c)
        BY <1>0, <1>1, <3>4
      <4>2. CASE c = b
        BY <1>0, <3>1, <4>1, <4>2
      <4>3. CASE c # b
        <5>1. BucketOf(c) \in DOMAIN oldest /\ oldest[BucketOf(c)] <= c
          BY <1>0, <1>2, <3>4, <4>1, <4>3 DEF OldestFound
        <5> QED
          BY <1>0, <3>1, <3>2, <4>1, <5>1
      <4> QED
        BY <4>2, <4>3
    <3> QED
      BY <1>0, <3>3, <3>4, <3>5 DEF OldestFound
  <2> QED
    BY <2>1, <2>2, <2>3 DEF Sort, Bucketed
<1> QED
  BY <1>4, <1>5, <1>6

LEMMA WindowedSorted ==
  ASSUME Consistent, Windowed, Sorted
  PROVE  Windowed'
<1> SUFFICES ASSUME since = Day(now), conf.policy = "decay"
             PROVE  /\ \A d \in Device \ rest : d = device \/ Done(d)'
                    /\ OldestFound' /\ OthersCondemned'
  BY DEF Windowed, Sorted
<1>0. /\ TypeOK /\ pc = "sort" /\ pc' = "judge" /\ queue = {} /\ queue' = complete[device]
      /\ UNCHANGED <<conf, now, complete, rest, device, oldest, prune>>
      /\ complete[device] \subseteq Time
  BY DEF Consistent, TypeOK, Sorted
<1>1. \A c \in Time : Bucketed(c)' = Bucketed(c) /\ BucketOf(c)' = BucketOf(c)
  BY <1>0, SameDay DEF Bucketed
<1>2. OldestFound /\ OthersCondemned
  BY <1>0 DEF Windowed
<1>3. \A d \in Device \ rest : d = device \/ Done(d)'
  BY <1>0, DoneStays DEF Windowed
<1>4. \A n \in DOMAIN oldest : oldest[n] \in Time
  BY <1>0 DEF TypeOK
<1>5. OldestFound'
  BY <1>0, <1>1, <1>2, <1>4 DEF OldestFound
<1>6. OthersCondemned'
  BY <1>0, <1>1, <1>2 DEF OthersCondemned
<1> QED
  BY <1>3, <1>5, <1>6

LEMMA WindowedJudge ==
  ASSUME Consistent, Windowed, NEW b \in queue, Judge(b)
  PROVE  Windowed'
<1> SUFFICES ASSUME since = Day(now), conf.policy = "decay"
             PROVE  /\ \A d \in Device \ rest : d = device \/ Done(d)'
                    /\ pc' = "judge" /\ OldestFound' /\ OthersCondemned'
  BY DEF Windowed, Judge
<1>0. /\ TypeOK /\ pc = "judge" /\ device' = device /\ queue' = queue \ {b}
      /\ UNCHANGED <<conf, now, complete, rest, oldest>>
      /\ device \in Device /\ complete[device] \subseteq Time
      /\ b \in complete[device]
  BY DEF Consistent, TypeOK, Looking, Judge
<1>1. \A c \in Time : Bucketed(c)' = Bucketed(c) /\ BucketOf(c)' = BucketOf(c)
  BY <1>0, SameDay DEF Bucketed
<1>2. OldestFound /\ OthersCondemned
  BY <1>0 DEF Windowed
<1>3. Bucketed(b) => BucketOf(b) \in DOMAIN oldest
  BY <1>0, <1>2 DEF OldestFound
<1>4. pc' = "judge"
  BY <1>0, <1>3 DEF Judge, Bucketed
<1>5. /\ \A d \in Device : d # device => prune'[d] = prune[d]
      /\ \A c \in complete[device] :
           c # b => (c \in prune'[device] <=> c \in prune[device])
      /\ Bucketed(b) /\ b \notin prune[device] =>
           (b \in prune'[device] <=> b # oldest[BucketOf(b)])
  <2>1. CASE UNCHANGED prune /\ (Bucketed(b) => b = oldest[BucketOf(b)])
    BY <2>1
  <2>2. CASE Condemn(b) /\ b # oldest[BucketOf(b)]
    BY <1>0, <2>2 DEF Condemn, TypeOK
  <2> QED
    BY <1>3, <2>1, <2>2 DEF Judge, Bucketed
<1>6. \A d \in Device \ rest : d = device \/ Done(d)'
  BY <1>0, <1>5, DoneStays DEF Windowed
<1>7. \A n \in DOMAIN oldest : oldest[n] \in Time
  BY <1>0 DEF TypeOK
<1>8. OldestFound'
  BY <1>0, <1>1, <1>2, <1>4, <1>7 DEF OldestFound
<1>9. OthersCondemned'
  BY <1>0, <1>1, <1>2, <1>4, <1>5 DEF OthersCondemned
<1> QED
  BY <1>4, <1>6, <1>8, <1>9

(* What is condemned when the second loop ends has an older one in its bucket.   *)
LEMMA WindowedExamined ==
  ASSUME Consistent, Windowed, Examined
  PROVE  Windowed'
<1> SUFFICES ASSUME since = Day(now), conf.policy = "decay"
             PROVE  \A d \in Device \ rest : Done(d)'
  BY DEF Windowed, Examined
<1>0. /\ TypeOK /\ pc = "judge" /\ queue = {} /\ device \in Device
      /\ UNCHANGED <<conf, now, complete, prune>>
      /\ complete[device] \subseteq Time
  BY DEF Consistent, TypeOK, Looking, Examined
<1>2. OldestFound /\ OthersCondemned
  BY <1>0 DEF Windowed
<1>3. Done(device)
  <2> SUFFICES ASSUME NEW b \in complete[device], Bucketed(b)
               PROVE  b # oldest[BucketOf(b)] <=> Superseded(device, b)
    BY <1>0, <1>2 DEF Done, OthersCondemned
  <2> DEFINE o == oldest[BucketOf(b)]
  <2>1. /\ BucketOf(b) \in DOMAIN oldest /\ o <= b /\ o \in complete[device]
        /\ Bucketed(o) /\ BucketOf(o) = BucketOf(b) /\ b \in Nat /\ o \in Nat
    BY <1>0, <1>2 DEF OldestFound
  <2>2. \A c \in complete[device] :
          Bucketed(c) /\ BucketOf(c) = BucketOf(b) => o <= c /\ c \in Nat
    BY <1>0, <1>2 DEF OldestFound
  <2>3. b # o => o < b
    BY <2>1
  <2>4. b = o => \A c \in complete[device] :
                   Bucketed(c) /\ BucketOf(c) = BucketOf(b) => ~ (c < b)
    BY <2>1, <2>2
  <2> QED
    BY <2>1, <2>3, <2>4 DEF Superseded
<1>4. \A d \in Device \ rest : Done(d)
  BY <1>0, <1>3 DEF Windowed
<1> QED
  BY <1>0, <1>4, DoneStays

LEMMA WindowedNext == Consistent /\ Windowed /\ [Next]_vars => Windowed'
<1> SUFFICES ASSUME Consistent, Windowed, [Next]_vars
             PROVE  Windowed'
  OBVIOUS
<1>1. CASE \E d \in Device : Complete(d)
  BY <1>1 DEF Complete, Windowed
<1>2. CASE \E d \in Device : Examine(d)
  BY <1>2, WindowedExamine
<1>3. CASE \E b \in queue : JudgeByAge(b)
  BY <1>3 DEF JudgeByAge, Consistent, Looking, Windowed
<1>4. CASE \E b \in queue : Sort(b)
  BY <1>4, WindowedSort
<1>5. CASE \E b \in queue : Judge(b)
  BY <1>5, WindowedJudge
<1>6. CASE Tick
  <2>1. CASE Day(now') = Day(now)
    BY <1>6, <2>1, WindowedUntouched DEF Tick
  <2>2. CASE Day(now') # Day(now)
    <3>1. since \in Nat /\ since <= Day(now) /\ now \in Nat /\ now' \in Nat /\ now <= now'
      BY <1>6 DEF Consistent, Dated, TypeOK, Tick
    <3>2. Day(now) \in Nat /\ Day(now') \in Nat /\ Day(now) <= Day(now')
      BY <3>1, DayType, DayMonotone
    <3>3. since' # Day(now')
      BY <1>6, <2>2, <3>1, <3>2 DEF Tick
    <3> QED
      BY <3>3 DEF Windowed
  <2> QED
    BY <2>1, <2>2
<1>7. CASE Find
  <2>1. \A d \in Device \ rest' : complete'[d] = {}
    BY <1>7 DEF Find
  <2>2. \A d \in Device \ rest' : Done(d)'
    BY <2>1 DEF Done
  <2> QED
    BY <1>7, <2>2 DEF Find, Windowed
<1>8. CASE Examined
  BY <1>8, WindowedExamined
<1>9. CASE Sorted
  BY <1>9, WindowedSorted
<1>10. CASE Execute \/ ExecuteFails
  BY <1>10 DEF Execute, ExecuteFails, Consistent, Looking, Windowed
<1>11. CASE Mark
  BY <1>11 DEF Mark, Windowed
<1>12. CASE Finished \/ UNCHANGED vars
  BY <1>12, WindowedUntouched DEF Finished, vars
<1> QED
  BY <1>1, <1>2, <1>3, <1>4, <1>5, <1>6, <1>7, <1>8, <1>9, <1>10, <1>11, <1>12
     DEF Next

(* A backup is in the n-th window of the manual if that is its bucket.          *)
LEMMA InWindowIs ==
  ASSUME TypeOK, NEW b \in Time, NEW n \in Nat
  PROVE  InWindow(b, n) /\ ~ TooOld(b) <=> Bucketed(b) /\ BucketOf(b) = n
<1> DEFINE a == Age(b) - conf.decayStart
<1>1. conf \in Configuration /\ a \in Int
  BY AgeType DEF TypeOK
<1>2. Young(b) <=> a <= 0
  BY <1>1, AgeType, DecayConf DEF Young
<1>3. Reach(n - 1) \in Nat /\ Reach(n) \in Nat
  <2>1. n - 1 \in Int /\ n \in Int
    OBVIOUS
  <2> QED
    BY <1>1, <2>1, ReachIs
<1>4. InWindow(b, n) <=> Reach(n - 1) < a /\ a <= Reach(n)
  BY DEF InWindow
<1>5. BucketOf(b) = Bucket(a)
  BY DEF BucketOf
<1> HIDE DEF a
<1>6. CASE a <= 0
  BY <1>1, <1>2, <1>3, <1>4, <1>6 DEF Bucketed
<1>7. CASE ~ (a <= 0)
  <2>1. a \in Nat \ {0}
    BY <1>1, <1>7
  <2>2. InWindow(b, n) => Bucket(a) = n
    BY <1>1, <1>4, <2>1, BucketIs
  <2>3. Bucket(a) = n => InWindow(b, n)
    BY <1>1, <1>4, <2>1, WindowOf
  <2> QED
    BY <1>2, <1>5, <1>7, <2>2, <2>3 DEF Bucketed
<1> QED
  BY <1>6, <1>7

(* A run of the decay policy that one day sees whole leaves of each window, but   *)
(* for what the limit takes, the oldest backup there was (PrunePolicyDecay.cc):   *)
(* the bucket, computed from a count of powers, is the window, the sum of them.   *)
THEOREM OneEachWindowKept == Spec => OneEachWindow
<1> DEFINE In(d, n) == {b \in complete[d] : InWindow(b, n) /\ ~ TooOld(b)}
           OneEach == Marking /\ conf.policy = "decay" =>
             \A d \in Device : \A n \in Window :
               {b \in complete'[d] : InWindow(b, n) /\ ~ TooOld(b)}
                 = {b \in In(d, n) : \A c \in In(d, n) : b <= c}
<1>1. ASSUME Consistent, Windowed, [Next]_vars PROVE OneEach
  <2> SUFFICES ASSUME Marking, conf.policy = "decay", NEW d \in Device, NEW n \in Window
               PROVE  {b \in complete'[d] : InWindow(b, n) /\ ~ TooOld(b)}
                        = {b \in In(d, n) : \A c \in In(d, n) : b <= c}
    OBVIOUS
  <2>1. Mark
    BY <1>1 DEF Marking, Next, vars, Complete, Examine, JudgeByAge, Sort, Judge, Tick,
       Find, Examined, Sorted, Execute, ExecuteFails, Finished
  <2>2. Done(d) /\ complete'[d] = complete[d] \ prune[d]
    <3>1. pc = "devices" /\ rest = {} /\ since = Day(now)
      BY DEF Marking
    <3> QED
      BY <1>1, <2>1, <3>1 DEF Windowed, Mark
  <2>3. \A b \in complete[d] :
          /\ b \in Nat
          /\ InWindow(b, n) /\ ~ TooOld(b) <=> Bucketed(b) /\ BucketOf(b) = n
    <3>1. TypeOK /\ complete[d] \subseteq Time /\ n \in Nat
      BY <1>1 DEF Consistent, TypeOK, Window
    <3> QED
      BY <3>1, InWindowIs
  <2>4. In(d, n) = {b \in complete[d] : Bucketed(b) /\ BucketOf(b) = n}
    BY <2>3
  <2>5. {b \in complete'[d] : InWindow(b, n) /\ ~ TooOld(b)}
          = {b \in In(d, n) : b \notin prune[d]}
    BY <2>2
  <2> HIDE DEF In
  <2>6. ASSUME NEW b \in In(d, n)
        PROVE  b \notin prune[d] <=> \A c \in In(d, n) : b <= c
    <3>1. b \in complete[d] /\ Bucketed(b) /\ BucketOf(b) = n
      BY <2>4
    <3>2. b \in prune[d] <=> \E c \in In(d, n) : c < b
      BY <2>2, <2>4, <3>1 DEF Done, Superseded
    <3>3. b \in Nat /\ \A c \in In(d, n) : c \in Nat
      BY <2>3, <2>4, <3>1
    <3> QED
      BY <3>2, <3>3
  <2> QED
    BY <2>5, <2>6
<1>2. Consistent /\ Windowed /\ [Next]_vars => [OneEach]_vars
  BY <1>1
<1>3. OneEachWindow <=> [][OneEach]_vars
  BY DEF OneEachWindow
<1> QED
  BY <1>2, <1>3, AlwaysConsistent, WindowedInit, WindowedNext, PTL DEF Spec

-----------------------------------------------------------------------------
(* A history with a backup and a whole run on every day. From the first day on,  *)
(* the backups that the n-th window passes on to the next are those made on      *)
(* multiples of its length: a window holds, at the end of every run, the one of   *)
(* its days that is such a multiple, for there is always just one.             *)
FirstDay(d) == CHOOSE t \in Nat :
  /\ \E b \in made[d] : Day(b) = t
  /\ \A b \in made[d] : t <= Day(b)

OnMark(d, b, n) == \E q \in Nat : Day(b) - FirstDay(d) = q * Length(n)

FirstOf(d, b) == b \in made[d] /\ \A c \in made[d] : Day(c) = Day(b) => b <= c

Within(b, n, t) ==
  /\ Reach(n - 1) < t - Day(b) - conf.decayStart
  /\ t - Day(b) - conf.decayStart <= Reach(n)

Whole(n) == conf.decayStart + Reach(n) <= conf.decayLimit

Thinned(d, t) ==
  /\ \A b \in Time : \A n \in Nat :
       /\ FirstOf(d, b)
       /\ \/ t - Day(b) <= conf.decayStart
          \/ Whole(n) /\ Within(b, n, t) /\ OnMark(d, b, n)
       => b \in complete[d]
  /\ \A c \in complete[d] : \A n \in Nat :
       Whole(n) /\ Within(c, n, t) => FirstOf(d, c) /\ OnMark(d, c, n)

LastRun == IF daily = "seen" THEN Day(now) ELSE Day(now) - 1

DailyInv ==
  /\ \A d \in Device : complete[d] \subseteq made[d] /\ \A b \in made[d] : b <= now
  /\ pc # "idle" /\ daily # "lapsed" => since = Day(now)
  /\ conf.policy = "decay" => \A d \in Device : Regular(d) => Thinned(d, LastRun)

LEMMA FirstDayIs ==
  ASSUME NEW d \in Device, made[d] \subseteq Nat, made[d] # {}
  PROVE  /\ FirstDay(d) \in Nat
         /\ \E b \in made[d] : Day(b) = FirstDay(d)
         /\ \A b \in made[d] : FirstDay(d) <= Day(b)
<1> DEFINE T == {Day(b) : b \in made[d]}
<1>1. T \in SUBSET Nat /\ T # {}
  BY DayType
<1>2. \E t \in T : \A u \in T : t <= u
  <2> HIDE DEF T
  <2> QED
    BY <1>1, LeastNumber
<1>3. \E t \in Nat : (\E b \in made[d] : Day(b) = t) /\ \A b \in made[d] : t <= Day(b)
  BY <1>1, <1>2
<1> QED
  BY <1>3 DEF FirstDay

(* On a day on which something was made, something was made first.              *)
LEMMA FirstOfDay ==
  ASSUME NEW d \in Device, made[d] \subseteq Nat, NEW b \in made[d]
  PROVE  \E c \in made[d] : FirstOf(d, c) /\ Day(c) = Day(b) /\ c <= b
<1> DEFINE T == {c \in made[d] : Day(c) = Day(b)}
<1>1. T \in SUBSET Nat /\ b \in T
  OBVIOUS
<1>2. PICK c \in T : \A e \in T : c <= e
  <2> HIDE DEF T
  <2> QED
    BY <1>1, LeastNumber
<1> QED
  BY <1>2 DEF FirstOf

(* The window that a day with a mark is in was the same a day before, or the one  *)
(* before it, in which the day has a mark too, or it was young.                 *)
LEMMA WithinBefore ==
  ASSUME conf \in Configuration, NEW d \in Device, FirstDay(d) \in Nat,
         NEW b \in Nat, NEW n \in Nat, NEW t \in Int,
         Whole(n), Within(b, n, t + 1), OnMark(d, b, n)
  PROVE  \/ t - Day(b) <= conf.decayStart
         \/ \E m \in Nat : Whole(m) /\ Within(b, m, t) /\ OnMark(d, b, m)
<1> DEFINE x == t - Day(b) - conf.decayStart
<1>1. /\ Day(b) \in Nat /\ conf.decayStart \in Nat /\ conf.decayLimit \in Nat /\ x \in Int
      /\ t + 1 - Day(b) - conf.decayStart = x + 1
  BY DayType, DecayConf
<1>2. Reach(n - 1) \in Nat /\ Reach(n) \in Nat /\ Reach(n - 1) <= Reach(n)
  <2>1. n - 1 \in Int /\ n \in Int /\ n - 1 <= n
    OBVIOUS
  <2> QED
    BY <2>1, ReachIs
<1>3. Reach(n - 1) < x + 1 /\ x + 1 <= Reach(n)
  BY <1>1 DEF Within
<1>4. \A m \in Nat : Within(b, m, t) <=> Reach(m - 1) < x /\ x <= Reach(m)
  BY DEF Within
<1> HIDE DEF x
<1>5. CASE Reach(n - 1) < x
  <2>1. x <= Reach(n)
    BY <1>1, <1>2, <1>3
  <2> QED
    BY <1>4, <1>5, <2>1
<1>6. CASE ~ (Reach(n - 1) < x) /\ n = 0
  <2>1. Reach(n - 1) = 0
    <3>1. n - 1 \in Int /\ n - 1 < 0
      BY <1>6
    <3> QED
      BY <3>1, ReachIs
  <2>2. x <= 0
    BY <1>1, <1>6, <2>1
  <2> QED
    BY <1>1, <2>2 DEF x
<1>7. CASE ~ (Reach(n - 1) < x) /\ n # 0
  <2> DEFINE m == n - 1
  <2>1. m \in Nat /\ m - 1 \in Int /\ m + 1 = n
    BY <1>7
  <2> HIDE DEF m
  <2>2. /\ Length(m) \in Nat \ {0} /\ Reach(m) = Reach(m - 1) + Length(m)
        /\ Length(n) = conf.decayScale * Length(m)
    BY <2>1, LengthIs
  <2>3. Reach(m - 1) \in Nat
    BY <2>1, ReachIs
  <2>4. x = Reach(m)
    BY <1>1, <1>2, <1>3, <1>7 DEF m
  <2>5. Within(b, m, t)
    BY <1>4, <2>1, <2>2, <2>3, <2>4
  <2>6. Whole(m)
    BY <1>1, <1>2, DecayConf DEF Whole, m
  <2>7. OnMark(d, b, m)
    <3>1. PICK q \in Nat : Day(b) - FirstDay(d) = q * Length(n)
      BY DEF OnMark
    <3>2. conf.decayScale \in Nat
      BY DecayConf
    <3> DEFINE s == conf.decayScale
               l == Length(m)
    <3>3. s \in Nat /\ l \in Nat /\ Length(n) = s * l
      BY <2>2, <3>2
    <3> HIDE DEF s, l
    <3>4. q * (s * l) = (q * s) * l /\ q * s \in Nat
      BY <3>3
    <3>5. Day(b) - FirstDay(d) = (q * s) * l
      BY <3>1, <3>3, <3>4, Zenon
    <3> QED
      BY <3>4, <3>5 DEF OnMark, l
  <2> QED
    BY <2>1, <2>5, <2>6, <2>7
<1> QED
  BY <1>5, <1>6, <1>7

(* Of two backups in one window, on days with marks, the days are the same.        *)
LEMMA OneMark ==
  ASSUME conf \in Configuration, NEW d \in Device, FirstDay(d) \in Nat,
         NEW b \in Nat, NEW c \in Nat, NEW n \in Nat, NEW t \in Int,
         Within(b, n, t), OnMark(d, b, n), Within(c, n, t), OnMark(d, c, n)
  PROVE  Day(b) = Day(c)
<1> DEFINE l == Length(n)
           f == FirstDay(d)
           x == t - conf.decayStart - Reach(n) - 1 - f
<1>1. /\ Day(b) \in Nat /\ Day(c) \in Nat /\ conf.decayStart \in Nat /\ f \in Nat
      /\ l \in Nat \ {0} /\ Reach(n) = Reach(n - 1) + l
  BY DayType, DecayConf, LengthIs
<1>2. Reach(n - 1) \in Nat /\ Reach(n) \in Nat
  <2>1. n - 1 \in Int /\ n \in Int
    OBVIOUS
  <2> QED
    BY <2>1, ReachIs
<1>3. PICK p \in Nat : Day(b) - f = p * l
  BY DEF OnMark
<1>4. PICK q \in Nat : Day(c) - f = q * l
  BY DEF OnMark
<1>5. /\ Reach(n - 1) < t - Day(b) - conf.decayStart /\ t - Day(b) - conf.decayStart <= Reach(n)
      /\ Reach(n - 1) < t - Day(c) - conf.decayStart /\ t - Day(c) - conf.decayStart <= Reach(n)
  BY DEF Within
<1> HIDE DEF l, f
<1>6. /\ x \in Int /\ x < Day(b) - f /\ Day(b) - f <= x + l
      /\ x < Day(c) - f /\ Day(c) - f <= x + l
  BY <1>1, <1>2, <1>5
<1> HIDE DEF x
<1>7. x < p * l /\ p * l <= x + l /\ x < q * l /\ q * l <= x + l
  BY <1>3, <1>4, <1>6, Zenon
<1>8. p = q
  BY <1>1, <1>6, <1>7, OneMultiple
<1> QED
  BY <1>1, <1>3, <1>4, <1>8

(* What a run meets on the day t + 1 or, again, on the day t, where everything    *)
(* was as it should be after the run before.                                  *)
Meets(d, t) ==
  /\ Consistent /\ conf.policy = "decay" /\ Done(d)
  /\ complete[d] \subseteq made[d] /\ made[d] # {}
  /\ t \in Int /\ Day(now) \in {t, t + 1}
  /\ Thinned(d, t)

LEMMA MeetsIs ==
  ASSUME NEW d \in Device, NEW t, Meets(d, t)
  PROVE  /\ conf \in Configuration /\ conf.decayStart \in Nat /\ conf.decayLimit \in Nat
         /\ made[d] \subseteq Time /\ made[d] \subseteq Nat
         /\ FirstDay(d) \in Nat /\ t \in Int /\ Day(now) \in Nat
         /\ \A b \in Time : InWindow(b, 0) \in BOOLEAN
<1>1. TypeOK
  BY DEF Meets, Consistent
<1>2. conf \in Configuration /\ made[d] \subseteq Time /\ now \in Nat
  BY <1>1 DEF TypeOK
<1>3. made[d] \subseteq Nat /\ made[d] # {}
  BY <1>2 DEF Meets
<1>4. FirstDay(d) \in Nat
  BY <1>3, FirstDayIs
<1> QED
  BY <1>2, <1>3, <1>4, DayType, DecayConf DEF Meets, InWindow

LEMMA WithinToday ==
  ASSUME NEW b, NEW n
  PROVE  InWindow(b, n) <=> Within(b, n, Day(now))
BY DEF InWindow, Within, Age

(* The second half: the one with the mark is there, and it stays.                *)
LEMMA MarkedStays ==
  ASSUME NEW d \in Device, NEW t, Meets(d, t), NEW b \in Time, NEW n \in Nat,
         FirstOf(d, b), Whole(n), Within(b, n, Day(now)), OnMark(d, b, n)
  PROVE  b \in complete[d] /\ b \notin prune[d]
<1>0. /\ conf \in Configuration /\ conf.decayStart \in Nat /\ conf.decayLimit \in Nat
      /\ FirstDay(d) \in Nat /\ t \in Int /\ Day(now) \in Nat /\ Day(now) \in {t, t + 1}
      /\ b \in Nat /\ Day(b) \in Nat /\ Done(d) /\ TypeOK
      /\ complete[d] \subseteq Time /\ complete[d] \subseteq made[d]
  BY MeetsIs, DayType DEF Meets, Consistent, TypeOK
<1>1. b \in complete[d]
  <2>1. \/ t - Day(b) <= conf.decayStart
        \/ \E m \in Nat : Whole(m) /\ Within(b, m, t) /\ OnMark(d, b, m)
    <3>1. CASE Day(now) = t
      BY <3>1
    <3>2. CASE Day(now) = t + 1
      <4>1. Within(b, n, t + 1)
        BY <3>2
      <4> QED
        BY <1>0, <4>1, WithinBefore
    <3> QED
      BY <1>0, <3>1, <3>2
  <2> QED
    BY <2>1 DEF Meets, Thinned
<1>2. Reach(n - 1) \in Nat /\ Reach(n) \in Nat
  <2>1. n - 1 \in Int /\ n \in Int
    OBVIOUS
  <2> QED
    BY <1>0, <2>1, ReachIs
<1> DEFINE x == Day(now) - Day(b) - conf.decayStart
<1>3. x \in Int /\ Reach(n - 1) < x /\ x <= Reach(n)
  BY <1>0, <1>2 DEF Within
<1>4. ~ TooOld(b)
  <2>1. conf.decayStart + Reach(n) <= conf.decayLimit
    BY DEF Whole
  <2> QED
    BY <1>0, <1>2, <1>3, <2>1 DEF TooOld, Age
<1>5. Bucketed(b) /\ BucketOf(b) = n
  BY <1>0, <1>4, InWindowIs, WithinToday
<1>6. ASSUME NEW c \in complete[d], Bucketed(c), BucketOf(c) = n, c < b
      PROVE  FALSE
  <2>1. c \in Time /\ c \in Nat /\ c \in made[d] /\ Day(c) \in Nat
    BY <1>0, DayType
  <2>2. Within(c, n, Day(now))
    BY <1>0, <1>6, <2>1, InWindowIs, WithinToday
  <2>3. Day(c) <= Day(b)
    BY <1>0, <1>6, <2>1, DayMonotone
  <2>4. Day(c) # Day(b)
    BY <1>0, <1>6, <2>1 DEF FirstOf
  <2> DEFINE y == Day(now) - Day(c) - conf.decayStart
  <2>5. y \in Int /\ Reach(n - 1) < y /\ y <= Reach(n) /\ x < y
    BY <1>0, <1>2, <2>1, <2>2, <2>3, <2>4 DEF Within
  <2>6. Within(c, n, t)
    <3>1. CASE Day(now) = t
      BY <2>2, <3>1
    <3>2. CASE Day(now) = t + 1
      <4>1. t - Day(c) - conf.decayStart = y - 1
        BY <1>0, <2>1, <3>2
      <4>2. Reach(n - 1) < y - 1 /\ y - 1 <= Reach(n)
        <5> HIDE DEF x, y
        <5> QED
          BY <1>2, <1>3, <2>5
      <4> QED
        BY <4>1, <4>2 DEF Within
    <3> QED
      BY <1>0, <3>1, <3>2
  <2>7. OnMark(d, c, n)
    BY <2>6 DEF Meets, Thinned
  <2>8. Day(b) = Day(c)
    BY <1>0, <2>1, <2>2, <2>7, OneMark
  <2> QED
    BY <2>4, <2>8
<1>7. ~ Superseded(d, b)
  BY <1>5, <1>6 DEF Superseded
<1> QED
  BY <1>0, <1>1, <1>5, <1>7 DEF Done

(* Each window of the past has, on a day of its own, a mark and a backup.          *)
LEMMA MarkThere ==
  ASSUME NEW d \in Device, conf \in Configuration, made[d] \subseteq Time, now \in Time,
         Regular(d), NEW b \in made[d], NEW n \in Nat, Within(b, n, Day(now))
  PROVE  \E m \in made[d] : FirstOf(d, m) /\ Within(m, n, Day(now)) /\ OnMark(d, m, n)
<1> DEFINE l == Length(n)
           f == FirstDay(d)
           hi == Day(now) - conf.decayStart - Reach(n - 1) - 1 - f
<1>1. /\ made[d] \subseteq Nat /\ made[d] # {} /\ b \in Nat /\ Day(b) \in Nat
      /\ Day(now) \in Nat /\ conf.decayStart \in Nat
  BY DayType, DecayConf
<1>2. f \in Nat /\ f <= Day(b) /\ \E c \in made[d] : Day(c) = f
  BY <1>1, FirstDayIs
<1>3. l \in Nat \ {0} /\ Reach(n) = Reach(n - 1) + l
  BY LengthIs
<1>4. Reach(n - 1) \in Nat /\ Reach(n) \in Nat
  <2>1. n - 1 \in Int /\ n \in Int
    OBVIOUS
  <2> QED
    BY <2>1, ReachIs
<1> HIDE DEF l, f
<1>5. hi \in Nat
  BY <1>1, <1>2, <1>4 DEF Within
<1>6. PICK q \in Nat : q * l <= hi /\ hi < q * l + l
  <2> HIDE DEF hi
  <2> QED
    BY <1>3, <1>5, AMultiple
<1> DEFINE z == q * l
<1>7. z \in Nat /\ z <= hi /\ hi < z + l
  BY <1>3, <1>6
<1> HIDE DEF z
<1>8. /\ Reach(n - 1) < Day(now) - (f + z) - conf.decayStart
      /\ Day(now) - (f + z) - conf.decayStart <= Reach(n)
      /\ f + z \in f .. Day(now) - 1 /\ f + z \in Nat
  BY <1>1, <1>2, <1>3, <1>4, <1>5, <1>7
<1>9. PICK c \in made[d] : Day(c) = f + z
  BY <1>2, <1>8 DEF Regular
<1>10. PICK m \in made[d] : FirstOf(d, m) /\ Day(m) = f + z
  BY <1>1, <1>9, FirstOfDay
<1>11. Within(m, n, Day(now))
  BY <1>8, <1>10 DEF Within
<1>12. OnMark(d, m, n)
  <2>1. Day(m) - f = q * l
    BY <1>2, <1>7, <1>10 DEF z
  <2> QED
    BY <2>1 DEF OnMark, f, l
<1> QED
  BY <1>10, <1>11, <1>12

(* The first half: only the one with the mark is left of a window.               *)
LEMMA OthersLeave ==
  ASSUME NEW d \in Device, NEW t, Meets(d, t), Regular(d), NEW c \in complete[d],
         c \notin prune[d], NEW n \in Nat, Whole(n), Within(c, n, Day(now))
  PROVE  FirstOf(d, c) /\ OnMark(d, c, n)
<1>0. /\ conf \in Configuration /\ conf.decayStart \in Nat /\ conf.decayLimit \in Nat
      /\ FirstDay(d) \in Nat /\ t \in Int /\ Day(now) \in Nat /\ Day(now) \in {t, t + 1}
      /\ now \in Time /\ made[d] \subseteq Time /\ Done(d) /\ TypeOK
      /\ c \in made[d] /\ c \in Time /\ c \in Nat /\ Day(c) \in Nat
  BY MeetsIs, DayType DEF Meets, Consistent, TypeOK
<1>1. PICK m \in made[d] : FirstOf(d, m) /\ Within(m, n, Day(now)) /\ OnMark(d, m, n)
  BY <1>0, MarkThere
<1>2. m \in Time /\ m \in Nat /\ Day(m) \in Nat
  BY <1>0, DayType
<1>3. m \in complete[d] /\ m \notin prune[d]
  BY <1>1, <1>2, MarkedStays
<1>4. Reach(n - 1) \in Nat /\ Reach(n) \in Nat
  <2>1. n - 1 \in Int /\ n \in Int
    OBVIOUS
  <2> QED
    BY <1>0, <2>1, ReachIs
<1>5. conf.decayStart + Reach(n) <= conf.decayLimit
  BY DEF Whole
<1>6. Bucketed(c) /\ BucketOf(c) = n /\ Bucketed(m) /\ BucketOf(m) = n
  <2>1. ASSUME NEW e \in Time, Day(e) \in Nat, Within(e, n, Day(now))
        PROVE  Bucketed(e) /\ BucketOf(e) = n
    <3>1. ~ TooOld(e)
      BY <1>0, <1>4, <1>5, <2>1 DEF TooOld, Age, Within
    <3> QED
      BY <1>0, <2>1, <3>1, InWindowIs, WithinToday
  <2> QED
    BY <1>0, <1>1, <1>2, <2>1
<1>7. CASE m = c
  BY <1>1, <1>7
<1>8. CASE m < c
  BY <1>0, <1>3, <1>6, <1>8 DEF Done, Superseded
<1>9. CASE c < m
  <2>1. Day(c) <= Day(m)
    BY <1>0, <1>2, <1>9, DayMonotone
  <2>2. Day(c) # Day(m)
    BY <1>0, <1>1, <1>2, <1>9 DEF FirstOf
  <2>3. Within(c, n, t)
    BY <1>0, <1>1, <1>2, <1>4, <2>1, <2>2 DEF Within
  <2> QED
    BY <2>3 DEF Meets, Thinned
<1> QED
  BY <1>0, <1>2, <1>7, <1>8, <1>9

(* While nothing changes on a device, it stays thinned.                        *)
LEMMA ThinnedStays ==
  ASSUME NEW d \in Device, conf' = conf, complete'[d] = complete[d], made'[d] = made[d],
         NEW t, Thinned(d, t)
  PROVE  Thinned(d, t)'
<1>1. \A n : /\ Reach(n)' = Reach(n) /\ Length(n)' = Length(n)
  BY DEF Reach, Length
<1>2. FirstDay(d)' = FirstDay(d)
  BY DEF FirstDay
<1>3. \A b, n : /\ Within(b, n, t)' = Within(b, n, t) /\ Whole(n)' = Whole(n)
               /\ OnMark(d, b, n)' = OnMark(d, b, n) /\ FirstOf(d, b)' = FirstOf(d, b)
  BY <1>1, <1>2 DEF Within, Whole, OnMark, FirstOf
<1> QED
  BY <1>3 DEF Thinned

LEMMA DailyInit == Init => DailyInv
<1> SUFFICES ASSUME Init PROVE DailyInv
  OBVIOUS
<1>1. \A d \in Device : complete[d] = {} /\ made[d] = {}
  BY DEF Init
<1>2. \A d \in Device : Thinned(d, LastRun)
  BY <1>1 DEF Thinned, FirstOf
<1> QED
  BY <1>1, <1>2 DEF DailyInv, Init

LEMMA DailyUntouched ==
  ASSUME DailyInv, UNCHANGED <<conf, now, complete, made, daily>>,
         pc' # "idle" /\ daily # "lapsed" => since' = Day(now)
  PROVE  DailyInv'
<1>1. LastRun' = LastRun
  BY DEF LastRun, Day
<1>2. \A d \in Device : Regular(d)' => Regular(d)
  BY DEF Regular, Day
<1>3. conf.policy = "decay" => \A d \in Device : Regular(d) => Thinned(d, LastRun)
  BY DEF DailyInv
<1>4. ASSUME NEW d \in Device, Thinned(d, LastRun)
      PROVE  Thinned(d, LastRun)'
  <2> DEFINE t == LastRun
  <2>1. PICK u : u = t
    OBVIOUS
  <2>2. Thinned(d, u)'
    BY <1>4, <2>1, ThinnedStays
  <2> HIDE DEF t
  <2> QED
    BY <1>1, <2>1, <2>2 DEF t
<1> QED
  BY <1>2, <1>3, <1>4 DEF DailyInv, Day

(* What is new is young, and is not the first of an earlier day.                 *)
LEMMA DailyComplete ==
  ASSUME Consistent, DailyInv, NEW e \in Device, Complete(e)
  PROVE  DailyInv'
<1>0. /\ TypeOK /\ conf \in Configuration /\ now \in Time /\ now \in Nat /\ pc = "idle"
      /\ UNCHANGED <<conf, now, pc, since, daily>>
      /\ complete' = [complete EXCEPT ![e] = @ \cup {now}]
      /\ made' = [made EXCEPT ![e] = @ \cup {now}]
      /\ complete \in [Device -> SUBSET Time] /\ made \in [Device -> SUBSET Time]
  BY DEF Consistent, TypeOK, Complete
<1>1. /\ \A d \in Device : complete[d] \subseteq made[d] /\ \A b \in made[d] : b <= now
      /\ conf.policy = "decay" => \A d \in Device : Regular(d) => Thinned(d, LastRun)
  BY DEF DailyInv
<1>2. LastRun' = LastRun /\ Day(now) \in Nat /\ LastRun \in Int /\ LastRun <= Day(now)
  BY <1>0, DayType DEF LastRun, Day
<1>3. \A d \in Device : complete'[d] \subseteq made'[d] /\ \A b \in made'[d] : b <= now
  BY <1>0, <1>1
<1> DEFINE t == LastRun
<1>4. ASSUME conf.policy = "decay", NEW d \in Device, Regular(d)', d # e
      PROVE  Thinned(d, LastRun)'
  <2>1. complete'[d] = complete[d] /\ made'[d] = made[d]
    BY <1>0, <1>4
  <2>2. Regular(d)
    BY <1>0, <1>4, <2>1 DEF Regular, Day
  <2>3. PICK u : u = t
    OBVIOUS
  <2>4. Thinned(d, u)'
    BY <1>0, <1>1, <1>4, <2>1, <2>2, <2>3, ThinnedStays
  <2> HIDE DEF t
  <2> QED
    BY <1>2, <2>3, <2>4 DEF t
<1>5. ASSUME conf.policy = "decay", Regular(e)'
      PROVE  Thinned(e, LastRun)'
  <2>1. /\ complete'[e] = complete[e] \cup {now} /\ made'[e] = made[e] \cup {now}
        /\ complete[e] \subseteq made[e] /\ made[e] \subseteq Nat /\ made[e] \subseteq Time
        /\ complete[e] \subseteq Time
    BY <1>0, <1>1
  <2>2. Regular(e)
    <3> SUFFICES ASSUME NEW b \in made[e], NEW u \in Day(b) .. Day(now) - 1
                 PROVE  \E c \in made[e] : Day(c) = u
      BY <1>0, <1>5 DEF Regular
    <3>1. b \in made'[e] /\ u \in Day(b) .. Day(now') - 1
      BY <1>0, <2>1
    <3>2. PICK c \in made'[e] : Day(c) = u
      BY <1>5, <3>1 DEF Regular, Day
    <3>3. c # now
      BY <1>2, <3>2
    <3> QED
      BY <2>1, <3>2, <3>3
  <2>3. Thinned(e, LastRun)
    BY <1>1, <1>5, <2>2, <1>0
  <2>4. PICK u \in Int : u = LastRun
    BY <1>2
  <2>5. \A n \in Int : Reach(n) \in Nat /\ Reach(n)' = Reach(n) /\ Length(n)' = Length(n)
    BY <1>0, ReachIs DEF Reach, Length
  <2>6. conf.decayStart \in Nat
    BY <1>0, DecayConf
  <2>7. \A n \in Nat : ~ Within(now, n, u)
    <3> SUFFICES ASSUME NEW n \in Nat, Within(now, n, u) PROVE FALSE
      OBVIOUS
    <3>1. n - 1 \in Int
      OBVIOUS
    <3>2. Reach(n - 1) \in Nat
      BY <2>5, <3>1
    <3> QED
      BY <1>2, <2>4, <2>6, <3>2 DEF Within
  <2>8. u - Day(now) <= conf.decayStart
    BY <1>2, <2>4, <2>6
  <2>9. ASSUME NEW n \in Nat
        PROVE  /\ \A b : Within(b, n, u)' <=> Within(b, n, u)
               /\ Whole(n)' <=> Whole(n)
    <3>1. n \in Int /\ n - 1 \in Int
      OBVIOUS
    <3>2. Reach(n)' = Reach(n) /\ Reach(n - 1)' = Reach(n - 1)
      BY <2>5, <3>1
    <3> QED
      BY <1>0, <3>2 DEF Within, Whole, Day
  <2>10. \A b \in made[e] : FirstOf(e, b)' <=> FirstOf(e, b)
    <3> SUFFICES ASSUME NEW b \in made[e]
                 PROVE  FirstOf(e, b)' <=> FirstOf(e, b)
      OBVIOUS
    <3>1. b <= now
      BY <1>1
    <3> QED
      BY <2>1, <3>1 DEF FirstOf, Day
  <2>11. \A b : FirstOf(e, b)' => b \in made'[e]
    BY DEF FirstOf
  <2>12. \A b, n : made[e] # {} /\ n \in Nat => (OnMark(e, b, n)' <=> OnMark(e, b, n))
    <3> SUFFICES ASSUME made[e] # {}
                 PROVE  \A b, n : n \in Nat => (OnMark(e, b, n)' <=> OnMark(e, b, n))
      OBVIOUS
    <3>1. FirstDay(e)' = FirstDay(e)
      <4> DEFINE First(f, set) == /\ \E b \in set : Day(b) = f
                                  /\ \A b \in set : f <= Day(b)
      <4>1. \A f \in Nat : First(f, made'[e]) <=> First(f, made[e])
        <5> SUFFICES ASSUME NEW f \in Nat
                     PROVE  First(f, made'[e]) <=> First(f, made[e])
          OBVIOUS
        <5>1. PICK x \in made[e] : TRUE
          OBVIOUS
        <5>2. x \in Nat /\ x <= now /\ Day(x) \in Nat /\ Day(x) <= Day(now)
          BY <1>0, <1>1, <2>1, <5>1, DayType, DayMonotone
        <5>3. ASSUME First(f, made[e])
              PROVE  First(f, made'[e])
          <6>1. f <= Day(x)
            BY <5>1, <5>3
          <6>2. f <= Day(now)
            BY <1>2, <5>2, <6>1
          <6> QED
            BY <2>1, <5>3, <6>2
        <5>4. ASSUME First(f, made'[e])
              PROVE  First(f, made[e])
          <6>1. PICK b \in made'[e] : Day(b) = f
            BY <5>4
          <6>2. f <= Day(x)
            BY <2>1, <5>1, <5>4
          <6>3. b = now => Day(x) = f
            BY <1>2, <5>2, <6>1, <6>2
          <6> QED
            BY <2>1, <5>1, <5>4, <6>1, <6>3
        <5> QED
          BY <5>3, <5>4
      <4>2. FirstDay(e) = CHOOSE f \in Nat : First(f, made[e])
        BY DEF FirstDay
      <4>3. FirstDay(e)' = CHOOSE f \in Nat : First(f, made'[e])
        BY DEF FirstDay, Day
      <4> HIDE DEF First
      <4> QED
        BY <4>1, <4>2, <4>3
    <3> QED
      BY <2>5, <3>1 DEF OnMark, Day
  <2>13. ASSUME NEW b \in Time, NEW n \in Nat, FirstOf(e, b)',
                \/ u - Day(b) <= conf.decayStart
                \/ Whole(n)' /\ Within(b, n, u)' /\ OnMark(e, b, n)'
         PROVE  b \in complete'[e]
    <3>1. CASE b = now
      BY <2>1, <3>1
    <3>2. CASE b # now
      <4>1. b \in made[e] /\ FirstOf(e, b)
        BY <2>1, <2>10, <2>11, <2>13, <3>2
      <4>2. \/ u - Day(b) <= conf.decayStart
            \/ Whole(n) /\ Within(b, n, u) /\ OnMark(e, b, n)
        BY <2>9, <2>12, <2>13, <4>1
      <4> QED
        BY <2>1, <2>3, <2>4, <4>1, <4>2 DEF Thinned
    <3> QED
      BY <3>1, <3>2
  <2>14. ASSUME NEW c \in complete'[e], NEW n \in Nat, Whole(n)', Within(c, n, u)'
         PROVE  FirstOf(e, c)' /\ OnMark(e, c, n)'
    <3>1. Within(c, n, u) /\ Whole(n)
      BY <2>9, <2>14
    <3>2. c \in complete[e] /\ c \in made[e]
      BY <2>1, <2>7, <3>1
    <3>3. FirstOf(e, c) /\ OnMark(e, c, n)
      BY <2>3, <2>4, <3>1, <3>2 DEF Thinned
    <3> QED
      BY <2>10, <2>12, <3>2, <3>3
  <2>15. Thinned(e, u)'
    BY <1>0, <2>13, <2>14 DEF Thinned, Day
  <2> HIDE DEF t
  <2> QED
    BY <1>2, <2>4, <2>15
<1> QED
  BY <1>0, <1>3, <1>4, <1>5 DEF DailyInv

(* When the day ends on which the run was, that run was on the day before.         *)
LEMMA DailyTick ==
  ASSUME Consistent, DailyInv, Tick
  PROVE  DailyInv'
<1>0. /\ TypeOK /\ now \in Nat /\ now' = now + 1 /\ PerDay \in Nat \ {0}
      /\ UNCHANGED <<conf, complete, pc, made, since>>
      /\ daily \in {"due", "seen", "lapsed"}
      /\ daily' = IF Day(now') = Day(now) THEN daily
                  ELSE IF pc = "idle" /\ daily = "seen" THEN "due" ELSE "lapsed"
      /\ made \in [Device -> SUBSET Time]
  BY DEF Consistent, TypeOK, Tick
<1>1. /\ \A d \in Device : complete[d] \subseteq made[d] /\ \A b \in made[d] : b <= now
      /\ conf.policy = "decay" => \A d \in Device : Regular(d) => Thinned(d, LastRun)
      /\ pc # "idle" /\ daily # "lapsed" => since = Day(now)
  BY DEF DailyInv
<1>2. \A d \in Device : complete'[d] \subseteq made'[d] /\ \A b \in made'[d] : b <= now'
  BY <1>0, <1>1
<1>3. pc' # "idle" /\ daily' # "lapsed" => since' = Day(now')
  BY <1>0, <1>1
<1>4. /\ Day(now) \in Nat /\ Day(now') \in Nat
      /\ Day(now') = Day(now) \/ Day(now') = Day(now) + 1
  BY <1>0 DEF Day
<1>5. ASSUME daily' # "lapsed"
      PROVE  daily # "lapsed" /\ LastRun' = LastRun
  BY <1>0, <1>4, <1>5 DEF LastRun, Day
<1>6. ASSUME conf'.policy = "decay", NEW d \in Device, Regular(d)'
      PROVE  Thinned(d, LastRun)'
  <2>1. daily # "lapsed" /\ LastRun' = LastRun
    BY <1>5, <1>6 DEF Regular
  <2>2. Regular(d)
    <3> SUFFICES ASSUME NEW b \in made[d], NEW u \in Day(b) .. Day(now) - 1
                 PROVE  \E c \in made[d] : Day(c) = u
      BY <2>1 DEF Regular
    <3>1. b \in made'[d] /\ b \in Nat /\ Day(b) \in Nat
      BY <1>0, DayType
    <3>2. u \in Day(b) .. Day(now') - 1
      BY <1>4, <3>1
    <3>3. \E c \in made'[d] : Day(c) = u
      BY <1>6, <3>1, <3>2 DEF Regular, Day
    <3> QED
      BY <1>0, <3>3
  <2> DEFINE t == LastRun
  <2>3. PICK u : u = t
    OBVIOUS
  <2>4. Thinned(d, u)'
    BY <1>0, <1>1, <1>6, <2>2, <2>3, ThinnedStays
  <2> HIDE DEF t
  <2> QED
    BY <2>1, <2>3, <2>4 DEF t
<1> QED
  BY <1>2, <1>3, <1>6 DEF DailyInv

(* A whole run of the day leaves the device thinned.                            *)
LEMMA DailyThins ==
  ASSUME Consistent, Windowed, DailyInv, Mark, since = Day(now), conf.policy = "decay",
         NEW d \in Device, Regular(d)
  PROVE  Thinned(d, Day(now))'
<1>0. /\ TypeOK /\ now \in Nat /\ Day(now) \in Nat /\ UNCHANGED <<conf, now, made>>
      /\ complete'[d] = complete[d] \ prune[d] /\ Done(d)
      /\ complete[d] \subseteq Time /\ made[d] \subseteq Time
      /\ daily \in {"due", "seen", "lapsed"}
  BY DayType DEF Consistent, TypeOK, Mark, Windowed
<1>1. complete[d] \subseteq made[d] /\ Thinned(d, LastRun)
  BY DEF DailyInv
<1>2. \A b, n, t : /\ Within(b, n, t)' = Within(b, n, t) /\ Whole(n)' = Whole(n)
                  /\ OnMark(d, b, n)' = OnMark(d, b, n) /\ FirstOf(d, b)' = FirstOf(d, b)
  BY <1>0 DEF Within, Whole, OnMark, FirstOf, FirstDay, Reach, Length
<1>3. PICK t : t = LastRun
  OBVIOUS
<1>4. CASE made[d] = {}
  BY <1>0, <1>1, <1>4 DEF Thinned, FirstOf
<1>5. CASE made[d] # {}
  <2>1. Meets(d, t)
    BY <1>0, <1>1, <1>3, <1>5 DEF Meets, LastRun
  <2>2. conf.decayStart \in Nat /\ t \in Int /\ t <= Day(now)
    BY <1>0, <1>3, <2>1, MeetsIs DEF LastRun
  <2>3. ASSUME NEW b \in Time, NEW n \in Nat, FirstOf(d, b),
               \/ Day(now) - Day(b) <= conf.decayStart
               \/ Whole(n) /\ Within(b, n, Day(now)) /\ OnMark(d, b, n)
        PROVE  b \in complete'[d]
    <3>1. CASE Day(now) - Day(b) <= conf.decayStart
      <4>1. Day(b) \in Nat
        BY DayType
      <4>2. t - Day(b) <= conf.decayStart
        BY <1>0, <2>2, <3>1, <4>1
      <4>3. b \in complete[d]
        BY <1>1, <1>3, <2>3, <4>2 DEF Thinned
      <4>4. b \notin prune[d]
        BY <1>0, <2>2, <3>1, <4>1 DEF Consistent, OldEnough, Threshold, Age
      <4> QED
        BY <1>0, <4>3, <4>4
    <3>2. CASE Whole(n) /\ Within(b, n, Day(now)) /\ OnMark(d, b, n)
      BY <1>0, <2>1, <2>3, <3>2, MarkedStays
    <3> QED
      BY <2>3, <3>1, <3>2
  <2>4. ASSUME NEW c \in complete'[d], NEW n \in Nat, Whole(n), Within(c, n, Day(now))
        PROVE  FirstOf(d, c) /\ OnMark(d, c, n)
    BY <1>0, <2>1, <2>4, OthersLeave
  <2>5. PICK u : u = Day(now)
    OBVIOUS
  <2>6. Thinned(d, u)'
    BY <1>0, <1>2, <2>3, <2>4, <2>5 DEF Thinned, Day
  <2>7. Day(now)' = Day(now)
    BY <1>0 DEF Day
  <2> QED
    BY <2>5, <2>6, <2>7
<1> QED
  BY <1>4, <1>5

LEMMA DailyMark ==
  ASSUME Consistent, Windowed, DailyInv, Mark
  PROVE  DailyInv'
<1>0. /\ TypeOK /\ UNCHANGED <<conf, now, made>> /\ pc = "devices" /\ pc' = "idle"
      /\ \A d \in Device : complete'[d] \subseteq complete[d]
      /\ daily \in {"due", "seen", "lapsed"}
      /\ daily' = IF since = Day(now) /\ daily = "due" THEN "seen" ELSE daily
  BY DEF Consistent, TypeOK, Mark
<1>1. \A d \in Device : complete'[d] \subseteq made'[d] /\ \A b \in made'[d] : b <= now'
  BY <1>0 DEF DailyInv
<1>2. ASSUME conf'.policy = "decay", NEW d \in Device, Regular(d)'
      PROVE  Thinned(d, LastRun)'
  <2>1. daily # "lapsed" /\ since = Day(now)
    BY <1>0, <1>2 DEF Regular, DailyInv
  <2>2. Regular(d)
    BY <1>0, <1>2, <2>1 DEF Regular, Day
  <2>3. Thinned(d, Day(now))'
    BY <1>0, <1>2, <2>1, <2>2, DailyThins
  <2>4. LastRun' = Day(now)'
    BY <1>0, <2>1 DEF LastRun
  <2> QED
    BY <2>3, <2>4
<1> QED
  BY <1>0, <1>1, <1>2 DEF DailyInv

LEMMA DailyNext == Consistent /\ Windowed /\ DailyInv /\ [Next]_vars => DailyInv'
<1> SUFFICES ASSUME Consistent, Windowed, DailyInv, [Next]_vars
             PROVE  DailyInv'
  OBVIOUS
<1>0. pc # "idle" /\ daily # "lapsed" => since = Day(now)
  BY DEF DailyInv
<1>1. CASE \E d \in Device : Complete(d)
  BY <1>1, DailyComplete
<1>2. CASE \E d \in Device : Examine(d)
  BY <1>0, <1>2, DailyUntouched DEF Examine
<1>3. CASE \E b \in queue : JudgeByAge(b) \/ Sort(b) \/ Judge(b)
  BY <1>0, <1>3, DailyUntouched DEF JudgeByAge, Sort, Judge
<1>4. CASE Tick
  BY <1>4, DailyTick
<1>5. CASE Find
  BY <1>5, DailyUntouched DEF Find
<1>6. CASE Examined \/ Sorted \/ Execute \/ ExecuteFails
  BY <1>0, <1>6, DailyUntouched DEF Examined, Sorted, Execute, ExecuteFails
<1>7. CASE Mark
  BY <1>7, DailyMark
<1>8. CASE Finished \/ UNCHANGED vars
  BY <1>0, <1>8, DailyUntouched DEF Finished, vars
<1> QED
  BY <1>1, <1>2, <1>3, <1>4, <1>5, <1>6, <1>7, <1>8 DEF Next

(* With a backup and a whole run on every day, each window that there ever was a  *)
(* backup for has one (PrunePolicyDecay.cc), as long as it is within the limit:  *)
(* the thinning of one day never empties a window of a later one.               *)
THEOREM HistoryAlwaysCovered == Spec => HistoryCovered
<1> DEFINE Covered ==
      Marking /\ conf.policy = "decay" =>
        \A d \in Device : Regular(d) =>
          \A b \in made[d] : \A n \in Window :
            InWindow(b, n) /\ conf.decayStart + Reach(n) <= conf.decayLimit =>
              \E c \in complete'[d] : InWindow(c, n)
<1>1. ASSUME Consistent, Windowed, DailyInv, [Next]_vars PROVE Covered
  <2> SUFFICES ASSUME Marking, conf.policy = "decay", NEW d \in Device, Regular(d),
                      NEW b \in made[d], NEW n \in Window, InWindow(b, n),
                      conf.decayStart + Reach(n) <= conf.decayLimit
               PROVE  \E c \in complete'[d] : InWindow(c, n)
    OBVIOUS
  <2>1. Mark /\ since = Day(now)
    BY <1>1 DEF Marking, Next, vars, Complete, Examine, JudgeByAge, Sort, Judge, Tick,
       Find, Examined, Sorted, Execute, ExecuteFails, Finished
  <2>2. /\ conf \in Configuration /\ made[d] \subseteq Time /\ now \in Time /\ n \in Nat
        /\ UNCHANGED <<conf, now, made>>
    BY <1>1, <2>1 DEF Consistent, TypeOK, Mark, Window
  <2>3. Whole(n) /\ Within(b, n, Day(now))
    BY WithinToday DEF Whole
  <2>4. PICK m \in made[d] :
          FirstOf(d, m) /\ Within(m, n, Day(now)) /\ OnMark(d, m, n)
    BY <2>2, <2>3, MarkThere
  <2>5. Thinned(d, Day(now))'
    BY <1>1, <2>1, DailyThins
  <2>6. /\ FirstOf(d, m)' /\ Whole(n)' /\ OnMark(d, m, n)' /\ Within(m, n, Day(now))'
    BY <2>2, <2>3, <2>4
       DEF FirstOf, Whole, OnMark, Within, FirstDay, Reach, Length, Day
  <2>7. m \in complete'[d]
    BY <2>2, <2>5, <2>6 DEF Thinned
  <2> QED
    BY <2>4, <2>7, WithinToday
<1>2. Consistent /\ Windowed /\ DailyInv /\ [Next]_vars => [Covered]_vars
  BY <1>1
<1>3. HistoryCovered <=> [][Covered]_vars
  BY DEF HistoryCovered
<1> QED
  BY <1>2, <1>3, AlwaysConsistent, WindowedInit, WindowedNext, DailyInit, DailyNext,
     PTL DEF Spec
=============================================================================
