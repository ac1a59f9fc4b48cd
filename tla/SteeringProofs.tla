--------------------------- MODULE SteeringProofs ---------------------------
(* For every chain, network, set of flows and number of instances: the     *)
(* types of Steering, which instances a flow passes, and its way back.     *)
EXTENDS Steering, FiniteSetTheorems, WellFoundedInduction, TLAPS

USE DEF Joined

-----------------------------------------------------------------------------
(* Loops.  The loops of the code are recursive functions of the number of  *)
(* rounds; induction is over a set of numbers.                             *)

LEMMA SetInduction ==
  ASSUME NEW S, 0 \in S, \A n \in Nat : n \in S => n + 1 \in S
  PROVE  Nat \subseteq S
<1>. DEFINE Bad == Nat \ S
<1>1. SUFFICES ASSUME Bad # {} PROVE FALSE
  OBVIOUS
<1>2. PICK m \in Bad : \A n \in Bad : ~(<<n, m>> \in OpToRel(<, Nat))
  BY <1>1, NatLessThanWellFounded, WFMin
<1>3. m \in Nat /\ m # 0
  OBVIOUS
<1>4. m - 1 \in Nat /\ <<m - 1, m>> \in OpToRel(<, Nat)
  BY <1>3 DEF OpToRel
<1>5. m - 1 \in S
  BY <1>2, <1>4
<1>6. (m - 1) + 1 = m
  BY <1>3
<1>. QED
  BY <1>4, <1>5, <1>6

(* What holds at first and after a round, if it did before, holds after    *)
(* each of n rounds.                                                       *)
LEMMA Rounds ==
  ASSUME NEW n \in Nat, NEW S, 0 \in S, \A i \in 1 .. n : i - 1 \in S => i \in S
  PROVE  0 .. n \subseteq S
<1>. DEFINE T == S \cup {i \in Nat : i > n}
<1>1. 0 \in T
  OBVIOUS
<1>2. ASSUME NEW i \in Nat, i \in T PROVE i + 1 \in T
  <2>1. CASE i + 1 > n
    BY <2>1
  <2>2. CASE i + 1 <= n
    <3>1. i + 1 \in 1 .. n /\ (i + 1) - 1 = i /\ i \in S
      BY <1>2, <2>2
    <3>. QED
      BY <3>1
  <2>. QED
    BY <2>1, <2>2
<1>. HIDE DEF T
<1>3. Nat \subseteq T
  BY <1>1, <1>2, SetInduction
<1>. QED
  BY <1>3 DEF T

(* A loop whose variable stays in V has a history.                         *)
History(f, m, V, base, step) ==
  /\ f \in [0 .. m -> V] /\ f[0] = base
  /\ \A i \in 1 .. m : f[i] = step[<<f[i - 1], i>>]

LEMMA Histories ==
  ASSUME NEW n \in Nat, NEW V, NEW base \in V, NEW step \in [V \X (1 .. n) -> V]
  PROVE  \E f : History(f, n, V, base, step)
<1>. DEFINE S == {m \in 0 .. n : \E f : History(f, m, V, base, step)}
<1>1. 0 \in S
  <2>1. History([i \in 0 .. 0 |-> base], 0, V, base, step)
    BY DEF History
  <2>. QED
    BY <2>1
<1>2. ASSUME NEW m \in 1 .. n, m - 1 \in S PROVE m \in S
  <2>1. PICK f : History(f, m - 1, V, base, step)
    BY <1>2
  <2>2. f \in [0 .. (m - 1) -> V] /\ m - 1 \in 0 .. (m - 1)
    BY <2>1 DEF History
  <2>3. step[<<f[m - 1], m>>] \in V
    BY <2>2
  <2>. DEFINE g == [i \in 0 .. m |-> IF i = m THEN step[<<f[m - 1], m>>] ELSE f[i]]
  <2>4. g \in [0 .. m -> V]
    BY <2>2, <2>3
  <2>5. g[0] = base
    BY <2>1 DEF History
  <2>6. ASSUME NEW i \in 1 .. m PROVE g[i] = step[<<g[i - 1], i>>]
    <3>1. i - 1 \in 0 .. m /\ i - 1 # m /\ g[i - 1] = f[i - 1]
      OBVIOUS
    <3>2. CASE i = m
      BY <3>1, <3>2
    <3>3. CASE i # m
      <4>1. i \in 1 .. (m - 1) /\ g[i] = f[i]
        BY <3>3
      <4>. QED
        BY <2>1, <3>1, <4>1 DEF History
    <3>. QED
      BY <3>2, <3>3
  <2>. HIDE DEF g
  <2>7. History(g, m, V, base, step)
    BY <2>4, <2>5, <2>6 DEF History
  <2>. QED
    BY <2>7
<1>. HIDE DEF S
<1>3. n \in S
  BY <1>1, <1>2, Rounds
<1>. QED
  BY <1>3 DEF S

(* A function that starts and goes on as the loop does is its history.     *)
LEMMA IsHistory ==
  ASSUME NEW n \in Nat, NEW V, NEW base \in V, NEW step \in [V \X (1 .. n) -> V],
         NEW h, h = [i \in 0 .. n |-> h[i]], h[0] = base,
         \A i \in 1 .. n : h[i - 1] \in V => h[i] = step[<<h[i - 1], i>>]
  PROVE  History(h, n, V, base, step)
<1>. DEFINE S == {i \in 0 .. n : h[i] \in V}
<1>1. 0 \in S
  OBVIOUS
<1>2. ASSUME NEW i \in 1 .. n, i - 1 \in S PROVE i \in S
  <2>1. h[i - 1] \in V /\ i \in 0 .. n
    BY <1>2
  <2>2. h[i] = step[<<h[i - 1], i>>]
    BY <2>1
  <2>3. step[<<h[i - 1], i>>] \in V
    BY <2>1
  <2>. QED
    BY <2>1, <2>2, <2>3
<1>. HIDE DEF S
<1>3. 0 .. n \subseteq S
  BY <1>1, <1>2, Rounds
<1>4. \A i \in 0 .. n : h[i] \in V
  BY <1>3 DEF S
<1>5. \A i \in 1 .. n : h[i - 1] \in V
  BY <1>4
<1>6. h \in [0 .. n -> V]
  BY <1>4
<1>. QED
  BY <1>5, <1>6 DEF History

-----------------------------------------------------------------------------
(* The loops of the model.                                                 *)

(* Filtering.                                                              *)
OnlyRounds(f, s, wanted) ==
  f = [i \in 0 .. Len(s) |->
         IF i = 0 THEN << >>
         ELSE IF s[i] \in wanted THEN Append(f[i - 1], s[i]) ELSE f[i - 1]]

OnlyRun(f, D, s, wanted) ==
  /\ f \in [0 .. Len(s) -> Seq(D)] /\ f[0] = << >>
  /\ \A i \in 1 .. Len(s) :
       f[i] = IF s[i] \in wanted THEN Append(f[i - 1], s[i]) ELSE f[i - 1]

LEMMA OnlyLoop ==
  ASSUME NEW D, NEW s \in Seq(D), NEW wanted
  PROVE  \E f : OnlyRun(f, D, s, wanted) /\ Only(s, wanted) = f[Len(s)]
<1>. DEFINE n == Len(s)
            V == Seq(D)
            next(v, i) == IF s[i] \in wanted THEN Append(v, s[i]) ELSE v
            step == [p \in V \X (1 .. n) |-> next(p[1], p[2])]
<1>1. n \in Nat
  OBVIOUS
<1>2. << >> \in V
  OBVIOUS
<1>3. ASSUME NEW v \in V, NEW i \in 1 .. n PROVE next(v, i) \in V
  <2>1. s[i] \in D
    OBVIOUS
  <2>2. Append(v, s[i]) \in V
    BY <2>1
  <2>. QED
    BY <2>2
<1>4. step \in [V \X (1 .. n) -> V]
  BY <1>3
<1>5. \A v \in V, i \in 1 .. n : step[<<v, i>>] = next(v, i)
  OBVIOUS
<1>. HIDE DEF step, V, next
<1>6. PICK f : History(f, n, V, << >>, step)
  BY <1>1, <1>2, <1>4, Histories
<1>7. f = [i \in 0 .. n |-> f[i]] /\ f[0] = << >>
  BY <1>6 DEF History
<1>8. \A i \in 1 .. n : f[i - 1] \in V /\ f[i] = next(f[i - 1], i)
  <2>1. f \in [0 .. n -> V] /\ \A i \in 1 .. n : f[i] = step[<<f[i - 1], i>>]
    BY <1>6 DEF History
  <2>2. \A i \in 1 .. n : i - 1 \in 0 .. n
    BY <1>1
  <2>3. \A i \in 1 .. n : f[i - 1] \in V
    BY <2>1, <2>2
  <2>. QED
    BY <1>5, <2>1, <2>3
<1>9. OnlyRounds(f, s, wanted)
  <2>. DEFINE g == [i \in 0 .. n |-> IF i = 0 THEN << >> ELSE next(f[i - 1], i)]
  <2>1. ASSUME NEW i \in 0 .. n PROVE f[i] = g[i]
    <3>1. CASE i = 0
      BY <1>7, <3>1
    <3>2. CASE i # 0
      <4>1. i \in 1 .. n
        BY <3>2, <1>1
      <4>. QED
        BY <1>8, <3>2, <4>1
    <3>. QED
      BY <3>1, <3>2
  <2>2. f = g
    BY <1>7, <2>1
  <2>. QED
    BY <2>2 DEF OnlyRounds, next
<1>10. PICK h : h = CHOOSE g : OnlyRounds(g, s, wanted)
  OBVIOUS
<1>11. OnlyRounds(h, s, wanted)
  BY <1>9, <1>10
<1>12. Only(s, wanted) = h[n]
  BY <1>10 DEF Only, OnlyRounds
<1>. DEFINE e == [i \in 0 .. n |-> IF i = 0 THEN << >> ELSE next(h[i - 1], i)]
<1>13. h = e
  BY <1>11 DEF OnlyRounds, next
<1>14. h = [i \in 0 .. n |-> h[i]]
  BY <1>13
<1>15. h[0] = << >> /\ \A i \in 1 .. n : h[i] = next(h[i - 1], i)
  <2>1. 0 \in 0 .. n /\ \A i \in 1 .. n : i \in 0 .. n /\ i # 0
    BY <1>1
  <2>2. h[0] = << >>
    BY <1>13, <2>1
  <2>3. ASSUME NEW i \in 1 .. n PROVE h[i] = next(h[i - 1], i)
    <3>1. i \in 0 .. n /\ i # 0
      BY <2>1
    <3>. QED
      BY <1>13, <3>1
  <2>. QED
    BY <2>2, <2>3
<1>. HIDE DEF e
<1>16. \A i \in 1 .. n : h[i - 1] \in V => h[i] = step[<<h[i - 1], i>>]
  BY <1>5, <1>15
<1>17. History(h, n, V, << >>, step)
  BY <1>1, <1>2, <1>4, <1>14, <1>15, <1>16, IsHistory
<1>18. h \in [0 .. n -> V]
  BY <1>17 DEF History
<1>. QED
  BY <1>12, <1>15, <1>18 DEF next, V, OnlyRun

LEMMA OnlyFrom ==
  ASSUME NEW D, NEW s \in Seq(D), NEW wanted
  PROVE  Only(s, wanted) \in Seq(D) /\ ToSet(Only(s, wanted)) \subseteq wanted
<1>0. PICK f : OnlyRun(f, D, s, wanted) /\ Only(s, wanted) = f[Len(s)]
  BY OnlyLoop
<1>1. /\ f \in [0 .. Len(s) -> Seq(D)] /\ f[0] = << >> /\ Only(s, wanted) = f[Len(s)]
      /\ \A i \in 1 .. Len(s) :
           f[i] = IF s[i] \in wanted THEN Append(f[i - 1], s[i]) ELSE f[i - 1]
  BY <1>0 DEF OnlyRun
<1>. DEFINE S == {i \in 0 .. Len(s) : ToSet(f[i]) \subseteq wanted}
<1>2. Len(s) \in Nat
  OBVIOUS
<1>3. 0 \in S
  BY <1>1, <1>2 DEF ToSet
<1>4. ASSUME NEW i \in 1 .. Len(s), i - 1 \in S PROVE i \in S
  <2>1. i \in 0 .. Len(s) /\ i - 1 \in 0 .. Len(s) /\ ToSet(f[i - 1]) \subseteq wanted
    BY <1>4, <1>2
  <2>2. PICK v \in Seq(D) : v = f[i - 1]
    BY <1>1, <2>1
  <2>3. ToSet(v) \subseteq wanted
    BY <2>1, <2>2
  <2>4. s[i] \in D
    OBVIOUS
  <2>5. ASSUME s[i] \in wanted PROVE ToSet(Append(v, s[i])) \subseteq wanted
    BY <2>3, <2>4, <2>5 DEF ToSet
  <2>6. f[i] = IF s[i] \in wanted THEN Append(v, s[i]) ELSE v
    BY <1>1, <2>2
  <2>. QED
    BY <2>1, <2>3, <2>5, <2>6
<1>. HIDE DEF S
<1>5. 0 .. Len(s) \subseteq S
  BY <1>2, <1>3, <1>4, Rounds
<1>6. Len(s) \in S
  BY <1>2, <1>5
<1>. QED
  BY <1>1, <1>2, <1>6 DEF S

(* The instances in the order of their descriptors, each once.             *)
Ascending(s) == \A a, b \in DOMAIN s : a < b => s[a] < s[b]

LEMMA OldestFirstOrdered ==
  ASSUME NEW eds
  PROVE  /\ OldestFirst(eds) \in Seq(Descs)
         /\ ToSet(OldestFirst(eds)) = Descs \cap eds
         /\ Ascending(OldestFirst(eds))
<1>. DEFINE s == [ed \in Descs |-> ed]
<1>1. MaxDesc \in Nat
  BY SteeringAssumption
<1>2. s \in Seq(Descs) /\ Len(s) = MaxDesc /\ \A i \in 1 .. MaxDesc : s[i] = i
  BY <1>1 DEF Descs
<1>3. OldestFirst(eds) = Only(s, eds)
  BY DEF OldestFirst
<1>. HIDE DEF s
<1>0. PICK f : OnlyRun(f, Descs, s, eds) /\ Only(s, eds) = f[Len(s)]
  BY <1>2, OnlyLoop
<1>4. /\ f \in [0 .. Len(s) -> Seq(Descs)] /\ f[0] = << >> /\ Only(s, eds) = f[Len(s)]
      /\ \A i \in 1 .. Len(s) :
           f[i] = IF s[i] \in eds THEN Append(f[i - 1], s[i]) ELSE f[i - 1]
  BY <1>0 DEF OnlyRun
<1>5. \A i \in 1 .. MaxDesc : f[i] = IF i \in eds THEN Append(f[i - 1], i) ELSE f[i - 1]
  BY <1>2, <1>4
<1>. DEFINE S == {i \in 0 .. MaxDesc : ToSet(f[i]) = (1 .. i) \cap eds /\ Ascending(f[i])}
<1>6. 0 \in S
  BY <1>1, <1>4 DEF ToSet, Ascending
<1>7. ASSUME NEW i \in 1 .. MaxDesc, i - 1 \in S PROVE i \in S
  <2>1. i \in 0 .. MaxDesc /\ i - 1 \in 0 .. MaxDesc /\ i \in Descs
    BY <1>1 DEF Descs
  <2>2. PICK v \in Seq(Descs) : v = f[i - 1]
    BY <1>2, <1>4, <2>1
  <2>3. ToSet(v) = (1 .. (i - 1)) \cap eds /\ Ascending(v)
    BY <1>7, <2>2
  <2>4. f[i] = IF i \in eds THEN Append(v, i) ELSE v
    BY <1>5, <2>2
  <2>5. CASE i \notin eds
    <3>1. (1 .. i) \cap eds = (1 .. (i - 1)) \cap eds
      BY <2>5
    <3>. QED
      BY <2>1, <2>3, <2>4, <2>5, <3>1
  <2>6. CASE i \in eds
    <3>0. Append(v, i) \in Seq(Descs)
      BY <2>1
    <3>1. PICK w \in Seq(Descs) : w = Append(v, i)
      BY <3>0
    <3>2. PICK m \in Nat : m = Len(v)
      OBVIOUS
    <3>3. /\ Len(w) = m + 1 /\ DOMAIN w = 1 .. (m + 1) /\ DOMAIN v = 1 .. m /\ w[m + 1] = i
          /\ \A j \in 1 .. m : w[j] = v[j]
      BY <2>1, <3>1, <3>2
    <3>4. \A j \in 1 .. m : v[j] \in 1 .. (i - 1)
      BY <2>3, <3>3 DEF ToSet
    <3>5. ToSet(w) = ToSet(v) \cup {i}
      <4>1. \A j \in 1 .. (m + 1) : j \in 1 .. m \/ j = m + 1
        OBVIOUS
      <4>2. m + 1 \in 1 .. (m + 1) /\ \A j \in 1 .. m : j \in 1 .. (m + 1)
        OBVIOUS
      <4>. QED
        BY <3>3, <4>1, <4>2 DEF ToSet
    <3>6. (1 .. i) \cap eds = ((1 .. (i - 1)) \cap eds) \cup {i}
      BY <2>6
    <3>7. ASSUME NEW a \in DOMAIN w, NEW b \in DOMAIN w, a < b PROVE w[a] < w[b]
      <4>1. a \in 1 .. m
        BY <3>3, <3>7
      <4>2. CASE b = m + 1
        BY <3>3, <3>4, <4>1, <4>2
      <4>3. CASE b # m + 1
        <5>1. b \in 1 .. m
          BY <3>3, <4>3
        <5>2. v[a] < v[b]
          BY <2>3, <3>3, <3>7, <4>1, <5>1 DEF Ascending
        <5>. QED
          BY <3>3, <4>1, <5>1, <5>2
      <4>. QED
        BY <4>2, <4>3
    <3>8. Ascending(w)
      BY <3>7 DEF Ascending
    <3>9. f[i] = w
      BY <2>4, <2>6, <3>1
    <3>. QED
      BY <2>1, <2>3, <3>5, <3>6, <3>8, <3>9
  <2>. QED
    BY <2>5, <2>6
<1>. HIDE DEF S
<1>8. 0 .. MaxDesc \subseteq S
  BY <1>1, <1>6, <1>7, Rounds
<1>9. MaxDesc \in S /\ MaxDesc \in 0 .. Len(s)
  BY <1>1, <1>2, <1>8
<1>. QED
  BY <1>2, <1>3, <1>4, <1>9 DEF S, Descs

LEMMA RemoveAtIs ==
  ASSUME NEW D, NEW s \in Seq(D), NEW i \in 1 .. Len(s)
  PROVE  /\ RemoveAt(s, i) \in Seq(D) /\ Len(RemoveAt(s, i)) = Len(s) - 1
         /\ \A j \in 1 .. (Len(s) - 1) : RemoveAt(s, i)[j] = IF j < i THEN s[j] ELSE s[j + 1]
<1>1. PICK n \in Nat : n = Len(s)
  OBVIOUS
<1>2. i \in 1 .. n /\ i - 1 \in 0 .. n /\ n \in Nat
  BY <1>1
<1>3. PICK a : a = SubSeq(s, 1, i - 1)
  OBVIOUS
<1>4. PICK b : b = SubSeq(s, i + 1, n)
  OBVIOUS
<1>5. a \in Seq(D) /\ Len(a) = i - 1 /\ \A j \in 1 .. (i - 1) : a[j] = s[j]
  BY <1>1, <1>2, <1>3
<1>6. b \in Seq(D) /\ Len(b) = n - i /\ \A j \in 1 .. (n - i) : b[j] = s[i + j]
  BY <1>1, <1>2, <1>4
<1>7. RemoveAt(s, i) = a \o b
  BY <1>1, <1>3, <1>4 DEF RemoveAt
<1>8. a \o b \in Seq(D) /\ Len(a \o b) = n - 1
  <2>0. a \in Seq(D) /\ b \in Seq(D)
    BY <1>5, <1>6
  <2>1. a \o b \in Seq(D) /\ Len(a \o b) = Len(a) + Len(b)
    BY <2>0
  <2>. QED
    BY <1>2, <1>5, <1>6, <2>1
<1>9. ASSUME NEW j \in 1 .. (n - 1) PROVE (a \o b)[j] = IF j < i THEN s[j] ELSE s[j + 1]
  <2>1. (a \o b)[j] = IF j <= Len(a) THEN a[j] ELSE b[j - Len(a)]
    BY <1>2, <1>5, <1>6
  <2>2. CASE j < i
    BY <1>2, <1>5, <2>1, <2>2
  <2>3. CASE ~(j < i)
    <3>1. j - (i - 1) \in 1 .. (n - i) /\ i + (j - (i - 1)) = j + 1
      BY <1>2, <2>3
    <3>2. (a \o b)[j] = b[j - (i - 1)]
      BY <1>2, <1>5, <2>1, <2>3
    <3>. QED
      BY <1>6, <2>3, <3>1, <3>2
  <2>. QED
    BY <2>2, <2>3
<1>. QED
  BY <1>1, <1>7, <1>8, <1>9

LEMMA RemoveAtKeeps ==
  ASSUME NEW D, NEW s \in Seq(D), NEW i \in 1 .. Len(s)
  PROVE  /\ ToSet(RemoveAt(s, i)) \subseteq ToSet(s)
         /\ \A e \in ToSet(s) : e # s[i] => e \in ToSet(RemoveAt(s, i))
<1>1. PICK n \in Nat : n = Len(s)
  OBVIOUS
<1>2. PICK r : r = RemoveAt(s, i)
  OBVIOUS
<1>3. /\ r \in Seq(D) /\ DOMAIN r = 1 .. (n - 1) /\ DOMAIN s = 1 .. n /\ i \in 1 .. n
      /\ \A j \in 1 .. (n - 1) : r[j] = IF j < i THEN s[j] ELSE s[j + 1]
  BY <1>1, <1>2, RemoveAtIs
<1>4. ASSUME NEW j \in 1 .. (n - 1) PROVE r[j] \in ToSet(s)
  <2>1. j \in 1 .. n /\ j + 1 \in 1 .. n
    OBVIOUS
  <2>2. r[j] = s[j] \/ r[j] = s[j + 1]
    BY <1>3
  <2>. QED
    BY <1>3, <2>1, <2>2 DEF ToSet
<1>5. ASSUME NEW k \in 1 .. n, k # i PROVE s[k] \in ToSet(r)
  <2>1. CASE k < i
    <3>1. k \in 1 .. (n - 1) /\ r[k] = s[k]
      BY <1>3, <2>1
    <3>. QED
      BY <1>3, <3>1 DEF ToSet
  <2>2. CASE k > i
    <3>1. k - 1 \in 1 .. (n - 1) /\ ~(k - 1 < i) /\ (k - 1) + 1 = k
      BY <1>3, <2>2
    <3>2. r[k - 1] = s[k]
      BY <1>3, <3>1
    <3>. QED
      BY <1>3, <3>1, <3>2 DEF ToSet
  <2>. QED
    BY <1>3, <1>5, <2>1, <2>2
<1>6. ToSet(r) \subseteq ToSet(s)
  BY <1>3, <1>4 DEF ToSet
<1>7. \A e \in ToSet(s) : e # s[i] => e \in ToSet(r)
  <2>1. ASSUME NEW e \in ToSet(s), e # s[i] PROVE e \in ToSet(r)
    <3>1. PICK k \in 1 .. n : s[k] = e
      BY <1>3 DEF ToSet
    <3>. QED
      BY <1>5, <2>1, <3>1
  <2>. QED
    BY <2>1
<1>. QED
  BY <1>2, <1>6, <1>7

(* remove() inside the for loop.                                           *)
RemoveRounds(f, s, unwanted) ==
  f = [i \in 0 .. Len(s) |->
         IF i = 0 THEN s
         ELSE IF i <= Len(f[i - 1]) /\ f[i - 1][i] \in unwanted THEN RemoveAt(f[i - 1], i) ELSE f[i - 1]]

RemoveRun(f, D, s, unwanted) ==
  /\ f \in [0 .. Len(s) -> Seq(D)] /\ f[0] = s
  /\ \A i \in 1 .. Len(s) :
       f[i] = IF i <= Len(f[i - 1]) /\ f[i - 1][i] \in unwanted THEN RemoveAt(f[i - 1], i) ELSE f[i - 1]

LEMMA RemoveLoop ==
  ASSUME NEW D, NEW s \in Seq(D), NEW unwanted
  PROVE  \E f : RemoveRun(f, D, s, unwanted) /\ RemoveEach(s, unwanted) = f[Len(s)]
<1>. DEFINE n == Len(s)
            V == Seq(D)
            next(v, i) == IF i <= Len(v) /\ v[i] \in unwanted THEN RemoveAt(v, i) ELSE v
            step == [p \in V \X (1 .. n) |-> next(p[1], p[2])]
<1>1. n \in Nat
  OBVIOUS
<1>2. s \in V
  OBVIOUS
<1>3. ASSUME NEW v \in V, NEW i \in 1 .. n PROVE next(v, i) \in V
  <2>1. ASSUME i <= Len(v) PROVE RemoveAt(v, i) \in V
    BY <2>1, RemoveAtIs
  <2>. QED
    BY <2>1
<1>4. step \in [V \X (1 .. n) -> V]
  BY <1>3
<1>5. \A v \in V, i \in 1 .. n : step[<<v, i>>] = next(v, i)
  OBVIOUS
<1>. HIDE DEF step, V, next
<1>6. PICK f : History(f, n, V, s, step)
  BY <1>1, <1>2, <1>4, Histories
<1>7. f = [i \in 0 .. n |-> f[i]] /\ f[0] = s
  BY <1>6 DEF History
<1>8. \A i \in 1 .. n : f[i - 1] \in V /\ f[i] = next(f[i - 1], i)
  <2>1. f \in [0 .. n -> V] /\ \A i \in 1 .. n : f[i] = step[<<f[i - 1], i>>]
    BY <1>6 DEF History
  <2>2. \A i \in 1 .. n : i - 1 \in 0 .. n
    BY <1>1
  <2>3. \A i \in 1 .. n : f[i - 1] \in V
    BY <2>1, <2>2
  <2>. QED
    BY <1>5, <2>1, <2>3
<1>9. RemoveRounds(f, s, unwanted)
  <2>. DEFINE g == [i \in 0 .. n |-> IF i = 0 THEN s ELSE next(f[i - 1], i)]
  <2>1. ASSUME NEW i \in 0 .. n PROVE f[i] = g[i]
    <3>1. CASE i = 0
      BY <1>7, <3>1
    <3>2. CASE i # 0
      <4>1. i \in 1 .. n
        BY <3>2, <1>1
      <4>. QED
        BY <1>8, <3>2, <4>1
    <3>. QED
      BY <3>1, <3>2
  <2>2. f = g
    BY <1>7, <2>1
  <2>. QED
    BY <2>2 DEF RemoveRounds, next
<1>10. PICK h : h = CHOOSE g : RemoveRounds(g, s, unwanted)
  OBVIOUS
<1>11. RemoveRounds(h, s, unwanted)
  BY <1>9, <1>10
<1>12. RemoveEach(s, unwanted) = h[n]
  BY <1>10 DEF RemoveEach, RemoveRounds
<1>. DEFINE e == [i \in 0 .. n |-> IF i = 0 THEN s ELSE next(h[i - 1], i)]
<1>13. h = e
  BY <1>11 DEF RemoveRounds, next
<1>14. h = [i \in 0 .. n |-> h[i]]
  BY <1>13
<1>15. h[0] = s /\ \A i \in 1 .. n : h[i] = next(h[i - 1], i)
  <2>1. 0 \in 0 .. n /\ \A i \in 1 .. n : i \in 0 .. n /\ i # 0
    BY <1>1
  <2>2. h[0] = s
    BY <1>13, <2>1
  <2>3. ASSUME NEW i \in 1 .. n PROVE h[i] = next(h[i - 1], i)
    <3>1. i \in 0 .. n /\ i # 0
      BY <2>1
    <3>. QED
      BY <1>13, <3>1
  <2>. QED
    BY <2>2, <2>3
<1>. HIDE DEF e
<1>16. \A i \in 1 .. n : h[i - 1] \in V => h[i] = step[<<h[i - 1], i>>]
  BY <1>5, <1>15
<1>17. History(h, n, V, s, step)
  BY <1>1, <1>2, <1>4, <1>14, <1>15, <1>16, IsHistory
<1>18. h \in [0 .. n -> V]
  BY <1>17 DEF History
<1>. QED
  BY <1>12, <1>15, <1>18 DEF next, V, RemoveRun

(* What is wanted stays, and nothing comes.                                *)
LEMMA RemoveEachKeeps ==
  ASSUME NEW D, NEW s \in Seq(D), NEW unwanted
  PROVE  /\ RemoveEach(s, unwanted) \in Seq(D) /\ ToSet(RemoveEach(s, unwanted)) \subseteq ToSet(s)
         /\ ToSet(s) \ unwanted \subseteq ToSet(RemoveEach(s, unwanted))
<1>0. PICK f : RemoveRun(f, D, s, unwanted) /\ RemoveEach(s, unwanted) = f[Len(s)]
  BY RemoveLoop
<1>1. PICK n \in Nat : n = Len(s)
  OBVIOUS
<1>2. /\ f \in [0 .. n -> Seq(D)] /\ f[0] = s /\ RemoveEach(s, unwanted) = f[n]
      /\ \A i \in 1 .. n : f[i] = IF i <= Len(f[i - 1]) /\ f[i - 1][i] \in unwanted
                                  THEN RemoveAt(f[i - 1], i) ELSE f[i - 1]
  BY <1>0, <1>1 DEF RemoveRun
<1>. DEFINE S == {i \in 0 .. n : ToSet(f[i]) \subseteq ToSet(s) /\ ToSet(s) \ unwanted \subseteq ToSet(f[i])}
<1>3. 0 \in S
  BY <1>2
<1>4. ASSUME NEW i \in 1 .. n, i - 1 \in S PROVE i \in S
  <2>1. PICK v : v = f[i - 1]
    OBVIOUS
  <2>2. v \in Seq(D) /\ ToSet(v) \subseteq ToSet(s) /\ ToSet(s) \ unwanted \subseteq ToSet(v)
    BY <1>2, <1>4, <2>1
  <2>3. f[i] = IF i <= Len(v) /\ v[i] \in unwanted THEN RemoveAt(v, i) ELSE v
    BY <1>2, <2>1
  <2>4. i \in 0 .. n
    OBVIOUS
  <2>5. CASE i <= Len(v) /\ v[i] \in unwanted
    <3>1. i \in 1 .. Len(v)
      BY <2>2, <2>5
    <3>2. /\ ToSet(RemoveAt(v, i)) \subseteq ToSet(v)
          /\ \A e \in ToSet(v) : e # v[i] => e \in ToSet(RemoveAt(v, i))
      BY <2>2, <3>1, RemoveAtKeeps
    <3>3. f[i] = RemoveAt(v, i)
      BY <2>3, <2>5
    <3>. QED
      BY <2>2, <2>4, <2>5, <3>2, <3>3
  <2>6. CASE ~(i <= Len(v) /\ v[i] \in unwanted)
    BY <2>2, <2>3, <2>4, <2>6
  <2>. QED
    BY <2>5, <2>6
<1>. HIDE DEF S
<1>5. 0 .. n \subseteq S
  BY <1>3, <1>4, Rounds
<1>6. n \in S /\ f[n] \in Seq(D)
  BY <1>2, <1>5
<1>. QED
  BY <1>2, <1>6 DEF S

LEMMA LeaveAffinedKeeps ==
  ASSUME NEW replicas \in Seq(Descs), NEW ed \in Descs
  PROVE  /\ LeaveAffined(replicas, ed) \in Seq(Descs)
         /\ ToSet(LeaveAffined(replicas, ed)) \subseteq ToSet(replicas)
         /\ ToSet(replicas) # {} => ToSet(LeaveAffined(replicas, ed)) # {}
<1>1. CASE Contains(replicas, ed)
  <2>1. LeaveAffined(replicas, ed) = RemoveEach(replicas, Descs \ {ed})
    BY <1>1 DEF LeaveAffined
  <2>2. ed \in ToSet(replicas)
    BY <1>1 DEF Contains, ToSet
  <2>. QED
    BY <2>1, <2>2, RemoveEachKeeps
<1>2. CASE ~Contains(replicas, ed)
  BY <1>2 DEF LeaveAffined
<1>. QED
  BY <1>1, <1>2

(* get_updated_replicas, one affined instance after the other.             *)
LeaveRounds(f, replicas, eds) ==
  f = [i \in 0 .. Len(eds) |->
         IF i = 0 THEN replicas
         ELSE LeaveAffined(f[i - 1], eds[i])]

LeaveRun(f, replicas, eds) ==
  /\ f \in [0 .. Len(eds) -> Seq(Descs)] /\ f[0] = replicas
  /\ \A i \in 1 .. Len(eds) :
       f[i] = LeaveAffined(f[i - 1], eds[i])

LEMMA LeaveLoop ==
  ASSUME NEW replicas \in Seq(Descs), NEW eds \in Seq(Descs)
  PROVE  \E f : LeaveRun(f, replicas, eds) /\ LeaveAllAffined(replicas, eds) = f[Len(eds)]
<1>. DEFINE n == Len(eds)
            V == Seq(Descs)
            next(v, i) == LeaveAffined(v, eds[i])
            step == [p \in V \X (1 .. n) |-> next(p[1], p[2])]
<1>1. n \in Nat
  OBVIOUS
<1>2. replicas \in V
  OBVIOUS
<1>3. ASSUME NEW v \in V, NEW i \in 1 .. n PROVE next(v, i) \in V
  BY LeaveAffinedKeeps
<1>4. step \in [V \X (1 .. n) -> V]
  BY <1>3
<1>5. \A v \in V, i \in 1 .. n : step[<<v, i>>] = next(v, i)
  OBVIOUS
<1>. HIDE DEF step, V, next
<1>6. PICK f : History(f, n, V, replicas, step)
  BY <1>1, <1>2, <1>4, Histories
<1>7. f = [i \in 0 .. n |-> f[i]] /\ f[0] = replicas
  BY <1>6 DEF History
<1>8. \A i \in 1 .. n : f[i - 1] \in V /\ f[i] = next(f[i - 1], i)
  <2>1. f \in [0 .. n -> V] /\ \A i \in 1 .. n : f[i] = step[<<f[i - 1], i>>]
    BY <1>6 DEF History
  <2>2. \A i \in 1 .. n : i - 1 \in 0 .. n
    BY <1>1
  <2>3. \A i \in 1 .. n : f[i - 1] \in V
    BY <2>1, <2>2
  <2>. QED
    BY <1>5, <2>1, <2>3
<1>9. LeaveRounds(f, replicas, eds)
  <2>. DEFINE g == [i \in 0 .. n |-> IF i = 0 THEN replicas ELSE next(f[i - 1], i)]
  <2>1. ASSUME NEW i \in 0 .. n PROVE f[i] = g[i]
    <3>1. CASE i = 0
      BY <1>7, <3>1
    <3>2. CASE i # 0
      <4>1. i \in 1 .. n
        BY <3>2, <1>1
      <4>. QED
        BY <1>8, <3>2, <4>1
    <3>. QED
      BY <3>1, <3>2
  <2>2. f = g
    BY <1>7, <2>1
  <2>. QED
    BY <2>2 DEF LeaveRounds, next
<1>10. PICK h : h = CHOOSE g : LeaveRounds(g, replicas, eds)
  OBVIOUS
<1>11. LeaveRounds(h, replicas, eds)
  BY <1>9, <1>10
<1>12. LeaveAllAffined(replicas, eds) = h[n]
  BY <1>10 DEF LeaveAllAffined, LeaveRounds
<1>. DEFINE e == [i \in 0 .. n |-> IF i = 0 THEN replicas ELSE next(h[i - 1], i)]
<1>13. h = e
  BY <1>11 DEF LeaveRounds, next
<1>14. h = [i \in 0 .. n |-> h[i]]
  BY <1>13
<1>15. h[0] = replicas /\ \A i \in 1 .. n : h[i] = next(h[i - 1], i)
  <2>1. 0 \in 0 .. n /\ \A i \in 1 .. n : i \in 0 .. n /\ i # 0
    BY <1>1
  <2>2. h[0] = replicas
    BY <1>13, <2>1
  <2>3. ASSUME NEW i \in 1 .. n PROVE h[i] = next(h[i - 1], i)
    <3>1. i \in 0 .. n /\ i # 0
      BY <2>1
    <3>. QED
      BY <1>13, <3>1
  <2>. QED
    BY <2>2, <2>3
<1>. HIDE DEF e
<1>16. \A i \in 1 .. n : h[i - 1] \in V => h[i] = step[<<h[i - 1], i>>]
  BY <1>5, <1>15
<1>17. History(h, n, V, replicas, step)
  BY <1>1, <1>2, <1>4, <1>14, <1>15, <1>16, IsHistory
<1>18. h \in [0 .. n -> V]
  BY <1>17 DEF History
<1>. QED
  BY <1>12, <1>15, <1>18 DEF next, V, LeaveRun

(* The affined instances never leave an element without replica.           *)
LEMMA LeaveAllAffinedKeeps ==
  ASSUME NEW replicas \in Seq(Descs), NEW eds \in Seq(Descs)
  PROVE  /\ LeaveAllAffined(replicas, eds) \in Seq(Descs)
         /\ ToSet(LeaveAllAffined(replicas, eds)) \subseteq ToSet(replicas)
         /\ ToSet(replicas) # {} => ToSet(LeaveAllAffined(replicas, eds)) # {}
<1>0. PICK f : LeaveRun(f, replicas, eds) /\ LeaveAllAffined(replicas, eds) = f[Len(eds)]
  BY LeaveLoop
<1>1. PICK n \in Nat : n = Len(eds)
  OBVIOUS
<1>2. /\ f \in [0 .. n -> Seq(Descs)] /\ f[0] = replicas /\ LeaveAllAffined(replicas, eds) = f[n]
      /\ \A i \in 1 .. n : f[i] = LeaveAffined(f[i - 1], eds[i])
  BY <1>0, <1>1 DEF LeaveRun
<1>. DEFINE S == {i \in 0 .. n : /\ ToSet(f[i]) \subseteq ToSet(replicas)
                                 /\ ToSet(replicas) # {} => ToSet(f[i]) # {}}
<1>3. 0 \in S
  BY <1>2
<1>4. ASSUME NEW i \in 1 .. n, i - 1 \in S PROVE i \in S
  <2>1. PICK v : v = f[i - 1]
    OBVIOUS
  <2>2. /\ v \in Seq(Descs) /\ ToSet(v) \subseteq ToSet(replicas)
        /\ ToSet(replicas) # {} => ToSet(v) # {}
    BY <1>2, <1>4, <2>1
  <2>3. f[i] = LeaveAffined(v, eds[i]) /\ eds[i] \in Descs /\ i \in 0 .. n
    BY <1>1, <1>2, <2>1
  <2>4. /\ ToSet(f[i]) \subseteq ToSet(v)
        /\ ToSet(v) # {} => ToSet(f[i]) # {}
    BY <2>2, <2>3, LeaveAffinedKeeps
  <2>. QED
    BY <2>2, <2>3, <2>4
<1>. HIDE DEF S
<1>5. 0 .. n \subseteq S
  BY <1>3, <1>4, Rounds
<1>6. n \in S /\ f[n] \in Seq(Descs)
  BY <1>2, <1>5
<1>. QED
  BY <1>2, <1>6 DEF S

(* Of two replicas the affined one is left.                                *)
LEMMA OneOfTwo ==
  ASSUME NEW r \in Seq(Descs), Len(r) = 2, NEW ed \in Descs, NEW d \in Descs, ed # d,
         (r[1] = ed /\ r[2] = d) \/ (r[1] = d /\ r[2] = ed)
  PROVE  d \notin ToSet(RemoveEach(r, Descs \ {ed}))
<1>. DEFINE U == Descs \ {ed}
<1>0. d \in U /\ ed \notin U
  OBVIOUS
<1>. HIDE DEF U
<1>1. PICK f : RemoveRun(f, Descs, r, U) /\ RemoveEach(r, U) = f[Len(r)]
  BY RemoveLoop
<1>2. /\ f[0] = r /\ RemoveEach(r, U) = f[2]
      /\ \A i \in 1 .. 2 : f[i] = IF i <= Len(f[i - 1]) /\ f[i - 1][i] \in U
                                  THEN RemoveAt(f[i - 1], i) ELSE f[i - 1]
  BY <1>1 DEF RemoveRun
<1>3. f[1] = IF r[1] \in U THEN RemoveAt(r, 1) ELSE r
  <2>1. 1 \in 1 .. 2 /\ 1 - 1 = 0 /\ 1 <= Len(r)
    OBVIOUS
  <2>. QED
    BY <1>2, <2>1
<1>4. f[2] = IF 2 <= Len(f[1]) /\ f[1][2] \in U THEN RemoveAt(f[1], 2) ELSE f[1]
  <2>1. 2 \in 1 .. 2 /\ 2 - 1 = 1
    OBVIOUS
  <2>. QED
    BY <1>2, <2>1
<1>5. ASSUME NEW q \in Seq(Descs), Len(q) = 1, q[1] = ed PROVE d \notin ToSet(q)
  BY <1>5 DEF ToSet
<1>6. ASSUME NEW k \in 1 .. 2
      PROVE  RemoveAt(r, k) \in Seq(Descs) /\ Len(RemoveAt(r, k)) = 1 /\ RemoveAt(r, k)[1] = IF k = 1 THEN r[2] ELSE r[1]
  <2>1. k \in 1 .. Len(r) /\ 1 \in 1 .. (Len(r) - 1) /\ Len(r) - 1 = 1 /\ 1 + 1 = 2
    OBVIOUS
  <2>2. /\ RemoveAt(r, k) \in Seq(Descs) /\ Len(RemoveAt(r, k)) = Len(r) - 1
        /\ RemoveAt(r, k)[1] = IF 1 < k THEN r[1] ELSE r[1 + 1]
    BY <2>1, RemoveAtIs
  <2>. QED
    BY <2>1, <2>2
<1>7. CASE r[1] = d /\ r[2] = ed
  <2>1. f[1] = RemoveAt(r, 1)
    BY <1>0, <1>3, <1>7
  <2>2. f[1] \in Seq(Descs) /\ Len(f[1]) = 1 /\ f[1][1] = ed
    BY <1>6, <1>7, <2>1
  <2>3. f[2] = f[1]
    BY <1>4, <2>2
  <2>. QED
    BY <1>2, <1>5, <2>2, <2>3 DEF U
<1>8. CASE r[1] = ed /\ r[2] = d
  <2>1. f[1] = r
    BY <1>0, <1>3, <1>8
  <2>2. f[2] = RemoveAt(r, 2)
    <3>1. 2 <= Len(r) /\ r[2] \in U
      BY <1>0, <1>8
    <3>. QED
      BY <1>4, <2>1, <3>1
  <2>3. f[2] \in Seq(Descs) /\ Len(f[2]) = 1 /\ f[2][1] = ed
    BY <1>6, <1>8, <2>2
  <2>. QED
    BY <1>2, <1>5, <2>3 DEF U
<1>. QED
  BY <1>7, <1>8

LEMMA TwoAscending ==
  ASSUME NEW r \in Seq(Descs), Ascending(r), NEW ed \in Descs, NEW d \in Descs,
         ed # d, ToSet(r) = {ed, d}
  PROVE  Len(r) = 2 /\ ((r[1] = ed /\ r[2] = d) \/ (r[1] = d /\ r[2] = ed))
<1>1. PICK m \in Nat : m = Len(r) /\ DOMAIN r = 1 .. m
  OBVIOUS
<1>2. \A i \in 1 .. m : r[i] = ed \/ r[i] = d
  BY <1>1 DEF ToSet
<1>3. PICK a \in 1 .. m : r[a] = ed
  BY <1>1 DEF ToSet
<1>4. PICK b \in 1 .. m : r[b] = d
  BY <1>1 DEF ToSet
<1>5. \A i, j \in 1 .. m : r[i] \in Nat /\ (i < j => r[i] < r[j])
  <2>1. MaxDesc \in Nat
    BY SteeringAssumption
  <2>2. \A i \in 1 .. m : r[i] \in Descs
    BY <1>1
  <2>3. \A i \in 1 .. m : r[i] \in Nat
    BY <2>1, <2>2 DEF Descs
  <2>4. \A i, j \in 1 .. m : i < j => r[i] < r[j]
    BY <1>1 DEF Ascending
  <2>. QED
    BY <2>3, <2>4
<1>6. \A i \in 1 .. m : i = a \/ i = b
  <2>1. ASSUME NEW i \in 1 .. m, NEW j \in 1 .. m, r[i] = r[j] PROVE i = j
    BY <1>5, <2>1
  <2>. QED
    BY <1>2, <1>3, <1>4, <2>1
<1>7. a # b
  BY <1>3, <1>4
<1>8. m = 2
  <2>1. m >= 2
    BY <1>3, <1>4, <1>7
  <2>2. ASSUME m >= 3 PROVE FALSE
    <3>1. 1 \in 1 .. m /\ 2 \in 1 .. m /\ 3 \in 1 .. m
      BY <2>2
    <3>2. (1 = a \/ 1 = b) /\ (2 = a \/ 2 = b) /\ (3 = a \/ 3 = b)
      BY <1>6, <3>1
    <3>. QED
      BY <3>2
  <2>. QED
    BY <2>1, <2>2
<1>9. (a = 1 /\ b = 2) \/ (a = 2 /\ b = 1)
  <2>1. a \in 1 .. 2 /\ b \in 1 .. 2
    BY <1>8
  <2>2. (a = 1 \/ a = 2) /\ (b = 1 \/ b = 2)
    BY <2>1
  <2>. QED
    BY <1>7, <2>2
<1>. QED
  BY <1>1, <1>3, <1>4, <1>8, <1>9

LEMMA AffinedLeft ==
  ASSUME NEW replicas \in Seq(Descs), Ascending(replicas), NEW eds \in Seq(Descs),
         NEW ed \in ToSet(eds), NEW d \in Descs, d \notin ToSet(eds), ToSet(replicas) = {ed, d}
  PROVE  d \notin ToSet(LeaveAllAffined(replicas, eds))
<1>0. PICK f : LeaveRun(f, replicas, eds) /\ LeaveAllAffined(replicas, eds) = f[Len(eds)]
  BY LeaveLoop
<1>1. PICK n \in Nat : n = Len(eds) /\ DOMAIN eds = 1 .. n
  OBVIOUS
<1>2. /\ f \in [0 .. n -> Seq(Descs)] /\ f[0] = replicas /\ LeaveAllAffined(replicas, eds) = f[n]
      /\ \A i \in 1 .. n : f[i] = LeaveAffined(f[i - 1], eds[i])
  BY <1>0, <1>1 DEF LeaveRun
<1>3. ed \in Descs /\ ed # d
  BY DEF ToSet
<1>9. DOMAIN replicas = 1 .. Len(replicas)
  OBVIOUS
<1>. DEFINE S == {i \in 0 .. n : \/ f[i] = replicas /\ \A j \in 1 .. i : eds[j] # ed
                                 \/ d \notin ToSet(f[i])}
<1>4. 0 \in S
  BY <1>2
<1>5. ASSUME NEW i \in 1 .. n, i - 1 \in S PROVE i \in S
  <2>1. PICK v \in Seq(Descs) : v = f[i - 1]
    BY <1>2
  <2>2. f[i] = LeaveAffined(v, eds[i]) /\ eds[i] \in Descs /\ i \in 0 .. n
    BY <1>1, <1>2, <2>1
  <2>3. CASE d \notin ToSet(v)
    BY <2>2, <2>3, LeaveAffinedKeeps
  <2>4. CASE v = replicas /\ \A j \in 1 .. (i - 1) : eds[j] # ed
    <3>1. CASE eds[i] = ed
      <4>1. Contains(replicas, ed)
        BY <1>9 DEF Contains, ToSet
      <4>2. f[i] = RemoveEach(replicas, Descs \ {ed})
        BY <2>2, <2>4, <3>1, <4>1 DEF LeaveAffined
      <4>3. d \notin ToSet(f[i])
        BY <1>3, <4>2, TwoAscending, OneOfTwo
      <4>. QED
        BY <2>2, <4>3
    <3>2. CASE eds[i] # ed
      <4>1. eds[i] # d
        BY <1>1 DEF ToSet
      <4>2. ~Contains(replicas, eds[i])
        BY <1>9, <3>2, <4>1 DEF Contains, ToSet
      <4>3. f[i] = replicas
        BY <2>2, <2>4, <4>2 DEF LeaveAffined
      <4>4. \A j \in 1 .. i : eds[j] # ed
        BY <2>4, <3>2
      <4>. QED
        BY <2>2, <4>3, <4>4
    <3>. QED
      BY <3>1, <3>2
  <2>. QED
    BY <1>5, <2>1, <2>3, <2>4
<1>. HIDE DEF S
<1>6. 0 .. n \subseteq S
  BY <1>4, <1>5, Rounds
<1>7. n \in S
  BY <1>6
<1>8. \E j \in 1 .. n : eds[j] = ed
  BY <1>1 DEF ToSet
<1>. QED
  BY <1>2, <1>7, <1>8 DEF S

-----------------------------------------------------------------------------
(* What a packet may do to the network on its way.                         *)

Nets == [inst : [Descs -> Instance \cup {None}], next : 1 .. MaxDesc + 1,
         map : [Descs -> Switches \cup {None}], overlay : SUBSET up]

\* No descriptor is taken that has not been given out.
Fresh(is, next) == \A ed \in Descs : ed >= next => is[ed] = None

\* The networks that net may become: instances are added, none is changed.
From(net) ==
  {x \in Nets : /\ Fresh(x.inst, x.next) /\ x.next >= net.next
                /\ \A ed \in Descs : ed < net.next => x.inst[ed] = net.inst[ed]}

\* What the look-ups find.
LookUps == names \in Seq(Names) /\ hosts \in [Machines -> Switches \cup {None}]

LEMMA NetTypes ==
  ASSUME NEW x \in Nets
  PROVE  /\ x = [inst |-> x.inst, next |-> x.next, map |-> x.map, overlay |-> x.overlay]
         /\ x.overlay \in SUBSET up
         /\ x.inst \in [Descs -> Instance \cup {None}] /\ x.next \in 1 .. MaxDesc + 1
         /\ x.map \in [Descs -> Switches \cup {None}] /\ x.next \in Nat /\ MaxDesc \in Nat
<1>1. MaxDesc \in Nat
  BY SteeringAssumption
<1>. QED
  BY <1>1 DEF Nets

LEMMA FromSelf ==
  ASSUME NEW net \in Nets, Fresh(net.inst, net.next)
  PROVE  {net} \in SUBSET From(net)
<1>1. net.next >= net.next
  BY NetTypes
<1>. QED
  BY <1>1 DEF From

LEMMA FromFrom ==
  ASSUME NEW net \in Nets, NEW x \in From(net)
  PROVE  From(x) \subseteq From(net)
<1>1. SUFFICES ASSUME NEW y \in From(x) PROVE y \in From(net)
  OBVIOUS
<1>2. x \in Nets /\ y \in Nets /\ Fresh(y.inst, y.next)
  BY DEF From
<1>3. x.next \in Nat /\ y.next \in Nat /\ net.next \in Nat
  BY <1>2, NetTypes
<1>4. y.next >= net.next
  BY <1>3 DEF From
<1>5. ASSUME NEW ed \in Descs, ed < net.next PROVE y.inst[ed] = net.inst[ed]
  <2>1. ed \in Nat
    BY DEF Descs
  <2>2. ed < x.next
    BY <1>3, <1>5, <2>1 DEF From
  <2>. QED
    BY <1>5, <2>2 DEF From
<1>. QED
  BY <1>2, <1>4, <1>5 DEF From

LEMMA MoreFrom ==
  ASSUME LookUps, NEW net \in Nets, NEW x \in From(net), NEW n \in Names
  PROVE  Created(x, n) \cup Redirected(x, n) \subseteq From(net)
<1>1. x \in Nets /\ Fresh(x.inst, x.next)
  BY DEF From
<1>2. /\ x = [inst |-> x.inst, next |-> x.next, map |-> x.map, overlay |-> x.overlay]
      /\ x.overlay \in SUBSET up
      /\ x.inst \in [Descs -> Instance \cup {None}] /\ x.next \in 1 .. MaxDesc + 1
      /\ x.map \in [Descs -> Switches \cup {None}] /\ x.next \in Nat /\ MaxDesc \in Nat
  BY <1>1, NetTypes
<1>3. ASSUME NEW m \in Machines, x.next <= MaxDesc
      PROVE  [x EXCEPT !.inst[x.next] = [name |-> n, mac |-> m], !.next = @ + 1, !.overlay = up] \in From(x)
  <2>1. PICK y : y = [x EXCEPT !.inst[x.next] = [name |-> n, mac |-> m], !.next = @ + 1, !.overlay = up]
    OBVIOUS
  <2>2. /\ y.inst = [x.inst EXCEPT ![x.next] = [name |-> n, mac |-> m]]
        /\ y.next = x.next + 1 /\ y.map = x.map /\ y.overlay = up
        /\ y = [inst |-> y.inst, next |-> y.next, map |-> y.map, overlay |-> y.overlay]
    BY <1>2, <2>1
  <2>3. [name |-> n, mac |-> m] \in Instance
    BY DEF Instance
  <2>4. y.inst \in [Descs -> Instance \cup {None}]
    BY <1>2, <2>2, <2>3
  <2>5. y.next \in 1 .. MaxDesc + 1 /\ y.next >= x.next
    BY <1>2, <1>3, <2>2
  <2>6. y \in Nets
    BY <1>2, <2>2, <2>4, <2>5 DEF Nets
  <2>7. ASSUME NEW ed \in Descs PROVE /\ ed >= y.next => y.inst[ed] = None
                                      /\ ed < x.next => y.inst[ed] = x.inst[ed]
    <3>1. ed \in Nat
      BY DEF Descs
    <3>2. ed # x.next => y.inst[ed] = x.inst[ed]
      BY <1>2, <2>2
    <3>3. ed >= x.next => x.inst[ed] = None
      BY <1>1 DEF Fresh
    <3>4. ed >= y.next => ed >= x.next /\ ed # x.next
      BY <1>2, <2>2, <3>1
    <3>5. ed < x.next => ed # x.next
      BY <1>2, <3>1
    <3>. QED
      BY <3>2, <3>3, <3>4, <3>5
  <2>. QED
    BY <2>1, <2>5, <2>6, <2>7 DEF From, Fresh
<1>4. ASSUME NEW ed \in Descs PROVE [x EXCEPT !.map[ed] = None] \in From(x)
  <2>1. PICK y : y = [x EXCEPT !.map[ed] = None]
    OBVIOUS
  <2>2. /\ y.inst = x.inst /\ y.next = x.next /\ y.map = [x.map EXCEPT ![ed] = None]
        /\ y.overlay = x.overlay
        /\ y = [inst |-> y.inst, next |-> y.next, map |-> y.map, overlay |-> y.overlay]
    BY <1>2, <2>1
  <2>3. y \in Nets
    BY <1>2, <2>2 DEF Nets
  <2>4. y.next >= x.next
    BY <1>2, <2>2
  <2>. QED
    BY <1>1, <2>1, <2>2, <2>3, <2>4 DEF From, Fresh
<1>5. {x} \subseteq From(x)
  BY <1>1, FromSelf
<1>6. Created(x, n) \subseteq From(x)
  BY <1>3, <1>5 DEF Created
<1>7. Redirected(x, n) \subseteq From(x)
  BY <1>4 DEF Redirected
<1>. QED
  BY <1>6, <1>7, FromFrom

LEMMA InstalledFinite ==
  ASSUME NEW is
  PROVE  Cardinality(Installed(is)) \in Nat
<1>1. IsFiniteSet(Descs)
  BY SteeringAssumption, FS_Interval DEF Descs
<1>2. IsFiniteSet(Installed(is))
  BY <1>1, FS_Subset DEF Installed
<1>. QED
  BY <1>2, FS_CardinalityType

(* place_n_steer, one loaded instance after the other.                     *)
PlacementRounds(f, net) ==
  f = [i \in 0 .. Cardinality(Installed(net.inst)) |->
         IF i = 0 THEN {net} ELSE UNION {Relieved(x, net.inst) : x \in f[i - 1]}]

PlacementRun(f, net) ==
  /\ f \in [0 .. Cardinality(Installed(net.inst)) -> SUBSET From(net)] /\ f[0] = {net}
  /\ \A i \in 1 .. Cardinality(Installed(net.inst)) :
       f[i] = UNION {Relieved(x, net.inst) : x \in f[i - 1]}

LEMMA PlacementLoop ==
  ASSUME NEW net \in Nets, Fresh(net.inst, net.next), LookUps
  PROVE  \E f : PlacementRun(f, net) /\ AfterPlacement(net) = f[Cardinality(Installed(net.inst))]
<1>. DEFINE n == Cardinality(Installed(net.inst))
            V == SUBSET From(net)
            next(v, i) == UNION {Relieved(x, net.inst) : x \in v}
            step == [p \in V \X (1 .. n) |-> next(p[1], p[2])]
<1>1. n \in Nat
  BY InstalledFinite
<1>2. {net} \in V
  BY FromSelf
<1>3. ASSUME NEW v \in V, NEW i \in 1 .. n PROVE next(v, i) \in V
  <2>1. \A ed \in Installed(net.inst) : net.inst[ed].name \in Names
    BY DEF Installed, Nets, Instance
  <2>2. ASSUME NEW x \in v PROVE Relieved(x, net.inst) \subseteq From(net)
    <3>1. \A ed \in Installed(net.inst) :
            Created(x, net.inst[ed].name) \cup Redirected(x, net.inst[ed].name) \subseteq From(net)
      BY <2>1, MoreFrom
    <3>. QED
      BY <3>1 DEF Relieved
  <2>. QED
    BY <2>2
<1>4. step \in [V \X (1 .. n) -> V]
  BY <1>3
<1>5. \A v \in V, i \in 1 .. n : step[<<v, i>>] = next(v, i)
  OBVIOUS
<1>. HIDE DEF step, V, next
<1>6. PICK f : History(f, n, V, {net}, step)
  BY <1>1, <1>2, <1>4, Histories
<1>7. f = [i \in 0 .. n |-> f[i]] /\ f[0] = {net}
  BY <1>6 DEF History
<1>8. \A i \in 1 .. n : f[i - 1] \in V /\ f[i] = next(f[i - 1], i)
  <2>1. f \in [0 .. n -> V] /\ \A i \in 1 .. n : f[i] = step[<<f[i - 1], i>>]
    BY <1>6 DEF History
  <2>2. \A i \in 1 .. n : i - 1 \in 0 .. n
    BY <1>1
  <2>3. \A i \in 1 .. n : f[i - 1] \in V
    BY <2>1, <2>2
  <2>. QED
    BY <1>5, <2>1, <2>3
<1>9. PlacementRounds(f, net)
  <2>. DEFINE g == [i \in 0 .. n |-> IF i = 0 THEN {net} ELSE next(f[i - 1], i)]
  <2>1. ASSUME NEW i \in 0 .. n PROVE f[i] = g[i]
    <3>1. CASE i = 0
      BY <1>7, <3>1
    <3>2. CASE i # 0
      <4>1. i \in 1 .. n
        BY <3>2, <1>1
      <4>. QED
        BY <1>8, <3>2, <4>1
    <3>. QED
      BY <3>1, <3>2
  <2>2. f = g
    BY <1>7, <2>1
  <2>. QED
    BY <2>2 DEF PlacementRounds, next
<1>10. PICK h : h = CHOOSE g : PlacementRounds(g, net)
  OBVIOUS
<1>11. PlacementRounds(h, net)
  BY <1>9, <1>10
<1>12. AfterPlacement(net) = h[n]
  BY <1>10 DEF AfterPlacement, PlacementRounds
<1>. DEFINE e == [i \in 0 .. n |-> IF i = 0 THEN {net} ELSE next(h[i - 1], i)]
<1>13. h = e
  BY <1>11 DEF PlacementRounds, next
<1>14. h = [i \in 0 .. n |-> h[i]]
  BY <1>13
<1>15. h[0] = {net} /\ \A i \in 1 .. n : h[i] = next(h[i - 1], i)
  <2>1. 0 \in 0 .. n /\ \A i \in 1 .. n : i \in 0 .. n /\ i # 0
    BY <1>1
  <2>2. h[0] = {net}
    BY <1>13, <2>1
  <2>3. ASSUME NEW i \in 1 .. n PROVE h[i] = next(h[i - 1], i)
    <3>1. i \in 0 .. n /\ i # 0
      BY <2>1
    <3>. QED
      BY <1>13, <3>1
  <2>. QED
    BY <2>2, <2>3
<1>. HIDE DEF e
<1>16. \A i \in 1 .. n : h[i - 1] \in V => h[i] = step[<<h[i - 1], i>>]
  BY <1>5, <1>15
<1>17. History(h, n, V, {net}, step)
  BY <1>1, <1>2, <1>4, <1>14, <1>15, <1>16, IsHistory
<1>18. h \in [0 .. n -> V]
  BY <1>17 DEF History
<1>. QED
  BY <1>12, <1>15, <1>18 DEF next, V, PlacementRun

LEMMA PlacementFrom ==
  ASSUME NEW net \in Nets, Fresh(net.inst, net.next), LookUps
  PROVE  AfterPlacement(net) \subseteq From(net)
<1>1. PICK f : PlacementRun(f, net) /\ AfterPlacement(net) = f[Cardinality(Installed(net.inst))]
  BY PlacementLoop
<1>2. Cardinality(Installed(net.inst)) \in Nat
  BY InstalledFinite
<1>3. f \in [0 .. Cardinality(Installed(net.inst)) -> SUBSET From(net)]
  BY <1>1 DEF PlacementRun
<1>. QED
  BY <1>1, <1>2, <1>3

(* update_replicas, one set of replicas after the other.                   *)
LoadRounds(f, net, sets, loaded) ==
  f = [i \in 0 .. Len(sets) |->
         IF i = 0 THEN {net}
         ELSE IF /\ Unloaded(sets, loaded)[i] = << >>
                     /\ \A j \in 1 .. i : sets[j] # << >>
                  THEN UNION {AfterPlacement(x) : x \in f[i - 1]} ELSE f[i - 1]]

LoadRun(f, net, sets, loaded) ==
  /\ f \in [0 .. Len(sets) -> SUBSET From(net)] /\ f[0] = {net}
  /\ \A i \in 1 .. Len(sets) :
       f[i] = IF /\ Unloaded(sets, loaded)[i] = << >>
                     /\ \A j \in 1 .. i : sets[j] # << >>
                  THEN UNION {AfterPlacement(x) : x \in f[i - 1]} ELSE f[i - 1]

LEMMA LoadLoop ==
  ASSUME NEW net \in Nets, Fresh(net.inst, net.next), LookUps,
         NEW sets, Len(sets) \in Nat, NEW loaded
  PROVE  \E f : LoadRun(f, net, sets, loaded) /\ AfterLoad(net, sets, loaded) = f[Len(sets)]
<1>. DEFINE n == Len(sets)
            V == SUBSET From(net)
            next(v, i) == IF /\ Unloaded(sets, loaded)[i] = << >>
                     /\ \A j \in 1 .. i : sets[j] # << >>
                  THEN UNION {AfterPlacement(x) : x \in v} ELSE v
            step == [p \in V \X (1 .. n) |-> next(p[1], p[2])]
<1>1. n \in Nat
  OBVIOUS
<1>2. {net} \in V
  BY FromSelf
<1>3. ASSUME NEW v \in V, NEW i \in 1 .. n PROVE next(v, i) \in V
  <2>1. ASSUME NEW x \in v PROVE AfterPlacement(x) \subseteq From(net)
    <3>1. x \in Nets /\ Fresh(x.inst, x.next) /\ x \in From(net)
      BY DEF From
    <3>. QED
      BY <3>1, PlacementFrom, FromFrom
  <2>2. UNION {AfterPlacement(x) : x \in v} \in V
    BY <2>1
  <2>. QED
    BY <2>2
<1>4. step \in [V \X (1 .. n) -> V]
  BY <1>3
<1>5. \A v \in V, i \in 1 .. n : step[<<v, i>>] = next(v, i)
  OBVIOUS
<1>. HIDE DEF step, V, next
<1>6. PICK f : History(f, n, V, {net}, step)
  BY <1>1, <1>2, <1>4, Histories
<1>7. f = [i \in 0 .. n |-> f[i]] /\ f[0] = {net}
  BY <1>6 DEF History
<1>8. \A i \in 1 .. n : f[i - 1] \in V /\ f[i] = next(f[i - 1], i)
  <2>1. f \in [0 .. n -> V] /\ \A i \in 1 .. n : f[i] = step[<<f[i - 1], i>>]
    BY <1>6 DEF History
  <2>2. \A i \in 1 .. n : i - 1 \in 0 .. n
    BY <1>1
  <2>3. \A i \in 1 .. n : f[i - 1] \in V
    BY <2>1, <2>2
  <2>. QED
    BY <1>5, <2>1, <2>3
<1>9. LoadRounds(f, net, sets, loaded)
  <2>. DEFINE g == [i \in 0 .. n |-> IF i = 0 THEN {net} ELSE next(f[i - 1], i)]
  <2>1. ASSUME NEW i \in 0 .. n PROVE f[i] = g[i]
    <3>1. CASE i = 0
      BY <1>7, <3>1
    <3>2. CASE i # 0
      <4>1. i \in 1 .. n
        BY <3>2, <1>1
      <4>. QED
        BY <1>8, <3>2, <4>1
    <3>. QED
      BY <3>1, <3>2
  <2>2. f = g
    BY <1>7, <2>1
  <2>. QED
    BY <2>2 DEF LoadRounds, next
<1>10. PICK h : h = CHOOSE g : LoadRounds(g, net, sets, loaded)
  OBVIOUS
<1>11. LoadRounds(h, net, sets, loaded)
  BY <1>9, <1>10
<1>12. AfterLoad(net, sets, loaded) = h[n]
  BY <1>10 DEF AfterLoad, LoadRounds
<1>. DEFINE e == [i \in 0 .. n |-> IF i = 0 THEN {net} ELSE next(h[i - 1], i)]
<1>13. h = e
  BY <1>11 DEF LoadRounds, next
<1>14. h = [i \in 0 .. n |-> h[i]]
  BY <1>13
<1>15. h[0] = {net} /\ \A i \in 1 .. n : h[i] = next(h[i - 1], i)
  <2>1. 0 \in 0 .. n /\ \A i \in 1 .. n : i \in 0 .. n /\ i # 0
    BY <1>1
  <2>2. h[0] = {net}
    BY <1>13, <2>1
  <2>3. ASSUME NEW i \in 1 .. n PROVE h[i] = next(h[i - 1], i)
    <3>1. i \in 0 .. n /\ i # 0
      BY <2>1
    <3>. QED
      BY <1>13, <3>1
  <2>. QED
    BY <2>2, <2>3
<1>. HIDE DEF e
<1>16. \A i \in 1 .. n : h[i - 1] \in V => h[i] = step[<<h[i - 1], i>>]
  BY <1>5, <1>15
<1>17. History(h, n, V, {net}, step)
  BY <1>1, <1>2, <1>4, <1>14, <1>15, <1>16, IsHistory
<1>18. h \in [0 .. n -> V]
  BY <1>17 DEF History
<1>. QED
  BY <1>12, <1>15, <1>18 DEF next, V, LoadRun

LEMMA LoadFrom ==
  ASSUME NEW net \in Nets, Fresh(net.inst, net.next), LookUps,
         NEW sets, Len(sets) \in Nat, NEW loaded
  PROVE  AfterLoad(net, sets, loaded) \subseteq From(net)
<1>1. PICK f : LoadRun(f, net, sets, loaded) /\ AfterLoad(net, sets, loaded) = f[Len(sets)]
  BY LoadLoop
<1>2. f \in [0 .. Len(sets) -> SUBSET From(net)]
  BY <1>1 DEF LoadRun
<1>. QED
  BY <1>1, <1>2

(* resolve_partitions, one instance after the other.                       *)
PartitionsRounds(f, net, eds, from) ==
  f = [i \in 0 .. Len(Abroad(net, eds, from)) |->
         IF i = 0 THEN {net}
         ELSE UNION {Created(x, net.inst[Abroad(net, eds, from)[i]].name) : x \in f[i - 1]}]

PartitionsRun(f, net, eds, from) ==
  /\ f \in [0 .. Len(Abroad(net, eds, from)) -> SUBSET From(net)] /\ f[0] = {net}
  /\ \A i \in 1 .. Len(Abroad(net, eds, from)) :
       f[i] = UNION {Created(x, net.inst[Abroad(net, eds, from)[i]].name) : x \in f[i - 1]}

LEMMA PartitionsLoop ==
  ASSUME NEW net \in Nets, Fresh(net.inst, net.next), LookUps,
         NEW eds \in Seq(Installed(net.inst)), NEW from
  PROVE  \E f : PartitionsRun(f, net, eds, from) /\ AfterPartitions(net, eds, from) = f[Len(Abroad(net, eds, from))]
<1>. DEFINE n == Len(Abroad(net, eds, from))
            V == SUBSET From(net)
            next(v, i) == UNION {Created(x, net.inst[Abroad(net, eds, from)[i]].name) : x \in v}
            step == [p \in V \X (1 .. n) |-> next(p[1], p[2])]
<1>0. Abroad(net, eds, from) \in Seq(Installed(net.inst))
  BY OnlyFrom DEF Abroad
<1>1. n \in Nat
  BY <1>0
<1>2. {net} \in V
  BY FromSelf
<1>3. ASSUME NEW v \in V, NEW i \in 1 .. n PROVE next(v, i) \in V
  <2>1. Abroad(net, eds, from)[i] \in Installed(net.inst)
    BY <1>0
  <2>2. net.inst[Abroad(net, eds, from)[i]].name \in Names
    BY <2>1 DEF Installed, Nets, Instance
  <2>3. ASSUME NEW x \in v PROVE Created(x, net.inst[Abroad(net, eds, from)[i]].name) \subseteq From(net)
    BY <2>2, MoreFrom
  <2>. QED
    BY <2>3
<1>4. step \in [V \X (1 .. n) -> V]
  BY <1>3
<1>5. \A v \in V, i \in 1 .. n : step[<<v, i>>] = next(v, i)
  OBVIOUS
<1>. HIDE DEF step, V, next
<1>6. PICK f : History(f, n, V, {net}, step)
  BY <1>1, <1>2, <1>4, Histories
<1>7. f = [i \in 0 .. n |-> f[i]] /\ f[0] = {net}
  BY <1>6 DEF History
<1>8. \A i \in 1 .. n : f[i - 1] \in V /\ f[i] = next(f[i - 1], i)
  <2>1. f \in [0 .. n -> V] /\ \A i \in 1 .. n : f[i] = step[<<f[i - 1], i>>]
    BY <1>6 DEF History
  <2>2. \A i \in 1 .. n : i - 1 \in 0 .. n
    BY <1>1
  <2>3. \A i \in 1 .. n : f[i - 1] \in V
    BY <2>1, <2>2
  <2>. QED
    BY <1>5, <2>1, <2>3
<1>9. PartitionsRounds(f, net, eds, from)
  <2>. DEFINE g == [i \in 0 .. n |-> IF i = 0 THEN {net} ELSE next(f[i - 1], i)]
  <2>1. ASSUME NEW i \in 0 .. n PROVE f[i] = g[i]
    <3>1. CASE i = 0
      BY <1>7, <3>1
    <3>2. CASE i # 0
      <4>1. i \in 1 .. n
        BY <3>2, <1>1
      <4>. QED
        BY <1>8, <3>2, <4>1
    <3>. QED
      BY <3>1, <3>2
  <2>2. f = g
    BY <1>7, <2>1
  <2>. QED
    BY <2>2 DEF PartitionsRounds, next
<1>10. PICK h : h = CHOOSE g : PartitionsRounds(g, net, eds, from)
  OBVIOUS
<1>11. PartitionsRounds(h, net, eds, from)
  BY <1>9, <1>10
<1>12. AfterPartitions(net, eds, from) = h[n]
  BY <1>10 DEF AfterPartitions, PartitionsRounds
<1>. DEFINE e == [i \in 0 .. n |-> IF i = 0 THEN {net} ELSE next(h[i - 1], i)]
<1>13. h = e
  BY <1>11 DEF PartitionsRounds, next
<1>14. h = [i \in 0 .. n |-> h[i]]
  BY <1>13
<1>15. h[0] = {net} /\ \A i \in 1 .. n : h[i] = next(h[i - 1], i)
  <2>1. 0 \in 0 .. n /\ \A i \in 1 .. n : i \in 0 .. n /\ i # 0
    BY <1>1
  <2>2. h[0] = {net}
    BY <1>13, <2>1
  <2>3. ASSUME NEW i \in 1 .. n PROVE h[i] = next(h[i - 1], i)
    <3>1. i \in 0 .. n /\ i # 0
      BY <2>1
    <3>. QED
      BY <1>13, <3>1
  <2>. QED
    BY <2>2, <2>3
<1>. HIDE DEF e
<1>16. \A i \in 1 .. n : h[i - 1] \in V => h[i] = step[<<h[i - 1], i>>]
  BY <1>5, <1>15
<1>17. History(h, n, V, {net}, step)
  BY <1>1, <1>2, <1>4, <1>14, <1>15, <1>16, IsHistory
<1>18. h \in [0 .. n -> V]
  BY <1>17 DEF History
<1>. QED
  BY <1>12, <1>15, <1>18 DEF next, V, PartitionsRun

LEMMA PartitionsFrom ==
  ASSUME NEW net \in Nets, Fresh(net.inst, net.next), LookUps,
         NEW eds \in Seq(Installed(net.inst)), NEW from
  PROVE  AfterPartitions(net, eds, from) \subseteq From(net)
<1>1. PICK f : PartitionsRun(f, net, eds, from) /\ AfterPartitions(net, eds, from) = f[Len(Abroad(net, eds, from))]
  BY PartitionsLoop
<1>2. Abroad(net, eds, from) \in Seq(Installed(net.inst))
  BY OnlyFrom DEF Abroad
<1>3. Len(Abroad(net, eds, from)) \in Nat
  BY <1>2
<1>4. f \in [0 .. Len(Abroad(net, eds, from)) -> SUBSET From(net)]
  BY <1>1 DEF PartitionsRun
<1>. QED
  BY <1>1, <1>3, <1>4

-----------------------------------------------------------------------------
(* The replicas and the paths.                                             *)

LEMMA ReplicasAre ==
  ASSUME LookUps, NEW is \in [Descs -> Instance \cup {None}]
  PROVE  /\ Len(Replicas(is)) = Len(names) /\ DOMAIN Replicas(is) = 1 .. Len(names) /\ Len(names) \in Nat
         /\ \A i \in 1 .. Len(names) :
              /\ Replicas(is)[i] \in Seq(Descs) /\ Ascending(Replicas(is)[i])
              /\ ToSet(Replicas(is)[i]) = {ed \in Installed(is) : is[ed].name = names[i]}
<1>1. DOMAIN names = 1 .. Len(names) /\ Len(names) \in Nat
  BY DEF LookUps
<1>2. ASSUME NEW i \in 1 .. Len(names)
      PROVE  /\ Replicas(is)[i] \in Seq(Descs) /\ Ascending(Replicas(is)[i])
             /\ ToSet(Replicas(is)[i]) = {ed \in Installed(is) : is[ed].name = names[i]}
  <2>1. PICK S : S = {ed \in Installed(is) : is[ed].name = names[i]}
    OBVIOUS
  <2>2. S \subseteq Descs
    BY <2>1 DEF Installed
  <2>3. Replicas(is)[i] = OldestFirst(S)
    BY <1>1, <2>1 DEF Replicas
  <2>4. OldestFirst(S) \in Seq(Descs) /\ ToSet(OldestFirst(S)) = Descs \cap S /\ Ascending(OldestFirst(S))
    BY OldestFirstOrdered
  <2>. QED
    BY <2>1, <2>2, <2>3, <2>4
<1>3. Len(Replicas(is)) = Len(names) /\ DOMAIN Replicas(is) = 1 .. Len(names)
  BY <1>1 DEF Replicas
<1>. QED
  BY <1>1, <1>2, <1>3

\* get_updated_replicas leaves some of the replicas of every set that has any.
Updated(sets, is, eds) ==
  /\ Len(sets) = Len(names) /\ DOMAIN sets = 1 .. Len(names) /\ Len(names) \in Nat
  /\ \A i \in 1 .. Len(names) :
       /\ sets[i] \in Seq(Descs) /\ sets[i] = LeaveAllAffined(Replicas(is)[i], eds)
       /\ ToSet(sets[i]) \subseteq ToSet(Replicas(is)[i])
       /\ ToSet(Replicas(is)[i]) # {} => ToSet(sets[i]) # {}

LEMMA UpdatedAre ==
  ASSUME LookUps, NEW is \in [Descs -> Instance \cup {None}], NEW eds \in Seq(Descs)
  PROVE  Updated(UpdatedReplicas(Replicas(is), eds), is, eds)
<1>0. PICK sets : sets = UpdatedReplicas(Replicas(is), eds)
  OBVIOUS
<1>1. /\ DOMAIN Replicas(is) = 1 .. Len(names) /\ Len(names) \in Nat
      /\ \A i \in 1 .. Len(names) : Replicas(is)[i] \in Seq(Descs)
  BY ReplicasAre
<1>2. Len(sets) = Len(names) /\ DOMAIN sets = 1 .. Len(names)
  BY <1>0, <1>1 DEF UpdatedReplicas
<1>3. \A i \in 1 .. Len(names) : sets[i] = LeaveAllAffined(Replicas(is)[i], eds)
  BY <1>0, <1>1 DEF UpdatedReplicas
<1>. QED
  BY <1>0, <1>1, <1>2, <1>3, LeaveAllAffinedKeeps DEF Updated

LEMMA SwitchTypes ==
  ASSUME LookUps, NEW is \in [Descs -> Instance \cup {None}], NEW ed \in Descs
  PROVE  /\ SwitchOf(is, ed) \in Switches \cup {None}
         /\ SwitchOf(is, ed) # None => ed \in Installed(is)
<1>1. CASE is[ed] = None
  BY <1>1 DEF SwitchOf
<1>2. CASE is[ed] # None
  <2>1. is[ed] \in Instance
    BY <1>2
  <2>2. is[ed].mac \in Machines
    BY <2>1 DEF Instance
  <2>. QED
    BY <1>2, <2>2 DEF SwitchOf, Installed, LookUps
<1>. QED
  BY <1>1, <1>2

LEMMA LeastDesc ==
  ASSUME NEW S \in SUBSET Descs, S # {}
  PROVE  \E ed \in S : \A d \in S : ed <= d
<1>1. S \subseteq Nat
  BY DEF Descs
<1>2. PICK m \in S : \A n \in S : ~(<<n, m>> \in OpToRel(<, Nat))
  BY <1>1, NatLessThanWellFounded, WFMin
<1>3. \A n \in S : ~(n < m)
  BY <1>1, <1>2 DEF OpToRel
<1>. QED
  BY <1>1, <1>3

LEMMA ElemDescriptorType ==
  ASSUME NEW map, NEW s
  PROVE  \/ ElemDescriptor(map, s) = None
         \/ ElemDescriptor(map, s) \in Descs /\ map[ElemDescriptor(map, s)] = s
<1>. DEFINE E == {ed \in Descs : map[ed] = s}
<1>1. CASE E = {}
  BY <1>1 DEF ElemDescriptor
<1>2. CASE E # {}
  <2>1. PICK e : e = CHOOSE ed \in E : \A d \in E : ed <= d
    OBVIOUS
  <2>2. ElemDescriptor(map, s) = e
    BY <1>2, <2>1 DEF ElemDescriptor
  <2>3. \E ed \in E : \A d \in E : ed <= d
    BY <1>2, LeastDesc
  <2>. HIDE DEF E
  <2>4. e \in E
    BY <2>1, <2>3
  <2>. QED
    BY <2>2, <2>4 DEF E
<1>. QED
  BY <1>1, <1>2

LEMMA MappedType ==
  ASSUME TypeOK, NEW sets
  PROVE  Mapped(sets) \in [Descs -> Switches \cup {None}]
<1>1. LookUps /\ inst \in [Descs -> Instance \cup {None}]
  BY DEF TypeOK, LookUps
<1>2. \A ed \in Descs : SwitchOf(inst, ed) \in Switches \cup {None}
  BY <1>1, SwitchTypes
<1>3. \A ed \in Descs : elemToSwitch[ed] \in Switches \cup {None}
  BY DEF TypeOK
<1>. QED
  BY <1>2, <1>3 DEF Mapped

LEMMA PathIs ==
  ASSUME LookUps, NEW is \in [Descs -> Instance \cup {None}],
         NEW c \in Chains(Replicas(is)), NEW from, NEW to, NEW p, p = SwitchPath(is, c, from, to)
  PROVE  /\ Len(p) = Len(names) + 2 /\ DOMAIN p = 1 .. Len(names) + 2 /\ p[1] = from /\ p[Len(names) + 2] = to
         /\ \A i \in 1 .. Len(names) : p[i + 1] = SwitchOf(is, c[i]) /\ c[i] \in ToSet(Replicas(is)[i])
<1>1. PICK n \in Nat : n = Len(names)
  BY DEF LookUps
<1>2. DOMAIN Replicas(is) = 1 .. n /\ \A i \in 1 .. n : Replicas(is)[i] \in Seq(Descs)
  BY <1>1, ReplicasAre
<1>3. DOMAIN c = 1 .. n /\ \A i \in 1 .. n : Contains(Replicas(is)[i], c[i])
  BY <1>2 DEF Chains
<1>4. \A i \in 1 .. n : c[i] \in ToSet(Replicas(is)[i])
  <2>1. ASSUME NEW i \in 1 .. n PROVE c[i] \in ToSet(Replicas(is)[i])
    <3>1. PICK r \in Seq(Descs) : r = Replicas(is)[i]
      BY <1>2
    <3>2. Contains(r, c[i]) /\ DOMAIN r = 1 .. Len(r)
      BY <1>3, <3>1
    <3>. QED
      BY <3>1, <3>2 DEF Contains, ToSet
  <2>. QED
    BY <2>1
<1>. DEFINE D == {from, to} \cup {SwitchOf(is, c[i]) : i \in 1 .. n}
            mid == [i \in 1 .. n |-> SwitchOf(is, c[i])]
<1>5. mid \in Seq(D) /\ Len(mid) = n /\ \A i \in 1 .. n : mid[i] = SwitchOf(is, c[i])
  OBVIOUS
<1>6. from \in D /\ to \in D
  OBVIOUS
<1>7. p = <<from>> \o mid \o <<to>>
  BY <1>3 DEF SwitchPath
<1>. HIDE DEF mid, D
<1>8. PICK q : q = <<from>> \o mid
  OBVIOUS
<1>9. q \in Seq(D) /\ Len(q) = n + 1 /\ q[1] = from /\ \A i \in 1 .. n : q[i + 1] = mid[i]
  BY <1>5, <1>6, <1>8
<1>10. p = q \o <<to>>
  BY <1>7, <1>8
<1>11. p \in Seq(D) /\ Len(p) = n + 2 /\ p[n + 2] = to /\ \A i \in 1 .. n + 1 : p[i] = q[i]
  BY <1>6, <1>9, <1>10
<1>12. p[1] = from /\ \A i \in 1 .. n : p[i + 1] = q[i + 1]
  BY <1>9, <1>11
<1>. QED
  BY <1>1, <1>4, <1>5, <1>9, <1>11, <1>12

-----------------------------------------------------------------------------
(* A packet.                                                               *)

\* The instances a source is affined to have been given out.
AffinityPast == \A s \in Sources : \A ed \in ToSet(affinity[s]) : ed < nextDesc

SteeringInv == TypeOK /\ Fresh(inst, nextDesc) /\ AffinityPast

\* The packet of a flow was steered along path, in the network placed.
SteeredTo(src, from, to, placed, congested, path) ==
  LET is   == placed.inst
      sets == UpdatedReplicas(Replicas(inst), affinity[src])
      eds  == ElementInstances(placed.map, path)
  IN  /\ Complete(inst) /\ HostsKnown(is)
      /\ path \in ShortestPaths({SwitchPath(is, c, from, to) : c \in Chains(Replicas(is))},
                                Subgraph(sets, from, to), congested, from, to)
      /\ eds \in Seq(Installed(is))
      /\ affinity' = [affinity EXCEPT ![src] = IF @ = << >> THEN NewAffinities(is, eds) ELSE @]
      /\ flow' = [result |-> "steered", eds |-> eds, sets |-> Replicas(is),
                  back |-> ReverseElements(is, eds), oneWay |-> OneWayOf(is, eds),
                  affined |-> ToSet(affinity[src]),
                  away |-> Away(placed, ToSet(affinity[src]), from, to),
                  joined |-> Asked(sets, from, to) \subseteq overlay,
                  apart |-> Apart(is, placed.map) /\ congested = {}]

\* What became of a packet: lost, left alone or steered; and of the network.
Handled(src, from, to, placed, after) ==
  /\ placed \in From(Network(inst, nextDesc, elemToSwitch))
  /\ after \in From(placed) /\ Becomes(after)
  /\ \/ flow' \in {Lost, Unlearned} /\ affinity' = affinity
     \/ \E congested, path : SteeredTo(src, from, to, placed, congested, path)

LEMMA RaisesIsHandled ==
  ASSUME NEW src, NEW from, NEW to,
         NEW placed \in From(Network(inst, nextDesc, elemToSwitch)), Raises(placed)
  PROVE  Handled(src, from, to, placed, placed)
<1>1. placed \in Nets /\ Fresh(placed.inst, placed.next)
  BY DEF From
<1>2. placed \in From(placed)
  BY <1>1, FromSelf
<1>. QED
  BY <1>2 DEF Handled, Raises

LEMMA ShortestLength ==
  ASSUME LookUps, NEW is \in [Descs -> Instance \cup {None}], NEW nodes, NEW congested, NEW from, NEW to,
         NEW path \in ShortestPaths({SwitchPath(is, c, from, to) : c \in Chains(Replicas(is))},
                                    nodes, congested, from, to)
  PROVE  Len(path) - 2 \in Nat
<1>1. path = <<from, to>> \/ \E c \in Chains(Replicas(is)) : path = SwitchPath(is, c, from, to)
  BY DEF ShortestPaths
<1>2. Len(names) \in Nat
  BY DEF LookUps
<1>3. ASSUME NEW c \in Chains(Replicas(is)), path = SwitchPath(is, c, from, to) PROVE Len(path) = Len(names) + 2
  BY <1>3, PathIs
<1>4. CASE path = <<from, to>>
  BY <1>4
<1>5. CASE \E c \in Chains(Replicas(is)) : path = SwitchPath(is, c, from, to)
  BY <1>2, <1>3, <1>5
<1>. QED
  BY <1>1, <1>4, <1>5

LEMMA SteeredIsHandled ==
  ASSUME LookUps, NEW src, NEW from, NEW to, NEW congested, Complete(inst),
         NEW placed \in From(Network(inst, nextDesc, elemToSwitch)), HostsKnown(placed.inst),
         NEW sets, sets = UpdatedReplicas(Replicas(inst), affinity[src]),
         Steered(src, from, to, placed, sets, congested)
  PROVE  \E after : Handled(src, from, to, placed, after)
<1>. DEFINE is == placed.inst
            paths == {SwitchPath(is, c, from, to) : c \in Chains(Replicas(is))}
            eds(path) == ElementInstances(placed.map, path)
            bad(path) == \E i \in DOMAIN eds(path) :
                           IF eds(path)[i] = None THEN TRUE ELSE SwitchOf(is, eds(path)[i]) = None
            Goes(path, after) ==
              /\ Becomes(after)
              /\ affinity' = [affinity EXCEPT ![src] = IF @ = << >> THEN NewAffinities(is, eds(path)) ELSE @]
              /\ flow' = [result |-> "steered", eds |-> eds(path), sets |-> Replicas(is),
                          back |-> ReverseElements(is, eds(path)), oneWay |-> OneWayOf(is, eds(path)),
                          affined |-> ToSet(affinity[src]),
                          away |-> Away(placed, ToSet(affinity[src]), from, to),
                          joined |-> Asked(sets, from, to) \subseteq overlay,
                          apart |-> Apart(is, placed.map) /\ congested = {}]
            steps(path) ==
              \E after \in AfterPartitions(placed, eds(path), from) :
                 \/ Abroad(placed, eds(path), from) # << >> /\ Raises(after)
                 \/ Goes(path, after)
<1>1. \/ Raises(placed)
      \/ \E path \in ShortestPaths(paths, Subgraph(sets, from, to), congested, from, to) :
           IF bad(path) THEN Raises(placed) ELSE steps(path)
  BY DEF Steered
<1>2. CASE Raises(placed)
  BY <1>2, RaisesIsHandled
<1>3. ASSUME NEW path \in ShortestPaths(paths, Subgraph(sets, from, to), congested, from, to),
             ~bad(path), steps(path)
      PROVE  \E after : Handled(src, from, to, placed, after)
  <2>1. placed \in Nets /\ Fresh(placed.inst, placed.next) /\ is \in [Descs -> Instance \cup {None}]
    BY NetTypes DEF From
  <2>2. Len(path) - 2 \in Nat
    BY <2>1, ShortestLength
  <2>3. eds(path) \in Seq(Installed(is))
    <3>1. PICK m \in Nat : m = Len(path) - 2
      BY <2>2
    <3>2. eds(path) = [i \in 1 .. m |-> ElemDescriptor(placed.map, path[i + 1])]
      BY <3>1 DEF ElementInstances
    <3>3. ASSUME NEW i \in 1 .. m PROVE eds(path)[i] \in Installed(is)
      <4>1. i \in DOMAIN eds(path) /\ eds(path)[i] = ElemDescriptor(placed.map, path[i + 1])
        BY <3>2
      <4>2. eds(path)[i] # None /\ SwitchOf(is, eds(path)[i]) # None
        BY <1>3, <4>1
      <4>3. eds(path)[i] \in Descs
        BY <4>1, <4>2, ElemDescriptorType
      <4>. QED
        BY <2>1, <4>2, <4>3, SwitchTypes
    <3>4. DOMAIN eds(path) = 1 .. m /\ eds(path) = [i \in 1 .. m |-> eds(path)[i]]
      BY <3>2
    <3>. HIDE DEF eds, is
    <3>. QED
      BY <3>3, <3>4
  <2>4. PICK after \in AfterPartitions(placed, eds(path), from) :
               \/ Abroad(placed, eds(path), from) # << >> /\ Raises(after)
               \/ Goes(path, after)
    BY <1>3
  <2>5. after \in From(placed)
    BY <2>1, <2>3, PartitionsFrom
  <2>6. CASE Raises(after)
    BY <2>5, <2>6 DEF Handled, Raises
  <2>7. CASE Goes(path, after)
    <3>1. SteeredTo(src, from, to, placed, congested, path)
      BY <1>3, <2>3, <2>7 DEF SteeredTo
    <3>. QED
      BY <2>5, <2>7, <3>1 DEF Handled
  <2>. QED
    BY <2>4, <2>6, <2>7
<1>4. CASE \E path \in ShortestPaths(paths, Subgraph(sets, from, to), congested, from, to) :
             IF bad(path) THEN Raises(placed) ELSE steps(path)
  <2>1. PICK path \in ShortestPaths(paths, Subgraph(sets, from, to), congested, from, to) :
          IF bad(path) THEN Raises(placed) ELSE steps(path)
    BY <1>4
  <2>. HIDE DEF paths, steps, bad
  <2>. QED
    BY <1>2, <1>3, <2>1
<1>. QED
  BY <1>1, <1>2, <1>4

LEMMA PacketIsHandled ==
  ASSUME SteeringInv, NEW f \in Flows, NEW from, NEW to, PacketIn(f.src, from, to)
  PROVE  /\ \E placed, after : Handled(f.src, from, to, placed, after)
         /\ names' = names /\ up' = up /\ hosts' = hosts /\ f.src \in Sources
<1>. DEFINE src == f.src
            sets == UpdatedReplicas(Replicas(inst), affinity[src])
            now  == Network(inst, nextDesc, elemToSwitch)
            net  == Network(inst, nextDesc, Mapped(sets))
<1>1. /\ LookUps /\ inst \in [Descs -> Instance \cup {None}] /\ nextDesc \in 1 .. MaxDesc + 1
      /\ elemToSwitch \in [Descs -> Switches \cup {None}] /\ Fresh(inst, nextDesc)
      /\ affinity \in [Sources -> Seq(Descs)] /\ MaxDesc \in Nat /\ overlay \in SUBSET up
  BY SteeringAssumption DEF SteeringInv, TypeOK, LookUps
<1>2. src \in Sources
  BY DEF Sources
<1>3. affinity[src] \in Seq(Descs)
  BY <1>1, <1>2
<1>4. now \in Nets /\ net \in Nets
  BY <1>1, MappedType DEF Nets, Network, SteeringInv
<1>5. now.inst = inst /\ now.next = nextDesc /\ net.inst = inst /\ net.next = nextDesc
      /\ now.map = elemToSwitch /\ now.overlay = overlay
  BY DEF Network
<1>6. net \in From(now) /\ Fresh(net.inst, net.next)
  <2>1. nextDesc >= nextDesc
    BY <1>1
  <2>. HIDE DEF net, now
  <2>. QED
    BY <1>1, <1>4, <1>5, <2>1 DEF From
<1>7. Len(sets) \in Nat
  BY <1>1, <1>3, UpdatedAre DEF Updated
<1>. DEFINE Placed(placed, congested) ==
              /\ Complete(inst) /\ HostsKnown(placed.inst)
              /\ Steered(src, from, to, placed, sets, congested)
<1>8. names' = names /\ up' = up /\ hosts' = hosts
  BY DEF PacketIn
<1>9. \/ /\ flow' = Unlearned
         /\ UNCHANGED <<inst, nextDesc, overlay, elemToSwitch, affinity>>
      \/ Raises(net)
      \/ \E loaded, congested : \E placed \in AfterLoad(net, sets, loaded) :
           Raises(placed) \/ Placed(placed, congested)
  BY DEF PacketIn
<1>12. CASE /\ flow' = Unlearned
            /\ UNCHANGED <<inst, nextDesc, overlay, elemToSwitch, affinity>>
  <2>1. now \in From(now)
    BY <1>1, <1>4, <1>5, FromSelf
  <2>2. Becomes(now)
    BY <1>5, <1>12 DEF Becomes
  <2>. HIDE DEF now
  <2>3. Handled(src, from, to, now, now)
    BY <1>12, <2>1, <2>2 DEF Handled, now
  <2>. QED
    BY <1>2, <1>8, <2>3
<1>10. CASE Raises(net)
  BY <1>2, <1>6, <1>8, <1>10, RaisesIsHandled
<1>11. CASE \E loaded, congested : \E placed \in AfterLoad(net, sets, loaded) :
              Raises(placed) \/ Placed(placed, congested)
  <2>1. PICK loaded, congested : \E placed \in AfterLoad(net, sets, loaded) :
              Raises(placed) \/ Placed(placed, congested)
    BY <1>11
  <2>2. PICK placed \in AfterLoad(net, sets, loaded) : Raises(placed) \/ Placed(placed, congested)
    BY <2>1
  <2>3. placed \in From(net)
    <3>. HIDE DEF net, sets
    <3>. QED
      BY <1>1, <1>4, <1>6, <1>7, LoadFrom
  <2>4. placed \in From(now)
    <3>. HIDE DEF net, now, sets
    <3>. QED
      BY <1>4, <1>6, <2>3, FromFrom
  <2>5. CASE Raises(placed)
    BY <1>2, <1>8, <2>4, <2>5, RaisesIsHandled
  <2>6. CASE Placed(placed, congested)
    BY <1>1, <1>2, <1>8, <2>4, <2>6, SteeredIsHandled
  <2>. QED
    BY <2>2, <2>5, <2>6
<1>. QED
  BY <1>9, <1>10, <1>11, <1>12

(* The descriptors of a steered packet and what the next ones find.        *)
LEMMA NewAffinitiesFrom ==
  ASSUME NEW is, NEW eds
  PROVE  NewAffinities(is, eds) \in Seq(Descs) /\ ToSet(NewAffinities(is, eds)) \subseteq ToSet(eds)
<1>1. PICK S : S = {ed \in ToSet(eds) : is[ed].name \in Affine}
  OBVIOUS
<1>2. NewAffinities(is, eds) = OldestFirst(S) /\ S \subseteq ToSet(eds)
  BY <1>1 DEF NewAffinities
<1>3. OldestFirst(S) \in Seq(Descs) /\ ToSet(OldestFirst(S)) = Descs \cap S
  BY OldestFirstOrdered
<1>. QED
  BY <1>2, <1>3

LEMMA HandledKeeps ==
  ASSUME SteeringInv, NEW src \in Sources, NEW from, NEW to, NEW placed, NEW after,
         Handled(src, from, to, placed, after), names' = names, up' = up, hosts' = hosts
  PROVE  SteeringInv'
<1>. DEFINE now == Network(inst, nextDesc, elemToSwitch)
<1>1. placed \in From(now) /\ after \in From(placed) /\ Becomes(after)
  BY DEF Handled
<1>2. placed \in Nets /\ after \in Nets /\ Fresh(after.inst, after.next) /\ Fresh(placed.inst, placed.next)
  BY <1>1 DEF From
<1>3. /\ after.inst \in [Descs -> Instance \cup {None}] /\ after.next \in 1 .. MaxDesc + 1
      /\ after.map \in [Descs -> Switches \cup {None}] /\ after.next \in Nat
      /\ placed.next \in Nat /\ MaxDesc \in Nat /\ after.overlay \in SUBSET up
  BY <1>2, NetTypes
<1>4. now.next = nextDesc /\ now.inst = inst
  BY DEF Network
<1>5. placed.next >= nextDesc /\ after.next >= placed.next
  <2>. HIDE DEF now
  <2>. QED
    BY <1>1, <1>4 DEF From
<1>6. inst' = after.inst /\ nextDesc' = after.next /\ elemToSwitch' = after.map /\ overlay' = after.overlay
  BY <1>1 DEF Becomes
<1>7. nextDesc \in Nat /\ nextDesc' \in Nat /\ nextDesc' >= nextDesc /\ nextDesc' >= placed.next
  BY <1>3, <1>5, <1>6 DEF SteeringInv, TypeOK
<1>8. affinity \in [Sources -> Seq(Descs)] /\ AffinityPast
  BY DEF SteeringInv, TypeOK
<1>9. \A s \in Sources : \A ed \in ToSet(affinity[s]) : ed \in Nat /\ ed < nextDesc'
  <2>1. ASSUME NEW s \in Sources, NEW ed \in ToSet(affinity[s]) PROVE ed \in Nat /\ ed < nextDesc'
    <3>1. ed \in Descs
      BY <1>8 DEF ToSet
    <3>2. ed \in Nat /\ ed < nextDesc
      BY <1>8, <3>1 DEF Descs, AffinityPast
    <3>. QED
      BY <1>7, <3>2
  <2>. QED
    BY <2>1
<1>10. ASSUME /\ affinity' \in [Sources -> Seq(Descs)]
              /\ \A s \in Sources : \A ed \in ToSet(affinity'[s]) : ed < nextDesc'
              /\ flow'.result \in {"none", "lost", "unlearned", "steered"}
              /\ flow'.result = "steered" => flow'.eds \in Seq(Descs)
       PROVE  SteeringInv'
  <2>1. TypeOK'
    BY <1>3, <1>6, <1>10 DEF TypeOK, SteeringInv
  <2>2. Fresh(inst, nextDesc)'
    BY <1>2, <1>6 DEF Fresh
  <2>3. AffinityPast'
    BY <1>10 DEF AffinityPast
  <2>. QED
    BY <2>1, <2>2, <2>3 DEF SteeringInv
<1>11. CASE flow' \in {Lost, Unlearned} /\ affinity' = affinity
  BY <1>8, <1>9, <1>10, <1>11 DEF Lost, Unlearned
<1>12. ASSUME NEW congested, NEW path, SteeredTo(src, from, to, placed, congested, path)
       PROVE  SteeringInv'
  <2>1. PICK eds : eds = ElementInstances(placed.map, path)
    OBVIOUS
  <2>2. /\ eds \in Seq(Installed(placed.inst)) /\ flow'.result = "steered" /\ flow'.eds = eds
        /\ affinity' = [affinity EXCEPT ![src] = IF @ = << >> THEN NewAffinities(placed.inst, eds) ELSE @]
    BY <1>12, <2>1 DEF SteeredTo
  <2>3. eds \in Seq(Descs)
    BY <2>2 DEF Installed
  <2>4. PICK new \in Seq(Descs) : new = NewAffinities(placed.inst, eds) /\ ToSet(new) \subseteq ToSet(eds)
    BY NewAffinitiesFrom
  <2>5. ASSUME NEW ed \in ToSet(new) PROVE ed < nextDesc'
    <3>1. ed \in Installed(placed.inst)
      <4>1. PICK i \in DOMAIN eds : ed = eds[i]
        BY <2>4 DEF ToSet
      <4>. QED
        BY <2>2, <4>1
    <3>2. ed \in Descs /\ ed \in Nat /\ placed.inst[ed] # None
      BY <3>1 DEF Installed, Descs
    <3>3. ~(ed >= placed.next)
      BY <1>2, <3>2 DEF Fresh
    <3>. QED
      BY <1>3, <1>7, <3>2, <3>3
  <2>6. affinity' \in [Sources -> Seq(Descs)]
    BY <1>8, <2>2, <2>4
  <2>7. ASSUME NEW s \in Sources PROVE \A ed \in ToSet(affinity'[s]) : ed < nextDesc'
    <3>1. affinity'[s] = affinity[s] \/ affinity'[s] = new
      BY <1>8, <2>2, <2>4
    <3>. QED
      BY <1>9, <2>5, <3>1
  <2>. QED
    BY <1>10, <2>2, <2>3, <2>6, <2>7
<1>. QED
  BY <1>11, <1>12 DEF Handled

LEMMA SteeringInductive == Spec => []SteeringInv
<1>1. Init => SteeringInv
  <2>1. SUFFICES ASSUME Init PROVE SteeringInv
    OBVIOUS
  <2>2. MaxDesc \in Nat /\ Home \in [Machines -> Early \cup {None}] /\ Early \subseteq Switches
    BY SteeringAssumption
  <2>3. << >> \in Seq(Names) /\ << >> \in Seq(Descs)
    OBVIOUS
  <2>4. names \in Seq(Names) /\ affinity \in [Sources -> Seq(Descs)]
    BY <2>1, <2>3 DEF Init
  <2>5. TypeOK
    BY <2>1, <2>2, <2>4 DEF Init, TypeOK, NoFlow
  <2>6. Fresh(inst, nextDesc)
    BY <2>1 DEF Init, Fresh
  <2>7. AffinityPast
    BY <2>1 DEF Init, AffinityPast, ToSet
  <2>. QED
    BY <2>5, <2>6, <2>7 DEF SteeringInv
<1>2. SteeringInv /\ [Next]_vars => SteeringInv'
  <2>1. SUFFICES ASSUME SteeringInv, [Next]_vars PROVE SteeringInv'
    OBVIOUS
  <2>2. MaxDesc \in Nat /\ nextDesc \in Nat /\ nextDesc \in 1 .. MaxDesc + 1
    BY <2>1, SteeringAssumption DEF SteeringInv, TypeOK
  <2>3. ASSUME NEW f \in Flows, NEW from, NEW to, PacketIn(f.src, from, to) PROVE SteeringInv'
    <3>2. /\ \E placed, after : Handled(f.src, from, to, placed, after)
          /\ names' = names /\ up' = up /\ hosts' = hosts /\ f.src \in Sources
      BY <2>1, <2>3, PacketIsHandled
    <3>. QED
      BY <2>1, <3>2, HandledKeeps
  <2>4. ASSUME NEW n \in Names, NEW m \in Machines, Install(n, m) PROVE SteeringInv'
    <3>1. names' \in Seq(Names)
      <4>1. names \in Seq(Names)
        BY <2>1 DEF SteeringInv, TypeOK
      <4>2. names' = names \/ names' = Append(names, n)
        BY <2>4 DEF Install
      <4>. QED
        BY <4>1, <4>2
    <3>2. [name |-> n, mac |-> m] \in Instance
      BY DEF Instance
    <3>3. /\ inst' = [inst EXCEPT ![nextDesc] = [name |-> n, mac |-> m]] /\ nextDesc' = nextDesc + 1
          /\ nextDesc <= MaxDesc /\ flow' = NoFlow
          /\ hosts' = hosts /\ elemToSwitch' = elemToSwitch /\ affinity' = affinity
          /\ up' = up /\ overlay' = up
      BY <2>4 DEF Install
    <3>4. inst' \in [Descs -> Instance \cup {None}]
      BY <2>1, <3>2, <3>3 DEF SteeringInv, TypeOK
    <3>5. nextDesc' \in 1 .. MaxDesc + 1
      BY <2>2, <3>3
    <3>6. TypeOK'
      BY <2>1, <3>1, <3>3, <3>4, <3>5 DEF SteeringInv, TypeOK, NoFlow
    <3>7. Fresh(inst, nextDesc)'
      <4>1. ASSUME NEW ed \in Descs, ed >= nextDesc' PROVE inst'[ed] = None
        <5>1. ed \in Nat /\ ed # nextDesc /\ ed >= nextDesc
          BY <2>2, <3>3, <4>1 DEF Descs
        <5>2. inst[ed] = None
          BY <2>1, <5>1 DEF SteeringInv, Fresh
        <5>. QED
          BY <2>1, <3>3, <5>1, <5>2 DEF SteeringInv, TypeOK
      <4>. QED
        BY <4>1 DEF Fresh
    <3>8. AffinityPast'
      <4>1. ASSUME NEW s \in Sources, NEW ed \in ToSet(affinity[s]) PROVE ed < nextDesc'
        <5>1. ed \in Descs
          BY <2>1 DEF SteeringInv, TypeOK, ToSet
        <5>2. ed \in Nat /\ ed < nextDesc
          BY <2>1, <5>1 DEF Descs, SteeringInv, AffinityPast
        <5>. QED
          BY <2>2, <3>3, <5>2
      <4>. QED
        BY <3>3, <4>1 DEF AffinityPast
    <3>. QED
      BY <3>6, <3>7, <3>8 DEF SteeringInv
  <2>5. ASSUME NEW n \in Names, SteerTraffic(n) PROVE SteeringInv'
    <3>1. PICK ed \in Descs : Becomes([Network(inst, nextDesc, elemToSwitch) EXCEPT !.map[ed] = None])
      BY <2>5 DEF SteerTraffic, Redirected
    <3>2. /\ inst' = inst /\ nextDesc' = nextDesc /\ elemToSwitch' = [elemToSwitch EXCEPT ![ed] = None]
          /\ overlay' = overlay
      BY <3>1 DEF Becomes, Network
    <3>3. names' = names /\ up' = up /\ hosts' = hosts /\ affinity' = affinity /\ flow' = NoFlow
      BY <2>5 DEF SteerTraffic
    <3>4. TypeOK'
      BY <2>1, <3>2, <3>3 DEF SteeringInv, TypeOK, NoFlow
    <3>. QED
      BY <2>1, <3>2, <3>3, <3>4 DEF SteeringInv, Fresh, AffinityPast
  <2>6. ASSUME NEW ed \in Descs, RemoveElem(ed) PROVE SteeringInv'
    <3>1. TypeOK'
      BY <2>1, <2>6 DEF SteeringInv, TypeOK, NoFlow, RemoveElem
    <3>. QED
      BY <2>1, <2>6, <3>1 DEF SteeringInv, TypeOK, Fresh, AffinityPast, RemoveElem
  <2>7. ASSUME NEW m \in Machines, NEW s \in Switches \cup {None}, HostEvent(m, s) PROVE SteeringInv'
    <3>1. TypeOK'
      BY <2>1, <2>7 DEF SteeringInv, TypeOK, NoFlow, HostEvent
    <3>. QED
      BY <2>1, <2>7, <3>1 DEF SteeringInv, Fresh, AffinityPast, HostEvent
  <2>9. ASSUME NEW s \in Switches, ConnectionUp(s) PROVE SteeringInv'
    <3>1. TypeOK'
      BY <2>1, <2>9 DEF SteeringInv, TypeOK, NoFlow, ConnectionUp
    <3>. QED
      BY <2>1, <2>9, <3>1 DEF SteeringInv, Fresh, AffinityPast, ConnectionUp
  <2>8. CASE UNCHANGED vars
    BY <2>1, <2>8 DEF vars, SteeringInv, TypeOK, Fresh, AffinityPast
  <2>. QED
    BY <2>1, <2>3, <2>4, <2>5, <2>6, <2>7, <2>8, <2>9 DEF Next
<1>. QED
  BY <1>1, <1>2, PTL DEF Spec

-----------------------------------------------------------------------------
(* Which instances a flow passes.                                          *)

\* With an instance left for every element there is a path in the subgraph, if
\* the overlay has the switches.
LEMMA PathExists ==
  ASSUME SteeringInv, NEW src \in Sources, NEW from, NEW to, Complete(inst),
         NEW placed \in From(Network(inst, nextDesc, elemToSwitch)),
         NEW sets, sets = UpdatedReplicas(Replicas(inst), affinity[src]),
         Asked(sets, from, to) \subseteq overlay
  PROVE  \E c \in Chains(Replicas(placed.inst)) :
           ToSet(SwitchPath(placed.inst, c, from, to)) \subseteq Subgraph(sets, from, to)
<1>. DEFINE is == placed.inst
            now == Network(inst, nextDesc, elemToSwitch)
<1>1. /\ LookUps /\ inst \in [Descs -> Instance \cup {None}] /\ Fresh(inst, nextDesc)
      /\ affinity[src] \in Seq(Descs) /\ nextDesc \in Nat
  BY SteeringAssumption DEF SteeringInv, TypeOK, LookUps
<1>2. is \in [Descs -> Instance \cup {None}] /\ \A ed \in Descs : ed < nextDesc => is[ed] = inst[ed]
  <2>1. now.next = nextDesc /\ now.inst = inst /\ placed \in From(now)
    BY DEF Network
  <2>. HIDE DEF now
  <2>2. placed \in Nets
    BY <2>1 DEF From
  <2>. QED
    BY <2>1, <2>2, NetTypes DEF From
<1>3. PICK n \in Nat : n = Len(names)
  BY <1>1 DEF LookUps
<1>4. ASSUME NEW ed \in Installed(inst) PROVE is[ed] = inst[ed] /\ ed \in Installed(is)
  <2>1. ed \in Descs /\ ed \in Nat /\ inst[ed] # None
    BY DEF Installed, Descs
  <2>2. ed < nextDesc
    BY <1>1, <2>1 DEF Fresh
  <2>. QED
    BY <1>2, <2>1, <2>2 DEF Installed
<1>. HIDE DEF is, now
<1>5. /\ DOMAIN Replicas(inst) = 1 .. n
      /\ \A i \in 1 .. n : ToSet(Replicas(inst)[i]) = {ed \in Installed(inst) : inst[ed].name = names[i]}
  BY <1>1, <1>3, ReplicasAre
<1>6. /\ DOMAIN Replicas(is) = 1 .. n
      /\ \A i \in 1 .. n : /\ Replicas(is)[i] \in Seq(Descs)
                           /\ ToSet(Replicas(is)[i]) = {ed \in Installed(is) : is[ed].name = names[i]}
  BY <1>1, <1>2, <1>3, ReplicasAre
<1>7. /\ DOMAIN sets = 1 .. n
      /\ \A i \in 1 .. n : /\ ToSet(sets[i]) \subseteq ToSet(Replicas(inst)[i])
                           /\ ToSet(Replicas(inst)[i]) # {} => ToSet(sets[i]) # {}
  <2>1. Updated(sets, inst, affinity[src])
    BY <1>1, UpdatedAre
  <2>. QED
    BY <1>3, <2>1 DEF Updated
<1>8. ASSUME NEW i \in 1 .. n PROVE ToSet(sets[i]) # {}
  <2>1. PICK ed \in Installed(inst) : inst[ed].name = names[i]
    BY <1>1, <1>3 DEF Complete, LookUps
  <2>. QED
    BY <1>5, <1>7, <2>1
<1>. DEFINE c == [i \in 1 .. n |-> CHOOSE e : e \in ToSet(sets[i])]
<1>9. ASSUME NEW i \in 1 .. n
      PROVE  /\ c[i] \in ToSet(sets[i]) /\ c[i] \in ToSet(Replicas(is)[i])
             /\ SwitchOf(is, c[i]) = SwitchOf(inst, c[i])
  <2>1. c[i] \in ToSet(sets[i])
    BY <1>8
  <2>. HIDE DEF c
  <2>2. c[i] \in Installed(inst) /\ inst[c[i]].name = names[i]
    BY <1>5, <1>7, <2>1
  <2>3. is[c[i]] = inst[c[i]] /\ c[i] \in Installed(is)
    BY <1>4, <2>2
  <2>. QED
    BY <1>6, <2>1, <2>2, <2>3 DEF SwitchOf
<1>10. DOMAIN c = 1 .. n /\ c = [i \in 1 .. n |-> c[i]]
  OBVIOUS
<1>. HIDE DEF c
<1>11. c \in Chains(Replicas(is))
  <2>1. ASSUME NEW i \in 1 .. n PROVE Contains(Replicas(is)[i], c[i])
    <3>1. PICK r \in Seq(Descs) : r = Replicas(is)[i]
      BY <1>6
    <3>2. c[i] \in ToSet(r) /\ DOMAIN r = 1 .. Len(r)
      BY <1>9, <3>1
    <3>. QED
      BY <3>1, <3>2 DEF Contains, ToSet
  <2>2. \A i \in 1 .. n : c[i] \in AllOf(Replicas(is))
    BY <1>6, <1>9 DEF AllOf
  <2>3. c \in [1 .. n -> AllOf(Replicas(is))]
    BY <1>10, <2>2
  <2>. QED
    BY <1>6, <2>1, <2>3 DEF Chains
<1>12. PICK p : p = SwitchPath(is, c, from, to)
  OBVIOUS
<1>13. /\ DOMAIN p = 1 .. n + 2 /\ p[1] = from /\ p[n + 2] = to
       /\ \A i \in 1 .. n : p[i + 1] = SwitchOf(is, c[i])
  BY <1>1, <1>2, <1>3, <1>11, <1>12, PathIs
<1>14. ASSUME NEW k \in 1 .. n + 2 PROVE p[k] \in Subgraph(sets, from, to)
  <2>. SUFFICES p[k] \in Asked(sets, from, to)
    BY DEF Subgraph
  <2>1. CASE k = 1 \/ k = n + 2
    BY <1>13, <2>1 DEF Asked
  <2>2. CASE k # 1 /\ k # n + 2
    <3>1. k - 1 \in 1 .. n /\ (k - 1) + 1 = k
      BY <2>2
    <3>2. p[k] = SwitchOf(inst, c[k - 1])
      BY <1>9, <1>13, <3>1
    <3>3. c[k - 1] \in AllOf(sets)
      BY <1>7, <1>9, <3>1 DEF AllOf
    <3>. QED
      BY <3>2, <3>3 DEF Asked
  <2>. QED
    BY <2>1, <2>2
<1>15. ToSet(p) \subseteq Subgraph(sets, from, to)
  BY <1>13, <1>14 DEF ToSet
<1>. QED
  BY <1>11, <1>12, <1>15 DEF is

\* The path then names the instance it was made of.
LEMMA ApartFound ==
  ASSUME NEW is, NEW map, Apart(is, map), HostsKnown(is), NEW ed \in Installed(is)
  PROVE  ElemDescriptor(map, SwitchOf(is, ed)) = ed
<1>1. ed \in Descs /\ map[ed] = SwitchOf(is, ed) /\ map[ed] # None
  BY DEF Apart, HostsKnown, Installed
<1>. DEFINE E == {d \in Descs : map[d] = SwitchOf(is, ed)}
<1>2. E = {ed}
  BY <1>1 DEF Apart
<1>3. ElemDescriptor(map, SwitchOf(is, ed)) = CHOOSE d \in E : \A e \in E : d <= e
  BY <1>2 DEF ElemDescriptor
<1>4. \E d \in E : \A e \in E : d <= e
  BY <1>2, LeastDesc
<1>. HIDE DEF E
<1>5. (CHOOSE d \in E : \A e \in E : d <= e) \in E
  BY <1>4
<1>. QED
  BY <1>2, <1>3, <1>5

\* A flow that is affined to one of two replicas finds only that one in the
\* subgraph, unless the other is at an end of the flow.
AffinedAndFound(src, from, to, placed, i, d, ed) ==
  /\ src \in Sources /\ placed \in From(Network(inst, nextDesc, elemToSwitch))
  /\ HostsKnown(placed.inst) /\ Apart(placed.inst, placed.map)
  /\ Away(placed, ToSet(affinity[src]), from, to)
  /\ i \in 1 .. Len(names) /\ d \in ToSet(Replicas(placed.inst)[i])
  /\ SwitchOf(placed.inst, d) \in Subgraph(UpdatedReplicas(Replicas(inst), affinity[src]), from, to)
  /\ ed \in ToSet(affinity[src]) /\ ed \in ToSet(Replicas(placed.inst)[i])

LEMMA AffinedFound ==
  ASSUME SteeringInv, NEW src, NEW from, NEW to, NEW placed, NEW i, NEW d, NEW ed,
         AffinedAndFound(src, from, to, placed, i, d, ed)
  PROVE  d \in ToSet(affinity[src])
<1>0. PICK sets : sets = UpdatedReplicas(Replicas(inst), affinity[src])
  OBVIOUS
<1>given. /\ src \in Sources /\ placed \in From(Network(inst, nextDesc, elemToSwitch))
      /\ HostsKnown(placed.inst) /\ Apart(placed.inst, placed.map)
      /\ Away(placed, ToSet(affinity[src]), from, to)
      /\ i \in 1 .. Len(names) /\ d \in ToSet(Replicas(placed.inst)[i])
      /\ SwitchOf(placed.inst, d) \in Subgraph(sets, from, to)
      /\ ed \in ToSet(affinity[src]) /\ ed \in ToSet(Replicas(placed.inst)[i])
  BY <1>0 DEF AffinedAndFound
<1>1. SUFFICES ASSUME d \notin ToSet(affinity[src]) PROVE FALSE
  OBVIOUS
<1>. DEFINE now == Network(inst, nextDesc, elemToSwitch)
<1>2. PICK is : is = placed.inst
  OBVIOUS
<1>3. /\ LookUps /\ inst \in [Descs -> Instance \cup {None}] /\ Fresh(inst, nextDesc)
      /\ affinity[src] \in Seq(Descs) /\ nextDesc \in Nat
  BY <1>given, SteeringAssumption DEF SteeringInv, TypeOK, LookUps
<1>4. is \in [Descs -> Instance \cup {None}] /\ \A e \in Descs : e < nextDesc => is[e] = inst[e]
  <2>1. now.next = nextDesc /\ now.inst = inst /\ placed \in From(now)
    BY <1>given DEF Network
  <2>. HIDE DEF now
  <2>2. placed \in Nets
    BY <2>1 DEF From
  <2>. QED
    BY <1>2, <2>1, <2>2, NetTypes DEF From
<1>. HIDE DEF now
<1>5. PICK n \in Nat : n = Len(names)
  BY <1>3 DEF LookUps
<1>6. \A k \in 1 .. n : ToSet(Replicas(is)[k]) = {e \in Installed(is) : is[e].name = names[k]}
  BY <1>3, <1>4, <1>5, ReplicasAre
<1>7. \A k \in 1 .. n : /\ Replicas(inst)[k] \in Seq(Descs) /\ Ascending(Replicas(inst)[k])
                        /\ ToSet(Replicas(inst)[k]) = {e \in Installed(inst) : inst[e].name = names[k]}
  BY <1>3, <1>5, ReplicasAre
<1>8. /\ DOMAIN sets = 1 .. n
      /\ \A k \in 1 .. n : /\ sets[k] = LeaveAllAffined(Replicas(inst)[k], affinity[src])
                           /\ ToSet(sets[k]) \subseteq ToSet(Replicas(inst)[k])
  <2>1. Updated(sets, inst, affinity[src])
    BY <1>0, <1>3, UpdatedAre
  <2>. QED
    BY <1>5, <2>1 DEF Updated
<1>9. ASSUME NEW e \in Installed(inst) PROVE is[e] = inst[e] /\ e \in Installed(is)
  <2>1. e \in Descs /\ e \in Nat /\ inst[e] # None
    BY DEF Installed, Descs
  <2>2. e < nextDesc
    BY <1>3, <2>1 DEF Fresh
  <2>. QED
    BY <1>4, <2>1, <2>2 DEF Installed
<1>10. d \in Installed(is) /\ is[d].name = names[i] /\ ed \in Installed(is) /\ is[ed].name = names[i]
  BY <1>given, <1>2, <1>5, <1>6
<1>11. d \in Descs /\ ed \in Descs /\ is[ed] # None /\ is[d] # None /\ ed # d
  BY <1>given, <1>1, <1>10 DEF Installed
\* The affined instance was there when the packet came.
<1>12. ed \in Installed(inst) /\ inst[ed].name = names[i]
  <2>1. ed < nextDesc
    BY <1>given DEF SteeringInv, AffinityPast
  <2>. QED
    BY <1>4, <1>10, <1>11, <2>1 DEF Installed
\* The others are one, and not at the ends.
<1>. DEFINE rest == ToSet(Named(is, is[ed].name)) \ {ed}
<1>13. ToSet(Named(is, names[i])) = {e \in Installed(is) : is[e].name = names[i]}
  <2>1. PICK S : S = {e \in Installed(is) : is[e].name = names[i]}
    OBVIOUS
  <2>2. S \subseteq Descs /\ Named(is, names[i]) = OldestFirst(S)
    BY <2>1 DEF Named, Installed
  <2>3. ToSet(OldestFirst(S)) = Descs \cap S
    BY OldestFirstOrdered
  <2>. QED
    BY <2>1, <2>2, <2>3
<1>14. rest = {e \in Installed(is) : is[e].name = names[i]} \ {ed}
  BY <1>10, <1>13
<1>15. Cardinality(rest) <= 1 /\ \A e \in rest : SwitchOf(is, e) \notin {from, to}
  BY <1>given, <1>2, <1>11 DEF Away
<1>. HIDE DEF rest
<1>16. rest = {d}
  <2>1. d \in rest
    BY <1>10, <1>11, <1>14
  <2>2. IsFiniteSet(Descs)
    BY SteeringAssumption, FS_Interval DEF Descs
  <2>3. IsFiniteSet(rest)
    <3>1. rest \subseteq Descs
      BY <1>14 DEF Installed
    <3>. QED
      BY <2>2, <3>1, FS_Subset
  <2>4. Cardinality(rest) \in Nat /\ Cardinality(rest) # 0
    BY <2>1, <2>3, FS_CardinalityType, FS_EmptySet
  <2>5. Cardinality(rest) = 1
    BY <1>15, <2>4
  <2>6. \E x : rest = {x}
    BY <2>3, <2>5, FS_Singleton
  <2>. QED
    BY <2>1, <2>6
\* So the subgraph has the switch of the other because of the other.
<1>17. SwitchOf(is, d) \notin {from, to}
  BY <1>15, <1>16
<1>18. PICK e \in AllOf(sets) : SwitchOf(inst, e) = SwitchOf(is, d)
  BY <1>given, <1>2, <1>17 DEF Subgraph, Asked
<1>19. PICK k \in 1 .. n : e \in ToSet(sets[k])
  BY <1>8 DEF AllOf
<1>20. e \in Installed(inst) /\ inst[e].name = names[k]
  BY <1>7, <1>8, <1>19
<1>21. e \in Installed(is) /\ is[e] = inst[e]
  BY <1>9, <1>20
<1>22. SwitchOf(is, e) = SwitchOf(is, d)
  BY <1>18, <1>21 DEF SwitchOf
<1>23. e = d
  <2>1. placed.map[e] = SwitchOf(is, e) /\ placed.map[d] = SwitchOf(is, d) /\ SwitchOf(is, d) # None
    BY <1>given, <1>2, <1>10, <1>21 DEF Apart, HostsKnown
  <2>2. e \in Descs
    BY <1>21 DEF Installed
  <2>. QED
    BY <1>given, <1>11, <1>22, <2>1, <2>2 DEF Apart
\* But the affinity has left it out.
<1>24. names[k] = names[i]
  BY <1>10, <1>20, <1>21, <1>23
<1>25. ToSet(Replicas(inst)[k]) = {ed, d}
  <2>1. ASSUME NEW x \in ToSet(Replicas(inst)[k]) PROVE x = ed \/ x = d
    <3>1. x \in Installed(inst) /\ inst[x].name = names[i]
      BY <1>7, <1>24
    <3>2. x \in Installed(is) /\ is[x].name = names[i]
      BY <1>9, <3>1
    <3>. QED
      BY <1>14, <1>16, <3>2
  <2>2. ed \in ToSet(Replicas(inst)[k]) /\ d \in ToSet(Replicas(inst)[k])
    BY <1>7, <1>12, <1>20, <1>23, <1>24
  <2>. QED
    BY <2>1, <2>2
<1>26. d \notin ToSet(LeaveAllAffined(Replicas(inst)[k], affinity[src]))
  <2>1. PICK r \in Seq(Descs) : r = Replicas(inst)[k] /\ Ascending(r) /\ ToSet(r) = {ed, d}
    BY <1>7, <1>25
  <2>2. PICK a \in Seq(Descs) : a = affinity[src]
    BY <1>3
  <2>. QED
    BY <1>given, <1>1, <1>11, <2>1, <2>2, AffinedLeft
<1>. QED
  BY <1>8, <1>19, <1>23, <1>26

LEMMA ApartSteered ==
  ASSUME SteeringInv, NEW src \in Sources, NEW from, NEW to,
         NEW placed \in From(Network(inst, nextDesc, elemToSwitch)),
         NEW congested, NEW path, SteeredTo(src, from, to, placed, congested, path)
  PROVE  SteeredWhenApart'
<1>. DEFINE sets == UpdatedReplicas(Replicas(inst), affinity[src])
            eds == ElementInstances(placed.map, path)
            nodes == Subgraph(sets, from, to)
<1>1. PICK is : is = placed.inst
  OBVIOUS
<1>2. /\ Complete(inst) /\ HostsKnown(is)
      /\ path \in ShortestPaths({SwitchPath(is, c, from, to) : c \in Chains(Replicas(is))},
                                nodes, congested, from, to)
      /\ flow'.eds = eds /\ flow'.sets = Replicas(is) /\ flow'.affined = ToSet(affinity[src])
      /\ flow'.away = Away(placed, ToSet(affinity[src]), from, to)
      /\ flow'.joined = (Asked(sets, from, to) \subseteq overlay)
      /\ flow'.apart = (Apart(is, placed.map) /\ congested = {})
  BY <1>1 DEF SteeredTo
<1>3. SUFFICES ASSUME flow'.joined, flow'.apart
               PROVE  /\ Len(flow'.eds) = Len(flow'.sets)
                      /\ \A i \in DOMAIN flow'.eds : Contains(flow'.sets[i], flow'.eds[i])
                      /\ flow'.away => \A i \in DOMAIN flow'.sets :
                           flow'.affined \cap ToSet(flow'.sets[i]) # {} => flow'.eds[i] \in flow'.affined
  BY DEF SteeredWhenApart, OneFromEachSet
<1>4. Apart(is, placed.map) /\ congested = {} /\ Asked(sets, from, to) \subseteq overlay
  BY <1>2, <1>3
<1>5. LookUps
  BY DEF SteeringInv, TypeOK, LookUps
<1>6. is \in [Descs -> Instance \cup {None}]
  <2>1. placed \in Nets
    BY DEF From
  <2>. QED
    BY <1>1, <2>1, NetTypes
<1>7. \E c \in Chains(Replicas(is)) : ToSet(SwitchPath(is, c, from, to)) \subseteq nodes
  BY <1>1, <1>2, <1>4, PathExists
<1>. HIDE DEF nodes, sets
<1>8. PICK c \in Chains(Replicas(is)) : path = SwitchPath(is, c, from, to) /\ ToSet(path) \subseteq nodes
  <2>. DEFINE paths == {SwitchPath(is, b, from, to) : b \in Chains(Replicas(is))}
              free == {p \in paths : ToSet(p) \subseteq nodes /\ Links(p) \cap congested = {}}
  <2>1. free # {}
    BY <1>4, <1>7
  <2>2. path \in free
    BY <1>2, <2>1 DEF ShortestPaths
  <2>. QED
    BY <2>2
<1>9. PICK n \in Nat : n = Len(names)
  BY <1>5 DEF LookUps
<1>10. /\ Len(path) = n + 2 /\ DOMAIN path = 1 .. n + 2
       /\ \A i \in 1 .. n : path[i + 1] = SwitchOf(is, c[i]) /\ c[i] \in ToSet(Replicas(is)[i])
  BY <1>5, <1>6, <1>8, <1>9, PathIs
<1>11. /\ Len(Replicas(is)) = n /\ DOMAIN Replicas(is) = 1 .. n
       /\ \A i \in 1 .. n : /\ Replicas(is)[i] \in Seq(Descs)
                            /\ ToSet(Replicas(is)[i]) = {ed \in Installed(is) : is[ed].name = names[i]}
  BY <1>5, <1>6, <1>9, ReplicasAre
<1>12. DOMAIN eds = 1 .. n /\ \A i \in 1 .. n : eds[i] = ElemDescriptor(placed.map, path[i + 1])
  <2>1. Len(path) - 2 = n
    BY <1>10
  <2>. QED
    BY <2>1 DEF ElementInstances
<1>13. ASSUME NEW i \in 1 .. n PROVE eds[i] = c[i]
  <2>1. c[i] \in Installed(is)
    BY <1>10, <1>11
  <2>2. ElemDescriptor(placed.map, SwitchOf(is, c[i])) = c[i]
    BY <1>2, <1>4, <2>1, ApartFound
  <2>. QED
    BY <1>10, <1>12, <2>2
<1>14. Len(eds) = n
  <2>1. eds = [i \in 1 .. n |-> ElemDescriptor(placed.map, path[i + 1])]
    <3>1. Len(path) - 2 = n
      BY <1>10
    <3>. QED
      BY <3>1 DEF ElementInstances
  <2>. QED
    BY <2>1
<1>. HIDE DEF eds
<1>15. ASSUME NEW i \in 1 .. n PROVE Contains(Replicas(is)[i], eds[i])
  <2>1. PICK r \in Seq(Descs) : r = Replicas(is)[i]
    BY <1>11
  <2>2. c[i] \in ToSet(r) /\ DOMAIN r = 1 .. Len(r)
    BY <1>10, <2>1
  <2>. QED
    BY <1>13, <2>1, <2>2 DEF Contains, ToSet
<1>16. ASSUME flow'.away, NEW i \in 1 .. n, ToSet(affinity[src]) \cap ToSet(Replicas(is)[i]) # {}
       PROVE  eds[i] \in ToSet(affinity[src])
  <2>1. PICK ed \in ToSet(affinity[src]) : ed \in ToSet(Replicas(is)[i])
    BY <1>16
  <2>2. Away(placed, ToSet(affinity[src]), from, to)
    BY <1>2, <1>16
  <2>3. c[i] \in ToSet(Replicas(is)[i]) /\ i \in 1 .. Len(names)
    BY <1>9, <1>10
  <2>4. SwitchOf(is, c[i]) \in nodes
    <3>1. i + 1 \in DOMAIN path /\ path[i + 1] = SwitchOf(is, c[i])
      BY <1>10
    <3>2. path[i + 1] \in ToSet(path)
      BY <3>1 DEF ToSet
    <3>. QED
      BY <1>8, <3>1, <3>2
  <2>5. c[i] \in ToSet(affinity[src])
    <3>1. sets = UpdatedReplicas(Replicas(inst), affinity[src]) /\ nodes = Subgraph(sets, from, to)
      BY DEF sets, nodes
    <3>2. /\ HostsKnown(placed.inst) /\ Apart(placed.inst, placed.map)
          /\ c[i] \in ToSet(Replicas(placed.inst)[i]) /\ i \in 1 .. Len(names)
          /\ SwitchOf(placed.inst, c[i]) \in Subgraph(sets, from, to)
          /\ ed \in ToSet(Replicas(placed.inst)[i])
      BY <1>1, <1>2, <1>4, <2>1, <2>3, <2>4, <3>1
    <3>3. AffinedAndFound(src, from, to, placed, i, c[i], ed)
      BY <2>1, <2>2, <3>1, <3>2 DEF AffinedAndFound
    <3>. QED
      BY <3>3, AffinedFound
  <2>. QED
    BY <1>13, <2>5
<1>. QED
  BY <1>2, <1>11, <1>12, <1>14, <1>15, <1>16

-----------------------------------------------------------------------------
(* The way back.                                                           *)

LEMMA ReverseIs ==
  ASSUME NEW D, NEW s \in Seq(D)
  PROVE  /\ Reverse(s) \in Seq(D) /\ Len(Reverse(s)) = Len(s) /\ Len(s) \in Nat /\ Len(Reverse(s)) \in Nat
         /\ \A i \in 1 .. Len(s) : Reverse(s)[i] = s[(Len(s) - i) + 1]
<1>1. PICK n \in Nat : n = Len(s)
  OBVIOUS
<1>2. Reverse(s) = [i \in 1 .. n |-> s[(n - i) + 1]]
  BY <1>1 DEF Reverse
<1>3. ASSUME NEW i \in 1 .. n PROVE s[(n - i) + 1] \in D
  <2>1. (n - i) + 1 \in 1 .. n
    OBVIOUS
  <2>. QED
    BY <1>1, <2>1
<1>. QED
  BY <1>1, <1>2, <1>3

LEMMA SameSequence ==
  ASSUME NEW D, NEW q \in Seq(D), NEW r \in Seq(D), Len(q) = Len(r), \A j \in 1 .. Len(r) : q[j] = r[j]
  PROVE  q = r
<1>1. PICK n \in Nat : n = Len(r) /\ DOMAIN q = 1 .. n /\ DOMAIN r = 1 .. n
  OBVIOUS
<1>2. q = [j \in 1 .. n |-> q[j]] /\ r = [j \in 1 .. n |-> r[j]]
  BY <1>1
<1>. QED
  BY <1>1, <1>2

(* All entries but the one at k are wanted; if k is past the end, all are. *)
AllButOne(s, wanted, k) ==
  k \in 1 .. Len(s) + 1 /\ \A i \in 1 .. Len(s) : s[i] \in wanted <=> i # k

LEMMA OnlyAllButOne ==
  ASSUME NEW D, NEW s \in Seq(D), NEW wanted, NEW k, AllButOne(s, wanted, k)
  PROVE  Only(s, wanted) = IF k = Len(s) + 1 THEN s ELSE RemoveAt(s, k)
<1>0. PICK f : OnlyRun(f, D, s, wanted) /\ Only(s, wanted) = f[Len(s)]
  BY OnlyLoop
<1>1. PICK n \in Nat : n = Len(s)
  OBVIOUS
<1>2. /\ f \in [0 .. n -> Seq(D)] /\ f[0] = << >> /\ Only(s, wanted) = f[n]
      /\ \A i \in 1 .. n : f[i] = IF i # k THEN Append(f[i - 1], s[i]) ELSE f[i - 1]
  BY <1>0, <1>1 DEF OnlyRun, AllButOne
<1>3. k \in 1 .. n + 1 /\ k \in Nat
  BY <1>1 DEF AllButOne
<1>. DEFINE S == {i \in 0 .. n : /\ Len(f[i]) = (IF i < k THEN i ELSE i - 1)
                                 /\ \A j \in 1 .. Len(f[i]) : f[i][j] = IF j < k THEN s[j] ELSE s[j + 1]}
<1>4. 0 \in S
  BY <1>2, <1>3
<1>5. ASSUME NEW i \in 1 .. n, i - 1 \in S PROVE i \in S
  <2>1. PICK v \in Seq(D) : v = f[i - 1]
    BY <1>2
  <2>2. PICK m \in Nat : m = Len(v)
    OBVIOUS
  <2>3. m = (IF i - 1 < k THEN i - 1 ELSE i - 2) /\ \A j \in 1 .. m : v[j] = IF j < k THEN s[j] ELSE s[j + 1]
    <3>1. (i - 1) - 1 = i - 2
      OBVIOUS
    <3>. QED
      BY <1>5, <2>1, <2>2, <3>1
  <2>4. i \in 0 .. n /\ s[i] \in D
    BY <1>1
  <2>5. CASE i = k
    <3>1. f[i] = v /\ i - 1 < k /\ ~(i < k)
      BY <1>2, <1>3, <2>1, <2>5
    <3>. QED
      BY <2>2, <2>3, <2>4, <3>1
  <2>6. CASE i # k
    <3>1. PICK w : w = Append(v, s[i])
      OBVIOUS
    <3>2. w \in Seq(D) /\ Len(w) = m + 1 /\ w[m + 1] = s[i] /\ \A j \in 1 .. m : w[j] = v[j]
      BY <2>2, <2>4, <3>1
    <3>3. f[i] = w
      BY <1>2, <2>1, <2>6, <3>1
    <3>4. m + 1 = (IF i < k THEN i ELSE i - 1)
      BY <1>3, <2>3, <2>6
    <3>5. ASSUME NEW j \in 1 .. m + 1 PROVE w[j] = IF j < k THEN s[j] ELSE s[j + 1]
      <4>1. CASE j = m + 1
        <5>1. IF j < k THEN j = i ELSE j + 1 = i
          BY <1>3, <2>6, <3>4, <4>1
        <5>. QED
          BY <3>2, <4>1, <5>1
      <4>2. CASE j # m + 1
        <5>1. j \in 1 .. m
          BY <4>2
        <5>. QED
          BY <2>3, <3>2, <5>1
      <4>. QED
        BY <4>1, <4>2
    <3>. QED
      BY <2>4, <3>2, <3>3, <3>4, <3>5
  <2>. QED
    BY <2>5, <2>6
<1>. HIDE DEF S
<1>6. 0 .. n \subseteq S
  BY <1>4, <1>5, Rounds
<1>7. PICK q \in Seq(D) : q = f[n]
  BY <1>2
<1>8. Len(q) = (IF n < k THEN n ELSE n - 1) /\ \A j \in 1 .. Len(q) : q[j] = IF j < k THEN s[j] ELSE s[j + 1]
  <2>1. n \in S
    BY <1>6
  <2>. QED
    BY <1>7, <2>1 DEF S
<1>9. CASE k = n + 1
  <2>1. Len(q) = Len(s) /\ \A j \in 1 .. Len(s) : q[j] = s[j]
    BY <1>1, <1>8, <1>9
  <2>2. q = s
    BY <2>1, SameSequence
  <2>. QED
    BY <1>1, <1>2, <1>7, <1>9, <2>2
<1>10. CASE k # n + 1
  <2>1. k \in 1 .. Len(s) /\ ~(n < k)
    BY <1>1, <1>3, <1>10
  <2>2. PICK r : r = RemoveAt(s, k)
    OBVIOUS
  <2>3. /\ r \in Seq(D) /\ Len(r) = n - 1
        /\ \A j \in 1 .. (n - 1) : r[j] = IF j < k THEN s[j] ELSE s[j + 1]
    BY <1>1, <2>1, <2>2, RemoveAtIs
  <2>4. Len(q) = Len(r) /\ \A j \in 1 .. Len(r) : q[j] = r[j]
    BY <1>8, <2>1, <2>3
  <2>5. q = r
    BY <2>3, <2>4, SameSequence
  <2>. QED
    BY <1>1, <1>2, <1>7, <1>10, <2>2, <2>5
<1>. QED
  BY <1>9, <1>10

(* pop(index) while the indices shift.                                     *)
BackRounds(f, is, eds) ==
  f = [i \in 0 .. Len(Reverse(eds)) |->
         IF i = 0 THEN Reverse(eds)
         ELSE IF f[i - 1] = None \/ Reverse(eds)[i] \notin OneWayOf(is, eds) THEN f[i - 1]
                ELSE IF i > Len(f[i - 1]) THEN None ELSE RemoveAt(f[i - 1], i)]

BackRun(f, is, eds) ==
  /\ f \in [0 .. Len(Reverse(eds)) -> Seq(Descs) \cup {None}] /\ f[0] = Reverse(eds)
  /\ \A i \in 1 .. Len(Reverse(eds)) :
       f[i] = IF f[i - 1] = None \/ Reverse(eds)[i] \notin OneWayOf(is, eds) THEN f[i - 1]
                ELSE IF i > Len(f[i - 1]) THEN None ELSE RemoveAt(f[i - 1], i)

LEMMA BackLoop ==
  ASSUME NEW is, NEW eds \in Seq(Descs)
  PROVE  \E f : BackRun(f, is, eds) /\ ReverseElements(is, eds) = f[Len(Reverse(eds))]
<1>. DEFINE n == Len(Reverse(eds))
            V == Seq(Descs) \cup {None}
            next(v, i) == IF v = None \/ Reverse(eds)[i] \notin OneWayOf(is, eds) THEN v
                ELSE IF i > Len(v) THEN None ELSE RemoveAt(v, i)
            step == [p \in V \X (1 .. n) |-> next(p[1], p[2])]
<1>1. n \in Nat
  BY ReverseIs
<1>2. Reverse(eds) \in V
  BY ReverseIs
<1>3. ASSUME NEW v \in V, NEW i \in 1 .. n PROVE next(v, i) \in V
  <2>1. ASSUME v # None, ~(i > Len(v)) PROVE RemoveAt(v, i) \in V
    <3>1. v \in Seq(Descs) /\ i \in 1 .. Len(v)
      BY <2>1
    <3>. QED
      BY <3>1, RemoveAtIs
  <2>. QED
    BY <2>1
<1>4. step \in [V \X (1 .. n) -> V]
  BY <1>3
<1>5. \A v \in V, i \in 1 .. n : step[<<v, i>>] = next(v, i)
  OBVIOUS
<1>. HIDE DEF step, V, next
<1>6. PICK f : History(f, n, V, Reverse(eds), step)
  BY <1>1, <1>2, <1>4, Histories
<1>7. f = [i \in 0 .. n |-> f[i]] /\ f[0] = Reverse(eds)
  BY <1>6 DEF History
<1>8. \A i \in 1 .. n : f[i - 1] \in V /\ f[i] = next(f[i - 1], i)
  <2>1. f \in [0 .. n -> V] /\ \A i \in 1 .. n : f[i] = step[<<f[i - 1], i>>]
    BY <1>6 DEF History
  <2>2. \A i \in 1 .. n : i - 1 \in 0 .. n
    BY <1>1
  <2>3. \A i \in 1 .. n : f[i - 1] \in V
    BY <2>1, <2>2
  <2>. QED
    BY <1>5, <2>1, <2>3
<1>9. BackRounds(f, is, eds)
  <2>. DEFINE g == [i \in 0 .. n |-> IF i = 0 THEN Reverse(eds) ELSE next(f[i - 1], i)]
  <2>1. ASSUME NEW i \in 0 .. n PROVE f[i] = g[i]
    <3>1. CASE i = 0
      BY <1>7, <3>1
    <3>2. CASE i # 0
      <4>1. i \in 1 .. n
        BY <3>2, <1>1
      <4>. QED
        BY <1>8, <3>2, <4>1
    <3>. QED
      BY <3>1, <3>2
  <2>2. f = g
    BY <1>7, <2>1
  <2>. QED
    BY <2>2 DEF BackRounds, next
<1>10. PICK h : h = CHOOSE g : BackRounds(g, is, eds)
  OBVIOUS
<1>11. BackRounds(h, is, eds)
  BY <1>9, <1>10
<1>12. ReverseElements(is, eds) = h[n]
  BY <1>10 DEF ReverseElements, BackRounds
<1>. DEFINE e == [i \in 0 .. n |-> IF i = 0 THEN Reverse(eds) ELSE next(h[i - 1], i)]
<1>13. h = e
  BY <1>11 DEF BackRounds, next
<1>14. h = [i \in 0 .. n |-> h[i]]
  BY <1>13
<1>15. h[0] = Reverse(eds) /\ \A i \in 1 .. n : h[i] = next(h[i - 1], i)
  <2>1. 0 \in 0 .. n /\ \A i \in 1 .. n : i \in 0 .. n /\ i # 0
    BY <1>1
  <2>2. h[0] = Reverse(eds)
    BY <1>13, <2>1
  <2>3. ASSUME NEW i \in 1 .. n PROVE h[i] = next(h[i - 1], i)
    <3>1. i \in 0 .. n /\ i # 0
      BY <2>1
    <3>. QED
      BY <1>13, <3>1
  <2>. QED
    BY <2>2, <2>3
<1>. HIDE DEF e
<1>16. \A i \in 1 .. n : h[i - 1] \in V => h[i] = step[<<h[i - 1], i>>]
  BY <1>5, <1>15
<1>17. History(h, n, V, Reverse(eds), step)
  BY <1>1, <1>2, <1>4, <1>14, <1>15, <1>16, IsHistory
<1>18. h \in [0 .. n -> V]
  BY <1>17 DEF History
<1>. QED
  BY <1>12, <1>15, <1>18 DEF next, V, BackRun

(* The one instance that the way back leaves out is at k, or there is none. *)
OneWayAt(is, eds, k) ==
  /\ k \in 1 .. Len(eds) + 1
  /\ \A i \in 1 .. Len(eds) : Reverse(eds)[i] \in OneWayOf(is, eds) <=> i = k

LEMMA BackAllButOne ==
  ASSUME NEW is, NEW eds \in Seq(Descs), NEW k, OneWayAt(is, eds, k)
  PROVE  ReverseElements(is, eds) = IF k = Len(eds) + 1 THEN Reverse(eds) ELSE RemoveAt(Reverse(eds), k)
<1>0. PICK f : BackRun(f, is, eds) /\ ReverseElements(is, eds) = f[Len(Reverse(eds))]
  BY BackLoop
<1>1. PICK rev : rev = Reverse(eds)
  OBVIOUS
<1>2. PICK n \in Nat : n = Len(eds)
  OBVIOUS
<1>3. rev \in Seq(Descs) /\ Len(rev) = n /\ rev # None
  BY <1>1, <1>2, ReverseIs, SteeringAssumption DEF Descs
<1>4. /\ f[0] = rev /\ ReverseElements(is, eds) = f[n]
      /\ \A i \in 1 .. n : f[i] = IF f[i - 1] = None \/ i # k THEN f[i - 1]
                                  ELSE IF i > Len(f[i - 1]) THEN None ELSE RemoveAt(f[i - 1], i)
  BY <1>0, <1>1, <1>2, <1>3 DEF BackRun, OneWayAt
<1>5. k \in 1 .. n + 1
  BY <1>2 DEF OneWayAt
<1>. DEFINE S == {i \in 0 .. n : f[i] = IF i < k THEN rev ELSE RemoveAt(rev, k)}
<1>6. 0 \in S
  BY <1>4, <1>5
<1>7. ASSUME NEW i \in 1 .. n, i - 1 \in S PROVE i \in S
  <2>1. f[i - 1] = IF i - 1 < k THEN rev ELSE RemoveAt(rev, k)
    BY <1>7
  <2>2. CASE i = k
    <3>1. i - 1 < k /\ ~(i < k) /\ ~(i > Len(rev)) /\ i \in 0 .. n
      BY <1>3, <1>5, <2>2
    <3>2. f[i] = RemoveAt(rev, k)
      BY <1>3, <1>4, <2>1, <2>2, <3>1
    <3>. QED
      BY <3>1, <3>2
  <2>3. CASE i # k
    <3>1. (i - 1 < k <=> i < k) /\ i \in 0 .. n
      BY <1>5, <2>3
    <3>2. f[i] = f[i - 1]
      BY <1>4, <2>3
    <3>. QED
      BY <2>1, <3>1, <3>2
  <2>. QED
    BY <2>2, <2>3
<1>. HIDE DEF S
<1>8. 0 .. n \subseteq S
  BY <1>6, <1>7, Rounds
<1>9. f[n] = IF n < k THEN rev ELSE RemoveAt(rev, k)
  <2>1. n \in S
    BY <1>8
  <2>. QED
    BY <2>1 DEF S
<1>10. n < k <=> k = n + 1
  BY <1>5
<1>. QED
  BY <1>1, <1>2, <1>4, <1>9, <1>10

(* With at most one unidirectional instance the reversal is as promised.   *)
LEMMA BackIsReverse ==
  ASSUME NEW is, NEW eds \in Seq(Descs),
         Cardinality({i \in DOMAIN eds : eds[i] \in OneWayOf(is, eds)}) <= 1
  PROVE  ReverseElements(is, eds) = Only(Reverse(eds), Descs \ OneWayOf(is, eds))
<1>1. PICK n \in Nat : n = Len(eds) /\ DOMAIN eds = 1 .. n
  OBVIOUS
<1>2. PICK W : W = OneWayOf(is, eds)
  OBVIOUS
<1>3. PICK X : X = {i \in DOMAIN eds : eds[i] \in W}
  OBVIOUS
<1>4. PICK rev \in Seq(Descs) : /\ rev = Reverse(eds) /\ Len(rev) = n
                                /\ \A i \in 1 .. n : rev[i] = eds[(n - i) + 1]
  BY <1>1, ReverseIs
<1>5. \A x, y \in X : x = y
  <2>1. IsFiniteSet(X)
    <3>1. X \subseteq 1 .. n
      BY <1>1, <1>3
    <3>2. IsFiniteSet(1 .. n)
      BY FS_Interval
    <3>. QED
      BY <3>1, <3>2, FS_Subset
  <2>2. Cardinality(X) <= 1 /\ Cardinality(X) \in Nat
    BY <1>2, <1>3, <2>1, FS_CardinalityType
  <2>3. CASE Cardinality(X) = 0
    BY <2>1, <2>3, FS_EmptySet
  <2>4. CASE Cardinality(X) = 1
    <3>1. \E x : X = {x}
      BY <2>1, <2>4, FS_Singleton
    <3>. QED
      BY <3>1
  <2>. QED
    BY <2>2, <2>3, <2>4
<1>6. \E k \in 1 .. n + 1 : \A i \in 1 .. n : rev[i] \in W <=> i = k
  <2>1. ASSUME NEW i \in 1 .. n, rev[i] \in W PROVE (n - i) + 1 \in X
    <3>1. (n - i) + 1 \in 1 .. n
      OBVIOUS
    <3>. QED
      BY <1>1, <1>3, <1>4, <2>1, <3>1
  <2>2. CASE \E k \in 1 .. n : rev[k] \in W
    <3>1. PICK k \in 1 .. n : rev[k] \in W
      BY <2>2
    <3>2. ASSUME NEW i \in 1 .. n, rev[i] \in W PROVE i = k
      <4>1. (n - i) + 1 = (n - k) + 1
        BY <1>5, <2>1, <3>1, <3>2
      <4>. QED
        BY <4>1
    <3>3. k \in 1 .. n + 1
      OBVIOUS
    <3>. QED
      BY <3>1, <3>2, <3>3
  <2>3. CASE ~\E k \in 1 .. n : rev[k] \in W
    <3>1. n + 1 \in 1 .. n + 1 /\ \A i \in 1 .. n : i # n + 1
      OBVIOUS
    <3>. QED
      BY <2>3, <3>1
  <2>. QED
    BY <2>2, <2>3
<1>7. PICK k \in 1 .. n + 1 : \A i \in 1 .. n : rev[i] \in W <=> i = k
  BY <1>6
<1>8. \A i \in 1 .. n : rev[i] \in Descs \ W <=> i # k
  <2>1. \A i \in 1 .. n : rev[i] \in Descs
    BY <1>4
  <2>. QED
    BY <1>7, <2>1
<1>9. Only(rev, Descs \ W) = IF k = n + 1 THEN rev ELSE RemoveAt(rev, k)
  <2>1. AllButOne(rev, Descs \ W, k)
    BY <1>4, <1>8 DEF AllButOne
  <2>. QED
    BY <1>4, <2>1, OnlyAllButOne
<1>10. ReverseElements(is, eds) = IF k = n + 1 THEN rev ELSE RemoveAt(rev, k)
  <2>1. OneWayAt(is, eds, k)
    BY <1>1, <1>2, <1>4, <1>7 DEF OneWayAt
  <2>. QED
    BY <1>1, <1>4, <2>1, BackAllButOne
<1>. QED
  BY <1>2, <1>4, <1>9, <1>10

-----------------------------------------------------------------------------
(* The theorems.                                                           *)

\* A step leaves a steered packet only if it steers one.
LEMMA StepSteers ==
  ASSUME SteeringInv, Next
  PROVE  \/ flow'.result # "steered"
         \/ \E src \in Sources, placed \in From(Network(inst, nextDesc, elemToSwitch)) :
              \E from, to, congested, path : SteeredTo(src, from, to, placed, congested, path)
<1>1. CASE \E f \in Flows : \E from \in {f.from, None}, to \in {f.to, None} : PacketIn(f.src, from, to)
  <2>1. PICK f \in Flows : \E from \in {f.from, None}, to \in {f.to, None} : PacketIn(f.src, from, to)
    BY <1>1
  <2>0. PICK from, to : PacketIn(f.src, from, to)
    BY <2>1
  <2>2. f.src \in Sources /\ \E placed, after : Handled(f.src, from, to, placed, after)
    BY <2>0, PacketIsHandled
  <2>3. PICK placed, after : Handled(f.src, from, to, placed, after)
    BY <2>2
  <2>4. CASE flow' \in {Lost, Unlearned}
    BY <2>4 DEF Lost, Unlearned
  <2>5. CASE \E congested, path : SteeredTo(f.src, from, to, placed, congested, path)
    BY <2>2, <2>3, <2>5 DEF Handled
  <2>. QED
    BY <2>3, <2>4, <2>5 DEF Handled
<1>2. CASE flow' = NoFlow
  BY <1>2 DEF NoFlow
<1>. QED
  BY <1>1, <1>2 DEF Next, SteerTraffic, Install, RemoveElem, HostEvent, ConnectionUp

\* Steering keeps its types: whatever is installed, removed, redirected or
\* moved meanwhile, a steered packet has a descriptor at every place, the
\* instances and elem_to_switch stay tables of known descriptors, and the
\* affinities name descriptors only.
THEOREM SteeringTypes == Spec => []TypeOK
<1>1. SteeringInv => TypeOK
  BY DEF SteeringInv
<1>. QED
  BY <1>1, SteeringInductive, PTL

\* A flow between learned hosts that get_steering has steered is given one
\* instance of each replica set, in the order of the chain, and keeps to the
\* affined instance, when the overlay joins its ends and the switches of its
\* replicas, every instance has a switch of its own and no link is congested:
\* for every network, chain and history.
THEOREM OneInstanceOfEach == Spec => []SteeredWhenApart
<1>1. Init => SteeredWhenApart
  BY DEF Init, NoFlow, SteeredWhenApart
<1>2. SteeringInv /\ SteeredWhenApart /\ [Next]_vars => SteeredWhenApart'
  <2>1. SUFFICES ASSUME SteeringInv, SteeredWhenApart, [Next]_vars PROVE SteeredWhenApart'
    OBVIOUS
  <2>2. CASE flow'.result # "steered"
    BY <2>2 DEF SteeredWhenApart
  <2>3. CASE \E src \in Sources, placed \in From(Network(inst, nextDesc, elemToSwitch)) :
               \E from, to, congested, path : SteeredTo(src, from, to, placed, congested, path)
    BY <2>1, <2>3, ApartSteered
  <2>4. CASE UNCHANGED vars
    BY <2>1, <2>4 DEF vars, SteeredWhenApart, OneFromEachSet
  <2>. QED
    BY <2>1, <2>2, <2>3, <2>4, StepSteers
<1>. QED
  BY <1>1, <1>2, SteeringInductive, PTL DEF Spec

\* The way back of a flow with at most one unidirectional element passes the
\* other instances in reverse, although install_path_improved pops from the
\* list while the indices shift.
THEOREM WayBackReversed == Spec => []WayBack
<1>1. Init => WayBack
  BY DEF Init, NoFlow, WayBack
<1>2. SteeringInv /\ WayBack /\ [Next]_vars => WayBack'
  <2>1. SUFFICES ASSUME SteeringInv, WayBack, [Next]_vars PROVE WayBack'
    OBVIOUS
  <2>2. CASE flow'.result # "steered"
    BY <2>2 DEF WayBack
  <2>3. ASSUME NEW src \in Sources, NEW placed, NEW from, NEW to, NEW congested, NEW path,
               SteeredTo(src, from, to, placed, congested, path)
        PROVE  WayBack'
    <3>1. PICK is : is = placed.inst
      OBVIOUS
    <3>2. PICK eds : eds = ElementInstances(placed.map, path)
      OBVIOUS
    <3>3. /\ eds \in Seq(Installed(is)) /\ flow'.eds = eds /\ flow'.oneWay = OneWayOf(is, eds)
          /\ flow'.back = ReverseElements(is, eds)
      BY <2>3, <3>1, <3>2 DEF SteeredTo
    <3>4. eds \in Seq(Descs)
      BY <3>3 DEF Installed
    <3>5. Cardinality({i \in DOMAIN eds : eds[i] \in OneWayOf(is, eds)}) <= 1
          => ReverseElements(is, eds) = Only(Reverse(eds), Descs \ OneWayOf(is, eds))
      BY <3>4, BackIsReverse
    <3>. QED
      BY <3>3, <3>5 DEF WayBack
  <2>4. CASE UNCHANGED vars
    BY <2>1, <2>4 DEF vars, WayBack
  <2>. QED
    BY <2>1, <2>2, <2>3, <2>4, StepSteers
<1>. QED
  BY <1>1, <1>2, SteeringInductive, PTL DEF Spec
=============================================================================
