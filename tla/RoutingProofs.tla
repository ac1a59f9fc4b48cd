---------------------------- MODULE RoutingProofs ----------------------------
(* _calc_paths and _get_raw_path are right for every topology: the facts    *)
(* about CalcPaths and RawPaths that the theorems of PathSetupProofs use.   *)
EXTENDS PathSetup, WellFoundedInduction, FunctionTheorems, FiniteSetTheorems,
        TLAPS

(* The induction of these proofs: over a set of numbers.                    *)
LEMMA SetInduction ==
  ASSUME NEW S, 0 \in S, \A n \in Nat : n \in S => n + 1 \in S
  PROVE  Nat \subseteq S
  <1> DEFINE Bad == Nat \ S
  <1>1. SUFFICES ASSUME Bad # {} PROVE FALSE  OBVIOUS
  <1>2. PICK m \in Bad : \A n \in Bad : ~(<<n, m>> \in OpToRel(<, Nat))
    BY <1>1, NatLessThanWellFounded, WFMin
  <1>3. m \in Nat /\ m # 0  OBVIOUS
  <1>4. m - 1 \in Nat /\ <<m - 1, m>> \in OpToRel(<, Nat)
    BY <1>3 DEF OpToRel
  <1>5. m - 1 \in S  BY <1>2, <1>4
  <1>6. (m - 1) + 1 = m  BY <1>3
  <1>7. m \in S  BY <1>4, <1>5, <1>6
  <1> QED  BY <1>7

Dist == Nat \cup {-1}
Matrix == [Switches -> [Switches -> [dist : Dist, via : Switches \cup {None}]]]

(* The table before the loops of _calc_paths.                               *)
Direct(adj) ==
  [i \in Switches |-> [j \in Switches |->
     IF i = j THEN [dist |-> 0, via |-> None]
     ELSE IF adj[i][j] # 0 THEN [dist |-> 1, via |-> None]
     ELSE NoPath]]

(* f has the tables after none, one ... m rounds of the outer loop.         *)
IsStages(f, adj, m) ==
  f = [n \in 0..m |->
         IF n = 0 THEN Direct(adj) ELSE Through(f[n - 1], Order[n])]

LEMMA StagesExist ==
  ASSUME NEW adj, NEW m \in Nat
  PROVE  \E f : IsStages(f, adj, m)
  <1> DEFINE S == {n \in Nat : \E f : IsStages(f, adj, n)}
  <1>1. 0 \in S
    <2> DEFINE f == [n \in 0..0 |-> Direct(adj)]
    <2>1. IsStages(f, adj, 0)  BY DEF IsStages
    <2> QED  BY <2>1
  <1>2. ASSUME NEW n \in Nat, n \in S PROVE n + 1 \in S
    <2>1. PICK f : IsStages(f, adj, n)  BY <1>2
    <2> DEFINE g == [k \in 0..(n + 1) |->
                       IF k = n + 1 THEN Through(f[n], Order[n + 1]) ELSE f[k]]
               h == [k \in 0..(n + 1) |->
                       IF k = 0 THEN Direct(adj) ELSE Through(g[k - 1], Order[k])]
    <2>2. ASSUME NEW k \in 0..(n + 1) PROVE g[k] = h[k]
      <3>1. CASE k = n + 1  BY <3>1
      <3>2. CASE k # n + 1
        <4>1. k \in 0..n /\ (k # 0 => k - 1 \in 0..n)  BY <3>2
        <4>2. f[k] = IF k = 0 THEN Direct(adj) ELSE Through(f[k - 1], Order[k])
          BY <2>1, <4>1 DEF IsStages
        <4>3. g[k] = f[k] /\ (k # 0 => g[k - 1] = f[k - 1])  BY <4>1
        <4> QED  BY <4>1, <4>2, <4>3
      <3> QED  BY <3>1, <3>2
    <2>3. g = h  BY <2>2
    <2>4. IsStages(g, adj, n + 1)  BY <2>3 DEF IsStages
    <2> QED  BY <2>4
  <1>3. m \in S  BY <1>1, <1>2, SetInduction
  <1> QED  BY <1>3

(* What _calc_paths returns is the table after the last round.              *)
LEMMA CalcPathsStages ==
  ASSUME NEW adj
  PROVE  \E f : IsStages(f, adj, Len(Order)) /\ CalcPaths(adj) = f[Len(Order)]
  <1> DEFINE f == CHOOSE f : IsStages(f, adj, Len(Order))
  <1>1. Len(Order) \in Nat  BY PathConstants
  <1>2. IsStages(f, adj, Len(Order))  BY <1>1, StagesExist
  <1>3. CalcPaths(adj) = f[Len(Order)]
    BY DEF CalcPaths, IsStages, Direct
  <1> QED  BY <1>2, <1>3

-----------------------------------------------------------------------------
(* One round of the loops.                                                  *)

(* Distances, of which -1 is the infinite one.                              *)
Leq(a, b) == b = -1 \/ (a # -1 /\ a <= b)
Plus(a, b) == IF a = -1 \/ b = -1 THEN -1 ELSE a + b

LEMMA MatrixEntry ==
  ASSUME NEW pm \in Matrix, NEW i \in Switches, NEW j \in Switches
  PROVE  pm[i][j].dist \in Dist /\ pm[i][j].via \in Switches \cup {None}
  BY DEF Matrix

LEMMA ThroughEntry ==
  ASSUME NEW pm \in Matrix, NEW k \in Switches, NEW i \in Switches,
         NEW j \in Switches
  PROVE  LET new == Through(pm, k)[i][j]
             old == pm[i][j]
             round == Plus(pm[i][k].dist, pm[k][j].dist)
         IN \/ new = old /\ Leq(old.dist, round)
            \/ /\ new = [dist |-> round, via |-> k]
               /\ round \in Nat /\ ~Leq(old.dist, round)
               /\ pm[i][k].dist \in Nat /\ pm[k][j].dist \in Nat
  <1> DEFINE ik == pm[i][k].dist
             kj == pm[k][j].dist
             ij == pm[i][j].dist
  <1>1. ik \in Dist /\ kj \in Dist /\ ij \in Dist  BY DEF Matrix
  <1>2. Through(pm, k)[i][j] =
          IF Better(ik, kj, ij) THEN [dist |-> ik + kj, via |-> k] ELSE pm[i][j]
    BY DEF Through
  <1> HIDE DEF ik, kj, ij
  <1>3. CASE Better(ik, kj, ij)
    <2>1. Plus(ik, kj) = ik + kj /\ ik + kj \in Nat /\ ~Leq(ij, Plus(ik, kj))
      BY <1>1, <1>3 DEF Better, Plus, Leq, Dist
    <2>2. ik \in Nat /\ kj \in Nat  BY <1>1, <1>3 DEF Better, Dist
    <2> QED  BY <1>2, <1>3, <2>1, <2>2 DEF ik, kj, ij
  <1>4. CASE ~Better(ik, kj, ij)
    <2>1. Leq(ij, Plus(ik, kj))  BY <1>1, <1>4 DEF Better, Plus, Leq, Dist
    <2> QED  BY <1>2, <1>4, <2>1 DEF ik, kj, ij
  <1> QED  BY <1>3, <1>4

LEMMA ThroughDist ==
  ASSUME NEW pm \in Matrix, NEW k \in Switches, NEW i \in Switches,
         NEW j \in Switches, NEW q, q = Through(pm, k)
  PROVE  \/ /\ q[i][j] = pm[i][j] /\ q[i][j].dist = pm[i][j].dist
            /\ Leq(pm[i][j].dist, Plus(pm[i][k].dist, pm[k][j].dist))
         \/ /\ q[i][j].dist = Plus(pm[i][k].dist, pm[k][j].dist)
            /\ q[i][j].via = k
            /\ q[i][j].dist \in Nat /\ ~Leq(pm[i][j].dist, q[i][j].dist)
            /\ pm[i][k].dist \in Nat /\ pm[k][j].dist \in Nat
  <1> DEFINE round == Plus(pm[i][k].dist, pm[k][j].dist)
  <1>1. CASE q[i][j] = pm[i][j] /\ Leq(pm[i][j].dist, round)  BY <1>1
  <1>2. CASE /\ q[i][j] = [dist |-> round, via |-> k]
             /\ round \in Nat /\ ~Leq(pm[i][j].dist, round)
             /\ pm[i][k].dist \in Nat /\ pm[k][j].dist \in Nat
    <2>1. q[i][j].dist = round /\ q[i][j].via = k  BY <1>2
    <2> QED  BY <1>2, <2>1
  <1> QED  BY <1>1, <1>2, ThroughEntry

LEMMA ThroughType ==
  ASSUME NEW pm \in Matrix, NEW k \in Switches
  PROVE  Through(pm, k) \in Matrix
  <1>1. ASSUME NEW i \in Switches, NEW j \in Switches
        PROVE  Through(pm, k)[i][j] \in [dist : Dist, via : Switches \cup {None}]
    <2>1. pm[i][j] \in [dist : Dist, via : Switches \cup {None}]  BY DEF Matrix
    <2>2. \/ Through(pm, k)[i][j] = pm[i][j]
          \/ \E d \in Nat : Through(pm, k)[i][j] = [dist |-> d, via |-> k]
      BY ThroughEntry
    <2>3. \A d \in Nat : [dist |-> d, via |-> k] \in [dist : Dist, via : Switches \cup {None}]
      BY DEF Dist
    <2> QED  BY <2>1, <2>2, <2>3
  <1>2. Through(pm, k) = [i \in Switches |-> [j \in Switches |-> Through(pm, k)[i][j]]]
    BY DEF Through
  <1> QED  BY <1>1, <1>2 DEF Matrix

(* What holds of the table after every round: no distance is 0 but that of  *)
(* a switch to itself, adjacent switches are at distance 1 ...              *)
Sane(pm, adj) ==
  /\ pm \in Matrix
  /\ \A i, j \in Switches :
       /\ pm[i][j].dist = 0 <=> i = j
       /\ i = j => pm[i][j].via = None
       /\ i # j /\ adj[i][j] # 0 => pm[i][j].dist = 1

(* ... no way over a switch of K is shorter than the distance ...           *)
Triangle(pm, K) ==
  \A k \in K : \A i, j \in Switches :
    Leq(pm[i][j].dist, Plus(pm[i][k].dist, pm[k][j].dist))

(* ... and a switch that is reached is nearer from some neighbour.          *)
NextHop(pm, adj) ==
  \A i, j \in Switches : i # j /\ pm[i][j].dist # -1 =>
    \E c \in Switches : /\ c # i /\ adj[i][c] # 0
                        /\ pm[c][j].dist # -1 /\ pm[c][j].dist < pm[i][j].dist

LEMMA DirectSane ==
  ASSUME NEW adj
  PROVE  Sane(Direct(adj), adj) /\ NextHop(Direct(adj), adj)
  <1> DEFINE pm == Direct(adj)
  <1>1. \A i, j \in Switches :
          pm[i][j] = IF i = j THEN [dist |-> 0, via |-> None]
                     ELSE IF adj[i][j] # 0 THEN [dist |-> 1, via |-> None]
                     ELSE [dist |-> -1, via |-> None]
    BY DEF Direct, NoPath
  <1>2. pm \in Matrix
    <2>1. \A i, j \in Switches : pm[i][j] \in [dist : Dist, via : Switches \cup {None}]
      BY <1>1 DEF Dist
    <2>2. pm = [i \in Switches |-> [j \in Switches |-> pm[i][j]]]  BY DEF Direct
    <2> HIDE DEF pm
    <2> QED  BY <2>1, <2>2 DEF Matrix
  <1> HIDE DEF pm
  <1>3. Sane(pm, adj)  BY <1>1, <1>2 DEF Sane
  <1>4. NextHop(pm, adj)  BY <1>1 DEF NextHop
  <1> QED  BY <1>3, <1>4 DEF pm

LEMMA ThroughSane ==
  ASSUME NEW adj, NEW pm, Sane(pm, adj), NEW k \in Switches
  PROVE  Sane(Through(pm, k), adj)
  <1> DEFINE q == Through(pm, k)
  <1>1. q \in Matrix  BY ThroughType DEF Sane
  <1>2. ASSUME NEW i \in Switches, NEW j \in Switches
        PROVE  /\ q[i][j].dist = 0 <=> i = j
               /\ i = j => q[i][j].via = None
               /\ i # j /\ adj[i][j] # 0 => q[i][j].dist = 1
    <2> DEFINE round == Plus(pm[i][k].dist, pm[k][j].dist)
    <2>1. /\ pm[i][j].dist \in Dist /\ pm[i][k].dist \in Dist /\ pm[k][j].dist \in Dist
      BY DEF Sane, Matrix
    <2>2. CASE q[i][j] = pm[i][j]  BY <2>2 DEF Sane
    <2>3. CASE /\ q[i][j] = [dist |-> round, via |-> k]
               /\ round \in Nat /\ ~Leq(pm[i][j].dist, round)
               /\ pm[i][k].dist \in Nat /\ pm[k][j].dist \in Nat
      <3>1. k # i /\ k # j
        BY <2>1, <2>3 DEF Sane, Leq, Plus, Dist
      <3>2. pm[i][k].dist >= 1 /\ pm[k][j].dist >= 1
        BY <2>1, <2>3, <3>1 DEF Sane
      <3>3. round >= 2  BY <2>3, <3>2 DEF Plus
      <3>4. pm[i][j].dist \notin {0, 1}  BY <2>3, <3>3 DEF Leq
      <3> QED  BY <2>3, <3>3, <3>4 DEF Sane
    <2> QED  BY <2>2, <2>3, ThroughEntry DEF Sane
  <1> QED  BY <1>1, <1>2 DEF Sane

(* A round never makes a distance longer.                                   *)
LEMMA ThroughShorter ==
  ASSUME NEW pm \in Matrix, NEW k \in Switches, NEW i \in Switches,
         NEW j \in Switches
  PROVE  /\ Leq(Through(pm, k)[i][j].dist, pm[i][j].dist)
         /\ Leq(Through(pm, k)[i][j].dist, Plus(pm[i][k].dist, pm[k][j].dist))
  <1>1. pm[i][j].dist \in Dist  BY DEF Matrix
  <1> DEFINE round == Plus(pm[i][k].dist, pm[k][j].dist)
             new == Through(pm, k)[i][j]
  <1>2. \/ new.dist = pm[i][j].dist /\ Leq(pm[i][j].dist, round)
        \/ new.dist = round /\ round \in Nat /\ ~Leq(pm[i][j].dist, round)
    BY ThroughDist
  <1> HIDE DEF round, new
  <1>3. Leq(new.dist, pm[i][j].dist) /\ Leq(new.dist, round)
    BY <1>1, <1>2 DEF Leq, Dist
  <1> QED  BY <1>3 DEF round, new

(* The round for k: no way over k is shorter than the new distances, and    *)
(* the ways over the switches of earlier rounds are no shorter either.      *)
LEMMA ThroughTriangle ==
  ASSUME NEW adj, NEW pm, Sane(pm, adj), NEW k \in Switches,
         NEW K \in SUBSET Switches, Triangle(pm, K)
  PROVE  Triangle(Through(pm, k), K \cup {k})
  <1> DEFINE D(a, b) == pm[a][b].dist
             N(a, b) == Through(pm, k)[a][b].dist
  <1>1. \A a, b \in Switches : D(a, b) \in Dist /\ N(a, b) \in Dist
    BY ThroughType, MatrixEntry DEF Sane
  <1>2. \A a, b \in Switches :
          /\ Leq(N(a, b), D(a, b)) /\ Leq(N(a, b), Plus(D(a, k), D(k, b)))
          /\ N(a, b) = D(a, b) \/ N(a, b) = Plus(D(a, k), D(k, b))
    <2>1. pm \in Matrix  BY DEF Sane
    <2> SUFFICES ASSUME NEW a \in Switches, NEW b \in Switches
                 PROVE  /\ Leq(N(a, b), D(a, b))
                        /\ Leq(N(a, b), Plus(D(a, k), D(k, b)))
                        /\ \/ N(a, b) = D(a, b)
                           \/ N(a, b) = Plus(D(a, k), D(k, b))
      OBVIOUS
    <2>2. Leq(N(a, b), D(a, b)) /\ Leq(N(a, b), Plus(D(a, k), D(k, b)))
      BY <2>1, ThroughShorter
    <2>3. N(a, b) = D(a, b) \/ N(a, b) = Plus(D(a, k), D(k, b))
      BY <2>1, ThroughDist
    <2> QED  BY <2>2, <2>3
  <1>3. D(k, k) = 0  BY DEF Sane
  <1>4. \A c \in K : \A a, b \in Switches : Leq(D(a, b), Plus(D(a, c), D(c, b)))
    BY DEF Triangle
  <1> HIDE DEF D, N
  <1>5. \A a \in Switches : N(a, k) = D(a, k) /\ N(k, a) = D(k, a)
    BY <1>1, <1>2, <1>3 DEF Leq, Plus, Dist
  <1>6. ASSUME NEW a \in Switches, NEW b \in Switches
        PROVE  Leq(N(a, b), Plus(N(a, k), N(k, b)))
    BY <1>2, <1>5
  <1>7. ASSUME NEW c \in K, NEW a \in Switches, NEW b \in Switches
        PROVE  Leq(N(a, b), Plus(N(a, c), N(c, b)))
    <2>1. /\ Leq(D(a, b), Plus(D(a, c), D(c, b)))
          /\ Leq(D(k, b), Plus(D(k, c), D(c, b)))
          /\ Leq(D(a, k), Plus(D(a, c), D(c, k)))
      BY <1>4
    <2>2. /\ Leq(N(a, b), D(a, b)) /\ Leq(N(a, b), Plus(D(a, k), D(k, b)))
          /\ N(a, c) = D(a, c) \/ N(a, c) = Plus(D(a, k), D(k, c))
          /\ N(c, b) = D(c, b) \/ N(c, b) = Plus(D(c, k), D(k, b))
      BY <1>2
    <2>3. /\ D(a, b) \in Dist /\ D(a, c) \in Dist /\ D(c, b) \in Dist
          /\ D(k, b) \in Dist /\ D(k, c) \in Dist /\ D(a, k) \in Dist
          /\ D(c, k) \in Dist /\ N(a, b) \in Dist
      BY <1>1
    <2> QED  BY <2>1, <2>2, <2>3 DEF Leq, Plus, Dist
  <1> QED  BY <1>6, <1>7 DEF Triangle, N

LEMMA ThroughNextHop ==
  ASSUME NEW adj, NEW pm, Sane(pm, adj), NextHop(pm, adj), NEW k \in Switches
  PROVE  NextHop(Through(pm, k), adj)
  <1> DEFINE q == Through(pm, k)
  <1>1. SUFFICES ASSUME NEW i \in Switches, NEW j \in Switches, i # j,
                        q[i][j].dist # -1
                 PROVE  \E c \in Switches : /\ c # i /\ adj[i][c] # 0
                                            /\ q[c][j].dist # -1
                                            /\ q[c][j].dist < q[i][j].dist
    BY DEF NextHop
  <1>2. \A a, b \in Switches : pm[a][b].dist \in Dist /\ q[a][b].dist \in Dist
    BY ThroughType, MatrixEntry DEF Sane
  <1>3. \A a \in Switches : /\ Leq(q[a][j].dist, pm[a][j].dist)
                            /\ Leq(q[a][j].dist, Plus(pm[a][k].dist, pm[k][j].dist))
    BY ThroughShorter DEF Sane
  <1>4. CASE q[i][j] = pm[i][j]
    <2>1. PICK c \in Switches : /\ c # i /\ adj[i][c] # 0
                                /\ pm[c][j].dist # -1
                                /\ pm[c][j].dist < pm[i][j].dist
      BY <1>1, <1>4 DEF NextHop
    <2>2. Leq(q[c][j].dist, pm[c][j].dist)  BY <1>3
    <2> HIDE DEF q
    <2>3. q[c][j].dist # -1 /\ q[c][j].dist < q[i][j].dist
      BY <1>2, <1>4, <2>1, <2>2 DEF Leq, Dist
    <2> QED  BY <2>1, <2>3
  <1>5. CASE q[i][j] # pm[i][j]
    <2>1. /\ q[i][j].dist = Plus(pm[i][k].dist, pm[k][j].dist)
          /\ ~Leq(pm[i][j].dist, Plus(pm[i][k].dist, pm[k][j].dist))
          /\ pm[i][k].dist \in Nat /\ pm[k][j].dist \in Nat
      <3>1. pm \in Matrix  BY DEF Sane
      <3> QED  BY <1>5, <3>1, ThroughDist
    <2>2. k # i
      <3>1. pm[i][i].dist = 0  BY DEF Sane
      <3> QED  BY <1>2, <2>1, <3>1 DEF Plus, Leq, Dist
    <2>3. PICK c \in Switches : /\ c # i /\ adj[i][c] # 0
                                /\ pm[c][k].dist # -1
                                /\ pm[c][k].dist < pm[i][k].dist
      BY <2>1, <2>2 DEF NextHop
    <2>4. Leq(q[c][j].dist, Plus(pm[c][k].dist, pm[k][j].dist))  BY <1>3
    <2> HIDE DEF q
    <2>5. q[c][j].dist # -1 /\ q[c][j].dist < q[i][j].dist
      <3>1. pm[c][k].dist \in Nat  BY <1>2, <2>3 DEF Dist
      <3> QED  BY <1>2, <2>1, <2>3, <2>4, <3>1 DEF Leq, Plus, Dist
    <2> QED  BY <2>3, <2>5
  <1> QED  BY <1>4, <1>5

-----------------------------------------------------------------------------
(* All rounds.                                                              *)

(* The switches of the first n rounds.                                      *)
Done(n) == {Order[i] : i \in 1..n}

LEMMA OrderFacts ==
  /\ Len(Order) \in Nat
  /\ \A n \in 1..Len(Order) : Order[n] \in Switches
  /\ \A n \in 0..Len(Order) : Done(n) \in SUBSET Switches
  /\ \A n \in Nat : Done(n + 1) = Done(n) \cup {Order[n + 1]}
  /\ Done(Len(Order)) = Switches
  <1>1. Order \in Seq(Switches) /\ \A s \in Switches : \E i \in DOMAIN Order : Order[i] = s
    BY PathConstants
  <1>2. DOMAIN Order = 1..Len(Order) /\ Len(Order) \in Nat  BY <1>1
  <1>3. \A n \in 1..Len(Order) : Order[n] \in Switches  BY <1>1, <1>2
  <1>4. \A n \in Nat : Done(n + 1) = Done(n) \cup {Order[n + 1]}
    <2> TAKE n \in Nat
    <2>1. 1..(n + 1) = (1..n) \cup {n + 1}  OBVIOUS
    <2> QED  BY <2>1 DEF Done
  <1>5. \A n \in 0..Len(Order) : Done(n) \in SUBSET Switches
    BY <1>2, <1>3 DEF Done
  <1>6. Done(Len(Order)) = Switches  BY <1>1, <1>2, <1>3 DEF Done
  <1> QED  BY <1>2, <1>3, <1>4, <1>5, <1>6

LEMMA StageStep ==
  ASSUME NEW adj, NEW f, IsStages(f, adj, Len(Order))
  PROVE  /\ f[0] = Direct(adj)
         /\ \A n \in 0..(Len(Order) - 1) : f[n + 1] = Through(f[n], Order[n + 1])
  <1>1. Len(Order) \in Nat  BY OrderFacts
  <1>2. f[0] = Direct(adj)  BY <1>1 DEF IsStages
  <1>3. ASSUME NEW n \in 0..(Len(Order) - 1)
        PROVE  f[n + 1] = Through(f[n], Order[n + 1])
    <2>1. n + 1 \in 0..Len(Order) /\ n + 1 # 0 /\ (n + 1) - 1 = n  BY <1>1
    <2>2. f[n + 1] = IF n + 1 = 0 THEN Direct(adj)
                     ELSE Through(f[(n + 1) - 1], Order[n + 1])
      BY <2>1 DEF IsStages
    <2> QED  BY <2>1, <2>2
  <1> QED  BY <1>2, <1>3

LEMMA StageFacts ==
  ASSUME NEW adj, NEW f, IsStages(f, adj, Len(Order)), NEW m \in 0..Len(Order)
  PROVE  Sane(f[m], adj) /\ NextHop(f[m], adj) /\ Triangle(f[m], Done(m))
  <1> DEFINE S == {n \in Nat : n <= Len(Order) =>
                     Sane(f[n], adj) /\ NextHop(f[n], adj) /\ Triangle(f[n], Done(n))}
  <1>1. 0 \in S
    <2>1. Sane(f[0], adj) /\ NextHop(f[0], adj)  BY StageStep, DirectSane
    <2>2. Triangle(f[0], Done(0))
      <3>1. Done(0) = {}  BY DEF Done
      <3> QED  BY <3>1 DEF Triangle
    <2> QED  BY <2>1, <2>2
  <1>2. ASSUME NEW n \in Nat, n \in S PROVE n + 1 \in S
    <2>1. SUFFICES ASSUME n + 1 <= Len(Order)
                   PROVE  /\ Sane(f[n + 1], adj) /\ NextHop(f[n + 1], adj)
                          /\ Triangle(f[n + 1], Done(n + 1))
      OBVIOUS
    <2>2. /\ n \in 0..(Len(Order) - 1) /\ n \in 0..Len(Order)
          /\ n + 1 \in 1..Len(Order) /\ n <= Len(Order)
      BY <2>1, OrderFacts
    <2>3. Sane(f[n], adj) /\ NextHop(f[n], adj) /\ Triangle(f[n], Done(n))
      BY <1>2, <2>2
    <2>4. f[n + 1] = Through(f[n], Order[n + 1])  BY <2>2, StageStep
    <2>5. Order[n + 1] \in Switches /\ Done(n) \in SUBSET Switches
          /\ Done(n + 1) = Done(n) \cup {Order[n + 1]}
      BY <2>2, OrderFacts
    <2> QED  BY <2>3, <2>4, <2>5, ThroughSane, ThroughTriangle, ThroughNextHop
  <1>3. m \in S
    <2>1. m \in Nat  BY OrderFacts
    <2> HIDE DEF S
    <2> QED  BY <1>1, <1>2, <2>1, SetInduction
  <1> QED  BY <1>3

(* The table of _calc_paths.                                                *)
LEMMA CalcPathsFacts ==
  ASSUME NEW adj
  PROVE  /\ Sane(CalcPaths(adj), adj) /\ NextHop(CalcPaths(adj), adj)
         /\ Triangle(CalcPaths(adj), Switches)
  <1>1. PICK f : IsStages(f, adj, Len(Order)) /\ CalcPaths(adj) = f[Len(Order)]
    BY CalcPathsStages
  <1>2. Len(Order) \in 0..Len(Order) /\ Done(Len(Order)) = Switches  BY OrderFacts
  <1> QED  BY <1>1, <1>2, StageFacts

(* Entries only change for a shorter distance.                              *)
LEMMA StageMonotone ==
  ASSUME NEW adj, NEW f, IsStages(f, adj, Len(Order)),
         NEW n \in 0..Len(Order), NEW m \in n..Len(Order),
         NEW i \in Switches, NEW j \in Switches
  PROVE  f[m][i][j] = f[n][i][j] \/ ~Leq(f[n][i][j].dist, f[m][i][j].dist)
  <1> DEFINE S == {d \in Nat : n + d <= Len(Order) =>
                     \/ f[n + d][i][j] = f[n][i][j]
                     \/ ~Leq(f[n][i][j].dist, f[n + d][i][j].dist)}
  <1>1. 0 \in S  OBVIOUS
  <1>2. ASSUME NEW d \in Nat, d \in S PROVE d + 1 \in S
    <2>1. SUFFICES ASSUME n + (d + 1) <= Len(Order)
                   PROVE  \/ f[n + (d + 1)][i][j] = f[n][i][j]
                          \/ ~Leq(f[n][i][j].dist, f[n + (d + 1)][i][j].dist)
      OBVIOUS
    <2> DEFINE k == n + d
    <2>2. /\ k \in 0..(Len(Order) - 1) /\ k \in 0..Len(Order) /\ k <= Len(Order)
          /\ k + 1 \in 1..Len(Order) /\ n + (d + 1) = k + 1
      BY <2>1, OrderFacts
    <2> HIDE DEF k
    <2>3. f[k + 1] = Through(f[k], Order[k + 1]) /\ Order[k + 1] \in Switches
      BY <2>2, StageStep, OrderFacts
    <2>4. f[k] \in Matrix /\ f[n] \in Matrix  BY <2>2, StageFacts DEF Sane
    <2>5. \/ f[k + 1][i][j] = f[k][i][j]
          \/ ~Leq(f[k][i][j].dist, f[k + 1][i][j].dist) /\ f[k + 1][i][j].dist \in Nat
      BY <2>3, <2>4, ThroughDist
    <2>6. \/ f[k][i][j] = f[n][i][j]
          \/ ~Leq(f[n][i][j].dist, f[k][i][j].dist)
      BY <1>2, <2>2 DEF k
    <2>7. f[n][i][j].dist \in Dist /\ f[k][i][j].dist \in Dist
      BY <2>4, MatrixEntry
    <2>8. \/ f[k + 1][i][j] = f[n][i][j]
          \/ ~Leq(f[n][i][j].dist, f[k + 1][i][j].dist)
      <3>1. CASE f[k + 1][i][j] = f[k][i][j]  BY <2>6, <3>1
      <3>2. CASE f[k][i][j] = f[n][i][j]  BY <2>5, <3>2
      <3>3. CASE /\ ~Leq(f[k][i][j].dist, f[k + 1][i][j].dist)
                 /\ f[k + 1][i][j].dist \in Nat
                 /\ ~Leq(f[n][i][j].dist, f[k][i][j].dist)
        BY <2>7, <3>3 DEF Leq, Dist
      <3> QED  BY <2>5, <2>6, <3>1, <3>2, <3>3
    <2> QED  BY <2>2, <2>8
  <1>3. m - n \in Nat /\ n + (m - n) = m /\ m <= Len(Order)  BY OrderFacts
  <1>4. m - n \in S
    <2> HIDE DEF S
    <2> QED  BY <1>1, <1>2, <1>3, SetInduction
  <1> QED  BY <1>3, <1>4

-----------------------------------------------------------------------------
(* The paths.                                                               *)

(* f has what _get_raw_path returns with a recursion at most 0, 1 ... m     *)
(* calls deep.                                                              *)
NoRaw == [i \in Switches |-> [j \in Switches |-> <<>>]]
IsRaw(f, pm, m) ==
  f = [n \in 0..m |-> IF n = 0 THEN NoRaw ELSE Spliced(pm, f[n - 1])]

LEMMA RawExist ==
  ASSUME NEW pm, NEW m \in Nat
  PROVE  \E f : IsRaw(f, pm, m)
  <1> DEFINE S == {n \in Nat : \E f : IsRaw(f, pm, n)}
  <1>1. 0 \in S
    <2> DEFINE f == [n \in 0..0 |-> NoRaw]
    <2>1. IsRaw(f, pm, 0)  BY DEF IsRaw
    <2> QED  BY <2>1
  <1>2. ASSUME NEW n \in Nat, n \in S PROVE n + 1 \in S
    <2>1. PICK f : IsRaw(f, pm, n)  BY <1>2
    <2> DEFINE g == [k \in 0..(n + 1) |->
                       IF k = n + 1 THEN Spliced(pm, f[n]) ELSE f[k]]
               h == [k \in 0..(n + 1) |->
                       IF k = 0 THEN NoRaw ELSE Spliced(pm, g[k - 1])]
    <2>2. ASSUME NEW k \in 0..(n + 1) PROVE g[k] = h[k]
      <3>1. CASE k = n + 1  BY <3>1
      <3>2. CASE k # n + 1
        <4>1. k \in 0..n /\ (k # 0 => k - 1 \in 0..n)  BY <3>2
        <4>2. f[k] = IF k = 0 THEN NoRaw ELSE Spliced(pm, f[k - 1])
          BY <2>1, <4>1 DEF IsRaw
        <4>3. g[k] = f[k] /\ (k # 0 => g[k - 1] = f[k - 1])  BY <4>1
        <4> QED  BY <4>1, <4>2, <4>3
      <3> QED  BY <3>1, <3>2
    <2>3. g = h  BY <2>2
    <2>4. IsRaw(g, pm, n + 1)  BY <2>3 DEF IsRaw
    <2> QED  BY <2>4
  <1>3. m \in S  BY <1>1, <1>2, SetInduction
  <1> QED  BY <1>3

LEMMA RawPathsDeep ==
  ASSUME NEW pm
  PROVE  \E f : IsRaw(f, pm, Len(Order)) /\ RawPaths(pm) = f[Len(Order)]
  <1> DEFINE f == CHOOSE f : IsRaw(f, pm, Len(Order))
  <1>1. Len(Order) \in Nat  BY OrderFacts
  <1>2. IsRaw(f, pm, Len(Order))  BY <1>1, RawExist
  <1>3. RawPaths(pm) = f[Len(Order)]  BY DEF RawPaths, IsRaw, NoRaw
  <1> QED  BY <1>2, <1>3

LEMMA RawStep ==
  ASSUME NEW pm, NEW f, IsRaw(f, pm, Len(Order))
  PROVE  /\ f[0] = NoRaw
         /\ \A n \in 0..(Len(Order) - 1) : f[n + 1] = Spliced(pm, f[n])
  <1>1. Len(Order) \in Nat  BY OrderFacts
  <1>2. f[0] = NoRaw  BY <1>1 DEF IsRaw
  <1>3. ASSUME NEW n \in 0..(Len(Order) - 1)
        PROVE  f[n + 1] = Spliced(pm, f[n])
    <2>1. n + 1 \in 0..Len(Order) /\ n + 1 # 0 /\ (n + 1) - 1 = n  BY <1>1
    <2>2. f[n + 1] = IF n + 1 = 0 THEN NoRaw ELSE Spliced(pm, f[(n + 1) - 1])
      BY <2>1 DEF IsRaw
    <2> QED  BY <2>1, <2>2
  <1> QED  BY <1>2, <1>3

RawMatrix == [Switches -> [Switches -> Seq(Switches)]]

LEMMA SplicedType ==
  ASSUME NEW pm \in Matrix, NEW raw \in RawMatrix
  PROVE  Spliced(pm, raw) \in RawMatrix
  <1>1. ASSUME NEW i \in Switches, NEW j \in Switches
        PROVE  (IF i = j \/ pm[i][j].via = None THEN <<>>
                ELSE raw[i][pm[i][j].via] \o <<pm[i][j].via>> \o raw[pm[i][j].via][j])
                 \in Seq(Switches)
    <2> DEFINE k == pm[i][j].via
    <2>1. CASE i = j \/ k = None  BY <2>1
    <2>2. CASE ~(i = j \/ k = None)
      <3>1. k \in Switches  BY <2>2, MatrixEntry
      <3> HIDE DEF k
      <3>2. raw[i][k] \in Seq(Switches) /\ raw[k][j] \in Seq(Switches)
            /\ <<k>> \in Seq(Switches)
        BY <3>1 DEF RawMatrix
      <3>3. raw[i][k] \o <<k>> \o raw[k][j] \in Seq(Switches)  BY <3>2
      <3> QED  BY <2>2, <3>3 DEF k
    <2> QED  BY <2>1, <2>2
  <1> QED  BY <1>1 DEF Spliced, RawMatrix

LEMMA RawType ==
  ASSUME NEW pm \in Matrix, NEW f, IsRaw(f, pm, Len(Order)), NEW m \in 0..Len(Order)
  PROVE  f[m] \in RawMatrix
  <1> DEFINE S == {n \in Nat : n <= Len(Order) => f[n] \in RawMatrix}
  <1>1. 0 \in S
    <2>1. f[0] = NoRaw  BY RawStep
    <2>2. NoRaw \in RawMatrix  BY DEF NoRaw, RawMatrix
    <2> QED  BY <2>1, <2>2
  <1>2. ASSUME NEW n \in Nat, n \in S PROVE n + 1 \in S
    <2>1. SUFFICES ASSUME n + 1 <= Len(Order) PROVE f[n + 1] \in RawMatrix
      OBVIOUS
    <2>2. n \in 0..(Len(Order) - 1) /\ n <= Len(Order)  BY <2>1, OrderFacts
    <2>3. f[n] \in RawMatrix /\ f[n + 1] = Spliced(pm, f[n])
      BY <1>2, <2>2, RawStep
    <2> QED  BY <2>3, SplicedType
  <1>3. m \in S
    <2>1. m \in Nat  BY OrderFacts
    <2> HIDE DEF S
    <2> QED  BY <1>1, <1>2, <2>1, SetInduction
  <1> QED  BY <1>3, OrderFacts

LEMMA RawPathsType ==
  ASSUME NEW pm \in Matrix
  PROVE  RawPaths(pm) \in RawMatrix
  <1>1. Len(Order) \in 0..Len(Order)  BY OrderFacts
  <1> QED  BY <1>1, RawPathsDeep, RawType

(* The path from a to b over the switches of r has d links, each between    *)
(* adjacent switches.                                                       *)
IsWay(adj, a, r, b, d) ==
  LET p == <<a>> \o r \o <<b>>
  IN Len(p) = d + 1 /\ \A i \in 1..d : adj[p[i]][p[i + 1]] # 0

LEMMA PathElements ==
  ASSUME NEW a \in Switches, NEW b \in Switches, NEW r \in Seq(Switches)
  PROVE  LET p == <<a>> \o r \o <<b>>
         IN /\ p \in Seq(Switches) /\ Len(p) = Len(r) + 2
            /\ p[1] = a /\ p[Len(r) + 2] = b
            /\ \A i \in 1..Len(r) : p[i + 1] = r[i]
  OBVIOUS

(* Two ways that meet make one.                                             *)
LEMMA WaysJoin ==
  ASSUME NEW adj, NEW a \in Switches, NEW k \in Switches, NEW b \in Switches,
         NEW r \in Seq(Switches), NEW t \in Seq(Switches),
         NEW d \in Nat, NEW e \in Nat,
         IsWay(adj, a, r, k, d), IsWay(adj, k, t, b, e)
  PROVE  IsWay(adj, a, r \o <<k>> \o t, b, d + e)
  <1> DEFINE p == <<a>> \o r \o <<k>>
             q == <<k>> \o t \o <<b>>
             u == r \o <<k>> \o t
             w == <<a>> \o u \o <<b>>
  <1>1. /\ Len(p) = Len(r) + 2 /\ p[1] = a /\ p[Len(r) + 2] = k
        /\ \A i \in 1..Len(r) : p[i + 1] = r[i]
    BY PathElements
  <1>2. /\ Len(q) = Len(t) + 2 /\ q[1] = k /\ q[Len(t) + 2] = b
        /\ \A i \in 1..Len(t) : q[i + 1] = t[i]
    BY PathElements
  <1>3. /\ u \in Seq(Switches) /\ Len(u) = Len(r) + Len(t) + 1
        /\ \A i \in 1..Len(r) : u[i] = r[i]
        /\ u[Len(r) + 1] = k
        /\ \A i \in 1..Len(t) : u[Len(r) + 1 + i] = t[i]
    OBVIOUS
  <1>4. /\ Len(p) = d + 1 /\ \A i \in 1..d : adj[p[i]][p[i + 1]] # 0
        /\ Len(q) = e + 1 /\ \A i \in 1..e : adj[q[i]][q[i + 1]] # 0
    BY DEF IsWay
  <1> HIDE DEF p, q, u
  <1>5. /\ Len(w) = Len(u) + 2 /\ w[1] = a /\ w[Len(u) + 2] = b
        /\ \A i \in 1..Len(u) : w[i + 1] = u[i]
    BY <1>3, PathElements
  <1> HIDE DEF w
  <1>6. Len(r) \in Nat /\ Len(t) \in Nat  OBVIOUS
  <1>7. d = Len(r) + 1 /\ e = Len(t) + 1 /\ Len(w) = (d + e) + 1
    <2>1. /\ Len(p) = Len(r) + 2 /\ Len(p) = d + 1
          /\ Len(q) = Len(t) + 2 /\ Len(q) = e + 1
          /\ Len(w) = Len(u) + 2 /\ Len(u) = Len(r) + Len(t) + 1
      BY <1>1, <1>2, <1>3, <1>4, <1>5
    <2> QED  BY <1>6, <2>1
  <1>8. ASSUME NEW i \in 1..(d + 1) PROVE w[i] = p[i]
    <2>1. CASE i = 1  BY <1>1, <1>5, <2>1
    <2>2. CASE i = d + 1
      <3>1. Len(r) + 1 \in 1..Len(u) /\ i = (Len(r) + 1) + 1 /\ i = Len(r) + 2
        BY <1>3, <1>6, <1>7, <2>2
      <3> QED  BY <1>1, <1>3, <1>5, <3>1
    <2>3. CASE i # 1 /\ i # d + 1
      <3>1. i - 1 \in 1..Len(r) /\ i - 1 \in 1..Len(u) /\ i = (i - 1) + 1
        BY <1>3, <1>6, <1>7, <2>3
      <3> QED  BY <1>1, <1>3, <1>5, <3>1
    <2> QED  BY <2>1, <2>2, <2>3
  <1>9. ASSUME NEW i \in 1..(e + 1) PROVE w[d + i] = q[i]
    <2>1. CASE i = 1
      <3>1. d + 1 \in 1..(d + 1) /\ d + 1 = Len(r) + 2  BY <1>7, <1>6
      <3> QED  BY <1>1, <1>2, <1>8, <2>1, <3>1
    <2>2. CASE i = e + 1
      <3>1. d + i = Len(u) + 2 /\ i = Len(t) + 2  BY <1>3, <1>6, <1>7, <2>2
      <3> QED  BY <1>2, <1>5, <3>1
    <2>3. CASE i # 1 /\ i # e + 1
      <3>1. i - 1 \in 1..Len(t) /\ i = (i - 1) + 1
            /\ Len(r) + 1 + (i - 1) \in 1..Len(u)
            /\ d + i = (Len(r) + 1 + (i - 1)) + 1
        BY <1>3, <1>6, <1>7, <2>3
      <3>2. q[i] = t[i - 1]  BY <1>2, <3>1
      <3>3. w[d + i] = u[Len(r) + 1 + (i - 1)]  BY <1>5, <3>1
      <3>4. u[Len(r) + 1 + (i - 1)] = t[i - 1]  BY <1>3, <3>1
      <3> QED  BY <3>2, <3>3, <3>4
    <2> QED  BY <2>1, <2>2, <2>3
  <1>10. ASSUME NEW i \in 1..(d + e) PROVE adj[w[i]][w[i + 1]] # 0
    <2>1. CASE i <= d
      <3>1. i \in 1..d /\ i \in 1..(d + 1) /\ i + 1 \in 1..(d + 1)  BY <2>1
      <3> QED  BY <1>4, <1>8, <3>1
    <2>2. CASE i > d
      <3>1. i - d \in 1..e /\ i - d \in 1..(e + 1) /\ (i - d) + 1 \in 1..(e + 1)
            /\ d + (i - d) = i /\ d + ((i - d) + 1) = i + 1
        BY <2>2
      <3>2. w[i] = q[i - d] /\ w[i + 1] = q[(i - d) + 1]  BY <1>9, <3>1
      <3> QED  BY <1>4, <3>1, <3>2
    <2> QED  BY <2>1, <2>2
  <1> QED  BY <1>7, <1>10 DEF IsWay, w, u

LEMMA PartsNotShorter ==
  ASSUME NEW x \in Nat, NEW y \in Nat, NEW a \in Dist, NEW b \in Dist,
         Leq(x + y, Plus(a, b))
  PROVE  /\ ~(~Leq(x, a) /\ ~Leq(y, b))
         /\ ~(~Leq(x, a) /\ b = y) /\ ~(a = x /\ ~Leq(y, b))
  BY DEF Leq, Plus, Dist

(* The entry of i and j in the last table goes over v, in two parts that    *)
(* are in the table pm already.                                             *)
InParts(pm, final, i, j, v) ==
  /\ v \in Switches /\ v # i /\ v # j /\ v # None
  /\ pm[i][v] = final[i][v] /\ pm[v][j] = final[v][j]
  /\ final[i][v].dist \in Nat /\ final[v][j].dist \in Nat
  /\ final[i][j].dist = final[i][v].dist + final[v][j].dist

(* An entry that has its last value after the round n + 1 and not before:   *)
(* the two parts it is made of had their last values before.                *)
LEMMA ViaParts ==
  ASSUME NEW adj, NEW f, IsStages(f, adj, Len(Order)),
         NEW n \in 0..(Len(Order) - 1), NEW i \in Switches, NEW j \in Switches,
         NEW final, final = f[Len(Order)], NEW v, v = final[i][j].via,
         f[n + 1][i][j] = final[i][j], f[n][i][j] # final[i][j]
  PROVE  InParts(f[n], final, i, j, v)
  <1> DEFINE N == Len(Order)
             k == Order[n + 1]
  <1>1. /\ N \in Nat /\ n \in 0..N /\ n + 1 \in 0..N /\ N \in n..N /\ N \in 0..N
        /\ n + 1 \in 1..N
    BY OrderFacts
  <1>2. k \in Switches /\ k # None  BY <1>1, OrderFacts, PathConstants
  <1>3. f[n + 1] = Through(f[n], k)  BY <1>1, StageStep
  <1>4. Sane(f[n], adj) /\ Sane(final, adj)  BY <1>1, StageFacts
  <1>5. Triangle(final, Switches)  BY <1>1, StageFacts, OrderFacts
  <1> HIDE DEF k
  <1>6. /\ f[n + 1][i][j].dist = Plus(f[n][i][k].dist, f[n][k][j].dist)
        /\ f[n + 1][i][j].via = k
        /\ ~Leq(f[n][i][j].dist, f[n + 1][i][j].dist)
        /\ f[n][i][k].dist \in Nat /\ f[n][k][j].dist \in Nat
    BY <1>2, <1>3, <1>4, ThroughDist, SMTT(30) DEF Sane
  <1>7. final[i][j] = f[n + 1][i][j]  OBVIOUS
  <1>8. k # i /\ k # j
    <2>1. f[n][i][i].dist = 0 /\ f[n][j][j].dist = 0  BY <1>4 DEF Sane
    <2>2. f[n][i][j].dist \in Dist  BY <1>4, MatrixEntry DEF Sane
    <2> QED  BY <1>6, <2>1, <2>2 DEF Plus, Leq, Dist
  <1>9. /\ final[i][k] = f[n][i][k] \/ ~Leq(f[n][i][k].dist, final[i][k].dist)
        /\ final[k][j] = f[n][k][j] \/ ~Leq(f[n][k][j].dist, final[k][j].dist)
    BY <1>1, <1>2, StageMonotone
  <1>10. Leq(final[i][j].dist, Plus(final[i][k].dist, final[k][j].dist))
    BY <1>2, <1>5 DEF Triangle
  <1>11. final[i][k].dist \in Dist /\ final[k][j].dist \in Dist
    BY <1>2, <1>4, MatrixEntry DEF Sane
  <1>12. final[i][j].dist = f[n][i][k].dist + f[n][k][j].dist
    BY <1>6, <1>7 DEF Plus
  <1>13. final[i][k] = f[n][i][k] /\ final[k][j] = f[n][k][j]
    <2>1. Leq(f[n][i][k].dist + f[n][k][j].dist,
              Plus(final[i][k].dist, final[k][j].dist))
      BY <1>10, <1>12
    <2>2. /\ ~(/\ ~Leq(f[n][i][k].dist, final[i][k].dist)
               /\ ~Leq(f[n][k][j].dist, final[k][j].dist))
          /\ ~(/\ ~Leq(f[n][i][k].dist, final[i][k].dist)
               /\ final[k][j].dist = f[n][k][j].dist)
          /\ ~(/\ final[i][k].dist = f[n][i][k].dist
               /\ ~Leq(f[n][k][j].dist, final[k][j].dist))
      BY <1>6, <1>11, <2>1, PartsNotShorter
    <2> QED  BY <1>9, <2>2
  <1>14. v = k  BY <1>6, <1>7
  <1> QED  BY <1>2, <1>6, <1>8, <1>12, <1>13, <1>14 DEF InParts

(* _get_raw_path finds a way of as many links as the distance says.  After  *)
(* n rounds it does so, with n calls or more, for every pair whose entry    *)
(* has its last value.                                                      *)
LEMMA RawWays ==
  ASSUME NEW adj, NEW a \in Switches, NEW b \in Switches, a # b,
         CalcPaths(adj)[a][b].dist # -1
  PROVE  IsWay(adj, a, RawPaths(CalcPaths(adj))[a][b], b, CalcPaths(adj)[a][b].dist)
  <1> DEFINE N == Len(Order)
             final == CalcPaths(adj)
  <1>1. PICK f : IsStages(f, adj, N) /\ final = f[N]  BY CalcPathsStages
  <1>2. PICK g : IsRaw(g, final, N) /\ RawPaths(final) = g[N]  BY RawPathsDeep
  <1>3. Sane(final, adj) /\ final \in Matrix  BY CalcPathsFacts DEF Sane
  <1>4. N \in Nat  BY OrderFacts
  <1> HIDE DEF final, N
  <1> DEFINE Good(n) == \A m \in n..N : \A i, j \in Switches :
               i # j /\ f[n][i][j] = final[i][j] /\ final[i][j].dist # -1
                 => IsWay(adj, i, g[m][i][j], j, final[i][j].dist)
             S == {n \in Nat : n <= N => Good(n)}
  <1>5. 0 \in S
    <2> SUFFICES ASSUME NEW m \in 0..N, NEW i \in Switches, NEW j \in Switches,
                        i # j, f[0][i][j] = final[i][j], final[i][j].dist # -1
                 PROVE  IsWay(adj, i, g[m][i][j], j, final[i][j].dist)
      OBVIOUS
    <2>1. f[0][i][j] = IF adj[i][j] # 0 THEN [dist |-> 1, via |-> None]
                       ELSE [dist |-> -1, via |-> None]
      <3>1. f[0] = Direct(adj)  BY <1>1, StageStep DEF N
      <3> QED  BY <3>1 DEF Direct, NoPath
    <2>2. adj[i][j] # 0 /\ final[i][j].dist = 1 /\ final[i][j].via = None
      BY <2>1
    <2>3. g[m][i][j] = <<>>
      <3>1. CASE m = 0  BY <1>2, <3>1, RawStep DEF NoRaw, N
      <3>2. CASE m # 0
        <4>1. m - 1 \in 0..(N - 1) /\ (m - 1) + 1 = m  BY <1>4, <3>2
        <4>2. g[m] = Spliced(final, g[m - 1])  BY <1>2, <4>1, RawStep DEF N
        <4> QED  BY <2>2, <4>2 DEF Spliced
      <3> QED  BY <3>1, <3>2
    <2>4. IsWay(adj, i, <<>>, j, 1)
      <3> DEFINE p == <<i>> \o <<>> \o <<j>>
      <3>1. <<>> \in Seq(Switches) /\ Len(<<>>) = 0  OBVIOUS
      <3>2. Len(p) = 2 /\ p[1] = i /\ p[2] = j
        <4>1. /\ Len(p) = Len(<<>>) + 2 /\ p[1] = i /\ p[Len(<<>>) + 2] = j
          BY <3>1, PathElements
        <4> HIDE DEF p
        <4> QED  BY <3>1, <4>1
      <3> HIDE DEF p
      <3>3. Len(p) = 1 + 1 /\ \A x \in 1..1 : adj[p[x]][p[x + 1]] # 0
        BY <2>2, <3>2
      <3> QED  BY <3>3 DEF IsWay, p
    <2> QED  BY <2>2, <2>3, <2>4
  <1>6. ASSUME NEW n \in Nat, n \in S PROVE n + 1 \in S
    <2>1. SUFFICES ASSUME n + 1 <= N, NEW m \in (n + 1)..N,
                          NEW i \in Switches, NEW j \in Switches,
                          i # j, f[n + 1][i][j] = final[i][j], final[i][j].dist # -1
                   PROVE  IsWay(adj, i, g[m][i][j], j, final[i][j].dist)
      OBVIOUS
    <2>2. /\ n \in 0..(N - 1) /\ n <= N /\ m \in n..N /\ m - 1 \in n..N
          /\ m - 1 \in 0..(N - 1) /\ m - 1 \in 0..N /\ (m - 1) + 1 = m
      BY <1>4, <2>1
    <2>3. Good(n)  BY <1>6, <2>2
    <2>4. CASE f[n][i][j] = final[i][j]  BY <2>1, <2>2, <2>3, <2>4
    <2>5. CASE f[n][i][j] # final[i][j]
      <3> DEFINE k == final[i][j].via
      <3>1. /\ k \in Switches /\ k # i /\ k # j /\ k # None
            /\ f[n][i][k] = final[i][k] /\ f[n][k][j] = final[k][j]
            /\ final[i][k].dist \in Nat /\ final[k][j].dist \in Nat
            /\ final[i][j].dist = final[i][k].dist + final[k][j].dist
        <4>1. IsStages(f, adj, Len(Order)) /\ final = f[Len(Order)]
              /\ n \in 0..(Len(Order) - 1)
          BY <1>1, <2>2 DEF N
        <4>2. k = final[i][j].via  OBVIOUS
        <4> HIDE DEF S, Good, k
        <4>3. InParts(f[n], final, i, j, k)
          BY <2>1, <2>5, <4>1, <4>2, ViaParts
        <4> QED  BY <4>3 DEF InParts
      <3> HIDE DEF Good
      <3>2. /\ IsWay(adj, i, g[m - 1][i][k], k, final[i][k].dist)
            /\ IsWay(adj, k, g[m - 1][k][j], j, final[k][j].dist)
        <4>1. final[i][k].dist # -1 /\ final[k][j].dist # -1  BY <3>1
        <4> QED  BY <2>2, <2>3, <3>1, <4>1 DEF Good
      <3>3. g[m][i][j] = g[m - 1][i][k] \o <<k>> \o g[m - 1][k][j]
        <4>1. g[m] = Spliced(final, g[m - 1])  BY <1>2, <2>2, RawStep DEF N
        <4>2. Spliced(final, g[m - 1])[i][j] =
                IF i = j \/ final[i][j].via = None THEN <<>>
                ELSE g[m - 1][i][final[i][j].via] \o <<final[i][j].via>>
                       \o g[m - 1][final[i][j].via][j]
          BY DEF Spliced
        <4> QED  BY <2>1, <3>1, <4>1, <4>2
      <3>4. g[m - 1][i][k] \in Seq(Switches) /\ g[m - 1][k][j] \in Seq(Switches)
        <4>1. g[m - 1] \in RawMatrix  BY <1>2, <1>3, <2>2, RawType DEF N
        <4> QED  BY <3>1, <4>1 DEF RawMatrix
      <3> HIDE DEF k
      <3>5. IsWay(adj, i, g[m - 1][i][k] \o <<k>> \o g[m - 1][k][j], j,
                  final[i][k].dist + final[k][j].dist)
        BY <3>1, <3>2, <3>4, WaysJoin
      <3> QED  BY <3>1, <3>3, <3>5
    <2> QED  BY <2>4, <2>5
  <1>7. N \in S
    <2> HIDE DEF S
    <2> QED  BY <1>4, <1>5, <1>6, SetInduction
  <1>8. Good(N) /\ N \in N..N  BY <1>4, <1>7
  <1> HIDE DEF Good
  <1>9. IsWay(adj, a, g[N][a][b], b, final[a][b].dist)
    BY <1>1, <1>8 DEF Good, final
  <1> QED  BY <1>2, <1>9 DEF final

-----------------------------------------------------------------------------
(* The distances.                                                           *)

(* Where a neighbour is nearer, one is nearer by one link; and no neighbour *)
(* is nearer by more.                                                       *)
LEMMA Neighbours ==
  ASSUME NEW adj, NEW pm, pm = CalcPaths(adj),
         NEW a \in Switches, NEW b \in Switches, a # b
  PROVE  /\ \A c \in Switches : adj[a][c] # 0 /\ pm[c][b].dist # -1 =>
              pm[a][b].dist # -1 /\ pm[a][b].dist <= pm[c][b].dist + 1
         /\ pm[a][b].dist # -1 =>
              \E c \in Switches : adj[a][c] # 0 /\ pm[c][b].dist # -1
                                  /\ pm[a][b].dist = pm[c][b].dist + 1
  <1>1. Sane(pm, adj) /\ NextHop(pm, adj) /\ Triangle(pm, Switches)
    BY CalcPathsFacts
  <1>2. \A c, d \in Switches : pm[c][d].dist \in Dist  BY <1>1, MatrixEntry DEF Sane
  <1>3. ASSUME NEW c \in Switches, adj[a][c] # 0, pm[c][b].dist # -1
        PROVE  pm[a][b].dist # -1 /\ pm[a][b].dist <= pm[c][b].dist + 1
    <2>1. CASE c = a  BY <1>2, <1>3, <2>1 DEF Dist
    <2>2. CASE c # a
      <3>1. pm[a][c].dist = 1  BY <1>1, <1>3, <2>2 DEF Sane
      <3>2. Leq(pm[a][b].dist, Plus(pm[a][c].dist, pm[c][b].dist))
        BY <1>1 DEF Triangle
      <3> QED  BY <1>2, <1>3, <3>1, <3>2 DEF Leq, Plus, Dist
    <2> QED  BY <2>1, <2>2
  <1>4. ASSUME pm[a][b].dist # -1
        PROVE  \E c \in Switches : adj[a][c] # 0 /\ pm[c][b].dist # -1
                                   /\ pm[a][b].dist = pm[c][b].dist + 1
    <2>1. PICK c \in Switches : /\ c # a /\ adj[a][c] # 0
                                /\ pm[c][b].dist # -1
                                /\ pm[c][b].dist < pm[a][b].dist
      BY <1>1, <1>4 DEF NextHop
    <2>2. pm[a][b].dist <= pm[c][b].dist + 1  BY <1>3, <2>1
    <2>3. pm[a][b].dist = pm[c][b].dist + 1  BY <1>2, <2>1, <2>2 DEF Dist
    <2> QED  BY <2>1, <2>3
  <1> QED  BY <1>3, <1>4

LEMMA LeastIs ==
  ASSUME NEW S, S \subseteq Nat, NEW n, NEW x \in S, \A y \in S : x <= y
  PROVE  Least(S, n) = x
  <1>1. \A z \in S : (\A y \in S : z <= y) => z = x  OBVIOUS
  <1> QED  BY <1>1 DEF Least

(* For every topology.                                                      *)
LEMMA ShortestAlways == PathsShortest
  <1> DEFINE pm == CalcPaths(adjacency)
             raw == RawPaths(pm)
             near(a, b) == {c \in Switches : adjacency[a][c] # 0 /\ pm[c][b].dist # -1}
             p(a, b) == <<a>> \o raw[a][b] \o <<b>>
  <1>1. Sane(pm, adjacency)  BY CalcPathsFacts
  <1>2. \A c, d \in Switches : pm[c][d].dist \in Dist  BY <1>1, MatrixEntry DEF Sane
  <1>3. ASSUME NEW a \in Switches, NEW b \in Switches, a # b, near(a, b) # {}
        PROVE  /\ pm[a][b].dist = 1 + Least({pm[c][b].dist : c \in near(a, b)}, 0)
               /\ Len(p(a, b)) = pm[a][b].dist + 1
               /\ \A i \in 1..pm[a][b].dist : adjacency[p(a, b)[i]][p(a, b)[i + 1]] # 0
    <2>0. \A c \in Switches : adjacency[a][c] # 0 /\ pm[c][b].dist # -1 =>
              pm[a][b].dist # -1 /\ pm[a][b].dist <= pm[c][b].dist + 1
      BY <1>3, Neighbours
    <2>1. pm[a][b].dist # -1  BY <1>3, <2>0
    <2>2. PICK c \in Switches : /\ adjacency[a][c] # 0 /\ pm[c][b].dist # -1
                                /\ pm[a][b].dist = pm[c][b].dist + 1
      BY <1>3, <2>1, Neighbours
    <2> DEFINE S == {pm[e][b].dist : e \in near(a, b)}
    <2> HIDE DEF pm
    <2>3. S \subseteq Nat  BY <1>2 DEF Dist
    <2>4. pm[c][b].dist \in S  BY <2>2
    <2>5. \A y \in S : pm[c][b].dist <= y
      <3>1. \A e \in near(a, b) : pm[a][b].dist <= pm[e][b].dist + 1  BY <2>0
      <3> QED  BY <1>2, <2>2, <3>1 DEF Dist
    <2>6. Least(S, 0) = pm[c][b].dist
      <3> HIDE DEF S
      <3> QED  BY <2>3, <2>4, <2>5, LeastIs
    <2>7. pm[a][b].dist = 1 + Least(S, 0)
      BY <1>2, <2>2, <2>6 DEF Dist
    <2>8. IsWay(adjacency, a, raw[a][b], b, pm[a][b].dist)
      BY <1>3, <2>1, RawWays DEF pm
    <2> QED  BY <2>7, <2>8 DEF IsWay
  <1>4. ASSUME NEW a \in Switches, NEW b \in Switches, a # b, near(a, b) = {}
        PROVE  pm[a][b].dist = -1
    <2>1. pm[a][b].dist # -1 => near(a, b) # {}
      BY <1>4, Neighbours
    <2> QED  BY <1>4, <2>1
  <1>5. \A a \in Switches : pm[a][a].dist = 0  BY <1>1 DEF Sane
  <1> HIDE DEF pm, raw
  <1> QED  BY <1>3, <1>4, <1>5 DEF PathsShortest, pm, raw

(* A distance is less than the number of switches: there is a switch at     *)
(* each smaller one.                                                        *)
LEMMA SwitchesFinite == IsFiniteSet(Switches)
  <1>1. Order \in [1..Len(Order) -> Switches] /\ Len(Order) \in Nat
    BY PathConstants
  <1>2. Order \in Surjection(1..Len(Order), Switches)
    <2>1. \A s \in Switches : \E i \in 1..Len(Order) : Order[i] = s
      BY <1>1, PathConstants
    <2> QED  BY <1>1, <2>1, Fun_IsSurj
  <1> QED  BY <1>1, <1>2, FS_Interval, FS_Surjection

LEMMA DistanceBound ==
  ASSUME NEW adj, NEW a \in Switches, NEW b \in Switches
  PROVE  CalcPaths(adj)[a][b].dist \in -1..Cardinality(Switches)
  <1> DEFINE pm == CalcPaths(adj)
             d == pm[a][b].dist
  <1>1. Sane(pm, adj)  BY CalcPathsFacts
  <1>2. \A i, j \in Switches : pm[i][j].dist \in Dist  BY <1>1, MatrixEntry DEF Sane
  <1>3. Cardinality(Switches) \in Nat  BY SwitchesFinite, FS_CardinalityType
  <1>4. CASE d = -1  BY <1>3, <1>4
  <1>5. CASE d # -1
    <2>1. d \in Nat  BY <1>2, <1>5 DEF Dist
    <2> DEFINE S == {n \in Nat : n <= d => \E c \in Switches : pm[c][b].dist = d - n}
    <2>2. 0 \in S  BY <2>1
    <2>3. ASSUME NEW n \in Nat, n \in S PROVE n + 1 \in S
      <3>1. SUFFICES ASSUME n + 1 <= d
                     PROVE  \E c \in Switches : pm[c][b].dist = d - (n + 1)
        OBVIOUS
      <3>2. PICK c \in Switches : pm[c][b].dist = d - n  BY <2>1, <2>3, <3>1
      <3>3. c # b /\ pm[c][b].dist # -1
        BY <1>1, <2>1, <3>1, <3>2 DEF Sane
      <3>4. PICK e \in Switches : pm[c][b].dist = pm[e][b].dist + 1 /\ pm[e][b].dist # -1
        BY <3>3, Neighbours
      <3>5. pm[e][b].dist = d - (n + 1)
        <4>1. pm[e][b].dist \in Dist  BY <1>2
        <4> HIDE DEF d, pm
        <4> QED  BY <2>1, <3>2, <3>4, <4>1 DEF Dist
      <3> QED  BY <3>5
    <2>4. ASSUME NEW v \in 0..d PROVE \E c \in Switches : pm[c][b].dist = v
      <3>1. d - v \in Nat /\ d - v <= d /\ d - (d - v) = v  BY <2>1
      <3>2. d - v \in S
        <4> HIDE DEF S
        <4> QED  BY <2>2, <2>3, <3>1, SetInduction
      <3> QED  BY <3>1, <3>2
    <2> DEFINE F == [v \in 0..d |-> CHOOSE c \in Switches : pm[c][b].dist = v]
    <2> HIDE DEF pm, d
    <2>5. \A v \in 0..d : F[v] \in Switches /\ pm[F[v]][b].dist = v
      BY <2>4
    <2>6. F \in [0..d -> Switches]  BY <2>5
    <2>7. F \in Injection(0..d, Switches)
      <3> HIDE DEF F
      <3>1. \A v, w \in 0..d : F[v] = F[w] => v = w
        <4> TAKE v, w \in 0..d
        <4>1. pm[F[v]][b].dist = v /\ pm[F[w]][b].dist = w  BY <2>5
        <4> QED  BY <4>1
      <3> QED  BY <2>6, <3>1, Fun_IsInj
    <2>8. Cardinality(0..d) <= Cardinality(Switches)
      BY <2>7, SwitchesFinite, FS_Injection
    <2>9. Cardinality(0..d) = d + 1  BY <2>1, FS_Interval
    <2> QED  BY <1>3, <2>1, <2>8, <2>9 DEF d, pm
  <1> QED  BY <1>4, <1>5
=============================================================================
