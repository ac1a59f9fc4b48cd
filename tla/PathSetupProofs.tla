--------------------------- MODULE PathSetupProofs ---------------------------
(* For every network, every set of packets and any number of losses: the    *)
(* invariants of PathSetup.                                                 *)
EXTENDS RoutingProofs

(* The types, in which every number of a path is that of one set up so far. *)
References ==
  /\ sent \in [Switches -> Seq(0..Len(paths))]
  /\ rules \in [Switches -> SUBSET (1..Len(paths))]
  /\ replies \in [Switches -> Seq(1..Len(paths))]
  /\ waiting_paths \subseteq Switches \X (1..Len(paths))
  /\ confirmed \subseteq Switches \X (1..Len(paths))
  /\ released \subseteq 1..Len(paths) /\ failed \subseteq 1..Len(paths)
  /\ Len(paths) <= MaxPaths

Tables ==
  /\ connection \in [Switches -> {"never", "up", "down"}]
  /\ links \subseteq Links /\ losses \in 0..MaxLosses
  /\ adjacency \in [Switches -> [Switches -> 0..MaxPort]]
  /\ cached \in BOOLEAN
  /\ mac_map \in [Hosts -> Locs \cup {None}]
  /\ paths \in Seq(WaitingPath)

(* path_map is empty of paths or of now.                                    *)
MapCurrent == path_map = NoPaths \/ path_map = CalcPaths(adjacency)

(* What the barriers of a path have brought: a switch that the set-up       *)
(* reached has answered or is waited for, and an answer under way to the    *)
(* controller was given.  Only an answer that is waited for has an entry in *)
(* waiting_paths; a path whose packet went out waits for none, and one that *)
(* failed has no entry left.                                                *)
Answers ==
  /\ \A w \in 1..Len(paths) :
       /\ paths[w].reached <= Len(paths[w].path)
       /\ \A i \in 1..paths[w].reached :
            \/ paths[w].path[i].sw \in paths[w].xids
            \/ <<paths[w].path[i].sw, w>> \in confirmed
  /\ \A s \in Switches : \A i \in DOMAIN replies[s] : <<s, replies[s][i]>> \in confirmed
  /\ \A e \in waiting_paths : e[1] \in paths[e[2]].xids
  /\ \A w \in released : paths[w].xids = {}
  /\ \A w \in failed : WaitedFor(w) = {}

IInv ==
  /\ References /\ Tables /\ MapCurrent /\ AdjacencySound /\ Answers
  /\ NoStaleRule /\ NoLateRelease

-----------------------------------------------------------------------------
(* Paths.                                                                   *)

(* Each hop's ports are those of the adjacency to the hops beside it.       *)
OnAdjacency(p) ==
  \A i \in 1..(Len(p) - 1) :
    /\ adjacency[p[i].sw][p[i + 1].sw] = p[i].out
    /\ adjacency[p[i + 1].sw][p[i].sw] = p[i + 1].in

GoodPaths == {p \in Seq(Hop) : OnAdjacency(p)}

LEMMA MapType ==
  ASSUME MapCurrent
  PROVE  path_map \in [Switches -> [Switches ->
           [dist : -1..Cardinality(Switches), via : Switches \cup {None}]]]
  <1>1. Cardinality(Switches) \in Nat  BY SwitchesFinite, FS_CardinalityType
  <1>2. CASE path_map = NoPaths
    BY <1>1, <1>2 DEF NoPaths, NoPath
  <1>3. CASE path_map = CalcPaths(adjacency)
    <2>1. path_map \in Matrix  BY <1>3, CalcPathsFacts DEF Sane
    <2>2. ASSUME NEW i \in Switches, NEW j \in Switches
          PROVE  path_map[i][j] \in
                   [dist : -1..Cardinality(Switches), via : Switches \cup {None}]
      <3>1. path_map[i][j].dist \in -1..Cardinality(Switches)
        BY <1>3, DistanceBound
      <3>2. path_map[i][j] \in [dist : Dist, via : Switches \cup {None}]
        BY <2>1 DEF Matrix
      <3> QED  BY <3>1, <3>2
    <2> QED  BY <2>1, <2>2 DEF Matrix
  <1> QED  BY <1>2, <1>3 DEF MapCurrent

(* Adjacent switches are so by real ports, both ways.                       *)
LEMMA RealPorts ==
  ASSUME AdjacencySound, NEW a \in Switches, NEW b \in Switches,
         adjacency[a][b] # 0
  PROVE  adjacency[a][b] \in Ports /\ adjacency[b][a] \in Ports
  <1> DEFINE l == [sw1 |-> a, port1 |-> adjacency[a][b],
                   sw2 |-> b, port2 |-> adjacency[b][a]]
  <1>1. l \in Links  BY DEF AdjacencySound
  <1>2. l \in Link  BY <1>1, PathConstants
  <1> QED  BY <1>2 DEF Link

LEMMA GetPathGood ==
  ASSUME AdjacencySound, NEW from \in Locs, NEW to \in Locs,
         NEW pm, pm = NoPaths \/ pm = CalcPaths(adjacency)
  PROVE  GetPath(pm, from, to) \in GoodPaths
  <1> DEFINE a == from[1]
             b == to[1]
             raw == RawPaths(pm)[a][b]
             p == IF a = b THEN <<a>> ELSE <<a>> \o raw \o <<b>>
             n == Len(p)
             hop(i) == [sw |-> p[i],
                        in |-> IF i = 1 THEN from[2] ELSE adjacency[p[i]][p[i - 1]],
                        out |-> IF i = n THEN to[2] ELSE adjacency[p[i]][p[i + 1]]]
             h == [i \in 1..n |-> hop(i)]
  <1>1. a \in Switches /\ b \in Switches /\ from[2] \in Ports /\ to[2] \in Ports
    BY DEF Locs
  <1>2. GetPath(pm, from, to) = IF a # b /\ pm[a][b].dist = -1 THEN <<>> ELSE h
    BY DEF GetPath
  <1>3. CASE a # b /\ pm[a][b].dist = -1
    <2>1. <<>> \in Seq(Hop) /\ Len(<<>>) = 0  OBVIOUS
    <2>2. OnAdjacency(<<>>)  BY <2>1 DEF OnAdjacency
    <2> QED  BY <1>2, <1>3, <2>1, <2>2 DEF GoodPaths
  <1>4. CASE ~(a # b /\ pm[a][b].dist = -1)
    <2>1. /\ p \in Seq(Switches) /\ n \in Nat /\ n # 0
          /\ \A i \in 1..(n - 1) : adjacency[p[i]][p[i + 1]] # 0
      <3>1. CASE a = b
        <4>1. p = <<a>>  BY <3>1
        <4> HIDE DEF p
        <4>2. p \in Seq(Switches) /\ Len(p) = 1  BY <1>1, <4>1
        <4> QED  BY <4>2
      <3>2. CASE a # b
        <4>1. pm = CalcPaths(adjacency)
          <5>1. NoPaths[a][b].dist = -1  BY <1>1 DEF NoPaths, NoPath
          <5> QED  BY <1>4, <3>2, <5>1
        <4>2. pm \in Matrix /\ pm[a][b].dist \in Dist
          BY <1>1, <4>1, CalcPathsFacts, MatrixEntry DEF Sane
        <4>3. raw \in Seq(Switches)
          <5>1. RawPaths(pm) \in RawMatrix  BY <4>2, RawPathsType
          <5> QED  BY <1>1, <5>1 DEF RawMatrix
        <4>4. IsWay(adjacency, a, raw, b, pm[a][b].dist)
          BY <1>1, <1>4, <3>2, <4>1, RawWays
        <4>5. p = <<a>> \o raw \o <<b>>  BY <3>2
        <4> HIDE DEF raw, p
        <4>6. p \in Seq(Switches) /\ Len(p) = Len(raw) + 2
          BY <1>1, <4>3, <4>5, PathElements
        <4>7. Len(p) = pm[a][b].dist + 1
              /\ \A i \in 1..pm[a][b].dist : adjacency[p[i]][p[i + 1]] # 0
          BY <4>4, <4>5 DEF IsWay
        <4>8. n \in Nat /\ n # 0 /\ n - 1 = pm[a][b].dist
          BY <4>2, <4>3, <4>6, <4>7 DEF Dist
        <4> QED  BY <4>6, <4>7, <4>8
      <3> QED  BY <3>1, <3>2
    <2> HIDE DEF p, a, b
    <2>2. ASSUME NEW i \in 1..n PROVE hop(i) \in Hop
      <3>1. p[i] \in Switches  BY <2>1
      <3>2. (IF i = 1 THEN from[2] ELSE adjacency[p[i]][p[i - 1]]) \in Ports
        <4>1. CASE i = 1  BY <1>1, <4>1
        <4>2. CASE i # 1
          <5>1. i - 1 \in 1..(n - 1) /\ (i - 1) + 1 = i /\ i - 1 \in 1..n  BY <2>1, <4>2
          <5>2. p[i - 1] \in Switches /\ adjacency[p[i - 1]][p[i]] # 0
            BY <2>1, <5>1
          <5> QED  BY <3>1, <4>2, <5>2, RealPorts
        <4> QED  BY <4>1, <4>2
      <3>3. (IF i = n THEN to[2] ELSE adjacency[p[i]][p[i + 1]]) \in Ports
        <4>1. CASE i = n  BY <1>1, <4>1
        <4>2. CASE i # n
          <5>1. i \in 1..(n - 1) /\ i + 1 \in 1..n  BY <2>1, <4>2
          <5>2. p[i + 1] \in Switches /\ adjacency[p[i]][p[i + 1]] # 0
            BY <2>1, <5>1
          <5> QED  BY <3>1, <4>2, <5>2, RealPorts
        <4> QED  BY <4>1, <4>2
      <3> QED  BY <3>1, <3>2, <3>3 DEF Hop
    <2>3. h \in Seq(Hop) /\ Len(h) = n  BY <2>1, <2>2
    <2>4. ASSUME NEW i \in 1..(n - 1)
          PROVE  /\ adjacency[h[i].sw][h[i + 1].sw] = h[i].out
                 /\ adjacency[h[i + 1].sw][h[i].sw] = h[i + 1].in
      <3>1. i \in 1..n /\ i + 1 \in 1..n /\ i # n /\ i + 1 # 1 /\ (i + 1) - 1 = i
        BY <2>1
      <3>2. h[i] = hop(i) /\ h[i + 1] = hop(i + 1)  BY <3>1
      <3>3. h[i].sw = p[i] /\ h[i].out = adjacency[p[i]][p[i + 1]]
        BY <3>1, <3>2
      <3>4. h[i + 1].sw = p[i + 1] /\ h[i + 1].in = adjacency[p[i + 1]][p[i]]
        BY <3>1, <3>2
      <3> QED  BY <3>3, <3>4
    <2> HIDE DEF h, n
    <2>5. OnAdjacency(h)  BY <2>3, <2>4 DEF OnAdjacency
    <2> QED  BY <1>2, <1>4, <2>3, <2>5 DEF GoodPaths
  <1> QED  BY <1>3, <1>4

LEMMA PathletsGood ==
  ASSUME AdjacencySound, NEW locs \in Seq(Locs),
         NEW pm, pm = NoPaths \/ pm = CalcPaths(adjacency)
  PROVE  Pathlets(pm, locs) \in Seq(GoodPaths)
  <1> DEFINE n == Len(locs) - 1
  <1>1. ASSUME NEW i \in 1..n PROVE GetPath(pm, locs[i], locs[i + 1]) \in GoodPaths
    <2>1. locs[i] \in Locs /\ locs[i + 1] \in Locs  OBVIOUS
    <2> QED  BY <2>1, GetPathGood
  <1>2. CASE Len(locs) = 0
    <2>1. 1..n = 1..0  BY <1>2
    <2>2. Pathlets(pm, locs) = [i \in 1..0 |-> GetPath(pm, locs[i], locs[i + 1])]
      BY <2>1 DEF Pathlets
    <2>3. [i \in 1..0 |-> GetPath(pm, locs[i], locs[i + 1])] \in Seq(GoodPaths)
      OBVIOUS
    <2> QED  BY <2>2, <2>3
  <1>3. CASE Len(locs) # 0
    <2>1. n \in Nat  BY <1>3
    <2> QED  BY <1>1, <2>1 DEF Pathlets
  <1> QED  BY <1>2, <1>3

-----------------------------------------------------------------------------
(* The locations of the way back.                                           *)

Popped(l, i, one) ==
  IF l = <<None>> \/ ~one THEN l
  ELSE IF i > Len(l) THEN <<None>>
  ELSE SubSeq(l, 1, i - 1) \o SubSeq(l, i + 1, Len(l))

(* f has the list of locations after the first 0, 1 ... m elements.         *)
IsPopped(f, locs, chain, m) ==
  f = [i \in 0..m |->
         IF i = 0 THEN Reversed(locs)
         ELSE Popped(f[i - 1], i, Reversed(chain)[i].unidirectional)]

LEMMA PoppedExist ==
  ASSUME NEW locs, NEW chain, NEW m \in Nat
  PROVE  \E f : IsPopped(f, locs, chain, m)
  <1> DEFINE S == {n \in Nat : \E f : IsPopped(f, locs, chain, n)}
             one(k) == Reversed(chain)[k].unidirectional
  <1> HIDE DEF one
  <1>1. 0 \in S
    <2> DEFINE f == [n \in 0..0 |-> Reversed(locs)]
    <2>1. IsPopped(f, locs, chain, 0)  BY DEF IsPopped
    <2> QED  BY <2>1
  <1>2. ASSUME NEW n \in Nat, n \in S PROVE n + 1 \in S
    <2>1. PICK f : IsPopped(f, locs, chain, n)  BY <1>2
    <2> DEFINE g == [k \in 0..(n + 1) |->
                       IF k = n + 1 THEN Popped(f[n], n + 1, one(n + 1)) ELSE f[k]]
               h == [k \in 0..(n + 1) |->
                       IF k = 0 THEN Reversed(locs) ELSE Popped(g[k - 1], k, one(k))]
    <2>2. ASSUME NEW k \in 0..(n + 1) PROVE g[k] = h[k]
      <3>1. CASE k = n + 1  BY <3>1
      <3>2. CASE k # n + 1
        <4>1. k \in 0..n /\ (k # 0 => k - 1 \in 0..n)  BY <3>2
        <4>2. f[k] = IF k = 0 THEN Reversed(locs) ELSE Popped(f[k - 1], k, one(k))
          BY <2>1, <4>1 DEF IsPopped, one
        <4>3. g[k] = f[k] /\ (k # 0 => g[k - 1] = f[k - 1])  BY <4>1
        <4> QED  BY <4>1, <4>2, <4>3
      <3> QED  BY <3>1, <3>2
    <2>3. g = h  BY <2>2
    <2>4. IsPopped(g, locs, chain, n + 1)  BY <2>3 DEF IsPopped, one
    <2> QED  BY <2>4
  <1>3. m \in S
    <2> HIDE DEF S
    <2> QED  BY <1>1, <1>2, SetInduction
  <1> QED  BY <1>3

LEMMA PoppedType ==
  ASSUME NEW l \in Seq(Locs) \cup {<<None>>}, NEW i \in Nat, i # 0, NEW one
  PROVE  Popped(l, i, one) \in Seq(Locs) \cup {<<None>>}
  <1>1. CASE l = <<None>> \/ ~one  BY <1>1 DEF Popped
  <1>2. CASE ~(l = <<None>> \/ ~one) /\ i > Len(l)  BY <1>2 DEF Popped
  <1>3. CASE ~(l = <<None>> \/ ~one) /\ ~(i > Len(l))
    <2>1. l \in Seq(Locs)  BY <1>3
    <2>2. i \in 1..Len(l)  BY <1>3, <2>1
    <2>3. SubSeq(l, 1, i - 1) \in Seq(Locs) /\ SubSeq(l, i + 1, Len(l)) \in Seq(Locs)
      BY <2>1, <2>2
    <2>4. SubSeq(l, 1, i - 1) \o SubSeq(l, i + 1, Len(l)) \in Seq(Locs)  BY <2>3
    <2> QED  BY <1>3, <2>4 DEF Popped
  <1> QED  BY <1>1, <1>2, <1>3

LEMMA ReverseLocsType ==
  ASSUME NEW locs \in Seq(Locs), NEW chain \in Seq(Middlebox)
  PROVE  ReverseLocs(locs, chain) \in Seq(Locs) \cup {<<None>>}
  <1> DEFINE N == Len(chain)
             f == CHOOSE f : IsPopped(f, locs, chain, N)
  <1>1. N \in Nat  OBVIOUS
  <1>2. IsPopped(f, locs, chain, N)  BY <1>1, PoppedExist
  <1>3. ReverseLocs(locs, chain) = f[N]
    BY DEF ReverseLocs, IsPopped, Popped
  <1> HIDE DEF f, N
  <1>4. Reversed(locs) \in Seq(Locs)
    <2>1. \A i \in 1..Len(locs) : locs[Len(locs) + 1 - i] \in Locs  OBVIOUS
    <2> QED  BY <2>1 DEF Reversed
  <1> DEFINE S == {n \in Nat : n <= N => f[n] \in Seq(Locs) \cup {<<None>>}}
  <1>5. 0 \in S  BY <1>1, <1>2, <1>4 DEF IsPopped
  <1>6. ASSUME NEW n \in Nat, n \in S PROVE n + 1 \in S
    <2>1. SUFFICES ASSUME n + 1 <= N PROVE f[n + 1] \in Seq(Locs) \cup {<<None>>}
      OBVIOUS
    <2>2. n + 1 \in 0..N /\ n + 1 # 0 /\ (n + 1) - 1 = n /\ n <= N  BY <1>1, <2>1
    <2> DEFINE one == Reversed(chain)[n + 1].unidirectional
    <2>3. f[n + 1] = Popped(f[n], n + 1, one)  BY <1>2, <2>2 DEF IsPopped
    <2>4. f[n] \in Seq(Locs) \cup {<<None>>}  BY <1>6, <2>2
    <2> HIDE DEF one
    <2> QED  BY <2>2, <2>3, <2>4, PoppedType
  <1>7. N \in S
    <2> HIDE DEF S
    <2> QED  BY <1>1, <1>5, <1>6, SetInduction
  <1> QED  BY <1>1, <1>3, <1>7

-----------------------------------------------------------------------------
(* The paths of a packet.                                                   *)

LEMMA LeastExists ==
  ASSUME NEW S, S \subseteq Nat, S # {}, NEW n
  PROVE  Least(S, n) \in S /\ \A y \in S : Least(S, n) <= y
  <1> DEFINE R == OpToRel(<, Nat)
  <1>1. \E x \in S : \A y \in S : ~ (<<y, x>> \in R)
    BY NatLessThanWellFounded, WFMin
  <1>2. \A x, y \in Nat : y < x => <<y, x>> \in R  BY DEF OpToRel
  <1> HIDE DEF R
  <1>3. PICK x \in S : \A y \in S : ~ (<<y, x>> \in R)  BY <1>1
  <1>4. \A y \in S : ~(y < x)  BY <1>2, <1>3
  <1>5. \A y \in S : x <= y  BY <1>4
  <1> QED  BY <1>5 DEF Least

LEMMA InstalledFacts ==
  ASSUME NEW p \in Seq(Hop), NEW packet \in BOOLEAN,
         NEW new, new = Installed(p, packet)
  PROVE  /\ new \in WaitingPath /\ new.path = p /\ new.reached <= Len(p)
         /\ new.xids = {p[i].sw : i \in 1..new.reached}
  <1> DEFINE S == DOMAIN p \ Connected(p)
             n == Least(S, Len(p) + 1) - 1
  <1>1. DOMAIN p = 1..Len(p) /\ Len(p) \in Nat  OBVIOUS
  <1>2. n \in Nat /\ n <= Len(p)
    <2>1. CASE S = {}
      <3>1. Least(S, Len(p) + 1) = Len(p) + 1  BY <2>1 DEF Least
      <3> QED  BY <1>1, <3>1
    <2>2. CASE S # {}
      <3>1. S \subseteq 1..Len(p)  BY <1>1
      <3> HIDE DEF S
      <3>2. S \subseteq Nat  BY <3>1
      <3>3. Least(S, Len(p) + 1) \in 1..Len(p)  BY <2>2, <3>1, <3>2, LeastExists
      <3> QED  BY <1>1, <3>3
    <2> QED  BY <2>1, <2>2
  <1>3. Installed(p, packet) = [path |-> p, reached |-> n, packet |-> packet,
                                xids |-> {p[i].sw : i \in 1..n}]
    BY DEF Installed
  <1> HIDE DEF n
  <1>4. {p[i].sw : i \in 1..n} \in SUBSET Switches
    <2>1. \A i \in 1..n : p[i] \in Hop  BY <1>1, <1>2
    <2> QED  BY <2>1 DEF Hop
  <1> QED  BY <1>2, <1>3, <1>4 DEF WaitingPath

(* What _install_path has done for a new path.                              *)
SetUp(new) ==
  /\ new \in WaitingPath /\ new.path \in GoodPaths
  /\ new.reached <= Len(new.path)
  /\ new.xids = {new.path[i].sw : i \in 1..new.reached}

LEMMA JobsSetUp ==
  ASSUME NEW forward \in Seq(GoodPaths), NEW back \in Seq(GoodPaths)
  PROVE  /\ Jobs(forward, back) \in Seq(WaitingPath)
         /\ \A i \in DOMAIN Jobs(forward, back) : SetUp(Jobs(forward, back)[i])
  <1> DEFINE all == forward \o back
             new == [i \in DOMAIN all |-> Installed(all[i], i <= Len(forward))]
             whole == {i \in DOMAIN new : new[i].reached > 0
                                          /\ new[i].reached = Len(new[i].path)}
             stop == Least(DOMAIN new \ whole, Len(new) + 1)
             last == IF stop <= Len(new) /\ new[stop].reached > 0 THEN stop ELSE stop - 1
  <1>1. Jobs(forward, back) = SubSeq(new, 1, last)  BY DEF Jobs
  <1>2. all \in Seq(GoodPaths)  OBVIOUS
  <1> HIDE DEF all
  <1>3. DOMAIN all = 1..Len(all) /\ Len(all) \in Nat  BY <1>2
  <1>4. ASSUME NEW i \in DOMAIN all PROVE SetUp(new[i])
    <2>1. all[i] \in GoodPaths /\ all[i] \in Seq(Hop)  BY <1>2, <1>3 DEF GoodPaths
    <2> DEFINE packet == (i <= Len(forward))
    <2>2. packet \in BOOLEAN  OBVIOUS
    <2>3. new[i] = Installed(all[i], packet)  OBVIOUS
    <2> HIDE DEF new, packet
    <2>4. /\ new[i] \in WaitingPath /\ new[i].path = all[i]
          /\ new[i].reached <= Len(all[i])
          /\ new[i].xids = {all[i][k].sw : k \in 1..new[i].reached}
      BY <2>1, <2>2, <2>3, InstalledFacts
    <2> QED  BY <2>1, <2>4 DEF SetUp
  <1>5. new \in Seq(WaitingPath) /\ Len(new) = Len(all) /\ DOMAIN new = 1..Len(new)
    <2>1. \A i \in DOMAIN all : new[i] \in WaitingPath  BY <1>4 DEF SetUp
    <2>2. new = [i \in 1..Len(all) |-> new[i]]  BY <1>3
    <2> HIDE DEF new
    <2> QED  BY <1>3, <2>1, <2>2
  <1> HIDE DEF new
  <1>6. last \in 0..Len(new)
    <2> DEFINE S == DOMAIN new \ whole
    <2>1. Len(new) \in Nat  BY <1>3, <1>5
    <2>2. stop \in 1..(Len(new) + 1)
      <3>1. CASE S = {}
        <4>1. stop = Len(new) + 1  BY <3>1 DEF Least
        <4> QED  BY <2>1, <4>1
      <3>2. CASE S # {}
        <4>1. S \subseteq 1..Len(new)  BY <1>5
        <4>2. stop = Least(S, Len(new) + 1)  OBVIOUS
        <4> HIDE DEF S, stop
        <4>3. S \subseteq Nat  BY <4>1
        <4>4. stop \in 1..Len(new)  BY <3>2, <4>1, <4>2, <4>3, LeastExists
        <4> QED  BY <2>1, <4>4
      <3> QED  BY <3>1, <3>2
    <2> HIDE DEF stop
    <2> QED  BY <2>1, <2>2
  <1> HIDE DEF last
  <1>7. /\ SubSeq(new, 1, last) \in Seq(WaitingPath) /\ Len(SubSeq(new, 1, last)) = last
        /\ \A i \in 1..last : SubSeq(new, 1, last)[i] = new[i]
    BY <1>3, <1>5, <1>6
  <1>8. \A i \in DOMAIN SubSeq(new, 1, last) : i \in 1..last /\ i \in DOMAIN all
    BY <1>3, <1>5, <1>6, <1>7
  <1> QED  BY <1>1, <1>4, <1>7, <1>8

(* The rules of new paths, per switch.                                      *)
IsUpto(f, s, new, n, m) ==
  f = [i \in 0..m |->
         IF i = 0 THEN <<>>
         ELSE IF s \in new[i].xids THEN Append(f[i - 1], n + i)
         ELSE f[i - 1]]

LEMMA UptoExist ==
  ASSUME NEW s, NEW new, NEW n, NEW m \in Nat
  PROVE  \E f : IsUpto(f, s, new, n, m)
  <1> DEFINE G(v, k) == IF s \in new[k].xids THEN Append(v, n + k) ELSE v
             S == {k \in Nat : \E f : IsUpto(f, s, new, n, k)}
  <1>0. \A f, k : IsUpto(f, s, new, n, k)
                  <=> f = [i \in 0..k |-> IF i = 0 THEN <<>> ELSE G(f[i - 1], i)]
    BY DEF IsUpto
  <1> HIDE DEF G
  <1>1. 0 \in S
    <2> DEFINE f == [k \in 0..0 |-> <<>>]
    <2>1. IsUpto(f, s, new, n, 0)  BY <1>0
    <2> QED  BY <2>1
  <1>2. ASSUME NEW k \in Nat, k \in S PROVE k + 1 \in S
    <2>1. PICK f : IsUpto(f, s, new, n, k)  BY <1>2
    <2> DEFINE g == [i \in 0..(k + 1) |-> IF i = k + 1 THEN G(f[k], k + 1) ELSE f[i]]
               h == [i \in 0..(k + 1) |-> IF i = 0 THEN <<>> ELSE G(g[i - 1], i)]
    <2>2. ASSUME NEW i \in 0..(k + 1) PROVE g[i] = h[i]
      <3>1. CASE i = k + 1  BY <3>1
      <3>2. CASE i # k + 1
        <4>1. i \in 0..k /\ (i # 0 => i - 1 \in 0..k)  BY <3>2
        <4>2. f[i] = IF i = 0 THEN <<>> ELSE G(f[i - 1], i)
          BY <1>0, <2>1, <4>1
        <4>3. g[i] = f[i] /\ (i # 0 => g[i - 1] = f[i - 1])  BY <4>1
        <4> QED  BY <4>1, <4>2, <4>3
      <3> QED  BY <3>1, <3>2
    <2>3. g = h  BY <2>2
    <2>4. IsUpto(g, s, new, n, k + 1)  BY <1>0, <2>3
    <2> QED  BY <2>4
  <1>3. m \in S
    <2> HIDE DEF S
    <2> QED  BY <1>1, <1>2, SetInduction
  <1> QED  BY <1>3

LEMMA RulesForType ==
  ASSUME paths \in Seq(WaitingPath), NEW s \in Switches, NEW new \in Seq(WaitingPath)
  PROVE  RulesFor(s, new) \in Seq((Len(paths) + 1)..(Len(paths) + Len(new)))
  <1> DEFINE N == Len(new)
             L == Len(paths)
             f == CHOOSE f : IsUpto(f, s, new, L, N)
             T == (L + 1)..(L + N)
  <1>1. N \in Nat /\ L \in Nat  OBVIOUS
  <1>2. IsUpto(f, s, new, L, N)
    <2> HIDE DEF L, N
    <2> QED  BY <1>1, UptoExist
  <1>3. RulesFor(s, new) = f[N]  BY DEF RulesFor, IsUpto
  <1> HIDE DEF f, N, L
  <1> DEFINE S == {k \in Nat : k <= N => f[k] \in Seq(T)}
  <1>4. 0 \in S
    <2>1. f[0] = <<>>  BY <1>1, <1>2 DEF IsUpto
    <2>2. f[0] \in Seq(T)
      <3> HIDE DEF T
      <3> QED  BY <2>1
    <2> QED  BY <2>2
  <1>5. ASSUME NEW k \in Nat, k \in S PROVE k + 1 \in S
    <2>1. SUFFICES ASSUME k + 1 <= N PROVE f[k + 1] \in Seq(T)  OBVIOUS
    <2>2. k + 1 \in 0..N /\ k + 1 # 0 /\ (k + 1) - 1 = k /\ k <= N  BY <1>1, <2>1
    <2>3. \/ f[k + 1] = Append(f[k], L + (k + 1))
          \/ f[k + 1] = f[k]
      BY <1>2, <2>2 DEF IsUpto
    <2>4. f[k] \in Seq(T)  BY <1>5, <2>2
    <2>5. L + (k + 1) \in T  BY <1>1, <2>1
    <2> HIDE DEF T
    <2>6. Append(f[k], L + (k + 1)) \in Seq(T)  BY <2>4, <2>5
    <2> QED  BY <2>3, <2>4, <2>6
  <1>6. N \in S
    <2> HIDE DEF S
    <2> QED  BY <1>1, <1>4, <1>5, SetInduction
  <1>7. f[N] \in Seq(T)  BY <1>1, <1>6
  <1> QED  BY <1>3, <1>7 DEF N, L

-----------------------------------------------------------------------------
(* The rules that a switch has and will have.                               *)

(* LiveRules of a switch with the rules R and the messages q under way.     *)
Live(q, R) ==
  LET clears == {i \in DOMAIN q : q[i] = 0}
  IN (IF clears = {} THEN R ELSE {}) \cup
     {q[i] : i \in {i \in DOMAIN q : \A j \in clears : j < i}}

LEMMA LiveRulesIs == \A s \in Switches : LiveRules(s) = Live(sent[s], rules[s])
  BY DEF LiveRules, Live

(* Nothing is left after an order to delete all rules, or in an empty       *)
(* table.                                                                   *)
LEMMA LiveCleared ==
  ASSUME NEW q \in Seq(Nat), NEW R
  PROVE  Live(Append(q, 0), R) = {} /\ Live(<<0>>, R) = {} /\ Live(<<>>, {}) = {}
  <1>1. ASSUME NEW u \in Seq(Nat), u # <<>>, u[Len(u)] = 0 PROVE Live(u, R) = {}
    <2> DEFINE clears == {i \in DOMAIN u : u[i] = 0}
    <2>1. Len(u) \in Nat /\ DOMAIN u = 1..Len(u) /\ Len(u) \in clears  BY <1>1
    <2>2. {i \in DOMAIN u : \A j \in clears : j < i} = {}
      <3> SUFFICES ASSUME NEW i \in DOMAIN u, \A j \in clears : j < i PROVE FALSE
        OBVIOUS
      <3>1. Len(u) < i  BY <2>1
      <3> QED  BY <2>1, <3>1
    <2> QED  BY <2>1, <2>2 DEF Live
  <1>2. /\ Append(q, 0) \in Seq(Nat) /\ Append(q, 0) # <<>>
        /\ Append(q, 0)[Len(Append(q, 0))] = 0
    OBVIOUS
  <1>3. <<0>> \in Seq(Nat) /\ <<0>> # <<>> /\ <<0>>[Len(<<0>>)] = 0  OBVIOUS
  <1>4. Live(<<>>, {}) = {}  BY DEF Live
  <1> QED  BY <1>1, <1>2, <1>3, <1>4

(* New rules are added at the end.                                          *)
LEMMA LiveAdded ==
  ASSUME NEW q \in Seq(Nat), NEW T, T \subseteq Nat \ {0}, NEW r \in Seq(T), NEW R,
         NEW w \in Live(q \o r, R)
  PROVE  w \in Live(q, R) \/ w \in T
  <1> DEFINE u == q \o r
             cq == {i \in DOMAIN q : q[i] = 0}
             cu == {i \in DOMAIN u : u[i] = 0}
  <1>1. /\ DOMAIN q = 1..Len(q) /\ DOMAIN u = 1..(Len(q) + Len(r))
        /\ Len(q) \in Nat /\ Len(r) \in Nat
    OBVIOUS
  <1>2. /\ \A i \in 1..Len(q) : u[i] = q[i]
        /\ \A i \in DOMAIN u : i > Len(q) => u[i] \in T
    <2>1. \A i \in 1..Len(q) : u[i] = q[i]  OBVIOUS
    <2>2. ASSUME NEW i \in DOMAIN u, i > Len(q) PROVE u[i] \in T
      <3>1. i - Len(q) \in 1..Len(r)  BY <1>1, <2>2
      <3>2. u[i] = r[i - Len(q)]  BY <1>1, <2>2
      <3> QED  BY <3>1, <3>2
    <2> QED  BY <2>1, <2>2
  <1> HIDE DEF u
  <1>3. cq = cu
    <2>1. \A i \in cq : i \in cu  BY <1>1, <1>2
    <2>2. \A i \in cu : i \in cq
      <3> TAKE i \in cu
      <3>1. ~(i > Len(q))  BY <1>2
      <3> QED  BY <1>1, <1>2, <3>1
    <2> QED  BY <2>1, <2>2
  <1>4. CASE cu = {} /\ w \in R  BY <1>3, <1>4 DEF Live
  <1>5. CASE \E i \in DOMAIN u : u[i] = w /\ \A j \in cu : j < i
    <2>1. PICK i \in DOMAIN u : u[i] = w /\ \A j \in cu : j < i  BY <1>5
    <2>2. CASE i > Len(q)  BY <1>2, <2>1, <2>2
    <2>3. CASE ~(i > Len(q))
      <3>1. i \in DOMAIN q /\ q[i] = w  BY <1>1, <1>2, <2>1, <2>3
      <3>2. \A j \in cq : j < i  BY <1>3, <2>1
      <3> HIDE DEF cu
      <3> QED  BY <3>1, <3>2 DEF Live
    <2> QED  BY <2>2, <2>3
  <1> QED  BY <1>4, <1>5 DEF Live, u

(* A switch that handles a message has the rules it was to have.            *)
LEMMA LiveHandled ==
  ASSUME NEW q \in Seq(Nat), q # <<>>, NEW R, NEW Q,
         Q = IF Head(q) = 0 THEN {} ELSE R \cup {Head(q)}, NEW w \in Live(Tail(q), Q)
  PROVE  w \in Live(q, R)
  <1> DEFINE t == Tail(q)
             cq == {i \in DOMAIN q : q[i] = 0}
             ct == {i \in DOMAIN t : t[i] = 0}
  <1>1. /\ Len(q) \in Nat /\ Len(q) # 0 /\ DOMAIN q = 1..Len(q)
        /\ DOMAIN t = 1..(Len(q) - 1)
        /\ \A i \in 1..(Len(q) - 1) : t[i] = q[i + 1]
        /\ Head(q) = q[1]
    OBVIOUS
  <1> HIDE DEF t
  <1>2. \A j \in cq : j # 1 => j - 1 \in ct
    <2> SUFFICES ASSUME NEW j \in cq, j # 1 PROVE j - 1 \in ct  OBVIOUS
    <2>1. j - 1 \in 1..(Len(q) - 1) /\ (j - 1) + 1 = j  BY <1>1
    <2> QED  BY <1>1, <2>1
  <1>3. CASE ct = {} /\ w \in Q
    <2>1. q[1] # 0  BY <1>1, <1>3
    <2>2. cq = {}  BY <1>1, <1>2, <1>3, <2>1
    <2>3. CASE w \in R  BY <2>2, <2>3 DEF Live
    <2>4. CASE w = q[1]
      <3>1. 1 \in DOMAIN q  BY <1>1
      <3> QED  BY <2>2, <2>4, <3>1 DEF Live
    <2> QED  BY <1>1, <1>3, <2>3, <2>4
  <1>4. CASE \E i \in DOMAIN t : t[i] = w /\ \A j \in ct : j < i
    <2>1. PICK i \in DOMAIN t : t[i] = w /\ \A j \in ct : j < i  BY <1>4
    <2>2. i \in Nat /\ i + 1 \in DOMAIN q /\ q[i + 1] = w /\ i >= 1  BY <1>1, <2>1
    <2>3. ASSUME NEW j \in cq PROVE j < i + 1
      <3>1. j \in Nat  BY <1>1
      <3>2. CASE j = 1  BY <2>2, <3>2
      <3>3. CASE j # 1
        <4>1. j - 1 < i  BY <1>2, <2>1, <3>3
        <4> QED  BY <2>2, <3>1, <4>1
      <3> QED  BY <3>2, <3>3
    <2> QED  BY <2>2, <2>3 DEF Live
  <1> QED  BY <1>3, <1>4 DEF Live, t

LEMMA SeqMonotone ==
  ASSUME NEW S, NEW T, S \subseteq T, NEW q \in Seq(S)
  PROVE  q \in Seq(T)
  <1>1. Len(q) \in Nat /\ q = [i \in 1..Len(q) |-> q[i]]  OBVIOUS
  <1>2. \A i \in 1..Len(q) : q[i] \in T  OBVIOUS
  <1> QED  BY <1>1, <1>2

LEMMA LiveInRange ==
  ASSUME References, NEW s \in Switches
  PROVE  /\ sent[s] \in Seq(Nat)
         /\ LiveRules(s) \subseteq 1..Len(paths)
  <1> DEFINE q == sent[s]
  <1>1. q \in Seq(0..Len(paths)) /\ rules[s] \subseteq 1..Len(paths)
    BY DEF References
  <1> HIDE DEF q
  <1>2. \A i \in DOMAIN q : q[i] \in 0..Len(paths)  BY <1>1
  <1>3. q \in Seq(Nat)
    <2>1. 0..Len(paths) \subseteq Nat  OBVIOUS
    <2>2. DOMAIN q = 1..Len(q) /\ Len(q) \in Nat
          /\ q = [i \in 1..Len(q) |-> q[i]]
      BY <1>1
    <2>3. \A i \in 1..Len(q) : q[i] \in Nat  BY <1>2, <2>1, <2>2
    <2> QED  BY <2>2, <2>3
  <1>4. ASSUME NEW w \in Live(q, rules[s]) PROVE w \in 1..Len(paths)
    <2>1. CASE w \in rules[s]  BY <1>1, <2>1
    <2>2. CASE \E i \in DOMAIN q : /\ q[i] = w
                                   /\ \A j \in {k \in DOMAIN q : q[k] = 0} : j < i
      <3>1. PICK i \in DOMAIN q : /\ q[i] = w
                                  /\ \A j \in {k \in DOMAIN q : q[k] = 0} : j < i
        BY <2>2
      <3>2. i \in Nat  BY <1>3
      <3>3. w # 0  BY <3>1, <3>2
      <3> QED  BY <1>2, <3>1, <3>3
    <2> QED  BY <1>4, <2>1, <2>2 DEF Live
  <1>5. LiveRules(s) = Live(q, rules[s])  BY LiveRulesIs DEF q
  <1> QED  BY <1>3, <1>4, <1>5 DEF q

-----------------------------------------------------------------------------
(* Adjacency.                                                               *)

LEMMA LinkFacts ==
  ASSUME NEW l \in Links
  PROVE  /\ l.sw1 \in Switches /\ l.sw2 \in Switches /\ l.sw1 # l.sw2
         /\ l.port1 \in Ports /\ l.port2 \in Ports
         /\ l = [sw1 |-> l.sw1, port1 |-> l.port1, sw2 |-> l.sw2, port2 |-> l.port2]
         /\ [sw1 |-> l.sw2, port1 |-> l.port2, sw2 |-> l.sw1, port2 |-> l.port1] \in Links
  <1>1. l \in Link /\ l.sw1 # l.sw2 /\ flip(l) \in Links  BY PathConstants
  <1> QED  BY <1>1 DEF Link, flip

(* The two ports that a pair of switches gets are of one link.              *)
LEMMA PortToSound ==
  ASSUME links \subseteq Links, NEW a \in Switches, NEW b \in Switches,
         NEW prefer, \A p \in DOMAIN prefer : prefer[p] \in TwoWay(p),
         NEW x, x = PortTo(a, b, prefer), NEW y, y = PortTo(b, a, prefer)
  PROVE  /\ x \in 0..MaxPort
         /\ x # 0 \/ y # 0 => [sw1 |-> a, port1 |-> x, sw2 |-> b, port2 |-> y] \in Links
  <1>1. {a, b} = {b, a}  OBVIOUS
  <1>2. MaxPort \in Nat  BY PathConstants
  <1>3. CASE TwoWay({a, b}) = {}  BY <1>1, <1>2, <1>3 DEF PortTo
  <1>4. CASE TwoWay({a, b}) # {}
    <2> DEFINE l == IF {a, b} \in DOMAIN prefer THEN prefer[{a, b}]
                    ELSE CHOOSE l \in TwoWay({a, b}) : TRUE
    <2>1. l \in TwoWay({a, b})  BY <1>4
    <2>2. x = IF l.sw1 = a THEN l.port1 ELSE l.port2  BY <1>4 DEF PortTo
    <2>3. y = IF l.sw1 = b THEN l.port1 ELSE l.port2
      <3> DEFINE m == IF {b, a} \in DOMAIN prefer THEN prefer[{b, a}]
                      ELSE CHOOSE m \in TwoWay({b, a}) : TRUE
      <3>1. y = IF TwoWay({b, a}) = {} THEN 0
                ELSE IF m.sw1 = b THEN m.port1 ELSE m.port2
        BY DEF PortTo
      <3>2. m = l
        <4>1. \A S, T : S = T =>
                (IF S \in DOMAIN prefer THEN prefer[S] ELSE CHOOSE k \in TwoWay(S) : TRUE)
                = (IF T \in DOMAIN prefer THEN prefer[T] ELSE CHOOSE k \in TwoWay(T) : TRUE)
          OBVIOUS
        <4> QED  BY <1>1, <4>1
      <3> HIDE DEF m, l
      <3> QED  BY <1>1, <1>4, <3>1, <3>2
    <2> HIDE DEF l
    <2>4. l \in Links /\ {l.sw1, l.sw2} = {a, b}  BY <2>1 DEF TwoWay
    <2>5. /\ l.port1 \in Ports /\ l.port2 \in Ports /\ l.sw1 # l.sw2
          /\ l = [sw1 |-> l.sw1, port1 |-> l.port1, sw2 |-> l.sw2, port2 |-> l.port2]
          /\ [sw1 |-> l.sw2, port1 |-> l.port2, sw2 |-> l.sw1, port2 |-> l.port1] \in Links
      BY <2>4, LinkFacts
    <2>6. x \in 0..MaxPort  BY <1>2, <2>2, <2>5 DEF Ports
    <2>7. CASE l.sw1 = a
      <3>1. l.sw2 = b /\ l.sw1 # b  BY <2>4, <2>5, <2>7
      <3>2. x = l.port1 /\ y = l.port2  BY <2>2, <2>3, <2>7, <3>1
      <3> QED  BY <2>4, <2>5, <2>6, <2>7, <3>1, <3>2
    <2>8. CASE l.sw1 # a
      <3>1. l.sw2 = a /\ l.sw1 = b  BY <2>4, <2>5, <2>8
      <3>2. x = l.port2 /\ y = l.port1  BY <2>2, <2>3, <2>8, <3>1
      <3> QED  BY <2>4, <2>5, <2>6, <3>1, <3>2
    <2> QED  BY <2>7, <2>8
  <1> QED  BY <1>3, <1>4

(* What links that go do to the adjacency and the paths.                    *)
LEMMA DeleteLinksSound ==
  ASSUME Tables, AdjacencySound, MapCurrent, NEW L \in SUBSET links, DeleteLinks(L),
         cached \in BOOLEAN
  PROVE  /\ links' \subseteq Links /\ AdjacencySound' /\ MapCurrent'
         /\ adjacency' \in [Switches -> [Switches -> 0..MaxPort]]
         /\ cached' \in BOOLEAN
         /\ L = {} => adjacency' = adjacency
  <1>1. links' \subseteq Links /\ links \subseteq Links  BY DEF DeleteLinks, Tables
  <1>2. CASE L = {}
    <2>1. adjacency' = adjacency /\ path_map' = path_map /\ cached' = cached
      BY <1>2 DEF DeleteLinks, routes
    <2> QED  BY <1>1, <2>1 DEF AdjacencySound, MapCurrent, Tables
  <1>3. CASE L # {}
    <2>1. path_map' = NoPaths /\ cached' = FALSE
      BY <1>3 DEF DeleteLinks, ClearPathMap
    <2>2. PICK prefer : /\ \A p \in DOMAIN prefer : prefer[p] \in TwoWay(p)
                        /\ adjacency' = Reconnected(L, prefer)
      BY <1>3 DEF DeleteLinks
    <2> DEFINE lost(a, b) == \E l \in L : {l.sw1, l.sw2} = {a, b}
    <2>3. \A a, b \in Switches :
            adjacency'[a][b] = IF lost(a, b) THEN PortTo(a, b, prefer)
                               ELSE adjacency[a][b]
      BY <2>2 DEF Reconnected
    <2>4. ASSUME NEW a \in Switches, NEW b \in Switches
          PROVE  /\ adjacency'[a][b] \in 0..MaxPort
                 /\ adjacency'[a][b] # 0 \/ adjacency'[b][a] # 0 =>
                      [sw1 |-> a, port1 |-> adjacency'[a][b],
                       sw2 |-> b, port2 |-> adjacency'[b][a]] \in Links
      <3>1. lost(a, b) <=> lost(b, a)
        <4>1. {a, b} = {b, a}  OBVIOUS
        <4> QED  BY <4>1
      <3>2. CASE lost(a, b)
        <4>1. adjacency'[a][b] = PortTo(a, b, prefer)
              /\ adjacency'[b][a] = PortTo(b, a, prefer)
          BY <2>3, <3>1, <3>2
        <4> QED  BY <1>1, <2>2, <4>1, PortToSound
      <3>3. CASE ~lost(a, b)
        <4>1. adjacency'[a][b] = adjacency[a][b] /\ adjacency'[b][a] = adjacency[b][a]
          BY <2>3, <3>1, <3>3
        <4>2. adjacency[a][b] \in 0..MaxPort  BY DEF Tables
        <4> QED  BY <4>1, <4>2 DEF AdjacencySound
      <3> QED  BY <3>2, <3>3
    <2>5. adjacency' \in [Switches -> [Switches -> 0..MaxPort]]
      <3>1. adjacency' = [a \in Switches |-> [b \in Switches |-> adjacency'[a][b]]]
        BY <2>2 DEF Reconnected
      <3> QED  BY <2>4, <3>1
    <2>6. AdjacencySound'  BY <2>4 DEF AdjacencySound
    <2> QED  BY <1>1, <1>3, <2>1, <2>5, <2>6 DEF MapCurrent
  <1> QED  BY <1>2, <1>3

-----------------------------------------------------------------------------
(* The steps.                                                               *)

LEMMA InitIInv == Init => IInv
  <1> SUFFICES ASSUME Init PROVE IInv  OBVIOUS
  <1>1. Len(paths) = 0 /\ MaxPaths \in Nat /\ MaxPort \in Nat /\ MaxLosses \in Nat
    BY PathConstants DEF Init
  <1>2. References  BY <1>1 DEF Init, References
  <1>3. Tables
    <2>1. paths \in Seq(WaitingPath)  BY DEF Init
    <2>2. adjacency \in [Switches -> [Switches -> 0..MaxPort]]  BY <1>1 DEF Init
    <2>3. connection \in [Switches -> {"never", "up", "down"}]  BY DEF Init
    <2>4. mac_map \in [Hosts -> Locs \cup {None}]  BY DEF Init
    <2>5. links \subseteq Links /\ cached \in BOOLEAN  BY DEF Init
    <2>6. losses \in 0..MaxLosses  BY <1>1 DEF Init
    <2> QED  BY <2>1, <2>2, <2>3, <2>4, <2>5, <2>6 DEF Tables
  <1>4. MapCurrent  BY DEF Init, MapCurrent
  <1>5. AdjacencySound  BY DEF Init, AdjacencySound
  <1>6. Answers  BY <1>1 DEF Init, Answers
  <1>7. NoStaleRule  BY DEF Init, NoStaleRule, UpSwitches
  <1>8. NoLateRelease  BY DEF Init, NoLateRelease
  <1> QED  BY <1>2, <1>3, <1>4, <1>5, <1>6, <1>7, <1>8 DEF IInv

(* A step that leaves the adjacency alone makes no rule stale, when every   *)
(* rule it gives a connected switch is one the switch had or is of a path   *)
(* over adjacent switches.                                                  *)
LEMMA NoneStale ==
  ASSUME References, NoStaleRule, adjacency' = adjacency,
         \A w \in 1..Len(paths) : paths'[w].path = paths[w].path,
         \A s \in UpSwitches' : \A w \in LiveRules(s)' :
           \/ s \in UpSwitches /\ w \in LiveRules(s)
           \/ OnAdjacency(paths'[w].path)
  PROVE  NoStaleRule'
  <1> SUFFICES ASSUME NEW s \in UpSwitches', NEW w \in LiveRules(s)'
               PROVE  OnAdjacency(paths'[w].path)
    BY DEF NoStaleRule, OnAdjacency
  <1>1. CASE s \in UpSwitches /\ w \in LiveRules(s)
    <2>1. OnAdjacency(paths[w].path)  BY <1>1 DEF NoStaleRule, OnAdjacency
    <2>2. w \in 1..Len(paths)  BY <1>1, LiveInRange DEF UpSwitches
    <2> QED  BY <2>1, <2>2
  <1> QED  BY <1>1

(* Events of links tell every connected switch to delete its rules.         *)
LEMMA AllCleared ==
  ASSUME References, NEW up \in SUBSET Switches, NEW L,
         sent' = Cleared(up, L), rules' = rules, UpSwitches' \subseteq up
  PROVE  NoStaleRule'
  <1>1. ASSUME NEW s \in up PROVE LiveRules(s)' = {}
    <2>1. sent[s] \in Seq(Nat)  BY LiveInRange
    <2>2. LiveRules(s) = Live(sent[s], rules[s])  BY LiveRulesIs
    <2>3. LiveRules(s)' = Live(sent'[s], rules'[s])  BY DEF LiveRules, Live
    <2>4. CASE LiveRules(s) # {}
      <3>1. sent'[s] = Append(sent[s], 0)  BY <1>1, <2>4 DEF Cleared
      <3> QED  BY <2>1, <2>3, <3>1, LiveCleared
    <2>5. CASE LiveRules(s) = {}
      <3>1. sent'[s] = sent[s]  BY <1>1, <2>5 DEF Cleared
      <3> QED  BY <2>2, <2>3, <2>5, <3>1
    <2> QED  BY <2>4, <2>5
  <1> QED  BY <1>1 DEF NoStaleRule

LEMMA ClearedType ==
  ASSUME References, NEW up, NEW L
  PROVE  Cleared(up, L) \in [Switches -> Seq(0..Len(paths))]
  <1>1. \A s \in Switches : /\ sent[s] \in Seq(0..Len(paths))
                            /\ Append(sent[s], 0) \in Seq(0..Len(paths))
    BY DEF References
  <1> QED  BY <1>1 DEF Cleared

(* A path that expires has released no packet, and none of its entries, nor *)
(* of those that failed before, is left.                                    *)
LEMMA ExpiredFacts ==
  ASSUME Answers, NEW k
  PROVE  /\ Expired(k) \subseteq 1..Len(paths) /\ Expired(k) \cap released = {}
         /\ DropPath(Expired(k)) \subseteq waiting_paths
         /\ \A w \in failed \cup Expired(k) : \A s \in Switches :
              <<s, w>> \notin DropPath(Expired(k))
  <1>1. ASSUME NEW w \in Expired(k), w \in released PROVE FALSE
    <2>1. PICK s \in Switches : <<s, w>> \in waiting_paths
      BY DEF Expired, WaitedFor
    <2>2. s \in paths[w].xids  BY <2>1 DEF Answers
    <2> QED  BY <1>1, <2>2 DEF Answers
  <1>2. ASSUME NEW w \in failed \cup Expired(k), NEW s \in Switches,
               <<s, w>> \in DropPath(Expired(k))
        PROVE  FALSE
    <2>1. <<s, w>> \in waiting_paths /\ w \notin Expired(k)  BY <1>2 DEF DropPath
    <2>2. s \in WaitedFor(w)  BY <2>1 DEF WaitedFor
    <2> QED  BY <2>1, <2>2 DEF Answers
  <1> QED  BY <1>1, <1>2 DEF Expired, DropPath

(* A step that leaves the rules, the adjacency and the messages alone.     *)
LEMMA StaleFrame ==
  ASSUME NoStaleRule, paths' = paths, sent' = sent, rules' = rules,
         connection' = connection, adjacency' = adjacency
  PROVE  NoStaleRule'
  <1>1. UpSwitches' = UpSwitches  BY DEF UpSwitches
  <1>2. \A s \in UpSwitches : LiveRules(s)' = LiveRules(s)  BY DEF LiveRules
  <1>3. ASSUME NEW s \in UpSwitches, NEW w \in LiveRules(s), NEW p, p = paths[w].path,
               NEW i \in 1..(Len(p) - 1)
        PROVE  /\ adjacency'[p[i].sw][p[i + 1].sw] = p[i].out
               /\ adjacency'[p[i + 1].sw][p[i].sw] = p[i + 1].in
    BY <1>3 DEF NoStaleRule
  <1>4. ASSUME NEW s \in UpSwitches', NEW w \in LiveRules(s)'
        PROVE  LET p == paths'[w].path IN
               \A i \in 1..(Len(p) - 1) :
                 /\ adjacency'[p[i].sw][p[i + 1].sw] = p[i].out
                 /\ adjacency'[p[i + 1].sw][p[i].sw] = p[i + 1].in
    <2>1. s \in UpSwitches /\ w \in LiveRules(s)  BY <1>1, <1>2, <1>4
    <2> QED  BY <1>3, <2>1
  <1> QED  BY <1>4 DEF NoStaleRule

LEMMA ExpireIInv ==
  ASSUME IInv, NEW k, ExpireWaitingPaths(k)
  PROVE  IInv'
  <1>1. /\ paths' = paths /\ released' = released /\ sent' = sent /\ rules' = rules
        /\ replies' = replies /\ confirmed' = confirmed /\ adjacency' = adjacency
        /\ connection' = connection /\ links' = links /\ losses' = losses
        /\ cached' = cached /\ mac_map' = mac_map /\ path_map' = path_map
        /\ waiting_paths' = DropPath(Expired(k)) /\ failed' = failed \cup Expired(k)
    BY DEF ExpireWaitingPaths, topology, routes, wire
  <1>2. /\ waiting_paths' \subseteq waiting_paths /\ Expired(k) \subseteq 1..Len(paths)
        /\ Expired(k) \cap released = {}
        /\ \A w \in failed' : \A s \in Switches : <<s, w>> \notin waiting_paths'
    BY <1>1, ExpiredFacts DEF IInv
  <1>3. References'  BY <1>1, <1>2 DEF IInv, References
  <1>4. Tables' /\ MapCurrent' /\ AdjacencySound'
    BY <1>1 DEF IInv, Tables, MapCurrent, AdjacencySound
  <1>5. NoStaleRule'
    BY <1>1, StaleFrame DEF IInv
  <1>6. Answers'
    <2>1. \A w \in failed' : WaitedFor(w)' = {}  BY <1>2 DEF WaitedFor
    <2> QED  BY <1>1, <1>2, <2>1 DEF IInv, Answers
  <1>7. NoLateRelease'  BY <1>1, <1>2 DEF IInv, NoLateRelease
  <1> QED  BY <1>3, <1>4, <1>5, <1>6, <1>7 DEF IInv

LEMMA LinkTimeoutIInv ==
  ASSUME IInv, losses < MaxLosses, NEW L \in SUBSET links, LinkTimeout(L)
  PROVE  IInv'
  <1>1. /\ L # {} /\ losses' = losses + 1 /\ DeleteLinks(L)
        /\ sent' = Cleared(UpSwitches, L)
        /\ connection' = connection /\ mac_map' = mac_map /\ paths' = paths
        /\ waiting_paths' = waiting_paths /\ released' = released /\ failed' = failed
        /\ rules' = rules /\ replies' = replies /\ confirmed' = confirmed
    BY DEF LinkTimeout, waiting
  <1>2. /\ links' \subseteq Links /\ AdjacencySound' /\ MapCurrent'
        /\ adjacency' \in [Switches -> [Switches -> 0..MaxPort]]
        /\ cached' \in BOOLEAN
    BY <1>1, DeleteLinksSound DEF IInv, Tables
  <1>3. References'  BY <1>1, ClearedType DEF IInv, References
  <1>4. Tables'  BY <1>1, <1>2, PathConstants DEF IInv, Tables
  <1>5. NoStaleRule'
    <2>1. UpSwitches' = UpSwitches /\ UpSwitches \in SUBSET Switches
      BY <1>1 DEF UpSwitches
    <2> QED  BY <1>1, <2>1, AllCleared DEF IInv
  <1>6. Answers' /\ NoLateRelease'
    BY <1>1 DEF IInv, Answers, WaitedFor, NoLateRelease
  <1> QED  BY <1>2, <1>3, <1>4, <1>5, <1>6 DEF IInv

LEMMA LinkUpIInv ==
  ASSUME IInv, NEW l \in Links, LinkUp(l)
  PROVE  IInv'
  <1>1. /\ links' = links \cup {l} /\ path_map' = NoPaths /\ cached' = FALSE
        /\ sent' = Cleared(UpSwitches, {l})
        /\ connection' = connection /\ losses' = losses /\ paths' = paths
        /\ waiting_paths' = waiting_paths /\ released' = released /\ failed' = failed
        /\ rules' = rules /\ replies' = replies /\ confirmed' = confirmed
    BY DEF LinkUp, ClearPathMap, waiting
  <1>2. /\ l.sw1 \in Switches /\ l.sw2 \in Switches /\ l.sw1 # l.sw2
        /\ l.port1 \in Ports /\ l.port2 \in Ports
        /\ [sw1 |-> l.sw1, port1 |-> l.port1, sw2 |-> l.sw2, port2 |-> l.port2] \in Links
        /\ [sw1 |-> l.sw2, port1 |-> l.port2, sw2 |-> l.sw1, port2 |-> l.port1] \in Links
    BY LinkFacts
  <1>3. AdjacencySound' /\ adjacency' \in [Switches -> [Switches -> 0..MaxPort]]
    <2>1. adjacency \in [Switches -> [Switches -> 0..MaxPort]] /\ AdjacencySound
      BY DEF IInv, Tables
    <2>2. CASE adjacency' = adjacency  BY <2>1, <2>2 DEF AdjacencySound
    <2>3. CASE adjacency' = [adjacency EXCEPT ![l.sw1][l.sw2] = l.port1,
                                              ![l.sw2][l.sw1] = l.port2]
      <3>1. l.port1 \in 0..MaxPort /\ l.port2 \in 0..MaxPort
        BY <1>2, PathConstants DEF Ports
      <3>2. adjacency' \in [Switches -> [Switches -> 0..MaxPort]]
        BY <1>2, <2>1, <2>3, <3>1
      <3>3. \A a, b \in Switches :
              adjacency'[a][b] = IF a = l.sw1 /\ b = l.sw2 THEN l.port1
                                 ELSE IF a = l.sw2 /\ b = l.sw1 THEN l.port2
                                 ELSE adjacency[a][b]
        BY <1>2, <2>1, <2>3
      <3>4. ASSUME NEW a \in Switches, NEW b \in Switches,
                   adjacency'[a][b] # 0 \/ adjacency'[b][a] # 0
            PROVE  [sw1 |-> a, port1 |-> adjacency'[a][b],
                    sw2 |-> b, port2 |-> adjacency'[b][a]] \in Links
        <4>1. CASE a = l.sw1 /\ b = l.sw2
          <5>1. adjacency'[a][b] = l.port1 /\ adjacency'[b][a] = l.port2
            BY <1>2, <3>3, <4>1
          <5> QED  BY <1>2, <4>1, <5>1
        <4>2. CASE a = l.sw2 /\ b = l.sw1
          <5>1. adjacency'[a][b] = l.port2 /\ adjacency'[b][a] = l.port1
            BY <1>2, <3>3, <4>2
          <5> QED  BY <1>2, <4>2, <5>1
        <4>3. CASE ~(a = l.sw1 /\ b = l.sw2) /\ ~(a = l.sw2 /\ b = l.sw1)
          <5>1. adjacency'[a][b] = adjacency[a][b] /\ adjacency'[b][a] = adjacency[b][a]
            BY <3>3, <4>3
          <5> QED  BY <2>1, <3>4, <5>1 DEF AdjacencySound
        <4> QED  BY <4>1, <4>2, <4>3
      <3> QED  BY <3>2, <3>4 DEF AdjacencySound
    <2> QED  BY <2>2, <2>3 DEF LinkUp
  <1>4. mac_map' \in [Hosts -> Locs \cup {None}]
    <2>1. mac_map' = [h \in Hosts |->
                        IF mac_map[h] \in {<<l.sw1, l.port1>>, <<l.sw2, l.port2>>}
                          THEN None ELSE mac_map[h]]
      BY DEF LinkUp
    <2>2. \A h \in Hosts : mac_map[h] \in Locs \cup {None}  BY DEF IInv, Tables
    <2> QED  BY <2>1, <2>2
  <1>5. References'  BY <1>1, ClearedType DEF IInv, References
  <1>6. Tables'  BY <1>1, <1>3, <1>4 DEF IInv, Tables
  <1>7. MapCurrent'  BY <1>1 DEF MapCurrent
  <1>8. NoStaleRule'
    <2>1. UpSwitches' = UpSwitches /\ UpSwitches \in SUBSET Switches
      BY <1>1 DEF UpSwitches
    <2> QED  BY <1>1, <2>1, AllCleared DEF IInv
  <1>9. Answers' /\ NoLateRelease'
    BY <1>1 DEF IInv, Answers, WaitedFor, NoLateRelease
  <1> QED  BY <1>3, <1>5, <1>6, <1>7, <1>8, <1>9 DEF IInv

LEMMA ConnectionUpIInv ==
  ASSUME IInv, NEW s \in Switches, ConnectionUp(s)
  PROVE  IInv'
  <1>1. /\ connection' = [connection EXCEPT ![s] = "up"]
        /\ sent' = [sent EXCEPT ![s] = IF rules[s] = {} THEN <<>> ELSE <<0>>]
        /\ links' = links /\ adjacency' = adjacency /\ losses' = losses
        /\ path_map' = path_map /\ cached' = cached /\ mac_map' = mac_map
        /\ paths' = paths /\ waiting_paths' = waiting_paths /\ released' = released
        /\ failed' = failed /\ rules' = rules /\ replies' = replies
        /\ confirmed' = confirmed
    BY DEF ConnectionUp, routes, waiting
  <1>2. References'
    <2>1. sent \in [Switches -> Seq(0..Len(paths))]  BY DEF IInv, References
    <2>2. <<>> \in Seq(0..Len(paths)) /\ <<0>> \in Seq(0..Len(paths))
      <3>1. Len(paths) \in Nat  BY DEF IInv, Tables
      <3> QED  BY <3>1
    <2>3. sent' \in [Switches -> Seq(0..Len(paths))]  BY <1>1, <2>1, <2>2
    <2> QED  BY <1>1, <2>3 DEF IInv, References
  <1>3. Tables' /\ MapCurrent' /\ AdjacencySound'
    BY <1>1 DEF IInv, Tables, MapCurrent, AdjacencySound
  <1>4. NoStaleRule'
    <2>1. \A t \in Switches : LiveRules(t)' = Live(sent'[t], rules'[t])
      BY DEF LiveRules, Live
    <2>2. LiveRules(s)' = {}
      <3>1. sent'[s] = IF rules[s] = {} THEN <<>> ELSE <<0>>
        BY <1>1 DEF IInv, References
      <3>2. <<>> \in Seq(Nat)  OBVIOUS
      <3> QED  BY <1>1, <2>1, <3>1, <3>2, LiveCleared
    <2>3. ASSUME NEW t \in UpSwitches', t # s
          PROVE  t \in UpSwitches /\ LiveRules(t)' = LiveRules(t)
      <3>1. t \in Switches /\ connection'[t] = "up"  BY DEF UpSwitches
      <3>2. connection[t] = "up" /\ sent'[t] = sent[t]
        BY <1>1, <2>3, <3>1 DEF IInv, Tables, References
      <3> QED  BY <1>1, <2>1, <3>1, <3>2, LiveRulesIs DEF UpSwitches
    <2> QED  BY <1>1, <2>2, <2>3, NoneStale DEF IInv
  <1>5. Answers' /\ NoLateRelease'
    BY <1>1 DEF IInv, Answers, WaitedFor, NoLateRelease
  <1> QED  BY <1>2, <1>3, <1>4, <1>5 DEF IInv

LEMMA ConnectionDownIInv ==
  ASSUME IInv, NEW s \in Switches, ConnectionDown(s)
  PROVE  IInv'
  <1> DEFINE L == {l \in links : s \in {l.sw1, l.sw2}}
             up == UpSwitches \ {s}
  <1>1. /\ losses < MaxLosses /\ losses' = losses + 1
        /\ connection' = [connection EXCEPT ![s] = "down"]
        /\ DeleteLinks(L)
        /\ sent' = [IF L = {} THEN sent ELSE Cleared(up, L) EXCEPT ![s] = <<>>]
        /\ replies' = [replies EXCEPT ![s] = <<>>]
        /\ mac_map' = mac_map /\ paths' = paths /\ waiting_paths' = waiting_paths
        /\ released' = released /\ failed' = failed /\ rules' = rules
        /\ confirmed' = confirmed
    BY DEF ConnectionDown, waiting
  <1>2. /\ links' \subseteq Links /\ AdjacencySound' /\ MapCurrent'
        /\ adjacency' \in [Switches -> [Switches -> 0..MaxPort]]
        /\ cached' \in BOOLEAN /\ (L = {} => adjacency' = adjacency)
    <2>1. L \in SUBSET links  OBVIOUS
    <2> HIDE DEF L
    <2> QED  BY <1>1, <2>1, DeleteLinksSound DEF IInv, Tables
  <1> HIDE DEF L, up
  <1>3. /\ Cleared(up, L) \in [Switches -> Seq(0..Len(paths))]
        /\ sent \in [Switches -> Seq(0..Len(paths))]
    BY ClearedType DEF IInv, References
  <1>4. /\ sent' \in [Switches -> Seq(0..Len(paths))]
        /\ \A t \in Switches : t # s =>
             sent'[t] = IF L = {} THEN sent[t] ELSE Cleared(up, L)[t]
    BY <1>1, <1>3
  <1>5. References'
    <2>1. replies' \in [Switches -> Seq(1..Len(paths))]
      BY <1>1 DEF IInv, References
    <2> QED  BY <1>1, <1>4, <2>1 DEF IInv, References
  <1>6. Tables'
    <2>0. losses \in 0..MaxLosses /\ MaxLosses \in Nat
      BY PathConstants DEF IInv, Tables
    <2>1. losses' \in 0..MaxLosses  BY <1>1, <2>0
    <2>2. connection' \in [Switches -> {"never", "up", "down"}]
      BY <1>1 DEF IInv, Tables
    <2> QED  BY <1>1, <1>2, <2>1, <2>2 DEF IInv, Tables
  <1>7. NoStaleRule'
    <2>1. UpSwitches' = up
      BY <1>1 DEF UpSwitches, up, IInv, Tables
    <2>2. \A t \in Switches : LiveRules(t)' = Live(sent'[t], rules'[t])
      BY DEF LiveRules, Live
    <2>3. up \subseteq UpSwitches /\ up \subseteq Switches /\ s \notin up
      BY DEF up, UpSwitches
    <2>4. CASE L = {}
      <3>1. \A t \in up : LiveRules(t)' = LiveRules(t)
        BY <1>1, <1>4, <2>2, <2>3, <2>4, LiveRulesIs
      <3> QED  BY <1>1, <1>2, <2>1, <2>3, <2>4, <3>1, NoneStale DEF IInv
    <2>5. CASE L # {}
      <3>1. ASSUME NEW t \in up PROVE LiveRules(t)' = {}
        <4>1. t \in Switches /\ sent'[t] = Cleared(up, L)[t]
          BY <1>4, <2>3, <2>5
        <4>2. sent[t] \in Seq(Nat)  BY <4>1, LiveInRange DEF IInv
        <4>3. CASE LiveRules(t) # {}
          <5>1. sent'[t] = Append(sent[t], 0)  BY <4>1, <4>3 DEF Cleared
          <5> QED  BY <2>2, <4>1, <4>2, <5>1, LiveCleared
        <4>4. CASE LiveRules(t) = {}
          <5>1. sent'[t] = sent[t]  BY <4>1, <4>4 DEF Cleared
          <5> QED  BY <1>1, <2>2, <4>1, <4>4, <5>1, LiveRulesIs
        <4> QED  BY <4>3, <4>4
      <3> QED  BY <2>1, <3>1 DEF NoStaleRule
    <2> QED  BY <2>4, <2>5
  <1>8. Answers' /\ NoLateRelease'
    <2>1. \A t \in Switches : \A i \in DOMAIN replies'[t] :
            <<t, replies'[t][i]>> \in confirmed
      <3> TAKE t \in Switches
      <3>1. CASE t = s  BY <1>1, <3>1 DEF IInv, References
      <3>2. CASE t # s
        <4>1. replies'[t] = replies[t]  BY <1>1, <3>2 DEF IInv, References
        <4> QED  BY <4>1 DEF IInv, Answers
      <3> QED  BY <3>1, <3>2
    <2>2. Answers'
      <3>1. /\ paths' = paths /\ waiting_paths' = waiting_paths
            /\ released' = released /\ failed' = failed /\ confirmed' = confirmed
        BY <1>1
      <3> QED  BY <2>1, <3>1 DEF IInv, Answers, WaitedFor
    <2>3. NoLateRelease'  BY <1>1 DEF IInv, NoLateRelease
    <2> QED  BY <2>2, <2>3
  <1> QED  BY <1>2, <1>5, <1>6, <1>7, <1>8 DEF IInv

LEMMA UpdateOverlayGraphIInv ==
  ASSUME IInv, UpdateOverlayGraph
  PROVE  IInv'
  <1>1. /\ connection' = connection /\ links' = links /\ adjacency' = adjacency
        /\ losses' = losses /\ path_map' = path_map /\ mac_map' = mac_map
        /\ paths' = paths /\ waiting_paths' = waiting_paths /\ released' = released
        /\ failed' = failed /\ rules' = rules /\ replies' = replies
        /\ confirmed' = confirmed /\ sent' = sent /\ cached' \in BOOLEAN
    BY DEF UpdateOverlayGraph, HopCountsRead, topology, waiting, wire
  <1>2. References'  BY <1>1 DEF IInv, References
  <1>3. Tables' /\ MapCurrent' /\ AdjacencySound'
    BY <1>1 DEF IInv, Tables, MapCurrent, AdjacencySound
  <1>4. Answers' /\ NoLateRelease'
    BY <1>1 DEF IInv, Answers, WaitedFor, NoLateRelease
  <1>5. NoStaleRule'
    BY <1>1, StaleFrame DEF IInv
  <1> QED  BY <1>2, <1>3, <1>4, <1>5 DEF IInv

LEMMA SwitchStepIInv ==
  ASSUME IInv, NEW s \in Switches, SwitchStep(s)
  PROVE  IInv'
  <1> DEFINE q == sent[s]
             w == Head(q)
  <1>1. /\ q # <<>> /\ sent' = [sent EXCEPT ![s] = Tail(q)]
        /\ connection' = connection /\ links' = links /\ adjacency' = adjacency
        /\ losses' = losses /\ path_map' = path_map /\ cached' = cached
        /\ mac_map' = mac_map /\ paths' = paths /\ waiting_paths' = waiting_paths
        /\ released' = released /\ failed' = failed
    BY DEF SwitchStep, topology, routes, waiting, IInv, References
  <1>2. /\ w = 0 => /\ rules' = [rules EXCEPT ![s] = {}]
                    /\ replies' = replies /\ confirmed' = confirmed
        /\ w # 0 => /\ rules' = [rules EXCEPT ![s] = rules[s] \cup {w}]
                    /\ replies' = [replies EXCEPT ![s] = Append(replies[s], w)]
                    /\ confirmed' = confirmed \cup {<<s, w>>}
    BY DEF SwitchStep, IInv, References
  <1>3. /\ sent \in [Switches -> Seq(0..Len(paths))]
        /\ rules \in [Switches -> SUBSET (1..Len(paths))]
        /\ replies \in [Switches -> Seq(1..Len(paths))]
        /\ confirmed \subseteq Switches \X (1..Len(paths))
        /\ Len(paths) \in Nat
    BY DEF IInv, References, Tables
  <1>4. q \in Seq(0..Len(paths)) /\ q \in Seq(Nat)
    BY <1>3, LiveInRange DEF IInv
  <1> HIDE DEF q
  <1>5. w \in 0..Len(paths) /\ Tail(q) \in Seq(0..Len(paths))
    <2>1. Len(q) \in Nat /\ Len(q) # 0 /\ DOMAIN q = 1..Len(q)  BY <1>1, <1>4
    <2>2. q[1] \in 0..Len(paths) /\ w = q[1]  BY <1>1, <1>4, <2>1
    <2>3. Tail(q) \in Seq(0..Len(paths))  BY <1>1, <1>4
    <2> QED  BY <2>2, <2>3
  <1> HIDE DEF w
  <1>6. References'
    <2>1. sent' \in [Switches -> Seq(0..Len(paths))]  BY <1>1, <1>3, <1>5
    <2>2. CASE w = 0
      <3>1. rules' \in [Switches -> SUBSET (1..Len(paths))]  BY <1>2, <1>3, <2>2
      <3> QED  BY <1>1, <1>2, <2>1, <2>2, <3>1 DEF IInv, References
    <2>3. CASE w # 0
      <3>1. w \in 1..Len(paths)  BY <1>3, <1>5, <2>3
      <3>2. rules' \in [Switches -> SUBSET (1..Len(paths))]
        <4>1. rules[s] \cup {w} \in SUBSET (1..Len(paths))  BY <1>3, <3>1
        <4> QED  BY <1>2, <1>3, <2>3, <4>1
      <3>3. replies' \in [Switches -> Seq(1..Len(paths))]
        <4>1. Append(replies[s], w) \in Seq(1..Len(paths))  BY <1>3, <3>1
        <4> QED  BY <1>2, <1>3, <2>3, <4>1
      <3>4. confirmed' \subseteq Switches \X (1..Len(paths))
        BY <1>2, <1>3, <2>3, <3>1
      <3> QED  BY <1>1, <2>1, <3>2, <3>3, <3>4 DEF IInv, References
    <2> QED  BY <2>2, <2>3
  <1>7. Tables' /\ MapCurrent' /\ AdjacencySound' /\ NoLateRelease'
    BY <1>1 DEF IInv, Tables, MapCurrent, AdjacencySound, NoLateRelease
  <1>8. NoStaleRule'
    <2>1. \A t \in Switches : LiveRules(t)' = Live(sent'[t], rules'[t])
      BY DEF LiveRules, Live
    <2>2. ASSUME NEW v \in LiveRules(s)' PROVE v \in LiveRules(s)
      <3>1. sent'[s] = Tail(q)
            /\ rules'[s] = IF w = 0 THEN {} ELSE rules[s] \cup {w}
        BY <1>1, <1>2, <1>3
      <3>2. v \in Live(Tail(q), rules'[s])  BY <2>1, <2>2, <3>1
      <3>3. v \in Live(q, rules[s])
        BY <1>1, <1>4, <3>1, <3>2, LiveHandled DEF w
      <3> QED  BY <3>3, LiveRulesIs DEF q
    <2>3. ASSUME NEW t \in Switches, t # s PROVE LiveRules(t)' = LiveRules(t)
      <3>1. sent'[t] = sent[t] /\ rules'[t] = rules[t]
        BY <1>1, <1>2, <1>3, <2>3
      <3> QED  BY <2>1, <3>1, LiveRulesIs
    <2>4. UpSwitches' = UpSwitches /\ UpSwitches \subseteq Switches
      BY <1>1 DEF UpSwitches
    <2> QED  BY <1>1, <2>2, <2>3, <2>4, NoneStale DEF IInv
  <1>9. Answers'
    <2>1. confirmed \subseteq confirmed'  BY <1>2
    <2>2. ASSUME NEW t \in Switches, NEW i \in DOMAIN replies'[t]
          PROVE  <<t, replies'[t][i]>> \in confirmed'
      <3>1. CASE replies'[t] = replies[t]
        BY <2>1, <2>2, <3>1 DEF IInv, Answers
      <3>2. CASE t = s /\ w # 0
        <4>1. replies'[t] = Append(replies[t], w)  BY <1>2, <1>3, <3>2
        <4>2. replies[t] \in Seq(1..Len(paths))  BY <1>3
        <4>3. CASE i \in DOMAIN replies[t]
          <5>1. replies'[t][i] = replies[t][i]  BY <4>1, <4>2, <4>3
          <5> QED  BY <2>1, <4>3, <5>1 DEF IInv, Answers
        <4>4. CASE i \notin DOMAIN replies[t]
          <5>1. replies'[t][i] = w  BY <2>2, <4>1, <4>2, <4>4
          <5> QED  BY <1>2, <3>2, <5>1
        <4> QED  BY <4>3, <4>4
      <3> QED  BY <1>2, <1>3, <3>1, <3>2
    <2> QED  BY <1>1, <2>1, <2>2 DEF IInv, Answers, WaitedFor
  <1> QED  BY <1>6, <1>7, <1>8, <1>9 DEF IInv

LEMMA BarrierInIInv ==
  ASSUME IInv, NEW s \in Switches, BarrierIn(s)
  PROVE  IInv'
  <1> DEFINE q == replies[s]
             w == Head(q)
             last == LastAnswer(w, s) /\ paths[w].packet
  <1>1. /\ q # <<>> /\ replies' = [replies EXCEPT ![s] = Tail(q)]
        /\ connection' = connection /\ links' = links /\ adjacency' = adjacency
        /\ losses' = losses /\ path_map' = path_map /\ cached' = cached
        /\ mac_map' = mac_map /\ failed' = failed /\ sent' = sent
        /\ rules' = rules /\ confirmed' = confirmed
    BY DEF BarrierIn, topology, routes, IInv, References
  <1>2. /\ replies' \in [Switches -> Seq(1..Len(paths))]
        /\ \A t \in Switches : \A i \in DOMAIN replies'[t] :
             <<t, replies'[t][i]>> \in confirmed
        /\ <<s, w>> \in confirmed
    <2>1. replies \in [Switches -> Seq(1..Len(paths))]  BY DEF IInv, References
    <2>2. q \in Seq(1..Len(paths))  BY <2>1
    <2>3. \A i \in DOMAIN q : <<s, q[i]>> \in confirmed  BY DEF IInv, Answers
    <2> HIDE DEF q
    <2>4. /\ Tail(q) \in Seq(1..Len(paths))
          /\ \A i \in DOMAIN Tail(q) : i + 1 \in DOMAIN q /\ Tail(q)[i] = q[i + 1]
          /\ 1 \in DOMAIN q /\ Head(q) = q[1]
      BY <1>1, <2>2
    <2>5. \A t \in Switches : replies'[t] = IF t = s THEN Tail(q) ELSE replies[t]
      BY <1>1, <2>1
    <2>6. replies' \in [Switches -> Seq(1..Len(paths))]  BY <1>1, <2>1, <2>4
    <2>7. \A t \in Switches : \A i \in DOMAIN replies[t] : <<t, replies[t][i]>> \in confirmed
      BY DEF IInv, Answers
    <2>8. ASSUME NEW t \in Switches, NEW i \in DOMAIN replies'[t]
          PROVE  <<t, replies'[t][i]>> \in confirmed
      BY <2>3, <2>4, <2>5, <2>7
    <2> QED  BY <2>3, <2>4, <2>6, <2>8
  <1>3. CASE <<s, w>> \notin waiting_paths
        /\ UNCHANGED <<waiting_paths, paths, released>>
    <2>2. /\ paths' = paths /\ waiting_paths' = waiting_paths /\ released' = released
          /\ connection' = connection /\ links' = links /\ adjacency' = adjacency
          /\ losses' = losses /\ path_map' = path_map /\ cached' = cached
          /\ mac_map' = mac_map /\ failed' = failed /\ sent' = sent
          /\ rules' = rules /\ confirmed' = confirmed
      BY <1>1, <1>3
    <2>3. References'  BY <1>2, <2>2 DEF IInv, References
    <2>4. Tables' /\ MapCurrent' /\ AdjacencySound'
      BY <2>2 DEF IInv, Tables, MapCurrent, AdjacencySound
    <2>5. Answers'  BY <1>2, <2>2 DEF IInv, Answers, WaitedFor
    <2>6. NoStaleRule' /\ NoLateRelease'
      BY <2>2, StaleFrame DEF IInv, NoLateRelease
    <2> QED  BY <2>3, <2>4, <2>5, <2>6 DEF IInv
  <1>4. CASE /\ <<s, w>> \in waiting_paths
             /\ waiting_paths' = waiting_paths \ {<<s, w>>}
             /\ paths' = [paths EXCEPT ![w].xids = @ \ {s}]
             /\ released' = IF last THEN released \cup {w} ELSE released
    <2>1. <<s, w>> \in confirmed  BY <1>2
    <2>2. w \in 1..Len(paths) /\ s \in paths[w].xids
      BY <1>4 DEF IInv, References, Answers
    <2> HIDE DEF w, q
    <2>3. paths \in Seq(WaitingPath) /\ Len(paths) \in Nat /\ DOMAIN paths = 1..Len(paths)
      BY DEF IInv, Tables
    <2>4. ASSUME NEW v \in 1..Len(paths)
          PROVE  /\ paths'[v] \in WaitingPath
                 /\ paths'[v].path = paths[v].path /\ paths'[v].reached = paths[v].reached
                 /\ paths'[v].xids = IF v = w THEN paths[v].xids \ {s} ELSE paths[v].xids
      <3>1. paths[v] \in WaitingPath  BY <2>3
      <3>2. CASE v # w
        <4>1. paths'[v] = paths[v]  BY <1>4, <2>3, <3>2
        <4> QED  BY <3>1, <3>2, <4>1
      <3>3. CASE v = w
        <4>1. paths'[v] = [paths[v] EXCEPT !.xids = @ \ {s}]  BY <1>4, <2>3, <3>3
        <4> QED  BY <3>1, <3>3, <4>1 DEF WaitingPath
      <3> QED  BY <3>2, <3>3
    <2>5. paths' \in Seq(WaitingPath) /\ Len(paths') = Len(paths)
      <3>1. paths' = [v \in 1..Len(paths) |-> paths'[v]]  BY <1>4, <2>3
      <3>2. \A v \in 1..Len(paths) : paths'[v] \in WaitingPath  BY <2>4
      <3> DEFINE new == paths'
      <3> HIDE DEF new
      <3>3. new \in Seq(WaitingPath) /\ Len(new) = Len(paths)
        <4>1. new = [v \in 1..Len(paths) |-> new[v]]
              /\ \A v \in 1..Len(paths) : new[v] \in WaitingPath
          BY <3>1, <3>2 DEF new
        <4> QED  BY <2>3, <4>1
      <3> QED  BY <3>3 DEF new
    <2>6. References'
      <3>1. released' \subseteq 1..Len(paths) /\ waiting_paths' \subseteq waiting_paths
        BY <1>4, <2>2 DEF IInv, References
      <3> QED  BY <1>1, <1>2, <2>5, <3>1 DEF IInv, References
    <2>7. Tables' /\ MapCurrent' /\ AdjacencySound'
      BY <1>1, <2>5 DEF IInv, Tables, MapCurrent, AdjacencySound
    <2>8. NoStaleRule'
      <3>1. UpSwitches' = UpSwitches /\ \A t : LiveRules(t)' = LiveRules(t)
        BY <1>1 DEF UpSwitches, LiveRules
      <3> QED  BY <1>1, <2>4, <3>1, NoneStale DEF IInv
    <2>9. w \notin failed
      <3>1. s \in WaitedFor(w)  BY <1>4 DEF WaitedFor
      <3> QED  BY <3>1 DEF IInv, Answers
    <2>10. NoLateRelease'
      BY <1>1, <1>4, <2>9 DEF IInv, NoLateRelease
    <2>11. Answers'
      <3>1. ASSUME NEW v \in 1..Len(paths')
            PROVE  /\ paths'[v].reached <= Len(paths'[v].path)
                   /\ \A i \in 1..paths'[v].reached :
                        \/ paths'[v].path[i].sw \in paths'[v].xids
                        \/ <<paths'[v].path[i].sw, v>> \in confirmed
        <4>1. v \in 1..Len(paths)  BY <2>5
        <4>2. /\ paths[v].reached <= Len(paths[v].path)
              /\ \A i \in 1..paths[v].reached :
                   \/ paths[v].path[i].sw \in paths[v].xids
                   \/ <<paths[v].path[i].sw, v>> \in confirmed
          BY <4>1 DEF IInv, Answers
        <4>3. paths'[v].path = paths[v].path /\ paths'[v].reached = paths[v].reached
          BY <2>4, <4>1
        <4>4. ASSUME NEW i \in 1..paths[v].reached
              PROVE  \/ paths[v].path[i].sw \in paths'[v].xids
                     \/ <<paths[v].path[i].sw, v>> \in confirmed
          <5>1. CASE v # w  BY <2>4, <4>1, <4>2, <5>1
          <5>2. CASE v = w /\ paths[v].path[i].sw = s  BY <2>1, <5>2
          <5>3. CASE v = w /\ paths[v].path[i].sw # s
            <6>1. paths'[v].xids = paths[v].xids \ {s}  BY <2>4, <4>1, <5>3
            <6> QED  BY <4>2, <5>3, <6>1
          <5> QED  BY <5>1, <5>2, <5>3
        <4> QED  BY <4>2, <4>3, <4>4
      <3>2. ASSUME NEW e \in waiting_paths' PROVE e[1] \in paths'[e[2]].xids
        <4>1. e \in waiting_paths /\ e # <<s, w>>  BY <1>4
        <4>2. e \in Switches \X (1..Len(paths))  BY <4>1 DEF IInv, References
        <4>3. e = <<e[1], e[2]>> /\ e[2] \in 1..Len(paths)  BY <4>2
        <4>4. e[1] \in paths[e[2]].xids  BY <4>1 DEF IInv, Answers
        <4> QED  BY <2>4, <4>1, <4>3, <4>4
      <3>3. ASSUME NEW v \in released' PROVE paths'[v].xids = {}
        <4>1. CASE v \in released
          <5>1. v \in 1..Len(paths) /\ paths[v].xids = {}
            BY <4>1 DEF IInv, References, Answers
          <5> QED  BY <2>4, <5>1
        <4>2. CASE v = w /\ last
          <5>1. paths[w].xids \ {s} = {}  BY <4>2 DEF LastAnswer
          <5> QED  BY <2>2, <2>4, <4>2, <5>1
        <4> QED  BY <1>4, <4>1, <4>2
      <3>4. \A v \in failed' : WaitedFor(v)' = {}
        BY <1>1, <1>4 DEF IInv, Answers, WaitedFor
      <3>5. confirmed' = confirmed  BY <1>1
      <3> QED  BY <1>2, <3>1, <3>2, <3>3, <3>4, <3>5 DEF Answers
    <2> QED  BY <2>6, <2>7, <2>8, <2>10, <2>11 DEF IInv
  <1> QED  BY <1>3, <1>4 DEF BarrierIn

(* The set-up of new paths, for which the old ones may expire.              *)
LEMMA PathsAdded ==
  ASSUME IInv, NEW new \in Seq(WaitingPath), \A i \in DOMAIN new : SetUp(new[i]),
         Len(paths) + Len(new) <= MaxPaths, paths' = paths \o new,
         sent' = [s \in Switches |-> sent[s] \o RulesFor(s, new)],
         NEW k, waiting_paths' = DropPath(Expired(k)) \cup Entries(new, DOMAIN new),
         failed' = failed \cup Expired(k), released' = released, rules' = rules,
         replies' = replies, confirmed' = confirmed, adjacency' = adjacency,
         connection' = connection
  PROVE  /\ References' /\ Answers' /\ NoLateRelease' /\ NoStaleRule'
         /\ paths' \in Seq(WaitingPath)
  <1> DEFINE L == Len(paths)
             N == Len(new)
             T == (L + 1)..(L + N)
  <1>1. /\ L \in Nat /\ N \in Nat /\ DOMAIN new = 1..N /\ paths \in Seq(WaitingPath)
    BY DEF IInv, Tables
  <1>2. /\ paths' \in Seq(WaitingPath) /\ Len(paths') = L + N
        /\ \A w \in 1..L : paths'[w] = paths[w]
        /\ \A w \in T : w - L \in DOMAIN new /\ paths'[w] = new[w - L]
    <2>1. paths \o new \in Seq(WaitingPath) /\ Len(paths \o new) = L + N  BY <1>1
    <2>2. \A w \in 1..L : (paths \o new)[w] = paths[w]  BY <1>1
    <2>3. \A w \in T : w - L \in DOMAIN new /\ (paths \o new)[w] = new[w - L]
      BY <1>1
    <2> QED  BY <2>1, <2>2, <2>3
  <1>3. \A s \in Switches : RulesFor(s, new) \in Seq(T)
    BY <1>1, RulesForType
  <1>4. \A w \in 1..(L + N) : w \in 1..L \/ w \in T  BY <1>1
  <1>5. \A e \in Entries(new, DOMAIN new) :
          \E i \in DOMAIN new : \E s \in new[i].xids : e = <<s, L + i>>
    BY DEF Entries
  <1> HIDE DEF L, N, T
  <1>6. \A e \in Entries(new, DOMAIN new) :
          /\ e \in Switches \X T /\ e[1] \in paths'[e[2]].xids
    <2> TAKE e \in Entries(new, DOMAIN new)
    <2>0. PICK i \in DOMAIN new : \E s \in new[i].xids : e = <<s, L + i>>  BY <1>5
    <2>1. PICK s \in new[i].xids : e = <<s, L + i>>  BY <2>0
    <2>2. s \in Switches  BY DEF SetUp, WaitingPath
    <2>3. L + i \in T /\ (L + i) - L = i  BY <1>1 DEF T
    <2>4. paths'[L + i] = new[i]  BY <1>2, <2>3
    <2> QED  BY <2>1, <2>2, <2>3, <2>4
  <1>7. /\ DropPath(Expired(k)) \subseteq waiting_paths /\ Expired(k) \subseteq 1..L
        /\ Expired(k) \cap released = {}
        /\ \A w \in failed' : \A s \in Switches : <<s, w>> \notin DropPath(Expired(k))
    BY ExpiredFacts DEF IInv, L
  <1>8. /\ T \subseteq 1..(L + N) /\ 1..L \subseteq 1..(L + N)
        /\ 0..L \subseteq 0..(L + N) /\ T \subseteq 0..(L + N)
        /\ T \cap (1..L) = {} /\ T \subseteq Nat \ {0}
    BY <1>1 DEF T
  <1>9. References'
    <2>1. ASSUME NEW s \in Switches PROVE sent'[s] \in Seq(0..(L + N))
      <3>1. sent[s] \in Seq(0..L)  BY DEF IInv, References, L
      <3>2. sent[s] \in Seq(0..(L + N)) /\ RulesFor(s, new) \in Seq(0..(L + N))
        BY <1>3, <1>8, <3>1, SeqMonotone
      <3>3. sent[s] \o RulesFor(s, new) \in Seq(0..(L + N))  BY <3>2
      <3> QED  BY <3>3
    <2>2. sent' \in [Switches -> Seq(0..(L + N))]  BY <2>1
    <2>3. replies' \in [Switches -> Seq(1..(L + N))]
      <3>1. \A s \in Switches : replies[s] \in Seq(1..L)  BY DEF IInv, References, L
      <3>2. \A s \in Switches : replies[s] \in Seq(1..(L + N))
        BY <1>8, <3>1, SeqMonotone
      <3> QED  BY <3>2 DEF IInv, References
    <2>4. waiting_paths' \subseteq Switches \X (1..(L + N))
      <3>1. waiting_paths \subseteq Switches \X (1..L)  BY DEF IInv, References, L
      <3> QED  BY <1>6, <1>7, <1>8, <3>1
    <2>5. /\ rules' \in [Switches -> SUBSET (1..(L + N))]
          /\ confirmed' \subseteq Switches \X (1..(L + N))
      BY <1>8 DEF IInv, References, L
    <2>6. released' \subseteq 1..(L + N) /\ failed' \subseteq 1..(L + N)
      BY <1>7, <1>8 DEF IInv, References, L
    <2>7. L + N <= MaxPaths  BY DEF L, N
    <2> QED  BY <1>2, <2>2, <2>3, <2>4, <2>5, <2>6, <2>7 DEF References
  <1>10. Answers'
    <2>1. ASSUME NEW w \in 1..(L + N)
          PROVE  /\ paths'[w].reached <= Len(paths'[w].path)
                 /\ \A i \in 1..paths'[w].reached :
                      \/ paths'[w].path[i].sw \in paths'[w].xids
                      \/ <<paths'[w].path[i].sw, w>> \in confirmed
      <3>1. CASE w \in 1..L
        <4>1. paths'[w] = paths[w]  BY <1>2, <3>1
        <4> QED  BY <3>1, <4>1 DEF IInv, Answers, L
      <3>2. CASE w \in T
        <4>1. w - L \in DOMAIN new /\ paths'[w] = new[w - L]  BY <1>2, <3>2
        <4>2. SetUp(paths'[w])  BY <4>1
        <4> QED  BY <4>2 DEF SetUp
      <3> QED  BY <1>4, <3>1, <3>2
    <2>2. ASSUME NEW e \in waiting_paths' PROVE e[1] \in paths'[e[2]].xids
      <3>1. CASE e \in waiting_paths
        <4>1. e[1] \in paths[e[2]].xids /\ e[2] \in 1..L
          BY <3>1 DEF IInv, Answers, References, L
        <4> QED  BY <1>2, <4>1
      <3> QED  BY <1>6, <1>7, <3>1
    <2>3. ASSUME NEW w \in released' PROVE paths'[w].xids = {}
      <3>1. w \in 1..L /\ paths[w].xids = {}  BY DEF IInv, Answers, References, L
      <3> QED  BY <1>2, <3>1
    <2>4. ASSUME NEW w \in failed' PROVE WaitedFor(w)' = {}
      <3>1. w \in 1..L  BY <1>7 DEF IInv, References, L
      <3>2. ASSUME NEW s \in Switches, <<s, w>> \in waiting_paths' PROVE FALSE
        <4>1. CASE <<s, w>> \in Entries(new, DOMAIN new)
          <5>1. w \in T  BY <1>6, <4>1
          <5> QED  BY <1>8, <3>1, <5>1
        <4> QED  BY <1>7, <3>2, <4>1
      <3> QED  BY <3>2 DEF WaitedFor
    <2>5. \A s \in Switches : \A i \in DOMAIN replies[s] : <<s, replies[s][i]>> \in confirmed
      BY DEF IInv, Answers
    <2> QED  BY <1>2, <2>1, <2>2, <2>3, <2>4, <2>5 DEF Answers
  <1>11. NoLateRelease'  BY <1>7 DEF IInv, NoLateRelease
  <1>12. NoStaleRule'
    <2>1. UpSwitches' = UpSwitches /\ UpSwitches \subseteq Switches  BY DEF UpSwitches
    <2>2. \A w \in 1..L : paths'[w].path = paths[w].path  BY <1>2
    <2>3. ASSUME NEW s \in UpSwitches, NEW w \in LiveRules(s)'
          PROVE  w \in LiveRules(s) \/ OnAdjacency(paths'[w].path)
      <3>1. s \in Switches /\ sent[s] \in Seq(Nat)  BY <2>1, LiveInRange DEF IInv
      <3>2. LiveRules(s)' = Live(sent'[s], rules'[s])
        BY <3>1 DEF LiveRules, Live
      <3>3. sent'[s] = sent[s] \o RulesFor(s, new) /\ RulesFor(s, new) \in Seq(T)
        BY <1>3, <3>1
      <3>4. w \in Live(sent[s], rules[s]) \/ w \in T
        <4>1. w \in Live(sent[s] \o RulesFor(s, new), rules[s])  BY <3>2, <3>3
        <4>2. T \subseteq Nat \ {0}  BY <1>8
        <4> QED  BY <3>1, <3>3, <4>1, <4>2, LiveAdded
      <3>5. CASE w \in T
        <4>1. w - L \in DOMAIN new /\ paths'[w] = new[w - L]  BY <1>2, <3>5
        <4> QED  BY <4>1 DEF SetUp, GoodPaths
      <3> QED  BY <3>1, <3>4, <3>5, LiveRulesIs
    <2> QED  BY <2>1, <2>2, <2>3, NoneStale DEF IInv, L
  <1> QED  BY <1>2, <1>9, <1>10, <1>11, <1>12

LEMMA LearnedType ==
  ASSUME Tables, NEW src \in Hosts, NEW loc \in Locs
  PROVE  Learned(src, loc) \in [Hosts -> Locs \cup {None}]
  BY DEF Learned, Tables

LEMMA MapAfter ==
  ASSUME MapCurrent, NEW asked
  PROVE  PathMapAfter(asked) = NoPaths \/ PathMapAfter(asked) = CalcPaths(adjacency)
  BY DEF MapCurrent, PathMapAfter

LEMMA PacketInIInv ==
  ASSUME IInv, NEW src \in Hosts, NEW dst \in Hosts \cup {None}, NEW loc \in Locs,
         NEW chain \in Seq(Middlebox), PacketIn(src, dst, loc, chain)
  PROVE  IInv'
  <1> DEFINE known == mac_map[src] # None /\ dst # None /\ mac_map[dst] # None
             locs == [i \in DOMAIN chain |-> mac_map[chain[i].host]]
             dest == IF dst = None THEN None ELSE Learned(src, loc)[dst]
             there == <<loc>> \o locs \o <<dest>>
             reverse == ReverseLocs(locs, chain)
             back == IF reverse = <<None>> THEN <<>> ELSE <<dest>> \o reverse \o <<loc>>
             asked == known \/ \E i \in 2..Len(there) : there[i][1] # there[i - 1][1]
             raises == \/ \E i \in DOMAIN chain : locs[i] = None
                       \/ Moved(src, loc) /\ connection[mac_map[src][1]] # "up"
             new == Jobs(Pathlets(path_map', there), Pathlets(path_map', back))
  <1>1. /\ connection' = connection /\ links' = links /\ adjacency' = adjacency
        /\ losses' = losses /\ rules' = rules /\ replies' = replies
        /\ confirmed' = confirmed /\ released' = released
    BY DEF PacketIn, topology
  <1>2. CASE /\ path_map' = PathMapAfter(known) /\ cached' = (cached \/ known)
             /\ UNCHANGED <<mac_map, paths, waiting_paths, failed, sent>>
    <2>1. MapCurrent'
      BY <1>1, <1>2, MapAfter DEF IInv, MapCurrent
    <2>2. cached' \in BOOLEAN  BY <1>2
    <2>3. /\ mac_map' = mac_map /\ paths' = paths /\ waiting_paths' = waiting_paths
          /\ failed' = failed /\ sent' = sent
      BY <1>2
    <2>4. References'  BY <1>1, <2>3 DEF IInv, References
    <2>5. Tables' /\ AdjacencySound'
      BY <1>1, <2>2, <2>3 DEF IInv, Tables, AdjacencySound
    <2>6. Answers' /\ NoLateRelease'
      BY <1>1, <2>3 DEF IInv, Answers, NoLateRelease, WaitedFor
    <2>7. NoStaleRule'
      BY <1>1, <2>3, StaleFrame DEF IInv
    <2> QED  BY <2>1, <2>4, <2>5, <2>6, <2>7 DEF IInv
  <1>3. CASE /\ mac_map' = Learned(src, loc) /\ dest = None
             /\ UNCHANGED <<routes, paths, waiting_paths, failed, sent>>
    <2>1. mac_map' \in [Hosts -> Locs \cup {None}]  BY <1>3, LearnedType DEF IInv
    <2>2. /\ path_map' = path_map /\ cached' = cached /\ paths' = paths
          /\ waiting_paths' = waiting_paths /\ failed' = failed /\ sent' = sent
      BY <1>3 DEF routes
    <2>3. References'  BY <1>1, <2>2 DEF IInv, References
    <2>4. Tables' /\ AdjacencySound' /\ MapCurrent'
      BY <1>1, <2>1, <2>2 DEF IInv, Tables, AdjacencySound, MapCurrent
    <2>5. Answers' /\ NoLateRelease'
      BY <1>1, <2>2 DEF IInv, Answers, NoLateRelease, WaitedFor
    <2>6. NoStaleRule'
      BY <1>1, <2>2, StaleFrame DEF IInv
    <2> QED  BY <2>3, <2>4, <2>5, <2>6 DEF IInv
  <1>4. CASE /\ ~raises /\ mac_map' = Learned(src, loc) /\ dest # None
             /\ path_map' = PathMapAfter(asked) /\ cached' = (cached \/ asked)
             /\ Len(paths) + Len(new) <= MaxPaths
             /\ paths' = paths \o new
             /\ sent' = [s \in Switches |-> sent[s] \o RulesFor(s, new)]
             /\ \E k \in IF TooMany(new) THEN 0..Len(paths) ELSE {0} :
                  /\ waiting_paths' = DropPath(Expired(k)) \cup Entries(new, DOMAIN new)
                  /\ failed' = failed \cup Expired(k)
    <2>1. mac_map' \in [Hosts -> Locs \cup {None}]  BY <1>4, LearnedType DEF IInv
    <2>2. cached' \in BOOLEAN  BY <1>4
    <2>3. path_map' = NoPaths \/ path_map' = CalcPaths(adjacency)
      BY <1>4, MapAfter DEF IInv
    <2>4. MapCurrent'  BY <1>1, <2>3 DEF MapCurrent
    <2>5. dest \in Locs
      <3>1. Learned(src, loc) \in [Hosts -> Locs \cup {None}]  BY LearnedType DEF IInv
      <3> QED  BY <1>4, <3>1
    <2>6. locs \in Seq(Locs)
      <3>1. Len(chain) \in Nat /\ DOMAIN chain = 1..Len(chain)  OBVIOUS
      <3>2. ASSUME NEW i \in 1..Len(chain) PROVE mac_map[chain[i].host] \in Locs
        <4>0. chain[i] \in Middlebox  BY <3>1
        <4>1. chain[i].host \in Hosts  BY <4>0 DEF Middlebox
        <4>2. mac_map[chain[i].host] \in Locs \cup {None}  BY <4>1 DEF IInv, Tables
        <4>3. mac_map[chain[i].host] # None  BY <1>4, <3>1
        <4> QED  BY <4>2, <4>3
      <3> QED  BY <3>1, <3>2
    <2> HIDE DEF locs, dest
    <2>7. there \in Seq(Locs)
      <3>1. <<loc>> \in Seq(Locs) /\ <<dest>> \in Seq(Locs)  BY <2>5
      <3> QED  BY <2>6, <3>1
    <2>8. back \in Seq(Locs)
      <3>1. reverse \in Seq(Locs) \cup {<<None>>}  BY <2>6, ReverseLocsType
      <3>2. <<loc>> \in Seq(Locs) /\ <<dest>> \in Seq(Locs) /\ <<>> \in Seq(Locs)
        BY <2>5
      <3> HIDE DEF reverse
      <3>3. CASE reverse = <<None>>  BY <3>2, <3>3
      <3>4. CASE reverse # <<None>>
        <4>1. reverse \in Seq(Locs)  BY <3>1, <3>4
        <4>2. <<dest>> \o reverse \o <<loc>> \in Seq(Locs)  BY <3>2, <4>1
        <4> QED  BY <3>4, <4>2
      <3> QED  BY <3>3, <3>4
    <2> HIDE DEF there, back, asked, raises
    <2>9. new \in Seq(WaitingPath) /\ \A i \in DOMAIN new : SetUp(new[i])
      <3>1. Pathlets(path_map', there) \in Seq(GoodPaths)
            /\ Pathlets(path_map', back) \in Seq(GoodPaths)
        BY <2>3, <2>7, <2>8, PathletsGood DEF IInv
      <3> QED  BY <3>1, JobsSetUp
    <2> HIDE DEF new
    <2>10. PICK k : /\ waiting_paths' = DropPath(Expired(k)) \cup Entries(new, DOMAIN new)
                    /\ failed' = failed \cup Expired(k)
      BY <1>4
    <2>11. /\ References' /\ Answers' /\ NoLateRelease' /\ NoStaleRule'
           /\ paths' \in Seq(WaitingPath)
      BY <1>1, <1>4, <2>9, <2>10, PathsAdded
    <2>12. Tables' /\ AdjacencySound'
      BY <1>1, <2>1, <2>2, <2>11 DEF IInv, Tables, AdjacencySound
    <2> QED  BY <2>4, <2>11, <2>12 DEF IInv
  <1> QED  BY <1>2, <1>3, <1>4 DEF PacketIn

LEMMA StutterIInv ==
  ASSUME IInv, UNCHANGED vars
  PROVE  IInv'
  <1>1. /\ connection' = connection /\ links' = links /\ adjacency' = adjacency
        /\ losses' = losses /\ path_map' = path_map /\ cached' = cached
        /\ mac_map' = mac_map /\ paths' = paths /\ waiting_paths' = waiting_paths
        /\ released' = released /\ failed' = failed /\ rules' = rules
        /\ replies' = replies /\ confirmed' = confirmed /\ sent' = sent
    BY DEF vars, topology, routes, waiting, wire
  <1>2. References'  BY <1>1 DEF IInv, References
  <1>3. Tables' /\ MapCurrent' /\ AdjacencySound'
    BY <1>1 DEF IInv, Tables, MapCurrent, AdjacencySound
  <1>4. Answers' /\ NoLateRelease'
    BY <1>1 DEF IInv, Answers, WaitedFor, NoLateRelease
  <1>5. NoStaleRule'
    BY <1>1, StaleFrame DEF IInv
  <1> QED  BY <1>2, <1>3, <1>4, <1>5 DEF IInv

LEMMA NextIInv == IInv /\ [Next]_vars => IInv'
  <1> SUFFICES ASSUME IInv, [Next]_vars PROVE IInv'  OBVIOUS
  <1>1. ASSUME NEW p \in Packets, PacketIn(p.src, p.dst, p.loc, p.chain) PROVE IInv'
    <2>1. p \in Packet  BY PathConstants
    <2>2. /\ p.src \in Hosts /\ p.dst \in Hosts \cup {None} /\ p.loc \in Locs
          /\ p.chain \in Seq(Middlebox)
      BY <2>1 DEF Packet
    <2> QED  BY <1>1, <2>2, PacketInIInv
  <1>2. ASSUME NEW k \in 1..MaxPaths, ExpireWaitingPaths(k) PROVE IInv'
    BY <1>2, ExpireIInv
  <1>3. ASSUME losses < MaxLosses, NEW L \in SUBSET links, LinkTimeout(L) PROVE IInv'
    BY <1>3, LinkTimeoutIInv
  <1>4. ASSUME NEW l \in Links, LinkUp(l) PROVE IInv'  BY <1>4, LinkUpIInv
  <1>5. ASSUME NEW s \in Switches, BarrierIn(s) PROVE IInv'  BY <1>5, BarrierInIInv
  <1>6. ASSUME NEW s \in Switches, ConnectionUp(s) PROVE IInv'
    BY <1>6, ConnectionUpIInv
  <1>7. ASSUME NEW s \in Switches, ConnectionDown(s) PROVE IInv'
    BY <1>7, ConnectionDownIInv
  <1>8. ASSUME NEW s \in Switches, SwitchStep(s) PROVE IInv'  BY <1>8, SwitchStepIInv
  <1>9. CASE UpdateOverlayGraph  BY <1>9, UpdateOverlayGraphIInv
  <1>10. CASE UNCHANGED vars  BY <1>10, StutterIInv
  <1> QED
    BY <1>1, <1>2, <1>3, <1>4, <1>5, <1>6, <1>7, <1>8, <1>9, <1>10 DEF Next

-----------------------------------------------------------------------------
(* The theorems.                                                            *)

LEMMA Inductive == Spec => []IInv
  <1>1. Init => IInv  BY InitIInv
  <1>2. IInv /\ [Next]_vars => IInv'  BY NextIInv
  <1> QED  BY <1>1, <1>2, PTL DEF Spec

(* The tables of the controller and of the switches keep their types.  In   *)
(* particular every hop of every path that _get_path makes has real ports,  *)
(* whatever adjacency and path_map hold when it is asked, and no distance   *)
(* exceeds the number of switches.                                          *)
THEOREM TypeCorrect == Spec => []TypeOK
  <1>1. IInv => TypeOK
    <2> SUFFICES ASSUME IInv PROVE TypeOK  OBVIOUS
    <2>1. /\ Len(paths) \in Nat /\ MaxPaths \in Nat /\ Len(paths) <= MaxPaths
      BY PathConstants DEF IInv, Tables, References
    <2>2. 0..Len(paths) \subseteq 0..MaxPaths /\ 1..Len(paths) \subseteq 1..MaxPaths
      BY <2>1
    <2>3. sent \in [Switches -> Seq(0..MaxPaths)]
      <3>1. \A s \in Switches : sent[s] \in Seq(0..MaxPaths)
        BY <2>2, SeqMonotone DEF IInv, References
      <3> QED  BY <3>1 DEF IInv, References
    <2>4. replies \in [Switches -> Seq(1..MaxPaths)]
      <3>1. \A s \in Switches : replies[s] \in Seq(1..MaxPaths)
        BY <2>2, SeqMonotone DEF IInv, References
      <3> QED  BY <3>1 DEF IInv, References
    <2>5. rules \in [Switches -> SUBSET (1..MaxPaths)]  BY <2>2 DEF IInv, References
    <2>6. /\ waiting_paths \subseteq Switches \X (1..MaxPaths)
          /\ confirmed \subseteq Switches \X (1..MaxPaths)
          /\ released \subseteq 1..MaxPaths /\ failed \subseteq 1..MaxPaths
      BY <2>2 DEF IInv, References
    <2>7. path_map \in [Switches -> [Switches ->
            [dist : -1..Cardinality(Switches), via : Switches \cup {None}]]]
      BY MapType DEF IInv
    <2> QED  BY <2>3, <2>4, <2>5, <2>6, <2>7 DEF TypeOK, IInv, Tables
  <1> QED  BY <1>1, Inductive, PTL

(* Two switches are adjacent in both directions, over the two ends of one   *)
(* cable, or in none: whichever links _handle_LinkEvent is told of.         *)
THEOREM AdjacencyIsSound == Spec => []AdjacencySound
  <1>1. IInv => AdjacencySound  BY DEF IInv
  <1> QED  BY <1>1, Inductive, PTL

(* No path of an older topology is used: every LinkEvent empties path_map   *)
(* before the next packet.                                                  *)
THEOREM PathsStayCurrent == Spec => []PathsCurrent
  <1>1. IInv => PathsCurrent  BY DEF IInv, MapCurrent, PathsCurrent
  <1> QED  BY <1>1, Inductive, PTL

(* _calc_paths and _get_raw_path find shortest paths, in every topology.    *)
THEOREM PathsAreShortest == Spec => []PathsShortest
  <1>1. PathsShortest  BY ShortestAlways
  <1> QED  BY <1>1, PTL

(* Once the messages under way are handled, no connected switch has a rule  *)
(* of a path over an adjacency that is no more.                             *)
THEOREM RulesNeverStale == Spec => []NoStaleRule
  <1>1. IInv => NoStaleRule  BY DEF IInv
  <1> QED  BY <1>1, Inductive, PTL

(* notify releases a packet only when every switch of its path has answered *)
(* its barrier.                                                             *)
THEOREM ReleaseIsConfirmed == Spec => []ReleasedConfirmed
  <1>1. IInv => ReleasedConfirmed
    <2> SUFFICES ASSUME IInv, NEW w \in released,
                        paths[w].reached = Len(paths[w].path),
                        NEW i \in DOMAIN paths[w].path
                 PROVE  <<paths[w].path[i].sw, w>> \in confirmed
      BY DEF ReleasedConfirmed
    <2>1. w \in 1..Len(paths) /\ paths[w].xids = {}
      BY DEF IInv, References, Answers
    <2>2. paths[w] \in WaitingPath  BY <2>1 DEF IInv, Tables
    <2>3. i \in 1..paths[w].reached  BY <2>2 DEF WaitingPath
    <2> QED  BY <2>1, <2>3 DEF IInv, Answers
  <1> QED  BY <1>1, Inductive, PTL

(* A path that expire_waiting_paths counted as failed to install releases   *)
(* no packet, whatever barrier replies come after it.                       *)
THEOREM NoReleaseAfterFailure == Spec => []NoLateRelease
  <1>1. IInv => NoLateRelease  BY DEF IInv
  <1> QED  BY <1>1, Inductive, PTL
=============================================================================
