-------------------------- MODULE ShimTableProofs --------------------------
(* For every set of flow spaces, packets and descriptors: the types of     *)
(* ShimTable, that an element only runs on traffic of its flow space, that *)
(* the elements of one run in their order and as a whole, and which        *)
(* elements lookup_flow finds.                                             *)
EXTENDS ShimTable, WellFoundedInduction, TLAPS

(* Every descriptor in the table was installed for the flow of its entry   *)
(* or for the reverse of it.                                               *)
EntriesJustified ==
  \A i \in DOMAIN flow_to_function_mapping :
    LET e == flow_to_function_mapping[i] IN
    \A j \in DOMAIN e.eds :
      /\ asked[e.eds[j]] # None
      /\ e.flow \in {asked[e.eds[j]], get_reverse_flow(asked[e.eds[j]])}

(* No install message has had a descriptor beyond the counter, so the next *)
(* one changes what no entry relies on.                                    *)
AskedInOrder == \A ed \in Desc : ed > latest => asked[ed] = None

IInv == TypeOK /\ EntriesJustified /\ AskedInOrder /\ OnlyItsTraffic

(* What the entries are, however often flow spaces and their reverses were *)
(* installed.  A flow is the key of one entry only, as in a dictionary.    *)
FlowsOnce ==
  \A i, k \in DOMAIN flow_to_function_mapping :
    flow_to_function_mapping[i].flow = flow_to_function_mapping[k].flow => i = k

(* The table t has descriptor d under the flow g.                          *)
Has(t, g, d) ==
  \E i \in DOMAIN t : t[i].flow = g /\ \E j \in DOMAIN t[i].eds : t[i].eds[j] = d

(* Every descriptor that was installed is under its flow and its reverse.  *)
EntriesComplete ==
  \A d \in Desc : asked[d] # None =>
    /\ Has(flow_to_function_mapping, asked[d], d)
    /\ Has(flow_to_function_mapping, get_reverse_flow(asked[d]), d)

(* A list of descriptors in the order of the counter, one twice only if    *)
(* its flow is its own reverse.                                            *)
InOrder(eds, a) ==
  \A j, k \in DOMAIN eds : j < k =>
    \/ eds[j] < eds[k]
    \/ eds[j] = eds[k] /\ get_reverse_flow(a[eds[j]]) = a[eds[j]]

EntriesOrdered ==
  \A i \in DOMAIN flow_to_function_mapping :
    /\ flow_to_function_mapping[i].eds # <<>>
    /\ InOrder(flow_to_function_mapping[i].eds, asked)

(* Later entries have later first descriptors, except that the two entries *)
(* of one install message have the same.                                   *)
HeadsInOrder ==
  \A i, k \in DOMAIN flow_to_function_mapping : i < k =>
    LET e == flow_to_function_mapping[i]
        g == flow_to_function_mapping[k]
    IN  e.eds[1] < g.eds[1] \/ g.flow = get_reverse_flow(e.flow)

TableInv == FlowsOnce /\ EntriesComplete /\ EntriesOrdered /\ HeadsInOrder

-----------------------------------------------------------------------------
(* The operators of the table.                                             *)

LEMMA ReverseType == \A f \in Flow : get_reverse_flow(f) \in Flow
  BY DEF get_reverse_flow, Flow

(* lookup_flow's tests find only packets the flow space covers.            *)
LEMMA MatchesCovers ==
  ASSUME NEW f \in Flow, NEW p \in Packet, Matches(f, p)
  PROVE  Covers(f, p)
  BY DEF Matches, Covers, Means, AsInt, AsStr

(* What add_flow does to the entries: every one of the new table has the   *)
(* flow f and a list that ends in ed, or was there before.                 *)
LEMMA AddFlowEntries ==
  ASSUME NEW t \in Seq(Entry), NEW f \in Flow, NEW ed \in Desc
  PROVE  /\ add_flow(t, f, ed) \in Seq(Entry)
         /\ \A i \in DOMAIN add_flow(t, f, ed) :
              LET e == add_flow(t, f, ed)[i] IN
              \/ i \in DOMAIN t /\ e = t[i]
              \/ /\ i \in DOMAIN t /\ t[i].flow = f
                 /\ e.flow = f /\ e.eds = Append(t[i].eds, ed)
              \/ e.flow = f /\ e.eds = <<ed>>
  <1>1. CASE \E i \in DOMAIN t : t[i].flow = f
    <2> DEFINE u == [i \in DOMAIN t |->
                       IF t[i].flow = f
                         THEN [t[i] EXCEPT !.eds = Append(@, ed)] ELSE t[i]]
    <2>1. add_flow(t, f, ed) = u  BY <1>1 DEF add_flow
    <2>2. DOMAIN t = 1..Len(t) /\ Len(t) \in Nat  OBVIOUS
    <2>3. ASSUME NEW i \in DOMAIN t
          PROVE  /\ u[i] \in Entry
                 /\ t[i].flow = f =>
                      u[i].flow = f /\ u[i].eds = Append(t[i].eds, ed)
                 /\ t[i].flow # f => u[i] = t[i]
      <3>1. t[i] \in Entry  OBVIOUS
      <3>2. Append(t[i].eds, ed) \in Seq(Desc)  BY <3>1 DEF Entry
      <3> QED  BY <3>1, <3>2 DEF Entry
    <2>4. u \in Seq(Entry)  BY <2>2, <2>3
    <2>5. DOMAIN u = DOMAIN t  OBVIOUS
    <2> HIDE DEF u
    <2> QED  BY <2>1, <2>3, <2>4, <2>5
  <1>2. CASE ~ \E i \in DOMAIN t : t[i].flow = f
    <2>1. add_flow(t, f, ed) = Append(t, [flow |-> f, eds |-> <<ed>>])
      BY <1>2 DEF add_flow
    <2>2. [flow |-> f, eds |-> <<ed>>] \in Entry  BY DEF Entry
    <2> QED  BY <2>1, <2>2
  <1> QED  BY <1>1, <1>2

(* add_flow keeps the entries justified, when ed was installed for g and   *)
(* the entry it goes to is that of g or of its reverse.                    *)
Justified(t, a) ==
  \A i \in DOMAIN t : \A j \in DOMAIN t[i].eds :
    /\ a[t[i].eds[j]] # None
    /\ t[i].flow \in {a[t[i].eds[j]], get_reverse_flow(a[t[i].eds[j]])}

LEMMA AddFlowJustified ==
  ASSUME NEW t \in Seq(Entry), NEW f \in Flow, NEW ed \in Desc, NEW a,
         Justified(t, a), a[ed] # None,
         f \in {a[ed], get_reverse_flow(a[ed])}
  PROVE  Justified(add_flow(t, f, ed), a)
  <1> DEFINE u == add_flow(t, f, ed)
  <1> SUFFICES ASSUME NEW i \in DOMAIN u, NEW j \in DOMAIN u[i].eds
               PROVE  /\ a[u[i].eds[j]] # None
                      /\ u[i].flow \in {a[u[i].eds[j]],
                                        get_reverse_flow(a[u[i].eds[j]])}
    BY DEF Justified
  <1>1. \/ i \in DOMAIN t /\ u[i] = t[i]
        \/ /\ i \in DOMAIN t /\ t[i].flow = f
           /\ u[i].flow = f /\ u[i].eds = Append(t[i].eds, ed)
        \/ u[i].flow = f /\ u[i].eds = <<ed>>
    BY AddFlowEntries
  <1> HIDE DEF u
  <1>2. CASE i \in DOMAIN t /\ u[i] = t[i]
    BY <1>2 DEF Justified
  <1>3. CASE /\ i \in DOMAIN t /\ t[i].flow = f
             /\ u[i].flow = f /\ u[i].eds = Append(t[i].eds, ed)
    <2>0. t[i] \in Entry  BY <1>3
    <2>1. t[i].eds \in Seq(Desc)  BY <2>0 DEF Entry
    <2>2. \/ j \in DOMAIN t[i].eds /\ u[i].eds[j] = t[i].eds[j]
          \/ u[i].eds[j] = ed
      BY <1>3, <2>1
    <2> QED  BY <1>3, <2>2 DEF Justified
  <1>4. CASE u[i].flow = f /\ u[i].eds = <<ed>>
    <2>1. u[i].eds[j] = ed  BY <1>4
    <2> QED  BY <1>4, <2>1
  <1> QED  BY <1>1, <1>2, <1>3, <1>4

(* A set of positions in a sequence has a largest one.                     *)
LEMMA LargestExists ==
  ASSUME NEW n \in Nat, NEW S, S \subseteq 1..n, S # {}
  PROVE  \E i \in S : \A j \in S : j <= i
  <1> DEFINE T == {n - i : i \in S}
  <1>0. \A i \in S : n - i \in Nat  OBVIOUS
  <1>1. T \subseteq Nat /\ T # {}  BY <1>0
  <1> DEFINE R == OpToRel(<, Nat)
  <1>2. \E x \in T : \A y \in T : ~ (<<y, x>> \in R)
    <2>1. IsWellFoundedOn(R, Nat)  BY NatLessThanWellFounded
    <2> HIDE DEF T, R
    <2> QED  BY <1>1, <2>1, WFMin
  <1>3. \A x, y \in Nat : y < x => <<y, x>> \in R  BY DEF OpToRel
  <1> HIDE DEF R
  <1>4. PICK i \in S : \A y \in T : ~ (<<y, n - i>> \in R)  BY <1>2
  <1>5. \A j \in S : ~ (n - j < n - i)  BY <1>1, <1>3, <1>4
  <1> QED  BY <1>5

(* What a packet runs through is a prefix of a list of the table whose     *)
(* flow matches it.                                                        *)
LEMMA HandlesFromEntry ==
  ASSUME TypeOK, NEW p \in Packets, Handles(p) # <<>>
  PROVE  \E i \in DOMAIN flow_to_function_mapping :
           /\ Handles(p) = flow_to_function_mapping[i].eds
           /\ Matches(flow_to_function_mapping[i].flow, p)
  <1>1. Handles(p) = lookup_flow(p) /\ lookup_flow(p) # <<>>
    BY DEF Handles
  <1>2. Results(p) # {}  BY <1>1 DEF lookup_flow
  <1>3. Results(p) \subseteq 1..Len(flow_to_function_mapping)
    BY DEF Results, TypeOK
  <1>4. \E i \in Results(p) : \A j \in Results(p) : j <= i
    BY <1>2, <1>3, LargestExists DEF TypeOK
  <1> QED  BY <1>1, <1>2, <1>4 DEF lookup_flow, Results

-----------------------------------------------------------------------------
(* The steps.                                                              *)

LEMMA InitIInv == Init => IInv
  <1> SUFFICES ASSUME Init PROVE IInv  OBVIOUS
  <1>1. TypeOK
    BY FlowsAssumption DEF Init, TypeOK, Last, Untouched
  <1> QED
    BY <1>1 DEF Init, IInv, EntriesJustified, AskedInOrder, OnlyItsTraffic,
                Untouched

(* A process that ends leaves what a new one starts with.                  *)
LEMMA ExitIInv ==
  ASSUME TypeOK, Exit, latest' \in 0..MaxDesc
  PROVE  IInv'
  <1>1. TypeOK'
    BY FlowsAssumption DEF Exit, TypeOK, Last, Untouched
  <1> QED
    BY <1>1 DEF Exit, IInv, EntriesJustified, AskedInOrder, OnlyItsTraffic,
                Untouched

LEMMA InstallIInv ==
  ASSUME IInv, NEW f \in FlowSpaces, InstallFunction(f)
  PROVE  IInv'
  <1> DEFINE ed == latest + 1
             t == flow_to_function_mapping
             r == get_reverse_flow(f)
             u == add_flow(t, f, ed)
  <1>0. f \in Flow /\ r \in Flow /\ f # None
    BY FlowsAssumption, ReverseType
  <1>1. /\ ed \in Desc /\ latest' = ed /\ latest \in Nat
        /\ t' = add_flow(u, r, ed)
        /\ fd_to_object_map' = fd_to_object_map \cup {ed}
        /\ asked' = [asked EXCEPT ![ed] = f]
        /\ UNCHANGED <<trigger_due, starts, last>>
    BY DEF InstallFunction, IInv, TypeOK
  <1>2. t \in Seq(Entry) /\ asked \in [Desc -> Flow \cup {None}] /\ last \in Last
    BY DEF IInv, TypeOK
  <1>3. asked[ed] = None  BY <1>1 DEF IInv, AskedInOrder
  <1>4. asked'[ed] = f /\ \A d \in Desc : asked[d] # None => asked'[d] = asked[d]
    BY <1>1, <1>2, <1>3
  <1>5. u \in Seq(Entry)  BY <1>0, <1>1, <1>2, AddFlowEntries
  <1>6. t' \in Seq(Entry)  BY <1>0, <1>1, <1>5, AddFlowEntries
  <1>7. TypeOK'
    <2>1. asked' \in [Desc -> Flow \cup {None}]  BY <1>0, <1>1, <1>2
    <2> QED
      BY <1>1, <1>6, <2>1 DEF IInv, TypeOK, Desc
  <1>8. EntriesJustified'
    <2>1. Justified(t, asked)  BY DEF IInv, EntriesJustified, Justified
    <2>2. Justified(t, asked')
      <3> SUFFICES ASSUME NEW i \in DOMAIN t, NEW j \in DOMAIN t[i].eds
                   PROVE  asked'[t[i].eds[j]] = asked[t[i].eds[j]]
        BY <2>1 DEF Justified
      <3>1. t[i] \in Entry  BY <1>2
      <3>2. t[i].eds[j] \in Desc  BY <3>1 DEF Entry
      <3> QED  BY <1>4, <2>1, <3>2 DEF Justified
    <2>3. Justified(u, asked')
      BY <1>0, <1>1, <1>2, <1>4, <2>2, AddFlowJustified
    <2>4. Justified(t', asked')
      <3>1. asked'[ed] # None /\ r \in {asked'[ed], get_reverse_flow(asked'[ed])}
        BY <1>0, <1>4
      <3> HIDE DEF u, r, ed
      <3>2. Justified(add_flow(u, r, ed), asked')
        BY <1>0, <1>1, <1>5, <2>3, <3>1, AddFlowJustified
      <3> QED  BY <1>1, <3>2
    <2> QED  BY <2>4 DEF EntriesJustified, Justified
  <1>9. AskedInOrder'
    BY <1>1, <1>2 DEF IInv, AskedInOrder, Desc
  <1>10. OnlyItsTraffic'
    <2> SUFFICES ASSUME NEW i \in DOMAIN last.ran
                 PROVE  asked'[last.ran[i]] = asked[last.ran[i]]
      BY <1>1 DEF IInv, OnlyItsTraffic
    <2>1. last.ran[i] \in Desc  BY <1>2 DEF Last
    <2> QED  BY <1>4, <2>1 DEF IInv, OnlyItsTraffic
  <1> QED  BY <1>7, <1>8, <1>9, <1>10 DEF IInv

LEMMA StopIInv ==
  ASSUME IInv, NEW ed \in Desc, StopFunction(ed)
  PROVE  IInv'
  <1>1. CASE Exit
    BY <1>1, ExitIInv DEF IInv, TypeOK, StopFunction
  <1>2. CASE /\ fd_to_object_map' = fd_to_object_map \ {ed}
             /\ UNCHANGED <<flow_to_function_mapping, trigger_due, starts,
                            latest, asked, last>>
    BY <1>2 DEF IInv, TypeOK, EntriesJustified, AskedInOrder, OnlyItsTraffic
  <1> QED  BY <1>1, <1>2 DEF StopFunction

LEMMA DemuxIInv ==
  ASSUME IInv, NEW p \in Packets, Demux(p)
  PROVE  IInv'
  <1>0. p \in Packet  BY FlowsAssumption
  <1>1. UNCHANGED <<flow_to_function_mapping, fd_to_object_map, starts, latest,
                    asked>>
    BY DEF Demux
  <1>2. trigger_due' \in BOOLEAN
    BY Zenon DEF Demux, TriggerDueAfter, IInv, TypeOK
  <1>3. CASE last' = Untouched
    BY <1>1, <1>2, <1>3 DEF IInv, TypeOK, EntriesJustified, AskedInOrder,
                            OnlyItsTraffic, Untouched, Last
  <1>4. CASE \E n \in 1..Len(Handles(p)), passes \in BOOLEAN :
               last' = [pkt |-> p, ran |-> SubSeq(Handles(p), 1, n),
                        forwarded |-> passes]
    <2>1. PICK n \in 1..Len(Handles(p)), passes \in BOOLEAN :
               last' = [pkt |-> p, ran |-> SubSeq(Handles(p), 1, n),
                        forwarded |-> passes]
      BY <1>4
    <2>2. Handles(p) # <<>>  BY <2>1
    <2>3. PICK k \in DOMAIN flow_to_function_mapping :
             /\ Handles(p) = flow_to_function_mapping[k].eds
             /\ Matches(flow_to_function_mapping[k].flow, p)
      BY <2>2, HandlesFromEntry DEF IInv
    <2> DEFINE e == flow_to_function_mapping[k]
    <2>4. e \in Entry  BY DEF IInv, TypeOK
    <2>5. Handles(p) \in Seq(Desc) /\ e.flow \in Flow
      BY <2>3, <2>4 DEF Entry
    <2>6. /\ SubSeq(Handles(p), 1, n) \in Seq(Desc)
          /\ \A i \in DOMAIN SubSeq(Handles(p), 1, n) :
               i \in DOMAIN Handles(p) /\ SubSeq(Handles(p), 1, n)[i] = Handles(p)[i]
      BY <2>1, <2>5
    <2>7. last' \in Last
      BY <1>0, <2>1, <2>6 DEF Last
    <2>8. Covers(e.flow, p)  BY <1>0, <2>3, <2>5, MatchesCovers
    <2>9. OnlyItsTraffic'
      <3> SUFFICES ASSUME NEW i \in DOMAIN last'.ran
                   PROVE  /\ asked[last'.ran[i]] # None
                          /\ CoversEitherWay(asked[last'.ran[i]], last'.pkt)
        BY <1>1 DEF OnlyItsTraffic
      <3>1. /\ last'.pkt = p /\ i \in DOMAIN e.eds
            /\ last'.ran[i] = e.eds[i]
        BY <2>1, <2>3, <2>6
      <3>2. /\ asked[e.eds[i]] # None
            /\ e.flow \in {asked[e.eds[i]], get_reverse_flow(asked[e.eds[i]])}
        BY <3>1 DEF IInv, EntriesJustified
      <3> QED  BY <2>8, <3>1, <3>2 DEF CoversEitherWay
    <2> QED
      BY <1>1, <1>2, <2>7, <2>9 DEF IInv, TypeOK, EntriesJustified, AskedInOrder
  <1> QED  BY <1>3, <1>4 DEF Demux

LEMMA NextIInv == IInv /\ [Next]_vars => IInv'
  <1> SUFFICES ASSUME IInv, [Next]_vars PROVE IInv'  OBVIOUS
  <1>1. ASSUME NEW f \in FlowSpaces, InstallFunction(f) PROVE IInv'
    BY <1>1, InstallIInv
  <1>2. CASE InstallFails
    BY <1>2, ExitIInv DEF InstallFails, IInv, TypeOK, Desc
  <1>3. CASE Shutdown
    BY <1>3, ExitIInv DEF Shutdown, IInv, TypeOK
  <1>4. ASSUME NEW ed \in Desc, StopFunction(ed) PROVE IInv'
    BY <1>4, StopIInv
  <1>5. ASSUME NEW p \in Packets, Demux(p) PROVE IInv'
    BY <1>5, DemuxIInv
  <1>6. CASE IntervalPasses
    BY <1>6 DEF IntervalPasses, IInv, TypeOK, EntriesJustified, AskedInOrder,
                OnlyItsTraffic
  <1>7. CASE UNCHANGED vars
    BY <1>7 DEF vars, IInv, TypeOK, EntriesJustified, AskedInOrder,
                OnlyItsTraffic
  <1> QED  BY <1>1, <1>2, <1>3, <1>4, <1>5, <1>6, <1>7 DEF Next

(* The types of the table, of the objects and of what has run, in every    *)
(* state demux and the messages of the controller can lead to.             *)
THEOREM ShimTypes == Spec => []TypeOK
  BY InitIInv, NextIInv, PTL DEF Spec, IInv

(* demux never gives a packet to an element of another flow space, for any *)
(* flow spaces, however they overlap or reverse each other.                *)
THEOREM RightElement == Spec => []OnlyItsTraffic
  BY InitIInv, NextIInv, PTL DEF Spec, IInv

-----------------------------------------------------------------------------
(* The entries of the table as a whole.                                    *)

LEMMA ReverseTwice == \A f \in Flow : get_reverse_flow(get_reverse_flow(f)) = f
  BY DEF get_reverse_flow, Flow

KeyOf(t, f) == \E i \in DOMAIN t : t[i].flow = f

(* The two cases of add_flow, entry by entry.                              *)
LEMMA AddFlowFound ==
  ASSUME NEW t \in Seq(Entry), NEW f \in Flow, NEW ed \in Desc,
         NEW u, KeyOf(t, f), u = add_flow(t, f, ed)
  PROVE  /\ DOMAIN u = DOMAIN t
         /\ \A i \in DOMAIN t :
              /\ u[i].flow = t[i].flow
              /\ t[i].flow # f => u[i] = t[i]
              /\ t[i].flow = f => u[i].eds = Append(t[i].eds, ed)
  <1>1. u = [i \in DOMAIN t |->
               IF t[i].flow = f
                 THEN [t[i] EXCEPT !.eds = Append(@, ed)] ELSE t[i]]
    BY DEF add_flow, KeyOf
  <1>2. \A i \in DOMAIN t : t[i] \in Entry
    OBVIOUS
  <1> QED
    BY <1>1, <1>2 DEF Entry

LEMMA AddFlowNew ==
  ASSUME NEW t \in Seq(Entry), NEW f \in Flow, NEW ed \in Desc,
         NEW u, ~ KeyOf(t, f), u = add_flow(t, f, ed)
  PROVE  /\ DOMAIN t = 1..Len(t) /\ Len(t) \in Nat
         /\ DOMAIN u = 1..(Len(t) + 1)
         /\ \A i \in DOMAIN t : u[i] = t[i]
         /\ u[Len(t) + 1].flow = f /\ u[Len(t) + 1].eds = <<ed>>
  <1>1. u = Append(t, [flow |-> f, eds |-> <<ed>>])
    BY DEF add_flow, KeyOf
  <1>2. [flow |-> f, eds |-> <<ed>>] \in Entry
    BY DEF Entry
  <1> QED
    BY <1>1, <1>2

LEMMA EntryLists ==
  ASSUME NEW t \in Seq(Entry)
  PROVE  \A i \in DOMAIN t : t[i].flow \in Flow /\ t[i].eds \in Seq(Desc)
  <1>1. \A i \in DOMAIN t : t[i] \in Entry
    OBVIOUS
  <1> QED
    BY <1>1 DEF Entry

(* What append does to the list of an entry.                               *)
LEMMA AppendFacts ==
  ASSUME NEW s \in Seq(Desc), NEW ed \in Desc, NEW w, w = Append(s, ed)
  PROVE  /\ DOMAIN s = 1..Len(s) /\ Len(s) \in Nat
         /\ DOMAIN w = 1..(Len(s) + 1)
         /\ \A j \in DOMAIN s : w[j] = s[j]
         /\ w[Len(s) + 1] = ed
         /\ w # <<>>
  OBVIOUS

Once(t) == \A i, k \in DOMAIN t : t[i].flow = t[k].flow => i = k

LEMMA AddFlowOnce ==
  ASSUME NEW t \in Seq(Entry), NEW f \in Flow, NEW ed \in Desc, Once(t)
  PROVE  Once(add_flow(t, f, ed))
  <1>. PICK u : u = add_flow(t, f, ed)
    OBVIOUS
  <1>1. CASE KeyOf(t, f)
    BY <1>1, AddFlowFound DEF Once
  <1>2. CASE ~ KeyOf(t, f)
    BY <1>2, AddFlowNew DEF Once, KeyOf
  <1> QED
    BY <1>1, <1>2

(* add_flow puts ed under f and loses nothing.                             *)
LEMMA AddFlowHas ==
  ASSUME NEW t \in Seq(Entry), NEW f \in Flow, NEW ed \in Desc
  PROVE  /\ Has(add_flow(t, f, ed), f, ed)
         /\ \A g, d : Has(t, g, d) => Has(add_flow(t, f, ed), g, d)
  <1>. PICK u : u = add_flow(t, f, ed)
    OBVIOUS
  <1>0. \A i \in DOMAIN t : t[i].eds \in Seq(Desc)
    BY EntryLists
  <1>1. CASE KeyOf(t, f)
    <2>1. /\ DOMAIN u = DOMAIN t
          /\ \A i \in DOMAIN t :
               /\ u[i].flow = t[i].flow
               /\ t[i].flow # f => u[i] = t[i]
               /\ t[i].flow = f => u[i].eds = Append(t[i].eds, ed)
      BY <1>1, AddFlowFound
    <2>2. Has(u, f, ed)
      <3>1. PICK i \in DOMAIN t : t[i].flow = f
        BY <1>1 DEF KeyOf
      <3>2. \E j \in DOMAIN u[i].eds : u[i].eds[j] = ed
        <4>1. PICK s \in Seq(Desc) : s = t[i].eds
          BY <1>0
        <4>2. u[i].eds = Append(s, ed)
          BY <2>1, <3>1, <4>1
        <4>3. PICK w : w = u[i].eds
          OBVIOUS
        <4>4. Len(s) + 1 \in DOMAIN w /\ w[Len(s) + 1] = ed
          BY <4>2, <4>3, AppendFacts
        <4>. QED
          BY <4>3, <4>4
      <3>. QED
        BY <2>1, <3>1, <3>2 DEF Has
    <2>3. ASSUME NEW g, NEW d, Has(t, g, d) PROVE Has(u, g, d)
      <3>0. PICK i \in DOMAIN t :
              t[i].flow = g /\ \E j \in DOMAIN t[i].eds : t[i].eds[j] = d
        BY <2>3 DEF Has
      <3>1. PICK j \in DOMAIN t[i].eds : t[i].flow = g /\ t[i].eds[j] = d
        BY <3>0
      <3>2. j \in DOMAIN u[i].eds /\ u[i].eds[j] = d
        <4>1. CASE t[i].flow # f
          BY <2>1, <3>1, <4>1
        <4>2. CASE t[i].flow = f
          <5>1. PICK s \in Seq(Desc) : s = t[i].eds
            BY <1>0
          <5>2. PICK w : w = u[i].eds /\ w = Append(s, ed)
            BY <2>1, <4>2, <5>1
          <5>3. j \in DOMAIN w /\ w[j] = s[j]
            BY <3>1, <5>1, <5>2, AppendFacts
          <5>. QED
            BY <3>1, <5>1, <5>2, <5>3
        <4>. QED
          BY <4>1, <4>2
      <3>. QED
        BY <2>1, <3>1, <3>2 DEF Has
    <2>. QED
      BY <2>2, <2>3
  <1>2. CASE ~ KeyOf(t, f)
    <2>1. /\ DOMAIN t = 1..Len(t) /\ Len(t) \in Nat
          /\ DOMAIN u = 1..(Len(t) + 1)
          /\ \A i \in DOMAIN t : u[i] = t[i]
          /\ u[Len(t) + 1].flow = f /\ u[Len(t) + 1].eds = <<ed>>
      BY <1>2, AddFlowNew
    <2>2. Has(u, f, ed)
      <3>1. 1 \in DOMAIN u[Len(t) + 1].eds /\ u[Len(t) + 1].eds[1] = ed
        BY <2>1
      <3>2. Len(t) + 1 \in DOMAIN u
        BY <2>1
      <3>. QED
        BY <2>1, <3>1, <3>2 DEF Has
    <2>3. DOMAIN t \subseteq DOMAIN u
      BY <2>1
    <2>. QED
      BY <2>1, <2>2, <2>3 DEF Has
  <1> QED
    BY <1>1, <1>2

Ordered(t, a) == \A i \in DOMAIN t : t[i].eds # <<>> /\ InOrder(t[i].eds, a)

(* Appending a descriptor that is at least as large as those of the list.  *)
LEMMA AppendInOrder ==
  ASSUME NEW s \in Seq(Desc), NEW ed \in Desc, NEW a, InOrder(s, a),
         \A j \in DOMAIN s :
           s[j] < ed \/ (s[j] = ed /\ get_reverse_flow(a[ed]) = a[ed])
  PROVE  InOrder(Append(s, ed), a)
  <1>. PICK w : w = Append(s, ed)
    OBVIOUS
  <1>1. /\ DOMAIN s = 1..Len(s) /\ Len(s) \in Nat
        /\ DOMAIN w = 1..(Len(s) + 1)
        /\ \A j \in DOMAIN s : w[j] = s[j]
        /\ w[Len(s) + 1] = ed
    BY AppendFacts
  <1>. SUFFICES ASSUME NEW j \in DOMAIN w, NEW k \in DOMAIN w, j < k
                PROVE  \/ w[j] < w[k]
                       \/ w[j] = w[k] /\ get_reverse_flow(a[w[j]]) = a[w[j]]
    BY DEF InOrder
  <1>2. j \in DOMAIN s /\ w[j] = s[j]
    BY <1>1
  <1>3. CASE k \in DOMAIN s
    BY <1>1, <1>2, <1>3 DEF InOrder
  <1>4. CASE k = Len(s) + 1
    BY <1>1, <1>2, <1>4
  <1> QED
    BY <1>1, <1>3, <1>4

(* ed may be appended to the list of f.                                    *)
Appendable(t, f, ed, a) ==
  \A i \in DOMAIN t : t[i].flow = f =>
    \A j \in DOMAIN t[i].eds :
      \/ t[i].eds[j] < ed
      \/ t[i].eds[j] = ed /\ get_reverse_flow(a[ed]) = a[ed]

LEMMA AddFlowOrdered ==
  ASSUME NEW t \in Seq(Entry), NEW f \in Flow, NEW ed \in Desc, NEW a,
         Ordered(t, a), Appendable(t, f, ed, a)
  PROVE  Ordered(add_flow(t, f, ed), a)
  <1>. PICK u : u = add_flow(t, f, ed)
    OBVIOUS
  <1>0. \A i \in DOMAIN t : t[i].eds \in Seq(Desc)
    BY EntryLists
  <1>1. CASE KeyOf(t, f)
    <2>1. /\ DOMAIN u = DOMAIN t
          /\ \A i \in DOMAIN t :
               /\ t[i].flow # f => u[i] = t[i]
               /\ t[i].flow = f => u[i].eds = Append(t[i].eds, ed)
      BY <1>1, AddFlowFound
    <2>. SUFFICES ASSUME NEW i \in DOMAIN t
                  PROVE  u[i].eds # <<>> /\ InOrder(u[i].eds, a)
      BY <2>1 DEF Ordered
    <2>2. CASE t[i].flow # f
      BY <2>1, <2>2 DEF Ordered
    <2>3. CASE t[i].flow = f
      <3>1. PICK s \in Seq(Desc) : s = t[i].eds
        BY <1>0
      <3>2. InOrder(s, a)
        BY <3>1 DEF Ordered
      <3>3. InOrder(Append(s, ed), a)
        BY <2>3, <3>1, <3>2, AppendInOrder DEF Appendable
      <3>4. Append(s, ed) # <<>>
        BY AppendFacts
      <3>. QED
        BY <2>1, <2>3, <3>1, <3>3, <3>4
    <2>. QED
      BY <2>2, <2>3
  <1>2. CASE ~ KeyOf(t, f)
    <2>1. /\ DOMAIN t = 1..Len(t) /\ Len(t) \in Nat
          /\ DOMAIN u = 1..(Len(t) + 1)
          /\ \A i \in DOMAIN t : u[i] = t[i]
          /\ u[Len(t) + 1].eds = <<ed>>
      BY <1>2, AddFlowNew
    <2>2. <<ed>> # <<>> /\ InOrder(<<ed>>, a)
      BY DEF InOrder
    <2>3. ASSUME NEW i \in DOMAIN u
          PROVE  u[i].eds # <<>> /\ InOrder(u[i].eds, a)
      <3>1. CASE i \in DOMAIN t
        BY <2>1, <3>1 DEF Ordered
      <3>2. CASE i = Len(t) + 1
        BY <2>1, <2>2, <3>2
      <3>. QED
        BY <2>1, <3>1, <3>2
    <2>. QED
      BY <2>3 DEF Ordered
  <1> QED
    BY <1>1, <1>2

Heads(t) ==
  \A i, k \in DOMAIN t : i < k =>
    t[i].eds[1] < t[k].eds[1] \/ t[k].flow = get_reverse_flow(t[i].flow)

LEMMA AddFlowHeads ==
  ASSUME NEW t \in Seq(Entry), NEW f \in Flow, NEW ed \in Desc, Heads(t),
         \A i \in DOMAIN t : t[i].eds # <<>>,
         \A i \in DOMAIN t : t[i].eds[1] < ed \/ f = get_reverse_flow(t[i].flow)
  PROVE  Heads(add_flow(t, f, ed))
  <1>. PICK u : u = add_flow(t, f, ed)
    OBVIOUS
  <1>0. \A i \in DOMAIN t : t[i].eds \in Seq(Desc)
    BY EntryLists
  <1>1. CASE KeyOf(t, f)
    <2>1. /\ DOMAIN u = DOMAIN t
          /\ \A i \in DOMAIN t :
               /\ u[i].flow = t[i].flow
               /\ t[i].flow # f => u[i] = t[i]
               /\ t[i].flow = f => u[i].eds = Append(t[i].eds, ed)
      BY <1>1, AddFlowFound
    <2>2. ASSUME NEW i \in DOMAIN t PROVE u[i].eds[1] = t[i].eds[1]
      <3>1. CASE t[i].flow # f
        BY <2>1, <3>1
      <3>2. CASE t[i].flow = f
        <4>1. PICK s \in Seq(Desc) : s = t[i].eds
          BY <1>0
        <4>2. s # <<>> /\ u[i].eds = Append(s, ed)
          BY <2>1, <3>2, <4>1
        <4>3. 1 \in DOMAIN s
          BY <4>2
        <4>4. Append(s, ed)[1] = s[1]
          BY <4>3, AppendFacts
        <4>. QED
          BY <4>1, <4>2, <4>4
      <3>. QED
        BY <3>1, <3>2
    <2>. QED
      BY <2>1, <2>2 DEF Heads
  <1>2. CASE ~ KeyOf(t, f)
    <2>1. /\ DOMAIN t = 1..Len(t) /\ Len(t) \in Nat
          /\ DOMAIN u = 1..(Len(t) + 1)
          /\ \A i \in DOMAIN t : u[i] = t[i]
          /\ u[Len(t) + 1].flow = f /\ u[Len(t) + 1].eds = <<ed>>
      BY <1>2, AddFlowNew
    <2>2. u[Len(t) + 1].eds[1] = ed
      BY <2>1
    <2>. SUFFICES ASSUME NEW i \in DOMAIN u, NEW k \in DOMAIN u, i < k
                  PROVE  \/ u[i].eds[1] < u[k].eds[1]
                         \/ u[k].flow = get_reverse_flow(u[i].flow)
      BY DEF Heads
    <2>3. i \in DOMAIN t /\ u[i] = t[i]
      BY <2>1
    <2>4. CASE k \in DOMAIN t
      BY <2>1, <2>3, <2>4 DEF Heads
    <2>5. CASE k = Len(t) + 1
      BY <2>1, <2>2, <2>3, <2>5
    <2>. QED
      BY <2>1, <2>4, <2>5
  <1> QED
    BY <1>1, <1>2

-----------------------------------------------------------------------------
(* The steps, for the table as a whole.                                    *)

(* Everything in the table came before the next descriptor.                *)
LEMMA EntriesEarlier ==
  ASSUME IInv, NEW i \in DOMAIN flow_to_function_mapping,
         NEW j \in DOMAIN flow_to_function_mapping[i].eds
  PROVE  /\ flow_to_function_mapping[i].eds[j] \in Desc
         /\ flow_to_function_mapping[i].eds[j] <= latest
  <1>1. PICK s \in Seq(Desc) : s = flow_to_function_mapping[i].eds
    BY EntryLists DEF IInv, TypeOK
  <1>2. s[j] \in Desc
    BY <1>1
  <1>3. asked[s[j]] # None
    BY <1>1 DEF IInv, EntriesJustified
  <1>4. ~ (s[j] > latest)
    BY <1>2, <1>3 DEF IInv, AskedInOrder
  <1>5. latest \in Nat /\ s[j] \in Nat
    BY <1>2 DEF IInv, TypeOK, Desc
  <1> QED
    BY <1>1, <1>2, <1>4, <1>5

LEMMA InstallTable ==
  ASSUME IInv, TableInv, NEW f \in FlowSpaces, InstallFunction(f)
  PROVE  TableInv'
  <1>. PICK ed, t, r, u, v, a :
         /\ ed = latest + 1 /\ t = flow_to_function_mapping
         /\ r = get_reverse_flow(f) /\ u = add_flow(t, f, ed)
         /\ v = add_flow(u, r, ed) /\ a = asked'
    OBVIOUS
  <1>0. f \in Flow /\ r \in Flow /\ f # None /\ get_reverse_flow(r) = f
    BY FlowsAssumption, ReverseType, ReverseTwice
  <1>1. /\ ed \in Desc /\ latest \in Nat
        /\ flow_to_function_mapping' = v
        /\ a = [asked EXCEPT ![ed] = f]
    BY DEF InstallFunction, IInv, TypeOK
  <1>2. t \in Seq(Entry) /\ asked \in [Desc -> Flow \cup {None}]
    BY DEF IInv, TypeOK
  <1>3. u \in Seq(Entry)
    BY <1>0, <1>1, <1>2, AddFlowEntries
  <1>4. a[ed] = f /\ \A d \in Desc : d # ed => a[d] = asked[d]
    BY <1>1, <1>2
  <1>5. \A i \in DOMAIN t : \A j \in DOMAIN t[i].eds :
          t[i].eds[j] \in Desc /\ t[i].eds[j] < ed
    BY <1>1, EntriesEarlier DEF Desc
  <1>6. FlowsOnce'
    <2>1. Once(t)
      BY DEF TableInv, FlowsOnce, Once
    <2>2. Once(v)
      BY <1>0, <1>1, <1>2, <1>3, <2>1, AddFlowOnce
    <2>. QED
      BY <1>1, <2>2 DEF FlowsOnce, Once
  <1>7. EntriesComplete'
    <2>. SUFFICES ASSUME NEW d \in Desc, a[d] # None
                  PROVE  Has(v, a[d], d) /\ Has(v, get_reverse_flow(a[d]), d)
      BY <1>1 DEF EntriesComplete
    <2>1. CASE d = ed
      <3>1. Has(u, f, ed)
        BY <1>0, <1>1, <1>2, AddFlowHas
      <3>2. Has(v, f, ed) /\ Has(v, r, ed)
        BY <1>0, <1>1, <1>3, <3>1, AddFlowHas
      <3>. QED
        BY <1>4, <2>1, <3>2
    <2>2. CASE d # ed
      <3>1. a[d] = asked[d]
        BY <1>4, <2>2
      <3>2. Has(t, asked[d], d) /\ Has(t, get_reverse_flow(asked[d]), d)
        BY <3>1 DEF TableInv, EntriesComplete
      <3>3. Has(u, asked[d], d) /\ Has(u, get_reverse_flow(asked[d]), d)
        BY <1>0, <1>1, <1>2, <3>2, AddFlowHas
      <3>4. Has(v, asked[d], d) /\ Has(v, get_reverse_flow(asked[d]), d)
        BY <1>0, <1>1, <1>3, <3>3, AddFlowHas
      <3>. QED
        BY <3>1, <3>4
    <2>. QED
      BY <2>1, <2>2
  <1>8. Ordered(t, a)
    <2>. SUFFICES ASSUME NEW i \in DOMAIN t
                  PROVE  t[i].eds # <<>> /\ InOrder(t[i].eds, a)
      BY DEF Ordered
    <2>1. t[i].eds # <<>> /\ InOrder(t[i].eds, asked)
      BY DEF TableInv, EntriesOrdered
    <2>2. ASSUME NEW j \in DOMAIN t[i].eds PROVE a[t[i].eds[j]] = asked[t[i].eds[j]]
      <3>1. PICK d \in Desc : d = t[i].eds[j]
        BY <1>5
      <3>2. d < ed
        BY <1>5, <3>1
      <3>3. d # ed
        BY <1>1, <3>2 DEF Desc
      <3>. QED
        BY <1>4, <3>1, <3>3
    <2>. QED
      BY <2>1, <2>2 DEF InOrder
  (* An entry that add_flow(t, f, ed) left behind has ed only under f.      *)
  <1>9. \A i \in DOMAIN u : \A j \in DOMAIN u[i].eds :
          u[i].eds[j] < ed \/ (u[i].eds[j] = ed /\ u[i].flow = f)
    <2>. SUFFICES ASSUME NEW i \in DOMAIN u, NEW j \in DOMAIN u[i].eds
                  PROVE  u[i].eds[j] < ed \/ (u[i].eds[j] = ed /\ u[i].flow = f)
      OBVIOUS
    <2>1. \/ i \in DOMAIN t /\ u[i] = t[i]
          \/ /\ i \in DOMAIN t /\ t[i].flow = f
             /\ u[i].flow = f /\ u[i].eds = Append(t[i].eds, ed)
          \/ u[i].flow = f /\ u[i].eds = <<ed>>
      <3>1. CASE KeyOf(t, f)
        BY <1>0, <1>1, <1>2, <3>1, AddFlowFound
      <3>2. CASE ~ KeyOf(t, f)
        BY <1>0, <1>1, <1>2, <3>2, AddFlowNew
      <3>. QED
        BY <3>1, <3>2
    <2>2. CASE i \in DOMAIN t /\ u[i] = t[i]
      BY <1>5, <2>2
    <2>3. CASE /\ i \in DOMAIN t /\ u[i].flow = f
               /\ u[i].eds = Append(t[i].eds, ed)
      <3>1. PICK s \in Seq(Desc) : s = t[i].eds
        BY <1>2, <2>3, EntryLists
      <3>2. PICK w : w = u[i].eds /\ w = Append(s, ed)
        BY <2>3, <3>1
      <3>3. \/ j \in DOMAIN s /\ w[j] = s[j]
            \/ w[j] = ed
        BY <1>1, <3>2, AppendFacts
      <3>. QED
        BY <1>5, <2>3, <3>1, <3>2, <3>3
    <2>4. CASE u[i].flow = f /\ u[i].eds = <<ed>>
      <3>1. u[i].eds[j] = ed
        BY <2>4
      <3>. QED
        BY <2>4, <3>1
    <2>. QED
      BY <2>1, <2>2, <2>3, <2>4
  <1>10. Ordered(u, a)
    <2>1. Appendable(t, f, ed, a)
      BY <1>5 DEF Appendable
    <2>. QED
      BY <1>0, <1>1, <1>2, <1>8, <2>1, AddFlowOrdered
  <1>11. EntriesOrdered'
    <2>1. Appendable(u, r, ed, a)
      BY <1>4, <1>9 DEF Appendable
    <2>2. Ordered(v, a)
      BY <1>0, <1>1, <1>3, <1>10, <2>1, AddFlowOrdered
    <2>. QED
      <3>1. \A i \in DOMAIN v : v[i].eds # <<>> /\ InOrder(v[i].eds, asked')
        BY <2>2 DEF Ordered
      <3>. QED
        BY <1>1, <3>1 DEF EntriesOrdered, InOrder
  <1>12. HeadsInOrder'
    <2>1. Heads(t) /\ \A i \in DOMAIN t : t[i].eds # <<>>
      BY DEF TableInv, HeadsInOrder, Heads, EntriesOrdered
    <2>2. ASSUME NEW i \in DOMAIN t PROVE t[i].eds[1] < ed
      <3>1. 1 \in DOMAIN t[i].eds
        <4>1. PICK s \in Seq(Desc) : s = t[i].eds
          BY <1>2, EntryLists
        <4>2. s # <<>>
          BY <2>1, <4>1
        <4>3. 1 \in DOMAIN s
          BY <4>2
        <4>. QED
          BY <4>1, <4>3
      <3>. QED
        BY <1>5, <3>1
    <2>3. Heads(u)
      BY <1>0, <1>1, <1>2, <2>1, <2>2, AddFlowHeads
    <2>4. \A i \in DOMAIN u : u[i].eds # <<>>
      BY <1>10 DEF Ordered
    <2>5. ASSUME NEW i \in DOMAIN u
          PROVE  u[i].eds[1] < ed \/ r = get_reverse_flow(u[i].flow)
      <3>1. 1 \in DOMAIN u[i].eds
        <4>1. PICK s \in Seq(Desc) : s = u[i].eds
          BY <1>3, EntryLists
        <4>2. s # <<>>
          BY <2>4, <4>1
        <4>3. 1 \in DOMAIN s
          BY <4>2
        <4>. QED
          BY <4>1, <4>3
      <3>. QED
        BY <1>9, <3>1
    <2>6. Heads(v)
      BY <1>0, <1>1, <1>3, <2>3, <2>4, <2>5, AddFlowHeads
    <2>. QED
      BY <1>1, <2>6 DEF HeadsInOrder, Heads
  <1> QED
    BY <1>6, <1>7, <1>11, <1>12 DEF TableInv

LEMMA InitTable == Init => TableInv /\ ChainOrder
  BY DEF Init, TableInv, FlowsOnce, EntriesComplete, EntriesOrdered,
         HeadsInOrder, ChainOrder, Untouched

(* A new process has an empty table.                                       *)
LEMMA ExitTable ==
  ASSUME Exit
  PROVE  TableInv' /\ ChainOrder'
  BY DEF Exit, TableInv, FlowsOnce, EntriesComplete, EntriesOrdered,
         HeadsInOrder, ChainOrder, Untouched

(* What a packet ran through: the whole list of an entry, or its beginning *)
(* if an element dropped the packet.                                       *)
LEMMA DemuxRan ==
  ASSUME IInv, NEW p \in Packets, Demux(p), last' # Untouched
  PROVE  \E k \in DOMAIN flow_to_function_mapping :
           LET eds == flow_to_function_mapping[k].eds IN
           /\ DOMAIN last'.ran \subseteq DOMAIN eds
           /\ \A i \in DOMAIN last'.ran : last'.ran[i] = eds[i]
           /\ last'.forwarded => DOMAIN last'.ran = DOMAIN eds
  <1>1. PICK n \in 1..Len(Handles(p)), passes \in BOOLEAN :
          /\ n < Len(Handles(p)) => ~passes
          /\ last' = [pkt |-> p, ran |-> SubSeq(Handles(p), 1, n),
                      forwarded |-> passes]
    BY DEF Demux
  <1>2. Handles(p) # <<>>
    BY <1>1
  <1>3. PICK k \in DOMAIN flow_to_function_mapping :
          Handles(p) = flow_to_function_mapping[k].eds
    BY <1>2, HandlesFromEntry DEF IInv
  <1>4. PICK s \in Seq(Desc) : s = Handles(p)
    BY <1>3, EntryLists DEF IInv, TypeOK
  <1>5. PICK w : w = SubSeq(s, 1, n)
    OBVIOUS
  <1>6. n \in 1..Len(s) /\ Len(s) \in Nat /\ DOMAIN s = 1..Len(s)
    BY <1>1, <1>4
  <1>7. DOMAIN w = 1..n /\ \A i \in 1..n : w[i] = s[i]
    BY <1>4, <1>5, <1>6
  <1>8. last'.ran = w /\ last'.forwarded = passes
    BY <1>1, <1>4, <1>5
  <1>9. passes => n = Len(s)
    <2>1. passes => ~ (n < Len(s))
      BY <1>1, <1>4
    <2>2. n < Len(s) \/ n = Len(s)
      <3>1. PICK l \in Nat : l = Len(s)
        BY <1>6
      <3>2. n \in 1..l
        BY <1>6, <3>1
      <3>3. n < l \/ n = l
        BY <3>2
      <3>. QED
        BY <3>1, <3>3
    <2>. QED
      BY <2>1, <2>2, Zenon
  <1>10. DOMAIN w \subseteq DOMAIN s
    BY <1>6, <1>7
  <1> QED
    BY <1>3, <1>4, <1>6, <1>7, <1>8, <1>9, <1>10

LEMMA DemuxOrder ==
  ASSUME IInv, TableInv, NEW p \in Packets, Demux(p)
  PROVE  ChainOrder'
  <1>1. CASE last' = Untouched
    BY <1>1 DEF ChainOrder, Untouched
  <1>2. CASE last' # Untouched
    <2>1. PICK k \in DOMAIN flow_to_function_mapping :
            LET eds == flow_to_function_mapping[k].eds IN
            /\ DOMAIN last'.ran \subseteq DOMAIN eds
            /\ \A i \in DOMAIN last'.ran : last'.ran[i] = eds[i]
      BY <1>2, DemuxRan
    <2>2. InOrder(flow_to_function_mapping[k].eds, asked)
      BY DEF TableInv, EntriesOrdered
    <2>3. asked' = asked
      BY DEF Demux
    <2>4. PICK ran, eds : ran = last'.ran /\ eds = flow_to_function_mapping[k].eds
      OBVIOUS
    <2>5. \A i, j \in DOMAIN ran : i < j =>
            \/ ran[i] < ran[j]
            \/ ran[i] = ran[j] /\ get_reverse_flow(asked[ran[i]]) = asked[ran[i]]
      BY <2>1, <2>2, <2>4 DEF InOrder
    <2>. QED
      BY <2>3, <2>4, <2>5 DEF ChainOrder
  <1> QED
    BY <1>1, <1>2

(* An install leaves what was asked for the elements that have run.        *)
LEMMA InstallOrder ==
  ASSUME IInv, ChainOrder, NEW f \in FlowSpaces, InstallFunction(f)
  PROVE  ChainOrder'
  <1>1. /\ last' = last /\ asked' = [asked EXCEPT ![latest + 1] = f]
        /\ latest + 1 \in Desc /\ asked \in [Desc -> Flow \cup {None}]
    BY DEF InstallFunction, IInv, TypeOK
  <1>2. asked[latest + 1] = None
    BY <1>1 DEF IInv, AskedInOrder, TypeOK
  <1>3. ASSUME NEW i \in DOMAIN last.ran PROVE asked'[last.ran[i]] = asked[last.ran[i]]
    <2>1. PICK s \in Seq(Desc) : s = last.ran
      BY DEF IInv, TypeOK, Last
    <2>2. s[i] \in Desc
      BY <2>1
    <2>3. asked[s[i]] # None
      BY <2>1 DEF IInv, OnlyItsTraffic
    <2>. QED
      BY <1>1, <1>2, <2>1, <2>2, <2>3
  <1> QED
    BY <1>1, <1>3 DEF ChainOrder

LEMMA NextTable ==
  IInv /\ TableInv /\ ChainOrder /\ [Next]_vars => TableInv' /\ ChainOrder'
  <1> SUFFICES ASSUME IInv, TableInv, ChainOrder, [Next]_vars
               PROVE  TableInv' /\ ChainOrder'
    OBVIOUS
  <1>0. ASSUME UNCHANGED <<flow_to_function_mapping, asked>>
        PROVE  TableInv'
    BY <1>0 DEF TableInv, FlowsOnce, EntriesComplete, EntriesOrdered, HeadsInOrder
  <1>00. ASSUME UNCHANGED <<last, asked>> PROVE ChainOrder'
    BY <1>00 DEF ChainOrder
  <1>1. ASSUME NEW f \in FlowSpaces, InstallFunction(f)
        PROVE  TableInv' /\ ChainOrder'
    BY <1>1, InstallTable, InstallOrder
  <1>2. CASE InstallFails \/ Shutdown
    BY <1>2, ExitTable DEF InstallFails, Shutdown
  <1>3. ASSUME NEW ed \in Desc, StopFunction(ed) PROVE TableInv' /\ ChainOrder'
    BY <1>0, <1>00, <1>3, ExitTable DEF StopFunction
  <1>4. ASSUME NEW p \in Packets, Demux(p) PROVE TableInv' /\ ChainOrder'
    BY <1>0, <1>4, DemuxOrder DEF Demux
  <1>5. CASE IntervalPasses
    BY <1>0, <1>00, <1>5 DEF IntervalPasses
  <1>6. CASE UNCHANGED vars
    BY <1>0, <1>00, <1>6 DEF vars
  <1> QED  BY <1>1, <1>2, <1>3, <1>4, <1>5, <1>6 DEF Next

(* The table and what has run, for any flow spaces: justified, complete    *)
(* and in the order of installation.                                       *)
THEOREM TableInductive == Spec => [](IInv /\ TableInv /\ ChainOrder)
  BY InitIInv, NextIInv, InitTable, NextTable, PTL DEF Spec

(* demux runs the elements of a flow space in the order they were          *)
(* installed in, however add_flow's two calls interleave flow spaces.      *)
THEOREM ChainsInOrder == Spec => []ChainOrder
  BY TableInductive, PTL

-----------------------------------------------------------------------------
(* What lookup_flow finds.                                                 *)

(* Flow spaces without addresses that cover a packet are found.            *)
LEMMA FindableMatches ==
  ASSUME NEW f \in Flow, NEW p \in Packet, Findable(f), Covers(f, p)
  PROVE  Matches(f, p)
  BY DEF Findable, Covers, Matches

LEMMA FindableReverse ==
  ASSUME NEW f \in Flow, Findable(f)
  PROVE  Findable(get_reverse_flow(f))
  <1>1. DOMAIN f = {"nw_src", "nw_dst", "nw_proto", "tp_src", "tp_dst"}
    BY DEF Flow
  <1>2. DOMAIN get_reverse_flow(f) = DOMAIN f
    BY DEF get_reverse_flow
  <1>3. \/ f.nw_proto # None \/ f.tp_src # None \/ f.tp_dst # None
    BY <1>1 DEF Findable
  <1>4. /\ get_reverse_flow(f).nw_proto = f.nw_proto
        /\ get_reverse_flow(f).tp_src = f.tp_dst
        /\ get_reverse_flow(f).tp_dst = f.tp_src
        /\ get_reverse_flow(f).nw_src = f.nw_dst
        /\ get_reverse_flow(f).nw_dst = f.nw_src
    BY DEF get_reverse_flow, Flow
  <1>5. PICK g : g = get_reverse_flow(f)
    OBVIOUS
  <1>6. /\ g["nw_proto"] = f.nw_proto
        /\ g["tp_src"] = f.tp_dst
        /\ g["tp_dst"] = f.tp_src
    BY <1>4, <1>5
  <1>7. \E field \in DOMAIN g : g[field] # None
    BY <1>1, <1>2, <1>3, <1>5, <1>6
  <1> QED
    BY <1>4, <1>5, <1>7 DEF Findable

(* The packet finds the last entry of those it matches.                    *)
LEMMA LookupLast ==
  ASSUME TypeOK, NEW p \in Packets, NEW k \in Results(p)
  PROVE  \E m \in Results(p) :
           /\ m >= k
           /\ lookup_flow(p) = flow_to_function_mapping[m].eds
  <1>1. Results(p) \subseteq 1..Len(flow_to_function_mapping)
    BY DEF Results, TypeOK
  <1>2. \E i \in Results(p) : \A j \in Results(p) : j <= i
    BY <1>1, LargestExists DEF TypeOK
  <1>3. PICK m : m = CHOOSE i \in Results(p) : \A j \in Results(p) : j <= i
    OBVIOUS
  <1>4. m \in Results(p) /\ \A j \in Results(p) : j <= m
    BY <1>2, <1>3
  <1>5. lookup_flow(p) = flow_to_function_mapping[m].eds
    BY <1>3 DEF lookup_flow
  <1> QED
    BY <1>1, <1>4, <1>5

(* The entry of either direction of an element's flow space, if it covers  *)
(* the packet, is found or a later one is, whose first element came later. *)
LEMMA EntryFound ==
  ASSUME IInv, TableInv, NEW ed \in Desc, NEW p \in Packets,
         asked[ed] # None, p.ip, NEW g,
         g \in {asked[ed], get_reverse_flow(asked[ed])}, Matches(g, p)
  PROVE  LET fds == lookup_flow(p) IN
         \/ \E i \in DOMAIN fds : fds[i] = ed
         \/ \E d \in Desc :
              /\ fds # <<>> /\ Head(fds) > d
              /\ asked[d] \in {asked[ed], get_reverse_flow(asked[ed])}
  <1>. PICK t : t = flow_to_function_mapping
    OBVIOUS
  <1>0. /\ t \in Seq(Entry) /\ asked[ed] \in Flow
        /\ get_reverse_flow(asked[ed]) \in Flow
        /\ get_reverse_flow(get_reverse_flow(asked[ed])) = asked[ed]
    <2>1. t \in Seq(Entry) /\ asked[ed] \in Flow
      BY DEF IInv, TypeOK
    <2>. QED
      BY <2>1, ReverseType, ReverseTwice
  <1>1. PICK k \in DOMAIN t :
          t[k].flow = g /\ \E j \in DOMAIN t[k].eds : t[k].eds[j] = ed
    BY DEF TableInv, EntriesComplete, Has
  <1>2. k \in Results(p)
    BY <1>1 DEF Results
  <1>3. PICK m \in Results(p) : m >= k /\ lookup_flow(p) = t[m].eds
    BY <1>2, LookupLast DEF IInv
  <1>4. k \in Nat /\ m \in Nat /\ m \in DOMAIN t
    BY <1>0, <1>3 DEF Results
  <1>5. CASE m = k
    BY <1>1, <1>3, <1>5
  <1>6. CASE k < m
    <2>1. t[k].eds[1] < t[m].eds[1] \/ t[m].flow = get_reverse_flow(t[k].flow)
      BY <1>1, <1>4, <1>6 DEF TableInv, HeadsInOrder
    <2>2. CASE t[k].eds[1] < t[m].eds[1]
      <3>1. PICK s \in Seq(Desc) : s = t[k].eds
        BY <1>0, <1>1, EntryLists
      <3>2. PICK w \in Seq(Desc) : w = t[m].eds
        BY <1>0, <1>4, EntryLists
      <3>3. s # <<>> /\ w # <<>>
        BY <1>1, <1>4, <3>1, <3>2 DEF TableInv, EntriesOrdered
      <3>4. 1 \in DOMAIN s /\ s[1] \in Desc /\ Head(w) = w[1] /\ w[1] \in Desc
        BY <3>3
      <3>5. Head(w) > s[1]
        BY <2>2, <3>1, <3>2, <3>4 DEF Desc
      <3>6. /\ asked[s[1]] # None
            /\ t[k].flow \in {asked[s[1]], get_reverse_flow(asked[s[1]])}
        BY <1>1, <3>1, <3>4 DEF IInv, EntriesJustified
      <3>7. asked[s[1]] \in Flow
        BY <3>4, <3>6 DEF IInv, TypeOK
      <3>8. get_reverse_flow(get_reverse_flow(asked[s[1]])) = asked[s[1]]
        BY <3>7, ReverseTwice
      <3>9. asked[s[1]] \in {asked[ed], get_reverse_flow(asked[ed])}
        BY <1>0, <1>1, <3>6, <3>8
      <3>. QED
        BY <1>3, <3>2, <3>3, <3>4, <3>5, <3>9
    <2>3. CASE t[m].flow = get_reverse_flow(t[k].flow)
      <3>1. t[m].flow \in {asked[ed], get_reverse_flow(asked[ed])}
        BY <1>0, <1>1, <2>3
      <3>2. Has(t, t[m].flow, ed)
        BY <3>1 DEF TableInv, EntriesComplete
      <3>3. PICK i \in DOMAIN t :
              t[i].flow = t[m].flow /\ \E j \in DOMAIN t[i].eds : t[i].eds[j] = ed
        BY <3>2 DEF Has
      <3>4. i = m
        BY <1>4, <3>3 DEF TableInv, FlowsOnce
      <3>. QED
        BY <1>3, <3>3, <3>4
    <2>. QED
      BY <2>1, <2>2, <2>3
  <1> QED
    BY <1>3, <1>4, <1>5, <1>6

LEMMA TableFinds == IInv /\ TableInv => FoundOrOvertaken
  <1>. SUFFICES ASSUME IInv, TableInv, NEW ed \in Desc, NEW p \in Packets,
                       asked[ed] # None, p.ip, Findable(asked[ed]),
                       CoversEitherWay(asked[ed], p)
                PROVE  LET fds == lookup_flow(p) IN
                       \/ \E i \in DOMAIN fds : fds[i] = ed
                       \/ \E d \in Desc :
                            /\ fds # <<>> /\ Head(fds) > d
                            /\ asked[d] \in {asked[ed], get_reverse_flow(asked[ed])}
    BY DEF FoundOrOvertaken
  <1>1. p \in Packet /\ asked[ed] \in Flow /\ get_reverse_flow(asked[ed]) \in Flow
    <2>1. p \in Packet /\ asked[ed] \in Flow
      BY FlowsAssumption DEF IInv, TypeOK
    <2>. QED
      BY <2>1, ReverseType
  <1>2. CASE Covers(asked[ed], p)
    <2>1. Matches(asked[ed], p)
      BY <1>1, <1>2, FindableMatches
    <2>. QED
      BY <2>1, EntryFound
  <1>3. CASE Covers(get_reverse_flow(asked[ed]), p)
    <2>1. Findable(get_reverse_flow(asked[ed]))
      BY <1>1, FindableReverse
    <2>2. Matches(get_reverse_flow(asked[ed]), p)
      BY <1>1, <1>3, <2>1, FindableMatches
    <2>. QED
      BY <2>2, EntryFound
  <1> QED
    BY <1>2, <1>3 DEF CoversEitherWay

(* lookup_flow finds the elements of a packet's flow space, in either      *)
(* direction, unless an entry that came later takes the packet.            *)
THEOREM ElementsFound == Spec => []FoundOrOvertaken
  BY TableInductive, TableFinds, PTL

-----------------------------------------------------------------------------
(* Chains as a whole.                                                      *)

(* A packet that is sent on ran through all of an entry, and the entry has *)
(* every element of the flow spaces it was made for.                       *)
LEMMA StepWhole ==
  ASSUME IInv, TableInv, [Next]_vars, last' # last, last'.forwarded
  PROVE  \A i \in DOMAIN last'.ran, d \in Desc :
           asked[d] = asked[last'.ran[i]] =>
             \E j \in DOMAIN last'.ran : last'.ran[j] = d
  <1>1. PICK p \in Packets : Demux(p)
    BY DEF Next, InstallFunction, InstallFails, Shutdown, StopFunction, Exit,
           IntervalPasses, Untouched, vars
  <1>2. last' # Untouched
    BY DEF Untouched
  <1>. PICK t, ran : t = flow_to_function_mapping /\ ran = last'.ran
    OBVIOUS
  <1>3. PICK k \in DOMAIN t :
          /\ DOMAIN ran = DOMAIN t[k].eds
          /\ \A i \in DOMAIN ran : ran[i] = t[k].eds[i]
    BY <1>1, <1>2, DemuxRan
  <1>. SUFFICES ASSUME NEW i \in DOMAIN ran, NEW d \in Desc,
                       asked[d] = asked[ran[i]]
                PROVE  \E j \in DOMAIN ran : ran[j] = d
    OBVIOUS
  <1>4. /\ asked[ran[i]] # None
        /\ t[k].flow \in {asked[ran[i]], get_reverse_flow(asked[ran[i]])}
    BY <1>3 DEF IInv, EntriesJustified
  <1>5. Has(t, t[k].flow, d)
    BY <1>4 DEF TableInv, EntriesComplete
  <1>6. PICK n \in DOMAIN t :
          t[n].flow = t[k].flow /\ \E j \in DOMAIN t[n].eds : t[n].eds[j] = d
    BY <1>5 DEF Has
  <1>7. n = k
    BY <1>3, <1>6 DEF TableInv, FlowsOnce
  <1> QED
    BY <1>3, <1>6, <1>7

(* No packet leaves a machine having been through a part of a service      *)
(* chain only, even when elements of the chain have been stopped.          *)
THEOREM ChainsAreWhole == Spec => ChainWhole
  <1>1. IInv /\ TableInv /\ [Next]_vars =>
          [last' # last /\ last'.forwarded =>
             \A i \in DOMAIN last'.ran, d \in Desc :
               asked[d] = asked[last'.ran[i]] =>
                 \E j \in DOMAIN last'.ran : last'.ran[j] = d]_vars
    BY StepWhole
  <1> QED
    BY <1>1, TableInductive, PTL DEF Spec, ChainWhole
=============================================================================
