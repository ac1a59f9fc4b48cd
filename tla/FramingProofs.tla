--------------------------- MODULE FramingProofs ---------------------------
(* For every number of connections and messages, and all sizes of buffers: *)
(* the byte streams of Framing implement channels of whole messages, and   *)
(* neither side loses a message unnoticed.                                 *)
EXTENDS Framing, TLAPS

(* A stream: what is read has been written, what is written has been sent, *)
(* and what is handled is a beginning of what has been sent.               *)
InOrder(sent, w, r, got) ==
  /\ r <= w /\ w <= Pieces * Len(sent)
  /\ Len(got) <= Len(sent) /\ got = SubSeq(sent, 1, Len(got))

DownInv ==
  \A c \in Conns :
    /\ InOrder(downSent[c], downW[c], downR[c], downGot[c])
    /\ shim[c] # "dead" => Len(downGot[c]) = Lines(downR[c])
    /\ shim[c] = "off" => downR[c] = 0

UpInv ==
  \A c \in Conns :
    /\ InOrder(upSent[c], upW[c], upR[c], upGot[c])
    /\ task[c] \in {"none", "run"} => Len(upGot[c]) = Texts(upR[c])
    /\ task[c] = "none" => upR[c] = 0
    /\ shim[c] = "off" => upSent[c] = << >>

(* A connection waits for accept() once, and has no task before that; the  *)
(* task that is started then is its first.                                 *)
ConnInv ==
  /\ \A c \in Conns : /\ shim[c] = "off" => conn[c] = "none"
                      /\ conn[c] \in {"none", "pending"} => task[c] = "none"
  /\ \A i \in DOMAIN backlog : conn[backlog[i]] = "pending"
  /\ \A i, j \in DOMAIN backlog : backlog[i] = backlog[j] => i = j

IInv == TypeOK /\ DownInv /\ UpInv /\ ConnInv

-----------------------------------------------------------------------------
(* Arithmetic of pieces.                                                   *)

LEMMA Counting ==
  ASSUME NEW r \in Nat
  PROVE  /\ Lines(r) \in Nat /\ Texts(r) \in Nat /\ FirstWhole(r) \in Nat
         /\ r % Pieces = 0 => FirstWhole(r) = Lines(r) + 1
         /\ ~CutInText(r) => FirstWhole(r) = Texts(r) + 1
         /\ \A e \in Nat : r <= e => Lines(r) <= Lines(e) /\ Texts(r) <= Texts(e)
         /\ \A n \in Nat : r <= Pieces * n => Lines(r) <= n /\ Texts(r) <= n
  BY DEF Lines, Texts, FirstWhole, CutInText, Pieces

LEMMA Crossing ==
  ASSUME NEW r \in Nat, NEW e \in Nat, r < e, r % Pieces # 0, e % Pieces = 0
  PROVE  Lines(e) > Lines(r)
  BY DEF Lines, Pieces

LEMMA Zero == Lines(0) = 0 /\ Texts(0) = 0 /\ 0 % Pieces = 0
  BY DEF Lines, Texts, Pieces

LEMMA WriteBounds ==
  ASSUME NEW s \in Seq(Msgs), NEW r \in Nat, r <= Pieces * Len(s)
  PROVE  Write(s, r) \in Nat /\ r <= Write(s, r) /\ Write(s, r) <= Pieces * Len(s)
  BY FramingAssumption DEF Write, Pieces

LEMMA PrefixMore ==
  ASSUME NEW s \in Seq(Msgs), NEW k \in Nat, NEW n \in Nat, k <= n, n <= Len(s)
  PROVE  /\ SubSeq(s, 1, k) \o SubSeq(s, k + 1, n) = SubSeq(s, 1, n)
         /\ Len(SubSeq(s, 1, n)) = n /\ SubSeq(s, 1, n) \in Seq(Msgs)
  OBVIOUS

LEMMA PrefixStays ==
  ASSUME NEW s \in Seq(Msgs), NEW m \in Msgs, NEW g \in Seq(Msgs),
         Len(g) <= Len(s), g = SubSeq(s, 1, Len(g))
  PROVE  /\ Append(s, m) \in Seq(Msgs) /\ Len(Append(s, m)) = Len(s) + 1
         /\ g = SubSeq(Append(s, m), 1, Len(g))
  OBVIOUS

(* A message more to send.                                                 *)
LEMMA SendInOrder ==
  ASSUME NEW s \in Seq(Msgs), NEW m \in Msgs, NEW g \in Seq(Msgs),
         NEW w \in Nat, NEW r \in Nat, InOrder(s, w, r, g)
  PROVE  /\ InOrder(Append(s, m), Write(Append(s, m), r), r, g)
         /\ Append(s, m) \in Seq(Msgs) /\ Write(Append(s, m), r) \in Nat
  <1> DEFINE t == Append(s, m)
  <1>1. t \in Seq(Msgs) /\ Len(t) = Len(s) + 1 /\ g = SubSeq(t, 1, Len(g))
    BY PrefixStays DEF InOrder
  <1>2. r <= Pieces * Len(t)  BY <1>1 DEF InOrder, Pieces
  <1>3. Write(t, r) \in Nat /\ r <= Write(t, r) /\ Write(t, r) <= Pieces * Len(t)
    BY <1>1, <1>2, WriteBounds
  <1> QED  BY <1>1, <1>3 DEF InOrder

(* The buffers take more of what has been sent.                            *)
LEMMA WriteInOrder ==
  ASSUME NEW s \in Seq(Msgs), NEW g \in Seq(Msgs),
         NEW w \in Nat, NEW r \in Nat, InOrder(s, w, r, g)
  PROVE  InOrder(s, Write(s, r), r, g) /\ Write(s, r) \in Nat
  <1>1. r <= Pieces * Len(s)  BY DEF InOrder, Pieces
  <1> QED  BY <1>1, WriteBounds DEF InOrder

(* What one recv() returned is handled up to message n.                    *)
LEMMA ReadInOrder ==
  ASSUME NEW s \in Seq(Msgs), NEW g \in Seq(Msgs), NEW w \in Nat, NEW r \in Nat,
         NEW n \in Nat, NEW e \in Nat, e \in Chunks(w, r),
         InOrder(s, w, r, g), Len(g) <= n, n <= Lines(e) \/ n <= Texts(e)
  PROVE  /\ InOrder(s, w, e, g \o SubSeq(s, Len(g) + 1, n))
         /\ g \o SubSeq(s, Len(g) + 1, n) \in Seq(Msgs)
         /\ Len(g \o SubSeq(s, Len(g) + 1, n)) = n
  <1>1. e \in Nat /\ r < e /\ e <= w  BY FramingAssumption DEF Chunks
  <1>2. e <= Pieces * Len(s) /\ Len(s) \in Nat  BY <1>1 DEF InOrder, Pieces
  <1>3. n <= Len(s)
    <2>1. Lines(e) <= Len(s) /\ Texts(e) <= Len(s)  BY <1>1, <1>2, Counting
    <2>2. Lines(e) \in Nat /\ Texts(e) \in Nat  BY <1>1, Counting
    <2> QED  BY <1>2, <2>1, <2>2
  <1>4. g \o SubSeq(s, Len(g) + 1, n) = SubSeq(s, 1, n)
    <2>1. g = SubSeq(s, 1, Len(g)) /\ Len(g) \in Nat  BY DEF InOrder
    <2>2. SubSeq(s, 1, Len(g)) \o SubSeq(s, Len(g) + 1, n) = SubSeq(s, 1, n)
      BY <1>3, <2>1, PrefixMore
    <2> QED  BY <2>1, <2>2
  <1>5. Len(SubSeq(s, 1, n)) = n /\ SubSeq(s, 1, n) \in Seq(Msgs)
    BY <1>2, <1>3, PrefixMore
  <1> QED  BY <1>1, <1>3, <1>4, <1>5 DEF InOrder

-----------------------------------------------------------------------------
(* What the two receivers do to their stream.                              *)

LEMMA DecodeEffect ==
  ASSUME IInv, NEW c \in Conns, Decode(c)
  PROVE  \E e \in Nat, g \in Seq(Msgs), st \in {"run", "dead"} :
           /\ downR' = [downR EXCEPT ![c] = e] /\ downGot' = [downGot EXCEPT ![c] = g]
           /\ shim' = [shim EXCEPT ![c] = st] /\ shim[c] = "run"
           /\ InOrder(downSent[c], downW[c], e, g)
           /\ st = "run" => Len(g) = Lines(e)
           /\ Len(downGot[c]) <= Len(g)
           /\ downR[c] % Pieces # 0 => g = downGot[c] /\ (st = "dead" \/ e % Pieces # 0)
  <1> DEFINE s == downSent[c]  g == downGot[c]  w == downW[c]  r == downR[c]
  <1>1. /\ s \in Seq(Msgs) /\ g \in Seq(Msgs) /\ w \in Nat /\ r \in Nat
        /\ shim[c] = "run" /\ shim \in [Conns -> {"off", "run", "dead"}]
        /\ downGot \in [Conns -> Seq(Msgs)]
    BY DEF IInv, TypeOK, Decode, Shim
  <1>2. InOrder(s, w, r, g) /\ Len(g) = Lines(r)
    BY <1>1 DEF IInv, DownInv
  <1>3. PICK e \in Chunks(w, r) :
          /\ downR' = [downR EXCEPT ![c] = e]
          /\ IF r % Pieces # 0
             THEN /\ shim' = [shim EXCEPT ![c] = IF Lines(e) > Lines(r) THEN "dead" ELSE @]
                  /\ UNCHANGED downGot
             ELSE \E n \in FirstWhole(r) - 1 .. Lines(e) :
                    /\ downGot' = [downGot EXCEPT ![c] = @ \o SubSeq(s, FirstWhole(r), n)]
                    /\ \/ n = Lines(e) /\ UNCHANGED shim
                       \/ n > FirstWhole(r) - 1 /\ shim' = [shim EXCEPT ![c] = "dead"]
    BY DEF Decode
  <1>4. /\ e \in Nat /\ r < e /\ e <= w
        /\ Lines(e) \in Nat /\ Lines(r) \in Nat /\ Lines(r) <= Lines(e)
    <2>1. e \in Nat /\ r < e /\ e <= w  BY <1>1, FramingAssumption DEF Chunks
    <2> QED  BY <1>1, <2>1, Counting
  <1>5. CASE r % Pieces # 0
    <2> DEFINE st == IF Lines(e) > Lines(r) THEN "dead" ELSE "run"
    <2>1. shim' = [shim EXCEPT ![c] = st]  BY <1>1, <1>3, <1>5
    <2>2. downGot' = [downGot EXCEPT ![c] = g]  BY <1>1, <1>3, <1>5
    <2>3. InOrder(s, w, e, g)  BY <1>2, <1>4 DEF InOrder
    <2>4. st = "run" => Len(g) = Lines(e)  BY <1>2, <1>4
    <2>5. st = "dead" \/ e % Pieces # 0  BY <1>1, <1>4, <1>5, Crossing
    <2>6. st \in {"run", "dead"}  OBVIOUS
    <2>7. Len(g) <= Len(g)  BY <1>1
    <2> HIDE DEF st
    <2> QED  BY <1>1, <1>3, <1>4, <2>1, <2>2, <2>3, <2>4, <2>5, <2>6, <2>7
  <1>6. CASE r % Pieces = 0
    <2>1. FirstWhole(r) = Len(g) + 1  BY <1>1, <1>2, <1>6, Counting
    <2>2. PICK n \in FirstWhole(r) - 1 .. Lines(e) :
            /\ downGot' = [downGot EXCEPT ![c] = @ \o SubSeq(s, FirstWhole(r), n)]
            /\ \/ n = Lines(e) /\ UNCHANGED shim
               \/ shim' = [shim EXCEPT ![c] = "dead"]
      BY <1>3, <1>6
    <2>3. n \in Nat /\ Len(g) <= n /\ n <= Lines(e)  BY <1>1, <1>4, <2>1, <2>2
    <2> DEFINE h == g \o SubSeq(s, Len(g) + 1, n)
    <2>4. InOrder(s, w, e, h) /\ h \in Seq(Msgs) /\ Len(h) = n
      <3> HIDE DEF s, g, w, r
      <3>1. s \in Seq(Msgs) /\ g \in Seq(Msgs) /\ w \in Nat /\ r \in Nat  BY <1>1
      <3>2. InOrder(s, w, r, g)  BY <1>2
      <3>3. n \in Nat /\ e \in Nat /\ e \in Chunks(w, r)  BY <1>4, <2>3
      <3>4. Len(g) <= n  BY <2>3
      <3>5. n <= Lines(e) \/ n <= Texts(e)  BY <2>3
      <3> QED  BY <3>1, <3>2, <3>3, <3>4, <3>5, ReadInOrder
    <2>5. downGot' = [downGot EXCEPT ![c] = h]  BY <1>1, <2>1, <2>2
    <2>6. PICK st \in {"run", "dead"} :
            shim' = [shim EXCEPT ![c] = st] /\ (st = "run" => n = Lines(e))
      <3>1. CASE n = Lines(e) /\ UNCHANGED shim
        <4>1. shim' = [shim EXCEPT ![c] = "run"]  BY <1>1, <3>1
        <4> QED  BY <3>1, <4>1
      <3>2. CASE shim' = [shim EXCEPT ![c] = "dead"]  BY <3>2
      <3> QED  BY <2>2, <3>1, <3>2
    <2> HIDE DEF h
    <2> QED  BY <1>1, <1>3, <1>4, <1>6, <2>3, <2>4, <2>5, <2>6
  <1> QED  BY <1>5, <1>6

LEMMA TaskRecvEffect ==
  ASSUME IInv, NEW c \in Conns, TaskRecv(c)
  PROVE  \E e \in Nat, g \in Seq(Msgs), st \in {"run", "dead", "done"} :
           /\ upR' = [upR EXCEPT ![c] = e] /\ upGot' = [upGot EXCEPT ![c] = g]
           /\ task' = [task EXCEPT ![c] = st] /\ task[c] = "run"
           /\ InOrder(upSent[c], upW[c], e, g)
           /\ st = "run" => Len(g) = Texts(e)
           /\ Len(upGot[c]) <= Len(g)
  <1> DEFINE s == upSent[c]  g == upGot[c]  w == upW[c]  r == upR[c]
  <1>1. /\ s \in Seq(Msgs) /\ g \in Seq(Msgs) /\ w \in Nat /\ r \in Nat
        /\ task[c] = "run" /\ task \in [Conns -> {"none", "run", "dead", "done"}]
        /\ upGot \in [Conns -> Seq(Msgs)]
    BY DEF IInv, TypeOK, TaskRecv
  <1>2. InOrder(s, w, r, g) /\ Len(g) = Texts(r)
    BY <1>1 DEF IInv, UpInv
  <1>3. PICK e \in Chunks(w, r) :
          /\ upR' = [upR EXCEPT ![c] = e]
          /\ IF CutInText(r)
             THEN task' = [task EXCEPT ![c] = "dead"] /\ UNCHANGED upGot
             ELSE \E n \in FirstWhole(r) - 1 .. Texts(e) :
                    /\ upGot' = [upGot EXCEPT ![c] = @ \o SubSeq(s, FirstWhole(r), n)]
                    /\ \/ /\ n = Texts(e)
                          /\ task' = [task EXCEPT ![c] = IF CutInText(e) THEN "dead"
                                                                         ELSE AfterChunk(c)]
                       \/ n > FirstWhole(r) - 1 /\ task' = [task EXCEPT ![c] = "dead"]
    BY DEF TaskRecv
  <1>4. /\ e \in Nat /\ r < e /\ e <= w
        /\ Texts(e) \in Nat /\ Texts(r) \in Nat /\ Texts(r) <= Texts(e)
    <2>1. e \in Nat /\ r < e /\ e <= w  BY <1>1, FramingAssumption DEF Chunks
    <2>2. r \in Nat /\ r <= e  BY <1>1, <2>1
    <2>3. Texts(e) \in Nat  BY <2>1, Counting
    <2>4. Texts(r) \in Nat /\ Texts(r) <= Texts(e)  BY <2>1, <2>2, Counting
    <2> QED  BY <2>1, <2>3, <2>4
  <1>5. CASE CutInText(r)
    <2>1. InOrder(s, w, e, g)  BY <1>2, <1>4 DEF InOrder
    <2>2. upGot' = [upGot EXCEPT ![c] = g]  BY <1>1, <1>3, <1>5
    <2>3. Len(g) <= Len(g)  BY <1>1
    <2> QED  BY <1>1, <1>3, <1>4, <1>5, <2>1, <2>2, <2>3
  <1>6. CASE ~CutInText(r)
    <2>1. FirstWhole(r) = Len(g) + 1  BY <1>1, <1>2, <1>6, Counting
    <2>2. PICK n \in FirstWhole(r) - 1 .. Texts(e) :
            /\ upGot' = [upGot EXCEPT ![c] = @ \o SubSeq(s, FirstWhole(r), n)]
            /\ \/ /\ n = Texts(e)
                  /\ task' = [task EXCEPT ![c] = IF CutInText(e) THEN "dead"
                                                                 ELSE AfterChunk(c)]
               \/ task' = [task EXCEPT ![c] = "dead"]
      BY <1>3, <1>6
    <2>3. n \in Nat /\ Len(g) <= n /\ n <= Texts(e)  BY <1>1, <1>4, <2>1, <2>2
    <2> DEFINE h == g \o SubSeq(s, Len(g) + 1, n)
    <2>4. InOrder(s, w, e, h) /\ h \in Seq(Msgs) /\ Len(h) = n
      <3> HIDE DEF s, g, w, r
      <3>1. s \in Seq(Msgs) /\ g \in Seq(Msgs) /\ w \in Nat /\ r \in Nat  BY <1>1
      <3>2. InOrder(s, w, r, g)  BY <1>2
      <3>3. n \in Nat /\ e \in Nat /\ e \in Chunks(w, r)  BY <1>4, <2>3
      <3>4. Len(g) <= n  BY <2>3
      <3>5. n <= Lines(e) \/ n <= Texts(e)  BY <2>3
      <3> QED  BY <3>1, <3>2, <3>3, <3>4, <3>5, ReadInOrder
    <2>5. upGot' = [upGot EXCEPT ![c] = h]  BY <1>1, <2>1, <2>2
    <2>6. PICK st \in {"run", "dead", "done"} :
            task' = [task EXCEPT ![c] = st] /\ (st = "run" => n = Texts(e))
      BY <2>2 DEF AfterChunk
    <2> HIDE DEF h
    <2> QED  BY <1>1, <1>3, <1>4, <1>6, <2>3, <2>4, <2>5, <2>6
  <1> QED  BY <1>5, <1>6

-----------------------------------------------------------------------------
(* The invariant is inductive.                                             *)

LEMMA InitIInv == Init => IInv
  <1> SUFFICES ASSUME Init PROVE IInv  OBVIOUS
  <1>1. << >> \in Seq(Msgs) /\ Len(<< >>) = 0 /\ << >> \in Seq(Conns)  OBVIOUS
  <1>2. TypeOK  BY <1>1 DEF Init, TypeOK
  <1>3. InOrder(<< >>, 0, 0, << >>)  BY DEF InOrder, Pieces
  <1>4. DownInv  BY <1>1, <1>3, Zero DEF Init, DownInv
  <1>5. UpInv  BY <1>1, <1>3, Zero DEF Init, UpInv
  <1>6. ConnInv  BY DEF Init, ConnInv
  <1> QED  BY <1>2, <1>4, <1>5, <1>6 DEF IInv

LEMMA NextTypeOK ==
  ASSUME IInv, Next
  PROVE  TypeOK'
  <1>0. TypeOK /\ DownInv /\ UpInv  BY DEF IInv
  <1>1. CASE Listen  BY <1>0, <1>1 DEF Listen, TypeOK, prc, up, down
  <1>2. CASE Accept
    <2>1. backlog # << >> /\ backlog \in Seq(Conns)  BY <1>0, <1>2 DEF Accept, TypeOK
    <2>2. Tail(backlog) \in Seq(Conns) /\ Head(backlog) \in Conns  BY <2>1
    <2>3. ASSUME NEW d \in Conns, conn' = [conn EXCEPT ![d] = "open"],
                 task' = [task EXCEPT ![d] = "run"], backlog' = Tail(backlog),
                 UNCHANGED listener
          PROVE  TypeOK'
      BY <1>0, <1>2, <2>2, <2>3 DEF Accept, TypeOK, prc, up, down
    <2>4. ASSUME listener' = "gone", backlog' = << >>, UNCHANGED task,
                 conn' = [c \in Conns |-> IF conn[c] = "pending" THEN "closed" ELSE conn[c]]
          PROVE  TypeOK'
      <3>1. conn' \in [Conns -> {"none", "pending", "open", "closed"}]  BY <1>0, <2>4 DEF TypeOK
      <3>2. backlog' \in Seq(Conns)  BY <2>4
      <3> QED  BY <1>0, <1>2, <2>4, <3>1, <3>2 DEF Accept, TypeOK, prc, up, down
    <2> QED  BY <1>2, <2>2, <2>3, <2>4 DEF Accept
  <1>3. ASSUME NEW c \in Conns, Start(c)  PROVE TypeOK'
    <2>1. 1 \in Msgs /\ <<Register>> \in Seq(Msgs)  BY FramingAssumption DEF Msgs, Register
    <2>2. Write(<<Register>>, 0) \in Nat
      BY FramingAssumption DEF Write, Pieces
    <2>3. backlog \in Seq(Conns) /\ Append(backlog, c) \in Seq(Conns)  BY <1>0 DEF TypeOK
    <2>4. /\ backlog' \in Seq(Conns) /\ conn' \in [Conns -> {"none", "pending", "open", "closed"}]
          /\ shim' \in [Conns -> {"off", "run", "dead"}] /\ sock' \in [Conns -> BOOLEAN]
      BY <1>0, <1>3, <2>3 DEF Start, TypeOK
    <2>5. upSent' \in [Conns -> Seq(Msgs)] /\ upW' \in [Conns -> Nat]
      <3> DEFINE reg == <<Register>>  w == Write(<<Register>>, 0)
      <3>1. \/ upSent' = [upSent EXCEPT ![c] = reg] /\ upW' = [upW EXCEPT ![c] = w]
            \/ UNCHANGED <<upSent, upW>>
        BY <1>3 DEF Start
      <3>2. reg \in Seq(Msgs) /\ w \in Nat  BY <2>1, <2>2
      <3> HIDE DEF reg, w
      <3>3. upSent \in [Conns -> Seq(Msgs)] /\ upW \in [Conns -> Nat]  BY <1>0 DEF TypeOK
      <3>4. CASE UNCHANGED <<upSent, upW>>  BY <3>3, <3>4
      <3>5. CASE upSent' = [upSent EXCEPT ![c] = reg] /\ upW' = [upW EXCEPT ![c] = w]
        BY <3>2, <3>3, <3>5
      <3> QED  BY <3>1, <3>4, <3>5
    <2> QED  BY <1>0, <1>3, <2>4, <2>5 DEF Start, TypeOK, down
  <1>4. ASSUME NEW c \in Conns, Crash(c)  PROVE TypeOK'
    BY <1>0, <1>4 DEF Crash, TypeOK, ctl, down
  <1>5. ASSUME NEW c \in Conns, SendMsg(c)  PROVE TypeOK'
    <2>1. /\ downSent[c] \in Seq(Msgs) /\ downGot[c] \in Seq(Msgs)
          /\ downW[c] \in Nat /\ downR[c] \in Nat
          /\ InOrder(downSent[c], downW[c], downR[c], downGot[c])
      BY <1>0 DEF TypeOK, DownInv
    <2>2. Len(downSent[c]) + 1 \in Msgs
      BY <1>0, <1>5, <2>1, FramingAssumption DEF SendMsg, Msgs
    <2> DEFINE t == Append(downSent[c], Len(downSent[c]) + 1)
    <2>3. t \in Seq(Msgs) /\ Write(t, downR[c]) \in Nat  BY <2>1, <2>2, SendInOrder
    <2>4. downSent' = [downSent EXCEPT ![c] = t] /\ downW' = [downW EXCEPT ![c] = Write(t, downR[c])]
      BY <1>0, <1>5 DEF SendMsg
    <2> HIDE DEF t
    <2> QED  BY <1>0, <1>5, <2>3, <2>4 DEF SendMsg, TypeOK, ctl, prc, up
  <1>6. ASSUME NEW c \in Conns, RaiseTrigger(c)  PROVE TypeOK'
    <2>1. /\ upSent[c] \in Seq(Msgs) /\ upGot[c] \in Seq(Msgs)
          /\ upW[c] \in Nat /\ upR[c] \in Nat
          /\ InOrder(upSent[c], upW[c], upR[c], upGot[c])
      BY <1>0 DEF TypeOK, UpInv
    <2>2. Len(upSent[c]) + 1 \in Msgs
      BY <1>0, <1>6, <2>1, FramingAssumption DEF RaiseTrigger, Msgs
    <2> DEFINE t == Append(upSent[c], Len(upSent[c]) + 1)
    <2>3. t \in Seq(Msgs) /\ Write(t, upR[c]) \in Nat  BY <2>1, <2>2, SendInOrder
    <2>4. upSent' = [upSent EXCEPT ![c] = t] /\ upW' = [upW EXCEPT ![c] = Write(t, upR[c])]
      BY <1>0, <1>6 DEF RaiseTrigger
    <2> HIDE DEF t
    <2> QED  BY <1>0, <1>6, <2>3, <2>4 DEF RaiseTrigger, TypeOK, ctl, prc, down
  <1>7. ASSUME NEW c \in Conns, ContinueSend(c)  PROVE TypeOK'
    <2>1. Write(downSent[c], downR[c]) \in Nat  BY <1>0, WriteInOrder DEF TypeOK, DownInv
    <2> QED  BY <1>0, <1>7, <2>1 DEF ContinueSend, TypeOK, ctl, prc, up
  <1>8. ASSUME NEW c \in Conns, ContinueTrigger(c)  PROVE TypeOK'
    <2>1. Write(upSent[c], upR[c]) \in Nat  BY <1>0, WriteInOrder DEF TypeOK, UpInv
    <2> QED  BY <1>0, <1>8, <2>1 DEF ContinueTrigger, TypeOK, ctl, prc, down
  <1>9. ASSUME NEW c \in Conns, SendError(c)  PROVE TypeOK'
    BY <1>0, <1>9 DEF SendError, TypeOK, prc, up, down
  <1>10. ASSUME NEW c \in Conns, Decode(c)  PROVE TypeOK'
    <2>1. PICK e \in Nat, g \in Seq(Msgs), st \in {"run", "dead"} :
            /\ downR' = [downR EXCEPT ![c] = e] /\ downGot' = [downGot EXCEPT ![c] = g]
            /\ shim' = [shim EXCEPT ![c] = st]
      BY <1>0, <1>10, DecodeEffect
    <2> QED  BY <1>0, <1>10, <2>1 DEF Decode, TypeOK, ctl, up
  <1>11. ASSUME NEW c \in Conns, TaskRecv(c)  PROVE TypeOK'
    <2>1. PICK e \in Nat, g \in Seq(Msgs), st \in {"run", "dead", "done"} :
            /\ upR' = [upR EXCEPT ![c] = e] /\ upGot' = [upGot EXCEPT ![c] = g]
            /\ task' = [task EXCEPT ![c] = st]
      BY <1>0, <1>11, TaskRecvEffect
    <2> QED  BY <1>0, <1>11, <2>1 DEF TaskRecv, TypeOK, prc, down
  <1>12. ASSUME NEW c \in Conns, TaskEof(c)  PROVE TypeOK'
    BY <1>0, <1>12 DEF TaskEof, TypeOK, prc, up, down
  <1> QED
    BY <1>1, <1>2, <1>3, <1>4, <1>5, <1>6, <1>7, <1>8, <1>9, <1>10, <1>11, <1>12
       DEF Next, ControllerStep, ShimStep

LEMMA NextDownInv ==
  ASSUME IInv, Next
  PROVE  DownInv'
  <1>0. TypeOK /\ DownInv  BY DEF IInv
  <1>1. CASE UNCHANGED <<downSent, downW, downR, downGot, shim>>
    BY <1>0, <1>1 DEF DownInv, InOrder, Lines
  <1>2. CASE Listen \/ Accept
    BY <1>1, <1>2 DEF Listen, Accept, prc, down
  <1>3. ASSUME NEW c \in Conns, Start(c) \/ Crash(c)  PROVE DownInv'
    <2>1. /\ shim'[c] # "off" /\ (shim[c] = "dead" => shim'[c] = "dead")
          /\ \A d \in Conns \ {c} : shim'[d] = shim[d]
          /\ UNCHANGED <<downSent, downW, downR, downGot>>
      BY <1>0, <1>3 DEF Start, Crash, TypeOK, down
    <2> QED  BY <1>0, <2>1 DEF DownInv, InOrder, Lines
  <1>4. ASSUME NEW c \in Conns, SendMsg(c)  PROVE DownInv'
    <2> DEFINE t == Append(downSent[c], Len(downSent[c]) + 1)
    <2>1. /\ downSent[c] \in Seq(Msgs) /\ downGot[c] \in Seq(Msgs)
          /\ downW[c] \in Nat /\ downR[c] \in Nat
          /\ InOrder(downSent[c], downW[c], downR[c], downGot[c])
      BY <1>0 DEF TypeOK, DownInv
    <2>2. Len(downSent[c]) + 1 \in Msgs
      BY <1>4, <2>1, FramingAssumption DEF SendMsg, Msgs
    <2>3. InOrder(t, Write(t, downR[c]), downR[c], downGot[c])
      BY <2>1, <2>2, SendInOrder
    <2>4. /\ downSent' = [downSent EXCEPT ![c] = t]
          /\ downW' = [downW EXCEPT ![c] = Write(t, downR[c])]
          /\ UNCHANGED <<downR, downGot, shim>>
      BY <1>4 DEF SendMsg, prc
    <2> HIDE DEF t
    <2>5. ASSUME NEW d \in Conns
          PROVE  InOrder(downSent'[d], downW'[d], downR'[d], downGot'[d])
      BY <1>0, <2>3, <2>4 DEF DownInv, TypeOK
    <2> QED  BY <1>0, <2>4, <2>5 DEF DownInv
  <1>5. ASSUME NEW c \in Conns, ContinueSend(c)  PROVE DownInv'
    <2> DEFINE w == Write(downSent[c], downR[c])
    <2>1. InOrder(downSent[c], w, downR[c], downGot[c])
      BY <1>0, WriteInOrder DEF TypeOK, DownInv
    <2>2. downW' = [downW EXCEPT ![c] = w] /\ UNCHANGED <<downSent, downR, downGot, shim>>
      BY <1>5 DEF ContinueSend, prc
    <2> HIDE DEF w
    <2>3. ASSUME NEW d \in Conns
          PROVE  InOrder(downSent'[d], downW'[d], downR'[d], downGot'[d])
      BY <1>0, <2>1, <2>2 DEF DownInv, TypeOK
    <2> QED  BY <1>0, <2>2, <2>3 DEF DownInv
  <1>6. ASSUME NEW c \in Conns, Decode(c)  PROVE DownInv'
    <2>1. PICK e \in Nat, g \in Seq(Msgs), st \in {"run", "dead"} :
            /\ downR' = [downR EXCEPT ![c] = e] /\ downGot' = [downGot EXCEPT ![c] = g]
            /\ shim' = [shim EXCEPT ![c] = st] /\ shim[c] = "run"
            /\ InOrder(downSent[c], downW[c], e, g)
            /\ st = "run" => Len(g) = Lines(e)
      BY <1>6, DecodeEffect
    <2>2. UNCHANGED <<downSent, downW>>  BY <1>6 DEF Decode
    <2> QED  BY <1>0, <2>1, <2>2 DEF DownInv, TypeOK
  <1>7. ASSUME NEW c \in Conns,
               RaiseTrigger(c) \/ ContinueTrigger(c) \/ SendError(c) \/ TaskRecv(c) \/ TaskEof(c)
        PROVE  DownInv'
    BY <1>1, <1>7 DEF RaiseTrigger, ContinueTrigger, SendError, TaskRecv, TaskEof, prc, down
  <1> QED
    BY <1>2, <1>3, <1>4, <1>5, <1>6, <1>7 DEF Next, ControllerStep, ShimStep

LEMMA NextUpInv ==
  ASSUME IInv, Next
  PROVE  UpInv'
  <1>0. TypeOK /\ UpInv /\ ConnInv  BY DEF IInv
  <1>1. ASSUME UNCHANGED <<upSent, upW, upR, upGot>>,
               \A c \in Conns : /\ shim'[c] = "off" => shim[c] = "off"
                                /\ task'[c] \in {"none", "run"} => task[c] \in {"none", "run"}
                                /\ task'[c] = "none" => task[c] = "none"
        PROVE  UpInv'
    BY <1>0, <1>1 DEF UpInv, InOrder, Texts
  <1>2. CASE Listen
    BY <1>0, <1>1, <1>2 DEF Listen, TypeOK, prc, up
  <1>3. CASE Accept
    <2>1. Head(backlog) \in Conns /\ conn[Head(backlog)] = "pending"
      BY <1>0, <1>3 DEF Accept, TypeOK, ConnInv
    <2>2. task[Head(backlog)] = "none"  BY <1>0, <2>1 DEF ConnInv
    <2> QED  BY <1>0, <1>1, <1>3, <2>1, <2>2 DEF Accept, TypeOK, prc, up
  <1>4. ASSUME NEW c \in Conns, Start(c)  PROVE UpInv'
    <2> DEFINE reg == <<Register>>  w == Write(<<Register>>, 0)
    <2>1. CASE UNCHANGED <<upSent, upW>>
      BY <1>0, <1>1, <1>4, <2>1 DEF Start, TypeOK
    <2>2. CASE upSent' = [upSent EXCEPT ![c] = reg] /\ upW' = [upW EXCEPT ![c] = w]
      <3>1. conn[c] = "none" /\ task[c] = "none"  BY <1>0, <1>4 DEF Start, ConnInv
      <3>2. upR[c] = 0 /\ upGot[c] \in Seq(Msgs) /\ Len(upGot[c]) = 0 /\ upGot[c] = << >>
        <4>1. upR[c] = 0 /\ upGot[c] \in Seq(Msgs) /\ Len(upGot[c]) = Texts(0)
          BY <1>0, <3>1 DEF UpInv, TypeOK
        <4> QED  BY <4>1, Zero
      <3>3. reg \in Seq(Msgs) /\ Len(reg) = 1
        BY FramingAssumption DEF Msgs, Register
      <3>4. 0 <= w /\ w <= Pieces * Len(reg)
        BY <3>3, FramingAssumption DEF Write, Pieces
      <3>5. InOrder(reg, w, 0, << >>)
        BY <3>3, <3>4 DEF InOrder
      <3>6. shim'[c] = "run" /\ (\A d \in Conns \ {c} : shim'[d] = shim[d])
            /\ UNCHANGED <<task, upR, upGot>>
        BY <1>0, <1>4 DEF Start, TypeOK
      <3> HIDE DEF reg, w
      <3> QED  BY <1>0, <2>2, <3>2, <3>5, <3>6 DEF UpInv, TypeOK
    <2> QED  BY <1>4, <2>1, <2>2 DEF Start
  <1>5. ASSUME NEW c \in Conns, Crash(c)  PROVE UpInv'
    <2>1. /\ UNCHANGED <<upSent, upR, upGot, task>>
          /\ \A d \in Conns : shim'[d] = "off" => shim[d] = "off"
          /\ \A d \in Conns : upW'[d] = upW[d] \/ upW'[d] = upR[d]
      BY <1>0, <1>5 DEF Crash, TypeOK, ctl
    <2>2. ASSUME NEW d \in Conns
          PROVE  InOrder(upSent'[d], upW'[d], upR'[d], upGot'[d])
      <3>1. InOrder(upSent[d], upW[d], upR[d], upGot[d]) /\ upR[d] \in Nat /\ upW[d] \in Nat
            /\ upSent[d] \in Seq(Msgs)
        BY <1>0 DEF UpInv, TypeOK
      <3> QED  BY <2>1, <3>1 DEF InOrder, Pieces
    <2> QED  BY <1>0, <2>1, <2>2 DEF UpInv
  <1>6. ASSUME NEW c \in Conns, RaiseTrigger(c)  PROVE UpInv'
    <2> DEFINE t == Append(upSent[c], Len(upSent[c]) + 1)
    <2>1. /\ upSent[c] \in Seq(Msgs) /\ upGot[c] \in Seq(Msgs)
          /\ upW[c] \in Nat /\ upR[c] \in Nat
          /\ InOrder(upSent[c], upW[c], upR[c], upGot[c])
      BY <1>0 DEF TypeOK, UpInv
    <2>2. Len(upSent[c]) + 1 \in Msgs
      BY <1>6, <2>1, FramingAssumption DEF RaiseTrigger, Msgs
    <2>3. InOrder(t, Write(t, upR[c]), upR[c], upGot[c])
      BY <2>1, <2>2, SendInOrder
    <2>4. /\ upSent' = [upSent EXCEPT ![c] = t]
          /\ upW' = [upW EXCEPT ![c] = Write(t, upR[c])]
          /\ UNCHANGED <<upR, upGot, shim, task>> /\ shim[c] = "run"
      BY <1>6 DEF RaiseTrigger, Shim, ctl, prc
    <2> HIDE DEF t
    <2>5. ASSUME NEW d \in Conns
          PROVE  InOrder(upSent'[d], upW'[d], upR'[d], upGot'[d])
      BY <1>0, <2>3, <2>4 DEF UpInv, TypeOK
    <2> QED  BY <1>0, <2>4, <2>5 DEF UpInv, TypeOK
  <1>7. ASSUME NEW c \in Conns, ContinueTrigger(c)  PROVE UpInv'
    <2> DEFINE w == Write(upSent[c], upR[c])
    <2>1. InOrder(upSent[c], w, upR[c], upGot[c])
      BY <1>0, WriteInOrder DEF TypeOK, UpInv
    <2>2. upW' = [upW EXCEPT ![c] = w] /\ UNCHANGED <<upSent, upR, upGot, shim, task>>
      BY <1>7 DEF ContinueTrigger, prc, ctl
    <2> HIDE DEF w
    <2>3. ASSUME NEW d \in Conns
          PROVE  InOrder(upSent'[d], upW'[d], upR'[d], upGot'[d])
      BY <1>0, <2>1, <2>2 DEF UpInv, TypeOK
    <2> QED  BY <1>0, <2>2, <2>3 DEF UpInv
  <1>8. ASSUME NEW c \in Conns, TaskRecv(c)  PROVE UpInv'
    <2>1. PICK e \in Nat, g \in Seq(Msgs), st \in {"run", "dead", "done"} :
            /\ upR' = [upR EXCEPT ![c] = e] /\ upGot' = [upGot EXCEPT ![c] = g]
            /\ task' = [task EXCEPT ![c] = st] /\ task[c] = "run"
            /\ InOrder(upSent[c], upW[c], e, g)
            /\ st = "run" => Len(g) = Texts(e)
            /\ Len(upGot[c]) <= Len(g)
      BY <1>8, TaskRecvEffect
    <2>2. UNCHANGED <<upSent, upW, shim>>  BY <1>8 DEF TaskRecv, prc
    <2> QED  BY <1>0, <2>1, <2>2 DEF UpInv, TypeOK
  <1>9. ASSUME NEW c \in Conns, SendMsg(c) \/ ContinueSend(c) \/ SendError(c) \/ TaskEof(c)
        PROVE  UpInv'
    BY <1>0, <1>1, <1>9 DEF SendMsg, ContinueSend, SendError, TaskEof, TypeOK, ctl, prc, up
  <1>10. ASSUME NEW c \in Conns, Decode(c)  PROVE UpInv'
    <2>1. \A d \in Conns : shim'[d] = "off" => shim[d] = "off"
      BY <1>0, <1>10, DecodeEffect DEF TypeOK
    <2> QED  BY <1>1, <1>10, <2>1 DEF Decode, ctl, up
  <1> QED
    BY <1>2, <1>3, <1>4, <1>5, <1>6, <1>7, <1>8, <1>9, <1>10 DEF Next, ControllerStep, ShimStep

LEMMA NextConnInv ==
  ASSUME IInv, Next
  PROVE  ConnInv'
  <1>0. TypeOK /\ ConnInv  BY DEF IInv
  <1>1. ASSUME backlog' = backlog,
               \A c \in Conns : shim'[c] = "off" => shim[c] = "off",
               \A c \in Conns : conn'[c] # conn[c] =>
                                 conn'[c] = "closed" /\ conn[c] # "pending" /\ shim[c] # "off",
               \A c \in Conns : task[c] = "none" => task'[c] = "none"
        PROVE  ConnInv'
    <2>1. \A i \in DOMAIN backlog : backlog[i] \in Conns  BY <1>0 DEF TypeOK
    <2>2. \A i \in DOMAIN backlog : conn'[backlog[i]] = "pending"
      BY <1>0, <1>1, <2>1 DEF ConnInv
    <2>3. \A c \in Conns : /\ shim'[c] = "off" => conn'[c] = "none"
                           /\ conn'[c] \in {"none", "pending"} => task'[c] = "none"
      BY <1>0, <1>1 DEF ConnInv
    <2> QED  BY <1>0, <1>1, <2>2, <2>3 DEF ConnInv
  <1>2. CASE Listen
    BY <1>1, <1>2 DEF Listen, prc
  <1>3. CASE Accept
    <2>1. backlog \in Seq(Conns) /\ backlog # << >>  BY <1>0, <1>3 DEF Accept, TypeOK
    <2>2. CASE /\ conn' = [conn EXCEPT ![Head(backlog)] = "open"]
               /\ task' = [task EXCEPT ![Head(backlog)] = "run"]
               /\ backlog' = Tail(backlog)
      <3>1. /\ Len(Tail(backlog)) = Len(backlog) - 1 /\ Len(backlog) \in Nat \ {0}
            /\ DOMAIN Tail(backlog) = 1 .. Len(backlog) - 1 /\ DOMAIN backlog = 1 .. Len(backlog)
            /\ \A i \in 1 .. Len(backlog) - 1 : Tail(backlog)[i] = backlog[i + 1]
            /\ Head(backlog) = backlog[1]
        BY <2>1
      <3>2. \A i \in DOMAIN Tail(backlog) :
              /\ i + 1 \in DOMAIN backlog /\ Tail(backlog)[i] = backlog[i + 1]
              /\ backlog[i + 1] \in Conns /\ backlog[i + 1] # backlog[1]
        BY <1>0, <2>1, <3>1 DEF ConnInv
      <3>3. \A i \in DOMAIN backlog' : conn'[backlog'[i]] = "pending"
        BY <1>0, <2>2, <3>1, <3>2 DEF ConnInv, TypeOK
      <3>4. \A i, j \in DOMAIN backlog' : backlog'[i] = backlog'[j] => i = j
        <4> SUFFICES ASSUME NEW i \in DOMAIN backlog', NEW j \in DOMAIN backlog',
                            backlog'[i] = backlog'[j]
                     PROVE  i = j
          OBVIOUS
        <4>1. i + 1 \in DOMAIN backlog /\ j + 1 \in DOMAIN backlog /\ backlog[i + 1] = backlog[j + 1]
          BY <2>2, <3>2
        <4>2. i + 1 = j + 1  BY <1>0, <4>1 DEF ConnInv
        <4>3. i \in Nat /\ j \in Nat  BY <2>2, <3>1
        <4> QED  BY <4>2, <4>3
      <3>5. conn[Head(backlog)] = "pending" /\ Head(backlog) \in Conns
        BY <1>0, <2>1, <3>1 DEF ConnInv
      <3>6. \A c \in Conns : /\ shim'[c] = "off" => conn'[c] = "none"
                             /\ conn'[c] \in {"none", "pending"} => task'[c] = "none"
        BY <1>0, <1>3, <2>2, <3>5 DEF Accept, ConnInv, TypeOK, prc
      <3> QED  BY <3>3, <3>4, <3>6 DEF ConnInv
    <2>3. CASE /\ conn' = [c \in Conns |-> IF conn[c] = "pending" THEN "closed" ELSE conn[c]]
               /\ backlog' = << >> /\ UNCHANGED task
      BY <1>0, <1>3, <2>3 DEF Accept, ConnInv, prc
    <2> QED  BY <1>3, <2>2, <2>3 DEF Accept
  <1>4. ASSUME NEW c \in Conns, Start(c)  PROVE ConnInv'
    <2>1. shim[c] = "off" /\ conn[c] = "none" /\ task[c] = "none" /\ shim'[c] = "run"
          /\ UNCHANGED task /\ \A d \in Conns \ {c} : shim'[d] = shim[d]
      BY <1>0, <1>4 DEF Start, ConnInv, TypeOK
    <2>2. CASE UNCHANGED <<backlog, conn>>
      BY <1>1, <2>1, <2>2
    <2>3. CASE backlog' = Append(backlog, c) /\ conn' = [conn EXCEPT ![c] = "pending"]
      <3>1. backlog \in Seq(Conns)  BY <1>0 DEF TypeOK
      <3>2. /\ Len(backlog) \in Nat /\ DOMAIN backlog = 1 .. Len(backlog)
            /\ DOMAIN backlog' = 1 .. Len(backlog) + 1
            /\ backlog'[Len(backlog) + 1] = c
            /\ \A i \in 1 .. Len(backlog) : backlog'[i] = backlog[i] /\ backlog[i] \in Conns
        BY <2>3, <3>1
      <3>3. \A i \in 1 .. Len(backlog) : backlog[i] # c /\ conn[backlog[i]] = "pending"
        BY <1>0, <2>1, <3>2 DEF ConnInv
      <3>4. \A i \in DOMAIN backlog' : conn'[backlog'[i]] = "pending"
        <4>1. conn \in [Conns -> {"none", "pending", "open", "closed"}]  BY <1>0 DEF TypeOK
        <4>2. conn'[c] = "pending"  BY <2>3, <4>1
        <4>3. \A i \in 1 .. Len(backlog) : conn'[backlog[i]] = "pending"  BY <2>3, <3>2, <3>3, <4>1
        <4> QED  BY <3>2, <4>2, <4>3
      <3>5. \A i, j \in DOMAIN backlog' : backlog'[i] = backlog'[j] => i = j
        BY <1>0, <3>2, <3>3 DEF ConnInv
      <3>6. \A d \in Conns : /\ shim'[d] = "off" => conn'[d] = "none"
                             /\ conn'[d] \in {"none", "pending"} => task'[d] = "none"
        BY <1>0, <2>1, <2>3 DEF ConnInv, TypeOK
      <3> QED  BY <3>4, <3>5, <3>6 DEF ConnInv
    <2> QED  BY <1>4, <2>2, <2>3 DEF Start
  <1>5. ASSUME NEW c \in Conns, Crash(c)  PROVE ConnInv'
    BY <1>0, <1>1, <1>5 DEF Crash, TypeOK, ctl
  <1>6. ASSUME NEW c \in Conns,
               SendMsg(c) \/ RaiseTrigger(c) \/ ContinueSend(c) \/ ContinueTrigger(c)
        PROVE  ConnInv'
    BY <1>1, <1>6 DEF SendMsg, RaiseTrigger, ContinueSend, ContinueTrigger, ctl, prc
  <1>7. ASSUME NEW c \in Conns, SendError(c)  PROVE ConnInv'
    <2>1. conn[c] = "open" /\ shim[c] # "off"  BY <1>0, <1>7 DEF SendError, CtlBlocked, ConnInv
    <2> QED  BY <1>0, <1>1, <1>7, <2>1 DEF SendError, TypeOK, prc
  <1>8. ASSUME NEW c \in Conns, TaskEof(c)  PROVE ConnInv'
    <2>1. task[c] = "run" /\ conn[c] \notin {"none", "pending"} /\ shim[c] # "off"
      BY <1>0, <1>8 DEF TaskEof, ConnInv
    <2> QED  BY <1>0, <1>1, <1>8, <2>1 DEF TaskEof, TypeOK, prc
  <1>9. ASSUME NEW c \in Conns, TaskRecv(c)  PROVE ConnInv'
    <2>1. \A d \in Conns : task[d] = "none" => task'[d] = "none"
      <3>1. PICK st \in {"run", "dead", "done"} : task' = [task EXCEPT ![c] = st] /\ task[c] = "run"
        BY <1>9, TaskRecvEffect
      <3> QED  BY <1>0, <3>1 DEF TypeOK
    <2> QED  BY <1>1, <1>9, <2>1 DEF TaskRecv, prc
  <1>10. ASSUME NEW c \in Conns, Decode(c)  PROVE ConnInv'
    <2>1. \A d \in Conns : shim'[d] = "off" => shim[d] = "off"
      BY <1>0, <1>10, DecodeEffect DEF TypeOK
    <2> QED  BY <1>1, <1>10, <2>1 DEF Decode, ctl
  <1> QED
    BY <1>2, <1>3, <1>4, <1>5, <1>6, <1>7, <1>8, <1>9, <1>10 DEF Next, ControllerStep, ShimStep

LEMMA NextIInv == IInv /\ [Next]_vars => IInv'
  <1> SUFFICES ASSUME IInv, [Next]_vars PROVE IInv'  OBVIOUS
  <1>1. CASE Next
    BY <1>1, NextTypeOK, NextDownInv, NextUpInv, NextConnInv DEF IInv
  <1>2. CASE UNCHANGED vars
    BY <1>2 DEF vars, ctl, prc, up, down, IInv, TypeOK, DownInv, UpInv, ConnInv, InOrder,
                Lines, Texts
  <1> QED  BY <1>1, <1>2

(* What the other facts follow from.                                       *)
THEOREM Inductive == Spec => []IInv
  BY InitIInv, NextIInv, PTL DEF Spec

(* The variables of connections, tasks, processes and streams keep their   *)
(* types: TCPTransport, TCPConnection, ClientComm, Shim.                   *)
THEOREM Types == Spec => []TypeOK
  <1>1. IInv => TypeOK  BY DEF IInv
  <1> QED  BY <1>1, Inductive, PTL

(* While the task of a connection runs it has handled every message whose  *)
(* text it has read, and a shim that runs every message it has read to its *)
(* end, though process_messages and decode_msg_and_call keep no remainder. *)
THEOREM NothingLost == Spec => []NothingLostUnnoticed
  <1>1. IInv => NothingLostUnnoticed  BY DEF IInv, DownInv, UpInv, NothingLostUnnoticed
  <1> QED  BY <1>1, Inductive, PTL

-----------------------------------------------------------------------------
(* The refinement.                                                         *)

DownOpen == [c \in Conns |-> shim[c] # "dead" /\ downR[c] % Pieces = 0]
UpOpen   == [c \in Conns |-> task[c] = "none" \/ task[c] = "run"]

(* A step of Handle, put in terms of what the receivers do.                *)
LEMMA DownHandle ==
  ASSUME IInv, NEW c \in Conns, NEW g \in Seq(Msgs),
         downSent' = downSent, downGot' = [downGot EXCEPT ![c] = g],
         Len(downGot[c]) <= Len(g), Len(g) <= Len(downSent[c]),
         g = SubSeq(downSent[c], 1, Len(g)),
         DownOpen[c], DownOpen' \in {DownOpen, [DownOpen EXCEPT ![c] = FALSE]}
  PROVE  Down!Next
  <1>1. downGot[c] \in Seq(Msgs) /\ downSent[c] \in Seq(Msgs)  BY DEF IInv, TypeOK
  <1>2. Len(g) \in Len(downGot[c]) .. Len(downSent[c])  BY <1>1
  <1>3. Down!Handle(c)  BY <1>2 DEF Down!Handle, DownOpen
  <1> QED  BY <1>3 DEF Down!Next

LEMMA UpHandle ==
  ASSUME IInv, NEW c \in Conns, NEW g \in Seq(Msgs),
         upSent' = upSent, upGot' = [upGot EXCEPT ![c] = g],
         Len(upGot[c]) <= Len(g), Len(g) <= Len(upSent[c]),
         g = SubSeq(upSent[c], 1, Len(g)),
         UpOpen[c], UpOpen' \in {UpOpen, [UpOpen EXCEPT ![c] = FALSE]}
  PROVE  Up!Next
  <1>1. upGot[c] \in Seq(Msgs) /\ upSent[c] \in Seq(Msgs)  BY DEF IInv, TypeOK
  <1>2. Len(g) \in Len(upGot[c]) .. Len(upSent[c])  BY <1>1
  <1>3. Up!Handle(c)  BY <1>2 DEF Up!Handle, UpOpen
  <1> QED  BY <1>3 DEF Up!Next

LEMMA DownStep ==
  ASSUME IInv, [Next]_vars
  PROVE  Down!Next \/ UNCHANGED Down!chanVars
  <1>0. TypeOK /\ DownInv  BY DEF IInv
  <1> DEFINE opened(d) == shim[d] # "dead" /\ downR[d] % Pieces = 0
  <1>1. ASSUME UNCHANGED <<downSent, downGot>>, \A d \in Conns : opened(d)' <=> opened(d)
        PROVE  UNCHANGED Down!chanVars
    <2>1. DownOpen' = DownOpen  BY <1>1 DEF DownOpen
    <2> QED  BY <1>1, <2>1 DEF Down!chanVars, DownOpen
  <1>2. ASSUME UNCHANGED <<downSent, downGot, downR, shim>>  PROVE UNCHANGED Down!chanVars
    BY <1>1, <1>2
  <1>3. ASSUME NEW c \in Conns, \A d \in Conns \ {c} : opened(d)' <=> opened(d),
               opened(c)' => opened(c)
        PROVE  DownOpen' \in {DownOpen, [DownOpen EXCEPT ![c] = FALSE]}
    <2>1. CASE opened(c)' <=> opened(c)
      <3>1. DownOpen' = DownOpen  BY <1>3, <2>1 DEF DownOpen
      <3> QED  BY <3>1
    <2>2. CASE ~opened(c)'
      <3>1. DownOpen' = [DownOpen EXCEPT ![c] = FALSE]  BY <1>3, <2>2 DEF DownOpen
      <3> QED  BY <3>1
    <2> QED  BY <1>3, <2>1, <2>2
  <1>4. CASE UNCHANGED vars  BY <1>2, <1>4 DEF vars, down, prc
  <1>5. CASE Listen \/ Accept  BY <1>2, <1>5 DEF Listen, Accept, down, prc
  <1>6. ASSUME NEW c \in Conns, Start(c)  PROVE UNCHANGED Down!chanVars
    BY <1>0, <1>1, <1>6 DEF Start, TypeOK, down
  <1>7. ASSUME NEW c \in Conns, SendMsg(c)  PROVE Down!Next
    <2>0. downSent[c] \in Seq(Msgs)  BY <1>0 DEF TypeOK
    <2>1. Len(downSent[c]) + 1 \in Msgs
      BY <1>7, <2>0, FramingAssumption DEF SendMsg, Msgs
    <2>2. DownOpen' = DownOpen  BY <1>7 DEF SendMsg, prc, DownOpen
    <2>3. Down!Send(c, Len(downSent[c]) + 1)
      BY <1>7, <2>2 DEF SendMsg, Down!Send, DownOpen
    <2> QED  BY <2>1, <2>3 DEF Down!Next
  <1>8. ASSUME NEW c \in Conns, Decode(c)  PROVE Down!Next \/ UNCHANGED Down!chanVars
    <2>1. PICK e \in Nat, g \in Seq(Msgs), st \in {"run", "dead"} :
            /\ downR' = [downR EXCEPT ![c] = e] /\ downGot' = [downGot EXCEPT ![c] = g]
            /\ shim' = [shim EXCEPT ![c] = st] /\ shim[c] = "run"
            /\ InOrder(downSent[c], downW[c], e, g)
            /\ st = "run" => Len(g) = Lines(e)
            /\ Len(downGot[c]) <= Len(g)
            /\ downR[c] % Pieces # 0 => g = downGot[c] /\ (st = "dead" \/ e % Pieces # 0)
      BY <1>8, DecodeEffect
    <2>2. downSent' = downSent  BY <1>8 DEF Decode
    <2>3. \A d \in Conns \ {c} : opened(d)' <=> opened(d)  BY <1>0, <2>1 DEF TypeOK
    <2>4. CASE opened(c)
      <3>1. DownOpen[c]  BY <2>4 DEF DownOpen
      <3>2. DownOpen' \in {DownOpen, [DownOpen EXCEPT ![c] = FALSE]}  BY <1>3, <2>3, <2>4
      <3>3. Len(g) <= Len(downSent[c]) /\ g = SubSeq(downSent[c], 1, Len(g))
        BY <2>1 DEF InOrder
      <3> QED  BY <2>1, <2>2, <3>1, <3>2, <3>3, DownHandle
    <2>5. CASE ~opened(c)
      <3>1. downGot' = downGot  BY <1>0, <2>1, <2>5 DEF TypeOK
      <3>2. ~opened(c)'  BY <1>0, <2>1, <2>5 DEF TypeOK
      <3> QED  BY <1>1, <2>2, <2>3, <2>5, <3>1, <3>2
    <2> QED  BY <2>4, <2>5
  <1>9. ASSUME NEW c \in Conns, Crash(c)  PROVE Down!Next \/ UNCHANGED Down!chanVars
    <2>1. UNCHANGED <<downSent, downGot, downR>> /\ shim' = [shim EXCEPT ![c] = "dead"]
      BY <1>9 DEF Crash, down
    <2>2. (\A d \in Conns \ {c} : opened(d)' <=> opened(d)) /\ ~opened(c)'
      BY <1>0, <2>1 DEF TypeOK
    <2>3. CASE opened(c)
      <3>1. DownOpen[c]  BY <2>3 DEF DownOpen
      <3>2. DownOpen' \in {DownOpen, [DownOpen EXCEPT ![c] = FALSE]}  BY <1>3, <2>2
      <3>3. /\ downGot[c] \in Seq(Msgs) /\ downGot' = [downGot EXCEPT ![c] = downGot[c]]
            /\ Len(downGot[c]) <= Len(downGot[c])
        BY <1>0, <2>1 DEF TypeOK
      <3>4. Len(downGot[c]) <= Len(downSent[c]) /\ downGot[c] = SubSeq(downSent[c], 1, Len(downGot[c]))
        BY <1>0 DEF DownInv, InOrder
      <3> QED  BY <2>1, <3>1, <3>2, <3>3, <3>4, DownHandle
    <2>4. CASE ~opened(c)  BY <1>1, <2>1, <2>2, <2>4
    <2> QED  BY <2>3, <2>4
  <1>10. ASSUME NEW c \in Conns,
                \/ RaiseTrigger(c) \/ ContinueTrigger(c) \/ ContinueSend(c)
                \/ SendError(c) \/ TaskRecv(c) \/ TaskEof(c)
         PROVE  UNCHANGED Down!chanVars
    BY <1>2, <1>10 DEF RaiseTrigger, ContinueTrigger, ContinueSend, SendError, TaskRecv, TaskEof,
                       prc, down
  <1> QED
    BY <1>4, <1>5, <1>6, <1>7, <1>8, <1>9, <1>10, <1>2 DEF Next, ControllerStep, ShimStep

LEMMA UpStep ==
  ASSUME IInv, [Next]_vars
  PROVE  Up!Next \/ UNCHANGED Up!chanVars
  <1>0. TypeOK /\ UpInv /\ ConnInv  BY DEF IInv
  <1> DEFINE opened(d) == task[d] = "none" \/ task[d] = "run"
  <1>1. ASSUME UNCHANGED <<upSent, upGot>>, \A d \in Conns : opened(d)' <=> opened(d)
        PROVE  UNCHANGED Up!chanVars
    <2>1. UpOpen' = UpOpen  BY <1>1 DEF UpOpen
    <2> QED  BY <1>1, <2>1 DEF Up!chanVars, UpOpen
  <1>2. ASSUME UNCHANGED <<upSent, upGot, task>>  PROVE UNCHANGED Up!chanVars
    BY <1>1, <1>2
  <1>3. ASSUME NEW c \in Conns, \A d \in Conns \ {c} : opened(d)' <=> opened(d),
               opened(c)' => opened(c)
        PROVE  UpOpen' \in {UpOpen, [UpOpen EXCEPT ![c] = FALSE]}
    <2>1. CASE opened(c)' <=> opened(c)
      <3>1. UpOpen' = UpOpen  BY <1>3, <2>1 DEF UpOpen
      <3> QED  BY <3>1
    <2>2. CASE ~opened(c)'
      <3>1. UpOpen' = [UpOpen EXCEPT ![c] = FALSE]  BY <1>3, <2>2 DEF UpOpen
      <3> QED  BY <3>1
    <2> QED  BY <1>3, <2>1, <2>2
  <1>4. CASE UNCHANGED vars \/ Listen
    BY <1>2, <1>4 DEF vars, ctl, Listen, up
  <1>5. CASE Accept
    <2>1. Head(backlog) \in Conns /\ conn[Head(backlog)] = "pending"
      BY <1>0, <1>5 DEF Accept, TypeOK, ConnInv
    <2>2. task[Head(backlog)] = "none"  BY <1>0, <2>1 DEF ConnInv
    <2>3. \A d \in Conns : opened(d)' <=> opened(d)
      BY <1>0, <1>5, <2>1, <2>2 DEF Accept, TypeOK
    <2> QED  BY <1>1, <1>5, <2>3 DEF Accept, up
  <1>6. ASSUME NEW c \in Conns, Start(c)  PROVE Up!Next \/ UNCHANGED Up!chanVars
    <2>1. CASE UNCHANGED upSent  BY <1>2, <1>6, <2>1 DEF Start
    <2>2. CASE upSent' = [upSent EXCEPT ![c] = <<Register>>]
      <3>1. upSent[c] = << >>  BY <1>0, <1>6 DEF Start, UpInv
      <3>2. <<Register>> = Append(upSent[c], Register)  BY <3>1
      <3>3. upSent' = [upSent EXCEPT ![c] = Append(@, Register)]  BY <2>2, <3>2
      <3>4. UNCHANGED <<upGot, UpOpen>>  BY <1>6 DEF Start, UpOpen
      <3>5. Up!Send(c, Register)  BY <3>3, <3>4 DEF Up!Send, UpOpen
      <3>6. Register \in Msgs  BY FramingAssumption DEF Register, Msgs
      <3> QED  BY <3>5, <3>6 DEF Up!Next
    <2> QED  BY <1>6, <2>1, <2>2 DEF Start
  <1>7. ASSUME NEW c \in Conns, RaiseTrigger(c)  PROVE Up!Next
    <2>0. upSent[c] \in Seq(Msgs)  BY <1>0 DEF TypeOK
    <2>1. Len(upSent[c]) + 1 \in Msgs
      BY <1>7, <2>0, FramingAssumption DEF RaiseTrigger, Msgs
    <2>2. UpOpen' = UpOpen  BY <1>7 DEF RaiseTrigger, ctl, UpOpen
    <2>3. Up!Send(c, Len(upSent[c]) + 1)
      BY <1>7, <2>2 DEF RaiseTrigger, Up!Send, UpOpen
    <2> QED  BY <2>1, <2>3 DEF Up!Next
  <1>8. ASSUME NEW c \in Conns, TaskRecv(c)  PROVE Up!Next
    <2>1. PICK e \in Nat, g \in Seq(Msgs), st \in {"run", "dead", "done"} :
            /\ upR' = [upR EXCEPT ![c] = e] /\ upGot' = [upGot EXCEPT ![c] = g]
            /\ task' = [task EXCEPT ![c] = st] /\ task[c] = "run"
            /\ InOrder(upSent[c], upW[c], e, g)
            /\ st = "run" => Len(g) = Texts(e)
            /\ Len(upGot[c]) <= Len(g)
      BY <1>8, TaskRecvEffect
    <2>2. upSent' = upSent  BY <1>8 DEF TaskRecv
    <2>3. (\A d \in Conns \ {c} : opened(d)' <=> opened(d)) /\ opened(c)
      BY <1>0, <2>1 DEF TypeOK
    <2>4. UpOpen[c]  BY <2>3 DEF UpOpen
    <2>5. UpOpen' \in {UpOpen, [UpOpen EXCEPT ![c] = FALSE]}  BY <1>3, <2>3
    <2>6. Len(g) <= Len(upSent[c]) /\ g = SubSeq(upSent[c], 1, Len(g))
      BY <2>1 DEF InOrder
    <2> QED  BY <2>1, <2>2, <2>4, <2>5, <2>6, UpHandle
  <1>9. ASSUME NEW c \in Conns, TaskEof(c)  PROVE Up!Next
    <2>1. UNCHANGED <<upSent, upGot>> /\ task' = [task EXCEPT ![c] = "done"] /\ task[c] = "run"
      BY <1>9 DEF TaskEof, up
    <2>2. (\A d \in Conns \ {c} : opened(d)' <=> opened(d)) /\ opened(c)
      BY <1>0, <2>1 DEF TypeOK
    <2>3. UpOpen[c]  BY <2>2 DEF UpOpen
    <2>4. UpOpen' \in {UpOpen, [UpOpen EXCEPT ![c] = FALSE]}  BY <1>3, <2>2
    <2>5. /\ upGot[c] \in Seq(Msgs) /\ upGot' = [upGot EXCEPT ![c] = upGot[c]]
          /\ Len(upGot[c]) <= Len(upGot[c])
      BY <1>0, <2>1 DEF TypeOK
    <2>6. Len(upGot[c]) <= Len(upSent[c]) /\ upGot[c] = SubSeq(upSent[c], 1, Len(upGot[c]))
      BY <1>0 DEF UpInv, InOrder
    <2> QED  BY <2>1, <2>3, <2>4, <2>5, <2>6, UpHandle
  <1>10. ASSUME NEW c \in Conns,
                \/ SendMsg(c) \/ ContinueSend(c) \/ ContinueTrigger(c)
                \/ Decode(c) \/ Crash(c)
         PROVE  UNCHANGED Up!chanVars
    BY <1>2, <1>10 DEF SendMsg, ContinueSend, ContinueTrigger, Decode, Crash, ctl, up
  <1>11. ASSUME NEW c \in Conns, SendError(c)  PROVE Up!Next \/ UNCHANGED Up!chanVars
    <2>1. UNCHANGED <<upSent, upGot>>  BY <1>11 DEF SendError, up
    <2>2. CASE UNCHANGED task  BY <1>2, <2>1, <2>2
    <2>3. CASE \E d \in Conns : task[d] = "run" /\ task' = [task EXCEPT ![d] = "dead"]
      <3>1. PICK d \in Conns : task[d] = "run" /\ task' = [task EXCEPT ![d] = "dead"]  BY <2>3
      <3>2. (\A e \in Conns \ {d} : opened(e)' <=> opened(e)) /\ opened(d)
        BY <1>0, <3>1 DEF TypeOK
      <3>3. UpOpen[d]  BY <3>2 DEF UpOpen
      <3>4. UpOpen' \in {UpOpen, [UpOpen EXCEPT ![d] = FALSE]}  BY <1>3, <3>2
      <3>5. /\ upGot[d] \in Seq(Msgs) /\ upGot' = [upGot EXCEPT ![d] = upGot[d]]
            /\ Len(upGot[d]) <= Len(upGot[d])
        BY <1>0, <2>1 DEF TypeOK
      <3>6. Len(upGot[d]) <= Len(upSent[d]) /\ upGot[d] = SubSeq(upSent[d], 1, Len(upGot[d]))
        BY <1>0 DEF UpInv, InOrder
      <3> QED  BY <2>1, <3>3, <3>4, <3>5, <3>6, UpHandle
    <2> QED  BY <1>11, <2>2, <2>3 DEF SendError
  <1> QED
    BY <1>4, <1>5, <1>6, <1>7, <1>8, <1>9, <1>10, <1>11, <1>2 DEF Next, ControllerStep, ShimStep

(* The connections, whatever the sizes of the buffers and wherever recv()  *)
(* cuts the streams, deliver whole messages in the order in which they     *)
(* were sent, none twice and none skipped, until they stop: send_raw to    *)
(* decode_msg_and_call, send_data_basic to process_messages.               *)
THEOREM StreamsAreChannels == Spec => ImplementsChannels
  <1>1. Init => Down!Init
    <2> SUFFICES ASSUME Init PROVE Down!Init  OBVIOUS
    <2>1. \A c \in Conns : shim[c] # "dead" /\ downR[c] % Pieces = 0  BY Zero DEF Init
    <2>2. [c \in Conns |-> shim[c] # "dead" /\ downR[c] % Pieces = 0] = [c \in Conns |-> TRUE]
      BY <2>1
    <2> QED  BY <2>2 DEF Init, Down!Init
  <1>2. Init => Up!Init
    <2> SUFFICES ASSUME Init PROVE Up!Init  OBVIOUS
    <2>1. [c \in Conns |-> task[c] = "none" \/ task[c] = "run"] = [c \in Conns |-> TRUE]
      BY DEF Init
    <2> QED  BY <2>1 DEF Init, Up!Init
  <1>3. IInv /\ [Next]_vars => [Down!Next]_(Down!chanVars)  BY DownStep
  <1>4. IInv /\ [Next]_vars => [Up!Next]_(Up!chanVars)  BY UpStep
  <1> QED
    BY <1>1, <1>2, <1>3, <1>4, Inductive, PTL DEF Spec, ImplementsChannels, Down!Spec, Up!Spec
=============================================================================
