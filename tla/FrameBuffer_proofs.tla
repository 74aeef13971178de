-------------------------- MODULE FrameBuffer_proofs --------------------------
(***************************************************************************)
(* RecvOneFrame hands over whole frames, in order, whatever recv() returns *)
(* and whatever the frame lengths and the size of the buffer.              *)
(***************************************************************************)
EXTENDS FrameBuffer, SetInduction, SequenceTheorems, TLAPS

-----------------------------------------------------------------------------
(* Sequences *)

\* How long a sequence is without its first k elements.
LEMMA LenRest ==
    ASSUME NEW S, NEW s \in Seq(S), NEW k \in 0..Len(s)
    PROVE  Len(SubSeq(s, k + 1, Len(s))) = Len(s) - k
OBVIOUS

\* What FollowsOn says of the bytes of a sequence, one by one.
LEMMA FollowsParts ==
    ASSUME NEW s \in Seq(Bytes), NEW fr \in Seq(FrameLens), NEW n \in Nat,
           FollowsOn(s, n, fr), s # << >>
    PROVE  /\ s[1] = <<n, 1>>
           /\ n \in DOMAIN fr
           /\ fr[n] \in LenField..MaxFrameLen
           /\ fr[n] <= Len(s)
           /\ \A j \in 1..fr[n] : s[j] = <<n, j>>
<1>1. 1 \in DOMAIN s /\ s[1] = <<n, 1>> /\ Len(s) \in Nat \ {0}
  BY EmptySeq DEF FollowsOn
<1>2. s[1][1] = n /\ s[1][2] = 1
  BY <1>1
<1>3. n \in DOMAIN fr /\ fr[n] \in FrameLens
  BY <1>1, <1>2, ElementOfSeq DEF FollowsOn
<1>4. fr[n] \in LenField..MaxFrameLen
  BY <1>3, FrameAssumption
<1>5. \A j \in 1..(fr[n] - 1) : 1 + j <= Len(s) /\ s[1 + j] = <<n, 1 + j>>
  BY <1>1, <1>2 DEF FollowsOn
<1>6. ASSUME NEW j \in 1..fr[n]
      PROVE  j <= Len(s) /\ s[j] = <<n, j>>
  <2>1. CASE j = 1
    BY <2>1, <1>1
  <2>2. CASE j # 1
    <3>1. j - 1 \in 1..(fr[n] - 1)
      BY <2>2, <1>4 DEF LenField
    <3>2. QED
      BY <3>1, <1>5, <1>4 DEF LenField
  <2>3. QED
    BY <2>1, <2>2
<1>7. QED
  BY <1>1, <1>3, <1>4, <1>6 DEF LenField

\* The first frame is whole, and what is left without it begins with the next.
LEMMA FollowsDrop ==
    ASSUME NEW s \in Seq(Bytes), NEW fr \in Seq(FrameLens), NEW n \in Nat,
           FollowsOn(s, n, fr), s # << >>
    PROVE  /\ SubSeq(s, 1, fr[n]) = FrameBytes(n, fr[n])
           /\ FollowsOn(SubSeq(s, fr[n] + 1, Len(s)), n + 1, fr)
<1> DEFINE len == fr[n]
           r == SubSeq(s, len + 1, Len(s))
<1>1. /\ n \in DOMAIN fr
      /\ len \in Nat /\ 1 <= len /\ len <= Len(s)
      /\ \A j \in 1..len : s[j] = <<n, j>>
  BY FollowsParts, FrameAssumption DEF LenField
<1>2. Len(s) \in Nat /\ DOMAIN s = 1..Len(s) /\ Len(fr) \in Nat /\ DOMAIN fr = 1..Len(fr)
  OBVIOUS
<1> HIDE DEF len
<1>3. SubSeq(s, 1, len) = FrameBytes(n, len)
  BY <1>1, <1>2 DEF FrameBytes
<1>4. /\ r \in Seq(Bytes) /\ Len(r) = Len(s) - len
      /\ \A i \in 1..(Len(s) - len) : r[i] = s[i + len]
  <2>1. r \in Seq(Bytes)
    BY <1>1, <1>2
  <2>2. len \in 0..Len(s)
    BY <1>1, <1>2
  <2>3. Len(r) = Len(s) - len
    BY <2>2, LenRest
  <2>4. \A i \in 1..(Len(s) - len) : r[i] = s[i + len]
    BY <1>1, <1>2
  <2>5. QED
    BY <2>1, <2>3, <2>4
<1> HIDE DEF r
<1>5. ASSUME r = << >>
      PROVE  n + 1 = Len(fr) + 1
  <2>1. len = Len(s)
    BY <1>5, <1>4, <1>1, <1>2
  <2>2. s[len] = <<n, len>> /\ s[Len(s)] = <<Len(fr), fr[Len(fr)]>>
    BY <1>1, <1>2 DEF FollowsOn
  <2>3. QED
    BY <2>1, <2>2
<1>6. ASSUME r # << >>
      PROVE  r[1] = <<n + 1, 1>> /\ r[Len(r)] = <<Len(fr), fr[Len(fr)]>>
  <2>1. Len(r) \in Nat \ {0}
    BY <1>6, <1>4, EmptySeq
  <2>2. s[len] = <<n, len>> /\ len < Len(s) /\ len \in DOMAIN s
    BY <2>1, <1>4, <1>1, <1>2
  <2>3. s[len + 1] = <<n + 1, 1>>
    <3>1. s[len][1] = n /\ s[len][2] = fr[n]
      BY <2>2 DEF len
    <3>2. QED
      BY <3>1, <2>2 DEF FollowsOn
  <2>4. r[1] = s[len + 1] /\ r[Len(r)] = s[Len(s)]
    BY <2>1, <2>2, <1>4, <1>1, <1>2
  <2>5. QED
    BY <2>3, <2>4 DEF FollowsOn
<1>7. ASSUME NEW i \in DOMAIN r
      PROVE  /\ r[i][1] \in DOMAIN fr /\ r[i][2] \in 1..fr[r[i][1]]
             /\ \A j \in 1..(fr[r[i][1]] - r[i][2]) :
                   i + j <= Len(r) /\ r[i + j] = <<r[i][1], r[i][2] + j>>
             /\ r[i][2] = fr[r[i][1]] /\ i < Len(r) => r[i + 1] = <<r[i][1] + 1, 1>>
  <2>1. i \in 1..(Len(s) - len) /\ r[i] = s[i + len] /\ i + len \in DOMAIN s
    BY <1>4, <1>1, <1>2
  <2>2. /\ r[i][1] \in DOMAIN fr /\ r[i][2] \in 1..fr[r[i][1]]
        /\ \A j \in 1..(fr[r[i][1]] - r[i][2]) :
              i + len + j <= Len(s) /\ s[i + len + j] = <<r[i][1], r[i][2] + j>>
        /\ r[i][2] = fr[r[i][1]] /\ i + len < Len(s)
              => s[i + len + 1] = <<r[i][1] + 1, 1>>
    BY <2>1 DEF FollowsOn
  <2>3. ASSUME NEW j \in 1..(fr[r[i][1]] - r[i][2])
        PROVE  i + j <= Len(r) /\ r[i + j] = s[i + len + j]
    <3>1. i + len + j <= Len(s) /\ j \in Nat
      BY <2>2, <2>3
    <3>a. Len(s) \in Nat /\ len \in Nat /\ i \in Nat /\ 1 <= i
      BY <2>1, <1>1, <1>2
    <3>2. i + j \in 1..(Len(s) - len)
      BY <3>1, <3>a
    <3>3. r[i + j] = s[(i + j) + len]
      BY <3>2, <1>4
    <3>4. (i + j) + len = i + len + j
      BY <3>1, <2>1, <1>1, <1>2
    <3>5. QED
      BY <3>2, <3>3, <3>4, <1>4
  <2>4. ASSUME i < Len(r)
        PROVE  i + len < Len(s) /\ r[i + 1] = s[i + len + 1]
    <3>0. Len(r) = Len(s) - len /\ Len(s) \in Nat /\ len \in Nat /\ i \in Nat
      BY <2>1, <1>4, <1>1, <1>2
    <3>1. i + 1 \in 1..(Len(s) - len) /\ (i + 1) + len = i + len + 1
      BY <3>0, <2>4
    <3>2. r[i + 1] = s[(i + 1) + len]
      BY <3>1, <1>4
    <3>3. i + len < Len(s)
      BY <3>1, <2>1, <1>1, <1>2
    <3>4. QED
      BY <3>1, <3>2, <3>3
  <2>5. QED
    BY <2>2, <2>3, <2>4
<1>8. FollowsOn(r, n + 1, fr)
  BY <1>5, <1>6, <1>7 DEF FollowsOn
<1>9. QED
  BY <1>3, <1>8 DEF len, r

\* The bytes of one more frame go on where the others end.
LEMMA FollowsAppend ==
    ASSUME NEW s \in Seq(Bytes), NEW fr \in Seq(FrameLens), NEW n \in Nat,
           NEW len \in FrameLens, FollowsOn(s, n, fr)
    PROVE  FollowsOn(s \o FrameBytes(Len(fr) + 1, len), n, Append(fr, len))
<1> DEFINE m == Len(fr) + 1
           b == FrameBytes(m, len)
           r == s \o b
           g == Append(fr, len)
<1>1. len \in Nat /\ 1 <= len /\ m \in Nat /\ Len(s) \in Nat /\ DOMAIN s = 1..Len(s)
  BY FrameAssumption DEF LenField
<1>2. /\ b \in Seq(Nat \X Nat) /\ Len(b) = len
      /\ \A j \in 1..len : b[j] = <<m, j>>
  BY <1>1 DEF FrameBytes
<1>3. /\ Len(g) = m /\ DOMAIN g = 1..m /\ g[m] = len /\ DOMAIN fr = 1..Len(fr)
      /\ \A i \in DOMAIN fr : g[i] = fr[i] /\ i \in DOMAIN g
  BY <1>1
<1>4. s \in Seq(Nat \X Nat)
  BY FrameAssumption DEF Bytes
<1>5. /\ Len(r) = Len(s) + len /\ DOMAIN r = 1..Len(r)
      /\ \A i \in DOMAIN s : r[i] = s[i] /\ i \in DOMAIN r
      /\ \A j \in 1..len : r[Len(s) + j] = <<m, j>>
  <2> HIDE DEF m, b
  <2>1. /\ r \in Seq(Nat \X Nat) /\ Len(r) = Len(s) + len
        /\ \A i \in 1..(Len(s) + len) : r[i] = IF i <= Len(s) THEN s[i] ELSE b[i - Len(s)]
    BY <1>2, <1>4, ConcatProperties
  <2> HIDE DEF r
  <2>2. ASSUME NEW i \in DOMAIN s
        PROVE  r[i] = s[i] /\ i \in DOMAIN r
    <3>1. i \in 1..(Len(s) + len) /\ i <= Len(s) /\ DOMAIN r = 1..(Len(s) + len)
      BY <2>1, <1>1
    <3>2. QED
      BY <3>1, <2>1
  <2>3. ASSUME NEW j \in 1..len
        PROVE  r[Len(s) + j] = <<m, j>>
    <3>1. Len(s) + j \in 1..(Len(s) + len) /\ ~(Len(s) + j <= Len(s))
          /\ (Len(s) + j) - Len(s) = j
      BY <1>1
    <3>2. r[Len(s) + j] = b[(Len(s) + j) - Len(s)]
      BY <3>1, <2>1
    <3>3. QED
      BY <3>1, <3>2, <1>2
  <2>4. QED
    BY <2>1, <2>2, <2>3
<1> HIDE DEF m, b, r, g
<1>6. r # << >> /\ r[Len(r)] = <<Len(g), g[Len(g)]>>
  <2>1. len \in 1..len
    BY <1>1
  <2>2. QED
    BY <2>1, <1>1, <1>3, <1>5, EmptySeq
<1>7. r[1] = <<n, 1>>
  <2>1. CASE s = << >>
    <3>1. n = m /\ Len(s) = 0
      BY <2>1 DEF FollowsOn, m
    <3>2. 1 \in 1..len /\ Len(s) + 1 = 1
      BY <3>1, <1>1
    <3>3. QED
      BY <3>1, <3>2, <1>5
  <2>2. CASE s # << >>
    <3>1. 1 \in DOMAIN s /\ s[1] = <<n, 1>>
      BY <2>2, <1>1, EmptySeq DEF FollowsOn
    <3>2. QED
      BY <3>1, <1>5
  <2>3. QED
    BY <2>1, <2>2
<1>8. ASSUME NEW i \in DOMAIN r
      PROVE  /\ r[i][1] \in DOMAIN g /\ r[i][2] \in 1..g[r[i][1]]
             /\ \A j \in 1..(g[r[i][1]] - r[i][2]) :
                   i + j <= Len(r) /\ r[i + j] = <<r[i][1], r[i][2] + j>>
             /\ r[i][2] = g[r[i][1]] /\ i < Len(r) => r[i + 1] = <<r[i][1] + 1, 1>>
  <2>1. CASE i \in DOMAIN s
    <3>1. r[i] = s[i] /\ s[i][1] \in DOMAIN fr /\ s[i][2] \in 1..fr[s[i][1]]
      BY <2>1, <1>5 DEF FollowsOn
    <3>2. r[i][1] \in DOMAIN g /\ g[r[i][1]] = fr[s[i][1]]
      BY <3>1, <1>3
    <3>3. ASSUME NEW j \in 1..(fr[s[i][1]] - s[i][2])
          PROVE  i + j <= Len(r) /\ r[i + j] = <<r[i][1], r[i][2] + j>>
      <4>1. i + j <= Len(s) /\ s[i + j] = <<s[i][1], s[i][2] + j>>
        BY <2>1, <3>3 DEF FollowsOn
      <4>2. i + j \in DOMAIN s
        BY <4>1, <2>1, <1>1, <3>3
      <4>3. r[i + j] = s[i + j] /\ i + j \in DOMAIN r
        BY <4>2, <1>5
      <4>4. i + j <= Len(r)
        BY <4>3, <1>4
      <4>5. r[i + j] = <<r[i][1], r[i][2] + j>>
        BY <4>1, <4>3, <3>1
      <4>. QED
        BY <4>4, <4>5
    <3>4. ASSUME s[i][2] = fr[s[i][1]], i < Len(s)
          PROVE  r[i + 1] = <<r[i][1] + 1, 1>>
      <4>1. i + 1 \in DOMAIN s
        BY <3>4, <2>1, <1>1
      <4>2. s[i + 1] = <<s[i][1] + 1, 1>>
        BY <3>4, <2>1 DEF FollowsOn
      <4>3. QED
        BY <4>1, <4>2, <3>1, <1>5
    <3>5. ASSUME ~(i < Len(s))
          PROVE  r[i + 1] = <<r[i][1] + 1, 1>>
      <4>1. i = Len(s) /\ s # << >>
        BY <3>5, <2>1, <1>1
      <4>2. s[i] = <<Len(fr), fr[Len(fr)]>>
        BY <4>1 DEF FollowsOn
      <4>3. 1 \in 1..len
        BY <1>1
      <4>4. r[Len(s) + 1] = <<m, 1>>
        BY <4>3, <1>5
      <4>5. QED
        BY <4>1, <4>2, <4>4, <3>1 DEF m
    <3>6. QED
      BY <3>1, <3>2, <3>3, <3>4, <3>5
  <2>2. CASE i \notin DOMAIN s
    <3>1. PICK k \in 1..len : i = Len(s) + k
      <4>1. i - Len(s) \in 1..len
        BY <2>2, <1>1, <1>5
      <4>2. i = Len(s) + (i - Len(s))
        BY <1>1, <1>5
      <4>3. QED
        BY <4>1, <4>2
    <3>2. r[i] = <<m, k>>
      BY <3>1, <1>5
    <3>3. r[i][1] = m /\ r[i][2] = k /\ g[r[i][1]] = len /\ m \in DOMAIN g
      BY <3>2, <1>1, <1>3 DEF m
    <3>4. ASSUME NEW j \in 1..(len - k)
          PROVE  i + j <= Len(r) /\ r[i + j] = <<m, k + j>>
      <4>1. k + j \in 1..len /\ i + j = Len(s) + (k + j)
        BY <3>1, <1>1
      <4>2. r[Len(s) + (k + j)] = <<m, k + j>>
        BY <4>1, <1>5
      <4>3. i + j <= Len(r)
        BY <4>1, <1>1, <1>5
      <4>4. QED
        BY <4>1, <4>2, <4>3
    <3>5. ASSUME k = len
          PROVE  ~(i < Len(r))
      BY <3>5, <3>1, <1>1, <1>5
    <3>6. QED
      BY <3>1, <3>3, <3>4, <3>5
  <2>3. QED
    BY <2>1, <2>2
<1>9. FollowsOn(r, n, g)
  BY <1>6, <1>7, <1>8 DEF FollowsOn
<1>10. QED
  BY <1>9 DEF r, g, b, m

\* Taking bytes over from one sequence to another does not change the two.
LEMMA Rejoin ==
    ASSUME NEW S, NEW s \in Seq(S), NEW t \in Seq(S), NEW k \in 0..Len(t)
    PROVE  (s \o SubSeq(t, 1, k)) \o SubSeq(t, k + 1, Len(t)) = s \o t
<1> DEFINE a == SubSeq(t, 1, k)
           b == SubSeq(t, k + 1, Len(t))
<1>1. a \in Seq(S) /\ b \in Seq(S)
  OBVIOUS
<1>2. a \o b = t
  <2>1. /\ 1 \in 1..(Len(t) + 1) /\ k \in (1 - 1)..Len(t)
        /\ Len(t) \in k..Len(t)
    OBVIOUS
  <2>2. a \o b = SubSeq(t, 1, Len(t))
    BY <2>1, ConcatAdjacentSubSeq
  <2>3. QED
    BY <2>2, SubSeqFull
<1> HIDE DEF a, b
<1>3. (s \o a) \o b = s \o (a \o b)
  BY <1>1, ConcatAssociative, SMTT(20)
<1>4. (s \o a) \o b = s \o t
  BY <1>2, <1>3
<1>5. QED
  BY <1>4 DEF a, b

\* Cutting the start off two sequences is cutting it off the first.
LEMMA CutOff ==
    ASSUME NEW S, NEW s \in Seq(S), NEW t \in Seq(S), NEW k \in 0..Len(s)
    PROVE  /\ SubSeq(s \o t, 1, k) = SubSeq(s, 1, k)
           /\ SubSeq(s \o t, k + 1, Len(s \o t)) = SubSeq(s, k + 1, Len(s)) \o t
<1> DEFINE b == SubSeq(s, k + 1, Len(s))
           u == s \o t
           c == SubSeq(u, k + 1, Len(u))
<1>1. SubSeq(s \o t, 1, k) = SubSeq(s, 1, k)
  <2>1. CASE k = 0
    <3>1. SubSeq(s \o t, 1, 0) = << >> /\ SubSeq(s, 1, 0) = << >>
      BY SubSeqEmpty
    <3>2. QED
      BY <2>1, <3>1
  <2>2. CASE k # 0
    <3>1. 1 \in 1..Len(s) /\ k \in 1..Len(s)
      BY <2>2
    <3>2. QED
      BY <3>1, SubSeqOfConcat1
  <2>3. QED
    BY <2>1, <2>2
<1>2. /\ Len(s) \in Nat /\ Len(t) \in Nat /\ b \in Seq(S) /\ Len(b) = Len(s) - k
      /\ \A i \in 1..(Len(s) - k) : b[i] = s[i + k]
  <2>1. Len(b) = Len(s) - k
    BY LenRest
  <2>2. QED
    BY <2>1
<1>3. /\ u \in Seq(S) /\ Len(u) = Len(s) + Len(t)
      /\ \A i \in 1..(Len(s) + Len(t)) :
            u[i] = IF i <= Len(s) THEN s[i] ELSE t[i - Len(s)]
  BY ConcatProperties
<1> HIDE DEF b, u
<1>4. /\ b \o t \in Seq(S) /\ Len(b \o t) = Len(s) - k + Len(t)
      /\ \A i \in 1..(Len(s) - k + Len(t)) :
            (b \o t)[i] = IF i <= Len(s) - k THEN b[i] ELSE t[i - (Len(s) - k)]
  <2>1. /\ b \o t \in Seq(S) /\ Len(b \o t) = Len(b) + Len(t)
        /\ \A i \in 1..(Len(b) + Len(t)) :
              (b \o t)[i] = IF i <= Len(b) THEN b[i] ELSE t[i - Len(b)]
    BY <1>2, ConcatProperties
  <2>2. QED
    BY <2>1, <1>2, Zenon
<1>5. /\ c \in Seq(S) /\ Len(c) = Len(s) - k + Len(t)
      /\ \A i \in 1..(Len(s) - k + Len(t)) : c[i] = u[i + k]
  <2>1. k \in 0..Len(u) /\ Len(u) - k = Len(s) - k + Len(t)
    BY <1>2, <1>3
  <2>2. Len(c) = Len(u) - k
    BY <1>3, <2>1, LenRest
  <2>3. c \in Seq(S) /\ \A i \in 1..(Len(u) - k) : c[i] = u[i + k]
    BY <1>3, <2>1
  <2>4. QED
    BY <2>1, <2>2, <2>3
<1> HIDE DEF c
<1>6. ASSUME NEW i \in 1..(Len(s) - k + Len(t))
      PROVE  c[i] = (b \o t)[i]
  <2>1. c[i] = u[i + k] /\ i + k \in 1..(Len(s) + Len(t))
    BY <1>2, <1>5
  <2>2. CASE i <= Len(s) - k
    <3>1. i \in 1..(Len(s) - k) /\ i + k <= Len(s)
      BY <2>2, <1>2
    <3>2. QED
      BY <2>1, <2>2, <3>1, <1>2, <1>3, <1>4
  <2>3. CASE ~(i <= Len(s) - k)
    <3>1. ~(i + k <= Len(s)) /\ (i + k) - Len(s) = i - (Len(s) - k)
      BY <2>3, <1>2
    <3>2. u[i + k] = t[(i + k) - Len(s)]
      BY <2>1, <3>1, <1>3
    <3>3. (b \o t)[i] = t[i - (Len(s) - k)]
      BY <2>3, <1>4
    <3>4. QED
      BY <2>1, <3>1, <3>2, <3>3
  <2>4. QED
    BY <2>2, <2>3
<1>7. c = b \o t
  BY <1>4, <1>5, <1>6, SeqEqual
<1>8. QED
  BY <1>1, <1>7 DEF b, c, u

-----------------------------------------------------------------------------
(* FlattenSeq *)

\* The function FlattenSeq is defined with: the starts of ss, flattened.
Flatten(ss) ==
    CHOOSE f : f = [i \in 1..Len(ss) |-> IF i = 1 THEN ss[i] ELSE f[i - 1] \o ss[i]]

\* It exists, and every one of its values is a sequence.
LEMMA FlattenExists ==
    ASSUME NEW S, NEW ss \in Seq(Seq(S))
    PROVE  /\ Flatten(ss) = [i \in 1..Len(ss) |-> IF i = 1 THEN ss[i]
                                                 ELSE Flatten(ss)[i - 1] \o ss[i]]
           /\ \A i \in 1..Len(ss) : Flatten(ss)[i] \in Seq(S)
<1>. DEFINE N == Len(ss)
            Step(n, t) == IF n + 1 \in 1..N THEN t \o ss[n + 1] ELSE << >>
            step == [x \in Nat \X Seq(S) |-> Step(x[1], x[2])]
            Right(f) == f = [i \in 1..N |-> IF i = 1 THEN ss[i] ELSE f[i - 1] \o ss[i]]
<1>1. N \in Nat /\ \A i \in 1..N : ss[i] \in Seq(S)
  OBVIOUS
<1>. HIDE DEF N
<1>2. step \in [Nat \X Seq(S) -> Seq(S)] /\ << >> \in Seq(S)
  <2>1. << >> \in Seq(S)
    BY EmptySeq
  <2>2. ASSUME NEW n \in Nat, NEW t \in Seq(S) PROVE Step(n, t) \in Seq(S)
    BY <1>1, <2>1, ConcatProperties
  <2>. HIDE DEF Step
  <2>. QED
    BY <2>1, <2>2
<1>3. \A n \in Nat, t \in Seq(S) : step[<<n, t>>] = Step(n, t)
  <2>. HIDE DEF Step
  <2>. QED
    OBVIOUS
<1>. HIDE DEF step
<1>4. PICK g \in [Nat -> Seq(S)] :
          g[0] = << >> /\ \A n \in Nat : g[n + 1] = step[<<n, g[n]>>]
  <2>. DEFINE bytes == Seq(S)
              none == << >>
  <2>1. step \in [Nat \X bytes -> bytes] /\ none \in bytes
    BY <1>2
  <2>. HIDE DEF bytes, none
  <2>2. \E g \in [Nat -> bytes] : GoesOn(g, none, step)
    BY <2>1, SetRecursion
  <2>. QED
    BY <2>2, Zenon DEF bytes, none, GoesOn
<1>. DEFINE f == [i \in 1..N |-> g[i]]
<1>5. ASSUME NEW i \in 1..N
      PROVE  g[i] \in Seq(S) /\ g[i] = IF i = 1 THEN ss[i] ELSE g[i - 1] \o ss[i]
  <2>1. i - 1 \in Nat /\ (i - 1) + 1 = i /\ i \in Nat
    BY <1>1
  <2>2. g[i] = step[<<i - 1, g[i - 1]>>] /\ g[i - 1] \in Seq(S) /\ g[i] \in Seq(S)
    BY <1>4, <2>1
  <2>3. g[i] = g[i - 1] \o ss[i]
    BY <1>3, <2>1, <2>2
  <2>4. ASSUME i = 1 PROVE g[i - 1] \o ss[i] = ss[i]
    <3>1. g[i - 1] = << >> /\ ss[i] \in Seq(S)
      BY <1>1, <1>4, <2>4
    <3>2. << >> \o ss[i] = ss[i]
      BY <3>1, ConcatEmptySeq
    <3>. QED
      BY <3>1, <3>2
  <2>. QED
    BY <2>2, <2>3, <2>4
<1>6. Right(f)
  <2>1. ASSUME NEW i \in 1..N
        PROVE  f[i] = IF i = 1 THEN ss[i] ELSE f[i - 1] \o ss[i]
    <3>1. f[i] = g[i]
      OBVIOUS
    <3>2. i # 1 => f[i - 1] = g[i - 1]
      BY <1>1
    <3>. QED
      BY <1>5, <3>1, <3>2
  <2>2. f = [i \in 1..N |-> f[i]]
    OBVIOUS
  <2>. HIDE DEF f
  <2>. QED
    BY <2>1, <2>2, Zenon
<1>7. Right(Flatten(ss))
  <2>. HIDE DEF f
  <2>. QED
    BY <1>6, Zenon DEF Flatten, N
<1>. DEFINE w == Flatten(ss)
<1>8. \A i \in 1..N : w[i] = IF i = 1 THEN ss[i] ELSE w[i - 1] \o ss[i]
  BY <1>7, Zenon
<1>. HIDE DEF w
<1>9. ASSUME NEW i \in 1..N PROVE w[i] \in Seq(S)
  <2>. DEFINE T == {n \in Nat : n + 1 \in 1..N => w[n + 1] \in Seq(S)}
  <2>1. 0 \in T
    BY <1>1, <1>8
  <2>2. ASSUME NEW n \in Nat, n \in T PROVE n + 1 \in T
    <3>. SUFFICES ASSUME (n + 1) + 1 \in 1..N PROVE w[(n + 1) + 1] \in Seq(S)
      OBVIOUS
    <3>1. w[n + 1] \in Seq(S)
      BY <2>2, <1>1
    <3>2. w[(n + 1) + 1] = w[n + 1] \o ss[(n + 1) + 1]
      <4>1. (n + 1) + 1 # 1 /\ ((n + 1) + 1) - 1 = n + 1
        OBVIOUS
      <4>. QED
        BY <4>1, <1>8
    <3>. QED
      BY <3>1, <3>2, <1>1, ConcatProperties
  <2>3. Nat \subseteq T
    <3>1. \A n \in Nat : n \in T => n + 1 \in T
      BY <2>2
    <3>. HIDE DEF T
    <3>. QED
      BY <2>1, <3>1, SetInduction
  <2>4. i - 1 \in Nat /\ (i - 1) + 1 = i
    BY <1>1
  <2>5. i - 1 \in T
    BY <2>3, <2>4
  <2>. QED
    BY <2>4, <2>5
<1>. QED
  BY <1>7, <1>9 DEF w, N

\* Two sequences with a common start are flattened alike as far as it goes.
LEMMA FlattenPrefix ==
    ASSUME NEW S, NEW ss \in Seq(Seq(S)), NEW tt \in Seq(Seq(S)),
           Len(ss) <= Len(tt), \A i \in 1..Len(ss) : ss[i] = tt[i]
    PROVE  \A i \in 1..Len(ss) : Flatten(ss)[i] = Flatten(tt)[i]
<1>. DEFINE f == Flatten(ss)
            g == Flatten(tt)
            T == {n \in Nat : n + 1 \in 1..Len(ss) => f[n + 1] = g[n + 1]}
<1>1. \A i \in 1..Len(ss) : f[i] = IF i = 1 THEN ss[i] ELSE f[i - 1] \o ss[i]
  BY FlattenExists, ZenonT(30)
<1>2. \A i \in 1..Len(tt) : g[i] = IF i = 1 THEN tt[i] ELSE g[i - 1] \o tt[i]
  BY FlattenExists, ZenonT(30)
<1>3. Len(ss) \in Nat /\ Len(tt) \in Nat
  OBVIOUS
<1>. HIDE DEF f, g
<1>4. 0 \in T
  BY <1>1, <1>2, <1>3
<1>5. ASSUME NEW n \in Nat, n \in T PROVE n + 1 \in T
  <2>. SUFFICES ASSUME (n + 1) + 1 \in 1..Len(ss) PROVE f[(n + 1) + 1] = g[(n + 1) + 1]
    OBVIOUS
  <2>1. /\ (n + 1) + 1 # 1 /\ ((n + 1) + 1) - 1 = n + 1
        /\ (n + 1) + 1 \in 1..Len(tt) /\ n + 1 \in 1..Len(ss)
    BY <1>3
  <2>2. f[n + 1] = g[n + 1] /\ ss[(n + 1) + 1] = tt[(n + 1) + 1]
    BY <1>5, <2>1
  <2>3. f[(n + 1) + 1] = f[n + 1] \o ss[(n + 1) + 1]
    BY <1>1, <2>1
  <2>4. g[(n + 1) + 1] = g[n + 1] \o tt[(n + 1) + 1]
    BY <1>2, <2>1
  <2>. QED
    BY <2>2, <2>3, <2>4
<1>6. Nat \subseteq T
  <2>1. \A n \in Nat : n \in T => n + 1 \in T
    BY <1>5
  <2>. HIDE DEF T
  <2>. QED
    BY <1>4, <2>1, SetInduction
<1>7. ASSUME NEW i \in 1..Len(ss) PROVE f[i] = g[i]
  <2>1. i - 1 \in Nat /\ (i - 1) + 1 = i
    BY <1>3
  <2>2. i - 1 \in T
    BY <2>1, <1>6
  <2>. QED
    BY <2>1, <2>2
<1>. QED
  BY <1>7 DEF f, g

\* FlattenSeq is its last value.
LEMMA FlattenIsFlatten ==
    ASSUME NEW ss, Len(ss) # 0 PROVE FlattenSeq(ss) = Flatten(ss)[Len(ss)]
BY Zenon DEF FlattenSeq, Flatten

\* A sequence of sequences over S is flattened to one over S,
LEMMA FlattenType ==
    ASSUME NEW S, NEW ss \in Seq(Seq(S))
    PROVE  FlattenSeq(ss) \in Seq(S)
<1>1. CASE Len(ss) = 0
  <2>1. ss = << >> /\ FlattenSeq(ss) = ss
    BY <1>1, EmptySeq DEF FlattenSeq
  <2>. QED
    BY <2>1, EmptySeq
<1>2. CASE Len(ss) # 0
  <2>1. Len(ss) \in 1..Len(ss)
    BY <1>2
  <2>2. \A i \in 1..Len(ss) : Flatten(ss)[i] \in Seq(S)
    BY FlattenExists
  <2>3. FlattenSeq(ss) = Flatten(ss)[Len(ss)]
    BY <1>2, FlattenIsFlatten
  <2>. QED
    BY <2>1, <2>2, <2>3
<1>. QED
  BY <1>1, <1>2

\* and one sequence more is added at the end.
LEMMA FlattenAppend ==
    ASSUME NEW S, NEW ss \in Seq(Seq(S)), NEW s \in Seq(S)
    PROVE  FlattenSeq(Append(ss, s)) = FlattenSeq(ss) \o s
<1>. DEFINE tt == Append(ss, s)
<1>1. /\ tt \in Seq(Seq(S)) /\ Len(tt) = Len(ss) + 1 /\ Len(ss) \in Nat
      /\ tt[Len(ss) + 1] = s
      /\ \A i \in 1..Len(ss) : tt[i] = ss[i]
  OBVIOUS
<1>. HIDE DEF tt
<1>2. FlattenSeq(tt) = Flatten(tt)[Len(ss) + 1]
  <2>1. Len(tt) # 0
    BY <1>1
  <2>. QED
    BY <1>1, <2>1, FlattenIsFlatten
<1>3. Flatten(tt)[Len(ss) + 1] = IF Len(ss) + 1 = 1 THEN s
                                 ELSE Flatten(tt)[Len(ss)] \o s
  <2>1. \A i \in 1..Len(tt) : Flatten(tt)[i] = IF i = 1 THEN tt[i]
                                               ELSE Flatten(tt)[i - 1] \o tt[i]
    <3>1. Flatten(tt) = [i \in 1..Len(tt) |-> IF i = 1 THEN tt[i]
                                               ELSE Flatten(tt)[i - 1] \o tt[i]]
      BY <1>1, FlattenExists
    <3>. QED
      BY <3>1, Zenon
  <2>2. Len(ss) + 1 \in 1..Len(tt) /\ (Len(ss) + 1) - 1 = Len(ss)
    BY <1>1
  <2>. QED
    BY <1>1, <2>1, <2>2
<1>4. CASE Len(ss) = 0
  <2>1. FlattenSeq(ss) = << >>
    BY <1>4, EmptySeq DEF FlattenSeq
  <2>2. << >> \o s = s
    BY ConcatEmptySeq
  <2>. QED
    BY <1>2, <1>3, <1>4, <2>1, <2>2 DEF tt
<1>5. CASE Len(ss) # 0
  <2>1. FlattenSeq(ss) = Flatten(ss)[Len(ss)]
    BY <1>5, FlattenIsFlatten
  <2>2. Flatten(ss)[Len(ss)] = Flatten(tt)[Len(ss)]
    <3>1. Len(ss) \in 1..Len(ss) /\ Len(ss) <= Len(tt)
      BY <1>1, <1>5
    <3>. QED
      BY <1>1, <3>1, FlattenPrefix
  <2>. QED
    BY <1>1, <1>2, <1>3, <1>5, <2>1, <2>2 DEF tt
<1>. QED
  BY <1>4, <1>5

-----------------------------------------------------------------------------
(* The invariant *)

\* Every buffer is a sequence of bytes, and there are frames to hand over.
LEMMA TypesOf ==
    ASSUME IndInv
    PROVE  /\ frames \in Seq(FrameLens) /\ Len(frames) \in Nat
           /\ handed \in Seq(Seq(Bytes)) /\ Len(handed) + 1 \in Nat
           /\ bufleft \in Seq(Bytes) /\ unhandled \in Seq(Bytes)
           /\ socket \in Seq(Bytes)
BY DEF IndInv, TypeOK

\* The client's first bytes: nothing has been written, buffered or handed over.
LEMMA InitInv == Init => IndInv
<1> SUFFICES ASSUME Init PROVE IndInv
  OBVIOUS
<1>1. TypeOK
  <2>1. /\ Len(unhandled) <= MaxFrameLen /\ Len(bufleft) <= MaxFrameLen
        /\ framelen \in 0..MaxFrameLen
    BY FrameAssumption DEF Init
  <2>2. /\ frames \in Seq(FrameLens) /\ socket \in Seq(Bytes)
        /\ unhandled \in Seq(Bytes) /\ bufleft \in Seq(Bytes)
        /\ handed \in Seq(Seq(Bytes))
    BY EmptySeq DEF Init
  <2>3. open \in BOOLEAN /\ haslen \in BOOLEAN
        /\ pc \in {"idle", "recv", "cut", "closed"}
    BY DEF Init
  <2>4. QED
    BY <2>1, <2>2, <2>3 DEF TypeOK
<1>2. LengthInv
  BY DEF Init, LengthInv
<1>3. WholeFrames /\ Len(handed) <= Len(frames)
  BY DEF Init, WholeFrames
<1>4. bufleft \o unhandled \o socket = << >> /\ Len(handed) + 1 = Len(frames) + 1
  BY DEF Init
<1>5. FollowsOn(bufleft \o unhandled \o socket, Len(handed) + 1, frames)
  <2>1. DOMAIN << >> = {}
    OBVIOUS
  <2>2. QED
    BY <1>4, <2>1 DEF FollowsOn
<1>6. QED
  BY <1>1, <1>2, <1>3, <1>5 DEF IndInv

\* A buffer with two bytes tells the length of the frame begun in it.
LEMMA LengthRead ==
    ASSUME IndInv, NEW buf \in Seq(Bytes), LengthKnown(buf),
           FollowsOn(buf \o socket, Len(handed) + 1, frames)
    PROVE  /\ LengthsAt(buf) = {frames[Len(handed) + 1]}
           /\ frames[Len(handed) + 1] \in LenField..MaxFrameLen
           /\ Len(handed) + 1 \in DOMAIN frames
<1> DEFINE n == Len(handed) + 1
           s == buf \o socket
<1>1. /\ s \in Seq(Bytes) /\ Len(s) = Len(buf) + Len(socket) /\ Len(buf) >= 2
      /\ s[1] = buf[1] /\ s[2] = buf[2] /\ Len(socket) \in Nat
  BY TypesOf DEF LengthKnown, LenField
<1>2. n \in Nat /\ frames \in Seq(FrameLens) /\ FollowsOn(s, n, frames)
  BY TypesOf
<1> HIDE DEF n, s
<1>3. s # << >>
  BY <1>1
<1>4. /\ n \in DOMAIN frames /\ frames[n] \in LenField..MaxFrameLen
      /\ \A j \in 1..frames[n] : s[j] = <<n, j>>
  BY <1>1, <1>2, <1>3, FollowsParts
<1>5. buf[1] = <<n, 1>> /\ buf[2] = <<n, 2>>
  <2>1. 1 \in 1..frames[n] /\ 2 \in 1..frames[n]
    BY <1>4, FrameAssumption DEF LenField
  <2>2. QED
    BY <2>1, <1>1, <1>4
<1>6. LengthsAt(buf) = {frames[n]}
  <2>1. buf[1][1] = n /\ buf[1][2] = 1
    BY <1>5
  <2>2. QED
    BY <2>1, <1>5 DEF LengthsAt
<1>7. QED
  BY <1>4, <1>6 DEF n

\* Returning a frame, or 0, from a buffer that follows on.
LEMMA ReturnStep ==
    ASSUME IndInv, NEW buf \in Seq(Bytes), Len(buf) <= MaxFrameLen,
           FollowsOn(buf \o socket, Len(handed) + 1, frames),
           NEW len \in Nat,
           len = 0 \/ (LengthKnown(buf) /\ len = frames[Len(handed) + 1]),
           Complete(buf, len), Return(buf, len), UNCHANGED <<clientVars, socket>>
    PROVE  IndInv'
<1> DEFINE n == Len(handed) + 1
<1>1. /\ frames \in Seq(FrameLens) /\ Len(frames) \in Nat
      /\ handed \in Seq(Seq(Bytes)) /\ n \in Nat /\ Len(handed) \in Nat
      /\ socket \in Seq(Bytes) /\ Len(handed) <= Len(frames)
      /\ Len(buf) \in Nat /\ len <= Len(buf) /\ MaxFrameLen \in Nat
  BY TypesOf, FrameAssumption DEF Complete, IndInv
<1>2. /\ unhandled' = SubSeq(buf, len + 1, Len(buf)) /\ bufleft' = << >>
      /\ haslen' = FALSE /\ framelen' = 0
      /\ UNCHANGED <<frames, open, socket>>
  BY DEF Return, Rest, clientVars
<1>3. unhandled' \in Seq(Bytes) /\ Len(unhandled') <= MaxFrameLen
  <2>1. Len(SubSeq(buf, len + 1, Len(buf))) = Len(buf) - len
    BY <1>1, LenRest
  <2>2. SubSeq(buf, len + 1, Len(buf)) \in Seq(Bytes)
    BY <1>1
  <2>3. QED
    BY <2>1, <2>2, <1>1, <1>2
<1>4. CASE len = 0
  <2>1. pc' = "closed" /\ handed' = handed
    BY <1>4 DEF Return
  <2>2. TypeOK'
    <3>1. bufleft' \in Seq(Bytes) /\ Len(bufleft') <= MaxFrameLen
      BY <1>1, <1>2, EmptySeq
    <3>2. framelen' \in 0..MaxFrameLen
      BY <1>1, <1>2
    <3>3. QED
      BY <1>2, <1>3, <2>1, <3>1, <3>2 DEF IndInv, TypeOK
  <2>3. LengthInv'
    BY <2>1 DEF LengthInv
  <2>4. WholeFrames'
    BY <1>2, <2>1 DEF IndInv, WholeFrames
  <2>5. QED
    BY <1>1, <1>2, <2>1, <2>2, <2>3, <2>4 DEF IndInv
<1>5. CASE len # 0
  <2>1. /\ pc' = "idle" /\ handed' = Append(handed, SubSeq(buf, 1, len))
        /\ len = frames[n] /\ LengthKnown(buf)
    BY <1>5 DEF Return
  <2>2. n \in DOMAIN frames
    BY <2>1, LengthRead
  <2> DEFINE s == buf \o socket
  <2>3. s \in Seq(Bytes) /\ s # << >>
    BY <2>1, <1>1 DEF LengthKnown, LenField
  <2>4. /\ SubSeq(s, 1, len) = FrameBytes(n, len)
        /\ FollowsOn(SubSeq(s, len + 1, Len(s)), n + 1, frames)
    BY <2>1, <2>3, <1>1, FollowsDrop
  <2>5. /\ SubSeq(s, 1, len) = SubSeq(buf, 1, len)
        /\ SubSeq(s, len + 1, Len(s)) = unhandled' \o socket
    <3>1. len \in 0..Len(buf)
      BY <1>1
    <3>2. QED
      BY <3>1, <1>1, <1>2, CutOff
  <2> HIDE DEF s
  <2>6. /\ handed' \in Seq(Seq(Bytes)) /\ Len(handed') = n
        /\ \A i \in 1..Len(handed) : handed'[i] = handed[i]
        /\ handed'[n] = FrameBytes(n, frames[n])
    <3>1. SubSeq(buf, 1, len) \in Seq(Bytes)
      BY <1>1
    <3>2. /\ handed' \in Seq(Seq(Bytes)) /\ Len(handed') = Len(handed) + 1
          /\ \A i \in 1..Len(handed) : handed'[i] = handed[i]
          /\ handed'[Len(handed) + 1] = SubSeq(buf, 1, len)
      BY <3>1, <2>1, <1>1, AppendProperties
    <3>3. QED
      BY <3>2, <2>1, <2>4, <2>5
  <2>7. TypeOK'
    <3>1. bufleft' \in Seq(Bytes) /\ Len(bufleft') <= MaxFrameLen
      BY <1>1, <1>2, EmptySeq
    <3>2. framelen' \in 0..MaxFrameLen
      BY <1>1, <1>2
    <3>3. QED
      BY <1>2, <1>3, <2>1, <2>6, <3>1, <3>2 DEF IndInv, TypeOK
  <2>8. LengthInv'
    BY <1>2, <2>1 DEF LengthInv
  <2>9. WholeFrames' /\ Len(handed') <= Len(frames')
    <3>1. \A i \in 1..Len(handed) : handed[i] = FrameBytes(i, frames[i])
      BY <1>1 DEF IndInv, WholeFrames
    <3>2. ASSUME NEW i \in 1..n
          PROVE  handed'[i] = FrameBytes(i, frames[i])
      <4>1. i = n \/ i \in 1..Len(handed)
        BY <1>1
      <4>2. QED
        BY <4>1, <3>1, <2>6
    <3>3. DOMAIN handed' = 1..n /\ n <= Len(frames)
      BY <2>2, <2>6, <1>1
    <3>4. QED
      BY <3>2, <3>3, <2>6, <1>2 DEF WholeFrames
  <2>10. FollowsOn(bufleft' \o unhandled' \o socket', Len(handed') + 1, frames')
    <3>1. bufleft' \o unhandled' = unhandled'
      BY <1>2, <1>3, ConcatEmptySeq
    <3>2. QED
      BY <3>1, <2>4, <2>5, <2>6, <1>2
  <2>11. QED
    BY <2>7, <2>8, <2>9, <2>10 DEF IndInv
<1>6. QED
  BY <1>4, <1>5

\* Starting on the left-over bytes keeps the invariant.
LEMMA BeginStep == IndInv /\ Begin => IndInv'
<1> SUFFICES ASSUME IndInv, Begin PROVE IndInv'
  OBVIOUS
<1>1. /\ pc = "idle" /\ bufleft = << >> /\ UNCHANGED <<frames, open, socket>>
      /\ unhandled \in Seq(Bytes) /\ Len(unhandled) <= MaxFrameLen
      /\ Len(unhandled) \in Nat /\ MaxFrameLen \in Nat
  BY FrameAssumption DEF Begin, clientVars, IndInv, TypeOK, LengthInv
<1>2. FollowsOn(unhandled \o socket, Len(handed) + 1, frames)
  <2>1. << >> \o unhandled = unhandled
    BY <1>1, ConcatEmptySeq
  <2>2. QED
    BY <2>1, <1>1 DEF IndInv
<1>3. ASSUME NEW len \in 0..MaxFrameLen,
             bufleft' = unhandled, unhandled' = << >>, pc' = "recv",
             framelen' = len, UNCHANGED handed,
             IF haslen' THEN /\ LengthKnown(unhandled) /\ ~Complete(unhandled, len)
                             /\ len = frames[Len(handed) + 1]
             ELSE haslen' = FALSE /\ len = 0 /\ ~LengthKnown(unhandled),
             haslen' \in BOOLEAN
      PROVE  IndInv'
  <2>1. Len(unhandled') <= MaxFrameLen /\ unhandled' \in Seq(Bytes)
    BY <1>1, <1>3, EmptySeq
  <2>2. TypeOK'
    BY <1>1, <1>3, <2>1 DEF IndInv, TypeOK
  <2>3. LengthInv'
    BY <1>1, <1>3 DEF LengthInv, LengthKnown, Complete
  <2>4. WholeFrames' /\ Len(handed') <= Len(frames')
    BY <1>1, <1>3 DEF IndInv, WholeFrames
  <2>5. bufleft' \o unhandled' = unhandled
    BY <1>1, <1>3, ConcatEmptySeq
  <2>6. FollowsOn(bufleft' \o unhandled' \o socket', Len(handed') + 1, frames')
    BY <2>5, <1>1, <1>2, <1>3
  <2>7. QED
    BY <2>2, <2>3, <2>4, <2>6 DEF IndInv
<1>4. CASE ~LengthKnown(unhandled)
  <2>1. 0 \in 0..MaxFrameLen
    BY <1>1
  <2>2. /\ haslen' = FALSE /\ framelen' = 0 /\ bufleft' = unhandled
        /\ unhandled' = << >> /\ pc' = "recv" /\ UNCHANGED handed
    BY <1>4 DEF Begin
  <2>3. QED
    BY <2>1, <2>2, <1>3, <1>4
<1>5. CASE LengthKnown(unhandled)
  <2>1. /\ LengthsAt(unhandled) = {frames[Len(handed) + 1]}
        /\ frames[Len(handed) + 1] \in LenField..MaxFrameLen
    BY <1>1, <1>2, <1>5, LengthRead
  <2>2. PICK len \in LengthsAt(unhandled) :
            \/ Complete(unhandled, len) /\ Return(unhandled, len)
            \/ /\ ~Complete(unhandled, len)
               /\ haslen' = TRUE /\ framelen' = len
               /\ bufleft' = unhandled /\ unhandled' = << >> /\ pc' = "recv"
               /\ UNCHANGED handed
    BY <1>5 DEF Begin
  <2>3. len = frames[Len(handed) + 1] /\ len \in 0..MaxFrameLen /\ len \in Nat
    BY <2>1, <2>2, <1>1 DEF LenField
  <2>4. CASE Complete(unhandled, len) /\ Return(unhandled, len)
    BY <2>3, <2>4, <1>1, <1>2, <1>5, ReturnStep DEF clientVars
  <2>5. CASE ~Complete(unhandled, len)
    BY <2>2, <2>3, <2>5, <1>3, <1>5
  <2>6. QED
    BY <2>2, <2>4, <2>5
<1>6. QED
  BY <1>4, <1>5

\* recv() moves bytes from the socket to the buffer; the two follow on as before.
LEMMA RecvStep == ASSUME NEW k \in 1..MaxFrameLen PROVE IndInv /\ Recv(k) => IndInv'
<1> SUFFICES ASSUME IndInv, Recv(k) PROVE IndInv'
  OBVIOUS
<1>1. /\ pc = "recv" /\ pc' = "cut" /\ unhandled = << >>
      /\ k \in 0..Len(socket) /\ k <= MaxFrameLen - Len(bufleft)
      /\ ~SplitsHeader => Len(bufleft) + k >= LenField
      /\ socket' = SubSeq(socket, k + 1, Len(socket))
      /\ bufleft' = bufleft \o SubSeq(socket, 1, k)
      /\ UNCHANGED <<frames, open, unhandled, haslen, framelen, handed>>
      /\ socket \in Seq(Bytes) /\ bufleft \in Seq(Bytes)
      /\ MaxFrameLen \in Nat /\ Len(bufleft) \in Nat
  BY FrameAssumption DEF Recv, Room, clientVars, IndInv, TypeOK, LengthInv
<1>2. /\ socket' \in Seq(Bytes) /\ bufleft' \in Seq(Bytes)
      /\ Len(bufleft') = Len(bufleft) + k
  <2>1. SubSeq(socket, 1, k) \in Seq(Bytes) /\ Len(SubSeq(socket, 1, k)) = k
    BY <1>1
  <2>2. SubSeq(socket, k + 1, Len(socket)) \in Seq(Bytes)
    BY <1>1
  <2>3. QED
    BY <2>1, <2>2, <1>1, ConcatProperties
<1>3. TypeOK'
  <2>1. Len(bufleft') <= MaxFrameLen
    BY <1>1, <1>2
  <2>2. QED
    BY <2>1, <1>1, <1>2 DEF IndInv, TypeOK
<1>4. LengthInv'
  <2>1. IF haslen THEN LengthKnown(bufleft) /\ framelen = frames[Len(handed) + 1]
        ELSE framelen = 0
    BY <1>1 DEF IndInv, LengthInv
  <2>2. LengthKnown(bufleft) => LengthKnown(bufleft')
    BY <1>1, <1>2 DEF LengthKnown, LenField
  <2>3. ~SplitsHeader => LengthKnown(bufleft')
    BY <1>1, <1>2 DEF LengthKnown
  <2>4. IF haslen' THEN LengthKnown(bufleft') /\ framelen' = frames'[Len(handed') + 1]
        ELSE framelen' = 0
    BY <2>1, <2>2, <1>1
  <2>5. QED
    BY <2>3, <2>4, <1>1 DEF LengthInv, LengthKnown
<1>5. WholeFrames' /\ Len(handed') <= Len(frames')
  BY <1>1 DEF IndInv, WholeFrames
<1>6. FollowsOn(bufleft' \o unhandled' \o socket', Len(handed') + 1, frames')
  <2>1. bufleft' \o socket' = bufleft \o socket
    BY <1>1, Rejoin
  <2>2. bufleft \o unhandled = bufleft /\ bufleft' \o unhandled' = bufleft'
    BY <1>1, <1>2, ConcatEmptySeq
  <2>3. FollowsOn(bufleft \o unhandled \o socket, Len(handed) + 1, frames)
    BY <1>1 DEF IndInv
  <2>4. QED
    BY <2>1, <2>2, <2>3, <1>1
<1>7. QED
  BY <1>3, <1>4, <1>5, <1>6 DEF IndInv

\* In the loop, the buffer and the socket follow on.
LEMMA InLoop ==
    ASSUME IndInv, pc \in {"recv", "cut"}
    PROVE  /\ FollowsOn(bufleft \o socket, Len(handed) + 1, frames)
           /\ unhandled = << >>
           /\ IF haslen
              THEN LengthKnown(bufleft) /\ framelen = frames[Len(handed) + 1]
              ELSE framelen = 0
<1>1. unhandled = << >> /\ bufleft \in Seq(Bytes)
  BY DEF IndInv, LengthInv, TypeOK
<1>2. bufleft \o unhandled = bufleft
  BY <1>1, ConcatEmptySeq
<1>3. FollowsOn(bufleft \o unhandled \o socket, Len(handed) + 1, frames)
  BY DEF IndInv
<1>4. QED
  BY <1>1, <1>2, <1>3 DEF IndInv, LengthInv

\* Reading the length field, or returning a frame, keeps the invariant.
LEMMA CutStep == IndInv /\ Cut => IndInv'
<1> SUFFICES ASSUME IndInv, Cut PROVE IndInv'
  OBVIOUS
<1>1. /\ pc = "cut" /\ UNCHANGED <<frames, open, socket>>
      /\ bufleft \in Seq(Bytes) /\ Len(bufleft) <= MaxFrameLen
      /\ framelen \in 0..MaxFrameLen /\ haslen \in BOOLEAN
      /\ MaxFrameLen \in Nat /\ Len(bufleft) \in Nat
  BY FrameAssumption DEF Cut, clientVars, IndInv, TypeOK
<1>2. /\ FollowsOn(bufleft \o socket, Len(handed) + 1, frames)
      /\ unhandled = << >>
      /\ IF haslen
         THEN LengthKnown(bufleft) /\ framelen = frames[Len(handed) + 1]
         ELSE framelen = 0
  BY <1>1, InLoop
<1>3. PICK len \in IF haslen \/ ~LengthKnown(bufleft) THEN {framelen}
                   ELSE LengthsAt(bufleft) :
         \/ Complete(bufleft, len) /\ Return(bufleft, len)
         \/ /\ ~Complete(bufleft, len)
            /\ haslen' = (haslen \/ LengthKnown(bufleft))
            /\ framelen' = len
            /\ pc' = "recv"
            /\ UNCHANGED <<bufleft, unhandled, handed>>
  BY DEF Cut
<1>4. /\ len \in 0..MaxFrameLen /\ len \in Nat
      /\ IF LengthKnown(bufleft) THEN len = frames[Len(handed) + 1] ELSE len = 0
  <2>1. CASE haslen \/ ~LengthKnown(bufleft)
    BY <2>1, <1>1, <1>2, <1>3
  <2>2. CASE ~haslen /\ LengthKnown(bufleft)
    <3>1. /\ LengthsAt(bufleft) = {frames[Len(handed) + 1]}
          /\ frames[Len(handed) + 1] \in LenField..MaxFrameLen
      BY <2>2, <1>1, <1>2, LengthRead
    <3>2. QED
      BY <3>1, <2>2, <1>1, <1>3 DEF LenField
  <2>3. QED
    BY <2>1, <2>2
<1>5. CASE Complete(bufleft, len) /\ Return(bufleft, len)
  BY <1>1, <1>2, <1>4, <1>5, ReturnStep DEF clientVars
<1>6. CASE ~Complete(bufleft, len)
  <2>1. /\ haslen' = (haslen \/ LengthKnown(bufleft)) /\ framelen' = len
        /\ pc' = "recv" /\ UNCHANGED <<bufleft, unhandled, handed>>
    BY <1>3, <1>6
  <2>2. LengthKnown(bufleft)
    BY <1>1, <1>4, <1>6 DEF Complete
  <2>3. TypeOK'
    <3>1. haslen' \in BOOLEAN
      BY <2>1
    <3>2. QED
      BY <3>1, <2>1, <1>1, <1>4 DEF IndInv, TypeOK
  <2>4. LengthInv'
    BY <2>1, <2>2, <1>1, <1>2, <1>4, <1>6 DEF LengthInv, LengthKnown, Complete
  <2>5. WholeFrames' /\ Len(handed') <= Len(frames')
    BY <2>1, <1>1 DEF IndInv, WholeFrames
  <2>6. FollowsOn(bufleft' \o unhandled' \o socket', Len(handed') + 1, frames')
    BY <2>1, <1>1 DEF IndInv
  <2>7. QED
    BY <2>3, <2>4, <2>5, <2>6 DEF IndInv
<1>7. QED
  BY <1>3, <1>5, <1>6

\* So does the end of the link,
LEMMA RecvZeroStep == IndInv /\ RecvZero => IndInv'
<1> SUFFICES ASSUME IndInv, RecvZero PROVE IndInv'
  OBVIOUS
<1>1. /\ pc' = "closed" /\ bufleft' = << >> /\ haslen' = FALSE /\ framelen' = 0
      /\ UNCHANGED <<frames, open, socket, unhandled, handed>>
      /\ MaxFrameLen \in Nat
  BY FrameAssumption DEF RecvZero, clientVars
<1>2. TypeOK'
  <2>1. /\ bufleft' \in Seq(Bytes) /\ Len(bufleft') <= MaxFrameLen
        /\ framelen' \in 0..MaxFrameLen
    BY <1>1, EmptySeq
  <2>2. QED
    BY <2>1, <1>1 DEF IndInv, TypeOK
<1>3. LengthInv'
  BY <1>1 DEF LengthInv
<1>4. WholeFrames' /\ Len(handed') <= Len(frames')
  BY <1>1 DEF IndInv, WholeFrames
<1>5. QED
  BY <1>1, <1>2, <1>3, <1>4 DEF IndInv

\* a frame the client writes,
LEMMA WriteStep == ASSUME NEW len \in FrameLens PROVE IndInv /\ ClientWrite(len) => IndInv'
<1> SUFFICES ASSUME IndInv, ClientWrite(len) PROVE IndInv'
  OBVIOUS
<1> DEFINE b == FrameBytes(Len(frames) + 1, len)
<1>1. /\ Len(frames) < MaxFrames /\ frames' = Append(frames, len)
      /\ socket' = socket \o b
      /\ UNCHANGED <<open, unhandled, pc, bufleft, haslen, framelen, handed>>
  BY DEF ClientWrite
<1>2. /\ frames \in Seq(FrameLens) /\ Len(frames) \in Nat /\ Len(handed) \in Nat
      /\ Len(handed) <= Len(frames) /\ socket \in Seq(Bytes)
      /\ bufleft \in Seq(Bytes) /\ unhandled \in Seq(Bytes)
      /\ MaxFrames \in Nat /\ len \in Nat /\ len <= MaxFrameLen
      /\ MaxFrameLen \in Nat
  BY FrameAssumption DEF IndInv, TypeOK, LenField
<1>3. b \in Seq(Bytes)
  <2>1. \A j \in 1..len : <<Len(frames) + 1, j>> \in Bytes
    BY <1>1, <1>2 DEF Bytes
  <2>2. QED
    BY <2>1, <1>2 DEF FrameBytes
<1> HIDE DEF b
<1>4. /\ frames' \in Seq(FrameLens) /\ Len(frames') = Len(frames) + 1
      /\ \A i \in 1..Len(frames) : frames'[i] = frames[i]
      /\ socket' \in Seq(Bytes)
  <2>1. socket' \in Seq(Bytes)
    BY <1>1, <1>2, <1>3, ConcatProperties
  <2>2. QED
    BY <2>1, <1>1, <1>2, AppendProperties
<1>5. TypeOK'
  BY <1>1, <1>4 DEF IndInv, TypeOK
<1>6. FollowsOn(bufleft' \o unhandled' \o socket', Len(handed') + 1, frames')
      \/ pc = "closed"
  <2> SUFFICES ASSUME pc # "closed"
               PROVE  FollowsOn(bufleft' \o unhandled' \o socket', Len(handed') + 1, frames')
    OBVIOUS
  <2> DEFINE a == bufleft \o unhandled
  <2>1. a \in Seq(Bytes)
    BY <1>2, ConcatProperties
  <2>2. FollowsOn(a \o socket, Len(handed) + 1, frames)
    BY DEF IndInv
  <2> HIDE DEF a
  <2>3. a \o socket \in Seq(Bytes) /\ Len(handed) + 1 \in Nat
    BY <2>1, <1>2, ConcatProperties
  <2>4. FollowsOn((a \o socket) \o b, Len(handed) + 1, frames')
    BY <2>2, <2>3, <1>1, <1>2, FollowsAppend DEF b
  <2>5. (a \o socket) \o b = a \o socket'
    <3>1. socket \in Seq(Bytes) /\ socket' = socket \o b
      BY <1>1, <1>2
    <3>2. (a \o socket) \o b = a \o (socket \o b)
      BY <2>1, <1>3, <3>1, ConcatAssociative
    <3>3. QED
      BY <3>1, <3>2
  <2>6. QED
    BY <2>4, <2>5, <1>1 DEF a
<1>7. LengthInv'
  <2>1. CASE pc \in {"recv", "cut"} /\ haslen
    <3>1. /\ FollowsOn(bufleft \o socket, Len(handed) + 1, frames)
          /\ LengthKnown(bufleft)
      BY <2>1, InLoop
    <3>2. Len(handed) + 1 \in 1..Len(frames)
      BY <3>1, <1>2, LengthRead
    <3>3. frames'[Len(handed) + 1] = frames[Len(handed) + 1]
      BY <3>2, <1>4
    <3>4. QED
      BY <3>3, <1>1 DEF IndInv, LengthInv, LengthKnown, Complete
  <2>2. CASE ~(pc \in {"recv", "cut"} /\ haslen)
    BY <2>2, <1>1 DEF IndInv, LengthInv, LengthKnown, Complete
  <2>3. QED
    BY <2>1, <2>2
<1>8. WholeFrames' /\ Len(handed') <= Len(frames')
  <2>1. Len(handed') <= Len(frames')
    BY <1>1, <1>2, <1>4
  <2>2. DOMAIN handed = 1..Len(handed)
    BY DEF IndInv, TypeOK
  <2>3. ASSUME NEW i \in DOMAIN handed
        PROVE  handed[i] = FrameBytes(i, frames'[i])
    <3>1. i \in 1..Len(frames)
      BY <2>2, <1>2
    <3>2. QED
      BY <3>1, <1>4 DEF IndInv, WholeFrames
  <2>4. QED
    BY <2>1, <2>3, <1>1 DEF WholeFrames
<1>9. QED
  BY <1>1, <1>5, <1>6, <1>7, <1>8 DEF IndInv

\* its close,
LEMMA CloseStep == IndInv /\ ClientClose => IndInv'
<1> SUFFICES ASSUME IndInv, ClientClose PROVE IndInv'
  OBVIOUS
<1>1. /\ open' = FALSE
      /\ UNCHANGED <<frames, socket, unhandled, pc, bufleft, haslen, framelen, handed>>
  BY DEF ClientClose
<1>2. TypeOK'
  BY <1>1 DEF IndInv, TypeOK
<1>3. LengthInv' /\ WholeFrames'
  BY <1>1 DEF IndInv, LengthInv, LengthKnown, Complete, WholeFrames
<1>4. QED
  BY <1>1, <1>2, <1>3 DEF IndInv

\* and a step that changes nothing.
LEMMA StutterStep == IndInv /\ UNCHANGED vars => IndInv'
<1> SUFFICES ASSUME IndInv, UNCHANGED vars PROVE IndInv'
  OBVIOUS
<1>1. UNCHANGED <<frames, open, socket, unhandled, pc, bufleft, haslen, framelen, handed>>
  BY DEF vars, clientVars
<1>2. TypeOK'
  BY <1>1 DEF IndInv, TypeOK
<1>3. LengthInv' /\ WholeFrames'
  BY <1>1 DEF IndInv, LengthInv, LengthKnown, Complete, WholeFrames
<1>4. QED
  BY <1>1, <1>2, <1>3 DEF IndInv

\* No step of RecvOneFrame or of the client breaks the invariant.
LEMMA NextInv == IndInv /\ [Next]_vars => IndInv'
<1> SUFFICES ASSUME IndInv, [Next]_vars PROVE IndInv'
  OBVIOUS
<1>1. CASE Begin
  BY <1>1, BeginStep
<1>2. ASSUME NEW k \in 1..MaxFrameLen, Recv(k) PROVE IndInv'
  BY <1>2, RecvStep
<1>3. CASE Cut
  BY <1>3, CutStep
<1>4. CASE RecvZero
  BY <1>4, RecvZeroStep
<1>5. ASSUME NEW len \in FrameLens, ClientWrite(len) PROVE IndInv'
  BY <1>5, WriteStep
<1>6. CASE ClientClose
  BY <1>6, CloseStep
<1>7. CASE UNCHANGED vars
  BY <1>7, StutterStep
<1>8. QED
  BY <1>1, <1>2, <1>3, <1>4, <1>5, <1>6, <1>7 DEF Next, Receive, Client

\* For every buffer size, every set of frame lengths and every way recv() may
\* cut the bytes, the invariant holds of RecvOneFrame (RecvOneFrame.c:49-198).
THEOREM Inductive == Spec => []IndInv
<1>1. QED
  BY InitInv, NextInv, PTL DEF Spec

\* The variables of RecvOneFrame keep their types: its buffers never overflow.
THEOREM TypeCorrect == Spec => []TypeOK
<1>1. IndInv => TypeOK
  BY DEF IndInv
<1>2. QED
  BY <1>1, Inductive, PTL

\* Every frame handed to a handler is whole, and the next one the client wrote
\* (RecvOneFrame.c:113-114, 179-180).
THEOREM FramesAreWhole == Spec => []WholeFrames
<1>1. IndInv => WholeFrames
  BY DEF IndInv
<1>2. QED
  BY <1>1, Inductive, PTL

\* recv() is never asked for 0 bytes, which its caller would take for a closed
\* connection (RecvOneFrame.c:139-155).
LEMMA RoomInv == IndInv => RoomToRecv
<1> SUFFICES ASSUME IndInv, pc = "recv" PROVE Len(bufleft) < MaxFrameLen
  BY DEF RoomToRecv
<1>1. /\ FollowsOn(bufleft \o socket, Len(handed) + 1, frames)
      /\ IF haslen
         THEN LengthKnown(bufleft) /\ framelen = frames[Len(handed) + 1]
         ELSE framelen = 0
  BY InLoop
<1>2. bufleft \in Seq(Bytes) /\ Len(bufleft) \in Nat /\ framelen \in 0..MaxFrameLen
  BY DEF IndInv, TypeOK
<1>3. CASE haslen
  <2>1. ~Complete(bufleft, framelen)
    BY <1>3 DEF IndInv, LengthInv
  <2>2. QED
    BY <2>1, <1>2, FrameAssumption DEF Complete
<1>4. CASE ~haslen
  <2>1. Len(bufleft) < LenField
    BY <1>4, <1>2 DEF IndInv, LengthInv, LengthKnown, LenField
  <2>2. PICK l \in FrameLens : l \in LenField..MaxFrameLen
    BY FrameAssumption
  <2>3. QED
    BY <2>1, <2>2, <1>2, FrameAssumption DEF LenField
<1>5. QED
  BY <1>3, <1>4

\* The buffer always has room for the frame begun in it.
THEOREM AlwaysRoom == Spec => []RoomToRecv
<1>1. QED
  BY RoomInv, Inductive, PTL

-----------------------------------------------------------------------------
(* No byte is lost *)

\* What bytes are when their numbers have no bounds.
Pairs == Nat \X Nat

\* A sequence of bytes is one of pairs of numbers, whatever their bounds.
LEMMA BytesArePairs ==
    IndInv => /\ handed \in Seq(Seq(Pairs)) /\ bufleft \in Seq(Pairs)
              /\ unhandled \in Seq(Pairs) /\ socket \in Seq(Pairs)
<1>1. ASSUME NEW s \in Seq(Bytes) PROVE s \in Seq(Pairs)
  BY FrameAssumption DEF Bytes, Pairs
<1>2. ASSUME NEW ss \in Seq(Seq(Bytes)) PROVE ss \in Seq(Seq(Pairs))
  BY <1>1
<1>. QED
  BY <1>1, <1>2, TypesOf

\* What one more frame adds to the bytes written.
LEMMA WrittenAppend ==
    ASSUME IndInv, NEW len \in FrameLens, frames' = Append(frames, len)
    PROVE  /\ Written \in Seq(Pairs)
           /\ FrameBytes(Len(frames) + 1, len) \in Seq(Pairs)
           /\ Written' = Written \o FrameBytes(Len(frames) + 1, len)
<1>. DEFINE m == Len(frames) + 1
            b == FrameBytes(m, len)
            ss == [n \in DOMAIN frames |-> FrameBytes(n, frames[n])]
            tt == [n \in DOMAIN frames' |-> FrameBytes(n, frames'[n])]
<1>1. /\ frames \in Seq(FrameLens) /\ Len(frames) \in Nat /\ m \in Nat
      /\ DOMAIN frames = 1..Len(frames) /\ DOMAIN frames' = 1..m
      /\ \A n \in 1..Len(frames) : frames'[n] = frames[n]
      /\ frames'[m] = len
  BY TypesOf
<1>2. ASSUME NEW n \in Nat, NEW l \in FrameLens PROVE FrameBytes(n, l) \in Seq(Pairs)
  <2>1. l \in Nat
    BY FrameAssumption DEF LenField
  <2>. QED
    BY <2>1 DEF FrameBytes, Pairs
<1>3. ss \in Seq(Seq(Pairs)) /\ Len(ss) = Len(frames) /\ b \in Seq(Pairs)
  <2>1. \A n \in 1..Len(frames) : FrameBytes(n, frames[n]) \in Seq(Pairs)
    BY <1>1, <1>2
  <2>. QED
    BY <1>1, <1>2, <2>1
<1>4. tt = Append(ss, b)
  <2>1. /\ Append(ss, b) \in Seq(Seq(Pairs)) /\ Len(Append(ss, b)) = m
        /\ \A n \in 1..Len(frames) : Append(ss, b)[n] = ss[n]
        /\ Append(ss, b)[m] = b
    <3>. HIDE DEF ss, b
    <3>. QED
      BY <1>3, AppendProperties
  <2>2. ASSUME NEW n \in 1..m PROVE tt[n] = Append(ss, b)[n]
    <3>1. CASE n = m
      BY <1>1, <2>1, <3>1
    <3>2. CASE n # m
      <4>1. n \in 1..Len(frames)
        BY <1>1, <3>2
      <4>2. tt[n] = FrameBytes(n, frames[n]) /\ ss[n] = FrameBytes(n, frames[n])
        BY <1>1, <4>1
      <4>. QED
        BY <2>1, <4>1, <4>2
    <3>. QED
      BY <3>1, <3>2
  <2>3. tt = [n \in 1..m |-> tt[n]]
    BY <1>1
  <2>4. Append(ss, b) = [n \in 1..m |-> Append(ss, b)[n]]
    <3>. DEFINE uu == Append(ss, b)
    <3>1. uu \in Seq(Seq(Pairs)) /\ Len(uu) = m
      BY <2>1
    <3>. HIDE DEF uu
    <3>2. uu = [n \in 1..m |-> uu[n]]
      BY <1>1, <3>1
    <3>. QED
      BY <3>2 DEF uu
  <2>. HIDE DEF tt, ss, b
  <2>. QED
    BY <2>2, <2>3, <2>4
<1>5. Written = FlattenSeq(ss) /\ Written' = FlattenSeq(tt)
  BY DEF Written, FrameBytes
<1>. HIDE DEF ss, tt, b
<1>. QED
  BY <1>3, <1>4, <1>5, FlattenType, FlattenAppend DEF b

\* A frame cut off a buffer is added to those handed over; the rest is kept.
LEMMA ReturnKeeps ==
    ASSUME IndInv, NEW buf \in Seq(Pairs), NEW len \in 0..Len(buf),
           FlattenSeq(handed) \o buf \o socket = Written,
           Return(buf, len), UNCHANGED <<frames, socket>>
    PROVE  NothingLost'
<1>. DEFINE F == FlattenSeq(handed)
            a == SubSeq(buf, 1, len)
            b == SubSeq(buf, len + 1, Len(buf))
<1>. SUFFICES ASSUME pc' # "closed"
              PROVE  FlattenSeq(handed') \o bufleft' \o unhandled' \o socket' = Written'
  BY DEF NothingLost
<1>1. handed' = Append(handed, a) /\ unhandled' = b /\ bufleft' = << >>
  BY DEF Return, Rest
<1>2. F \in Seq(Pairs) /\ a \in Seq(Pairs) /\ b \in Seq(Pairs)
  BY BytesArePairs, FlattenType
<1>3. FlattenSeq(handed') = F \o a
  BY <1>1, <1>2, BytesArePairs, FlattenAppend
<1>4. (F \o a) \o b = F \o buf
  BY <1>2, Rejoin
<1>5. Written' = Written
  BY DEF Written, FrameBytes
<1>. HIDE DEF F, a, b
<1>6. (F \o a) \o << >> = F \o a
  BY <1>2, ConcatProperties, ConcatEmptySeq
<1>. QED
  BY <1>1, <1>3, <1>4, <1>5, <1>6 DEF F

\* In the loop nothing is left over: the buffer and the socket follow the
\* frames handed over. Between two calls the left-over bytes do.
LEMMA OneBuffer ==
    ASSUME IndInv, NothingLost, pc # "closed"
    PROVE  /\ pc = "idle" => FlattenSeq(handed) \o unhandled \o socket = Written
           /\ pc # "idle" => FlattenSeq(handed) \o bufleft \o socket = Written
<1>. DEFINE F == FlattenSeq(handed)
<1>1. /\ F \in Seq(Pairs) /\ bufleft \in Seq(Pairs) /\ unhandled \in Seq(Pairs)
      /\ pc = "idle" => bufleft = << >>
      /\ pc # "idle" => unhandled = << >>
  BY BytesArePairs, FlattenType DEF IndInv, LengthInv, TypeOK
<1>2. F \o bufleft \o unhandled \o socket = Written
  BY DEF NothingLost
<1>. HIDE DEF F
<1>3. F \o << >> = F /\ (F \o bufleft) \o << >> = F \o bufleft
  BY <1>1, ConcatProperties, ConcatEmptySeq
<1>. QED
  BY <1>1, <1>2, <1>3 DEF F

\* A step that only moves the left-over bytes to the buffer loses none.
LEMMA TakeOver ==
    ASSUME IndInv, FlattenSeq(handed) \o unhandled \o socket = Written,
           bufleft' = unhandled, unhandled' = << >>,
           UNCHANGED <<frames, socket, handed>>
    PROVE  NothingLost'
<1>. DEFINE F == FlattenSeq(handed)
<1>1. F \in Seq(Pairs) /\ unhandled \in Seq(Pairs)
  BY BytesArePairs, FlattenType
<1>2. FlattenSeq(handed') = F /\ Written' = Written
  BY DEF Written, FrameBytes
<1>. HIDE DEF F
<1>3. (F \o unhandled) \o << >> = F \o unhandled
  BY <1>1, ConcatProperties, ConcatEmptySeq
<1>. QED
  BY <1>2, <1>3 DEF F, NothingLost

\* No step loses, doubles or moves a byte.
LEMMA KeepsAll == IndInv /\ NothingLost /\ [Next]_vars => NothingLost'
<1>. SUFFICES ASSUME IndInv, NothingLost, [Next]_vars PROVE NothingLost'
  OBVIOUS
<1>. DEFINE F == FlattenSeq(handed)
<1>1. /\ handed \in Seq(Seq(Pairs)) /\ bufleft \in Seq(Pairs)
      /\ unhandled \in Seq(Pairs) /\ socket \in Seq(Pairs)
  BY BytesArePairs
<1>2. F \in Seq(Pairs)
  BY <1>1, FlattenType
<1>3. CASE Begin
  <2>1. pc = "idle" /\ UNCHANGED <<frames, socket>>
    BY <1>3 DEF Begin, clientVars
  <2>2. FlattenSeq(handed) \o unhandled \o socket = Written
    BY <2>1, OneBuffer
  <2>3. CASE bufleft' = unhandled /\ unhandled' = << >> /\ UNCHANGED handed
    BY <2>1, <2>2, <2>3, TakeOver
  <2>4. CASE /\ LengthKnown(unhandled)
             /\ \E len \in LengthsAt(unhandled) :
                   Complete(unhandled, len) /\ Return(unhandled, len)
    <3>1. PICK len \in LengthsAt(unhandled) :
              Complete(unhandled, len) /\ Return(unhandled, len)
      BY <2>4
    <3>2. len \in 0..Len(unhandled)
      <4>1. FollowsOn(unhandled \o socket, Len(handed) + 1, frames)
        <5>1. bufleft = << >> /\ unhandled \in Seq(Bytes)
          BY <2>1, TypesOf DEF IndInv, LengthInv
        <5>2. bufleft \o unhandled = unhandled
          BY <5>1, ConcatEmptySeq
        <5>. QED
          BY <2>1, <5>2 DEF IndInv
      <4>2. len \in LenField..MaxFrameLen
        BY <2>4, <3>1, <4>1, LengthRead, TypesOf
      <4>. QED
        BY <1>1, <3>1, <4>2, FrameAssumption DEF Complete, LenField
    <3>. QED
      BY <1>1, <2>1, <2>2, <3>1, <3>2, ReturnKeeps
  <2>. QED
    BY <1>3, <2>3, <2>4 DEF Begin
<1>4. ASSUME NEW k \in 1..MaxFrameLen, Recv(k) PROVE NothingLost'
  <2>1. /\ pc = "recv" /\ k \in 0..Len(socket)
        /\ socket' = SubSeq(socket, k + 1, Len(socket))
        /\ bufleft' = bufleft \o SubSeq(socket, 1, k)
        /\ UNCHANGED <<frames, unhandled, handed>>
    BY <1>1, <1>4, FrameAssumption DEF Recv, clientVars
  <2>2. unhandled = << >> /\ F \o bufleft \o socket = Written
    BY <2>1, OneBuffer, InLoop
  <2>3. /\ FlattenSeq(handed') = F /\ Written' = Written
    BY <2>1 DEF Written, FrameBytes
  <2>. DEFINE a == SubSeq(socket, 1, k)
              r == SubSeq(socket, k + 1, Len(socket))
  <2>4. a \in Seq(Pairs) /\ r \in Seq(Pairs)
    BY <1>1, <2>1
  <2>5. (F \o bufleft) \o a = F \o (bufleft \o a)
    BY <1>1, <1>2, <2>4, ConcatAssociative
  <2>6. ((F \o bufleft) \o a) \o r = (F \o bufleft) \o socket
    BY <1>1, <1>2, <2>1, Rejoin, ConcatProperties
  <2>. HIDE DEF F, a, r
  <2>7. F \o (bufleft \o a) \o << >> = F \o (bufleft \o a)
    BY <1>1, <1>2, <2>4, ConcatProperties, ConcatEmptySeq
  <2>. QED
    BY <2>1, <2>2, <2>3, <2>5, <2>6, <2>7 DEF NothingLost, a, r
<1>5. CASE Cut
  <2>1. pc = "cut" /\ UNCHANGED <<frames, socket>>
    BY <1>5 DEF Cut, clientVars
  <2>2. F \o bufleft \o socket = Written
    BY <2>1, OneBuffer
  <2>3. PICK len \in IF haslen \/ ~LengthKnown(bufleft) THEN {framelen}
                     ELSE LengthsAt(bufleft) :
           \/ Complete(bufleft, len) /\ Return(bufleft, len)
           \/ UNCHANGED <<bufleft, unhandled, handed>>
    BY <1>5 DEF Cut
  <2>4. CASE Complete(bufleft, len) /\ Return(bufleft, len)
    <3>1. len \in Nat
      <4>1. CASE haslen \/ ~LengthKnown(bufleft)
        BY <2>3, <4>1 DEF IndInv, TypeOK
      <4>2. CASE ~haslen /\ LengthKnown(bufleft)
        <5>1. len \in LenField..MaxFrameLen
          BY <2>1, <2>3, <4>2, InLoop, LengthRead, TypesOf
        <5>. QED
          BY <5>1, FrameAssumption DEF LenField
      <4>. QED
        BY <4>1, <4>2
    <3>2. len \in 0..Len(bufleft)
      BY <1>1, <2>4, <3>1 DEF Complete
    <3>. QED
      BY <1>1, <2>1, <2>2, <2>4, <3>2, ReturnKeeps
  <2>5. CASE UNCHANGED <<bufleft, unhandled, handed>>
    BY <2>1, <2>5 DEF NothingLost, Written, FrameBytes
  <2>. QED
    BY <2>3, <2>4, <2>5
<1>6. CASE RecvZero
  BY <1>6 DEF RecvZero, NothingLost
<1>7. ASSUME NEW len \in FrameLens, ClientWrite(len) PROVE NothingLost'
  <2>. DEFINE b == FrameBytes(Len(frames) + 1, len)
  <2>1. /\ frames' = Append(frames, len) /\ socket' = socket \o b
        /\ UNCHANGED <<pc, bufleft, unhandled, handed>>
    BY <1>7 DEF ClientWrite
  <2>2. Written' = Written \o b /\ b \in Seq(Pairs)
    BY <2>1, WrittenAppend
  <2>. DEFINE u == F \o bufleft \o unhandled
  <2>3. u \in Seq(Pairs) /\ FlattenSeq(handed') = F
    BY <1>1, <1>2, <2>1, ConcatProperties
  <2>4. F \o bufleft' \o unhandled' = u
    BY <2>1
  <2>5. pc # "closed" => u \o socket = Written
    BY DEF NothingLost
  <2>. HIDE DEF u, b, F
  <2>6. (u \o socket) \o b = u \o (socket \o b)
    BY <1>1, <2>2, <2>3, ConcatAssociative, SMTT(20)
  <2>7. FlattenSeq(handed') \o bufleft' \o unhandled' = u
    BY <2>3, <2>4
  <2>8. u \o socket' = (u \o socket) \o b
    BY <2>1, <2>6
  <2>9. pc' # "closed" => u \o socket' = Written'
    BY <2>1, <2>2, <2>5, <2>8
  <2>. QED
    BY <2>7, <2>9, Zenon DEF NothingLost
<1>8. CASE ClientClose
  BY <1>8 DEF ClientClose, NothingLost, Written, FrameBytes
<1>9. CASE UNCHANGED vars
  BY <1>9 DEF vars, clientVars, NothingLost, Written, FrameBytes
<1>. QED
  BY <1>3, <1>4, <1>5, <1>6, <1>7, <1>8, <1>9 DEF Next, Receive, Client

\* While a link is served no byte is lost, doubled or overtaken, for every
\* buffer size and frame length and whatever recv() returns: the frames handed
\* over, the buffers and the socket make up what the client wrote
\* (RecvOneFrame.c:49-198).
THEOREM NothingIsLost == Spec => []NothingLost
<1>1. Init => NothingLost
  <2>1. FlattenSeq(<< >>) = << >>
    BY DEF FlattenSeq
  <2>2. ASSUME Init PROVE Written = << >>
    <3>1. [n \in DOMAIN frames |-> FrameBytes(n, frames[n])] = << >>
      BY <2>2 DEF Init
    <3>. QED
      BY <2>1, <3>1 DEF Written
  <2>3. << >> \o << >> = << >>
    OBVIOUS
  <2>. QED
    BY <2>1, <2>2, <2>3 DEF Init, NothingLost
<1>. QED
  BY <1>1, KeepsAll, Inductive, PTL DEF Spec

-----------------------------------------------------------------------------
(* The stream of frames *)

\* Returning a frame is the stream handing one over.
LEMMA ReturnHands ==
    ASSUME IndInv, NEW buf \in Seq(Bytes), LengthKnown(buf), pc # "closed",
           FollowsOn(buf \o socket, Len(handed) + 1, frames),
           Complete(buf, frames[Len(handed) + 1]),
           Return(buf, frames[Len(handed) + 1]), UNCHANGED clientVars
    PROVE  Stream!Hand
<1>1. /\ frames[Len(handed) + 1] \in LenField..MaxFrameLen
      /\ Len(handed) + 1 \in 1..Len(frames)
      /\ Len(frames) \in Nat /\ handed \in Seq(Seq(Bytes))
  BY LengthRead, TypesOf
<1>2. frames[Len(handed) + 1] > 0 /\ frames[Len(handed) + 1] # 0
  BY <1>1, FrameAssumption DEF LenField
<1>3. /\ handed' = Append(handed, SubSeq(buf, 1, frames[Len(handed) + 1]))
      /\ pc' = "idle"
  BY <1>2 DEF Return
<1>4. Len(handed') = Len(handed) + 1 /\ Len(handed) < Len(frames)
  <2>1. SubSeq(buf, 1, frames[Len(handed) + 1]) \in Seq(Bytes)
    <3>1. /\ frames[Len(handed) + 1] \in Nat
          /\ frames[Len(handed) + 1] <= Len(buf)
      BY <1>1, FrameAssumption DEF LenField, Complete
    <3>2. QED
      BY <3>1, <1>1
  <2>2. QED
    BY <2>1, <1>1, <1>3, AppendProperties
<1>5. QED
  BY <1>3, <1>4 DEF Stream!Hand, clientVars

\* Left-over bytes either hold a whole frame, which is handed over, or go to the
\* buffer unseen.
LEMMA BeginHands ==
    IndInv /\ Begin => Stream!Hand \/ UNCHANGED Stream!vars
<1> SUFFICES ASSUME IndInv, Begin PROVE Stream!Hand \/ UNCHANGED Stream!vars
  OBVIOUS
<1>1. /\ pc = "idle" /\ bufleft = << >> /\ UNCHANGED clientVars
      /\ unhandled \in Seq(Bytes)
  BY DEF Begin, IndInv, TypeOK, LengthInv
<1>2. FollowsOn(unhandled \o socket, Len(handed) + 1, frames)
  <2>1. << >> \o unhandled = unhandled
    BY <1>1, ConcatEmptySeq
  <2>2. QED
    BY <2>1, <1>1 DEF IndInv
<1>3. CASE pc' = "recv" /\ UNCHANGED handed
  BY <1>1, <1>3 DEF Stream!vars, clientVars
<1>4. CASE ~(pc' = "recv" /\ UNCHANGED handed)
  <2>1. /\ LengthKnown(unhandled)
        /\ \E len \in LengthsAt(unhandled) :
              Complete(unhandled, len) /\ Return(unhandled, len)
    BY <1>4 DEF Begin
  <2>2. LengthsAt(unhandled) = {frames[Len(handed) + 1]}
    BY <2>1, <1>1, <1>2, LengthRead
  <2>3. /\ Complete(unhandled, frames[Len(handed) + 1])
        /\ Return(unhandled, frames[Len(handed) + 1])
    BY <2>1, <2>2
  <2>4. QED
    BY <2>1, <2>3, <1>1, <1>2, ReturnHands
<1>5. QED
  BY <1>3, <1>4

\* With two bytes in the buffer the loop either hands a frame over or goes on.
LEMMA CutHands ==
    IndInv /\ ~SplitsHeader /\ Cut => Stream!Hand \/ UNCHANGED Stream!vars
<1> SUFFICES ASSUME IndInv, ~SplitsHeader, Cut
             PROVE  Stream!Hand \/ UNCHANGED Stream!vars
  OBVIOUS
<1>1. /\ pc = "cut" /\ UNCHANGED clientVars /\ bufleft \in Seq(Bytes)
      /\ LengthKnown(bufleft)
  BY DEF Cut, IndInv, TypeOK, LengthInv
<1>2. /\ FollowsOn(bufleft \o socket, Len(handed) + 1, frames)
      /\ haslen => framelen = frames[Len(handed) + 1]
  BY <1>1, InLoop
<1>3. CASE pc' = "recv" /\ UNCHANGED handed
  BY <1>1, <1>3 DEF Stream!vars, clientVars
<1>4. CASE ~(pc' = "recv" /\ UNCHANGED handed)
  <2>1. \E len \in IF haslen THEN {framelen} ELSE LengthsAt(bufleft) :
            Complete(bufleft, len) /\ Return(bufleft, len)
    BY <1>1, <1>4 DEF Cut
  <2>2. LengthsAt(bufleft) = {frames[Len(handed) + 1]}
    BY <1>1, <1>2, LengthRead
  <2>3. /\ Complete(bufleft, frames[Len(handed) + 1])
        /\ Return(bufleft, frames[Len(handed) + 1])
    BY <2>1, <2>2, <1>2
  <2>4. QED
    BY <2>3, <1>1, <1>2, ReturnHands
<1>5. QED
  BY <1>3, <1>4

\* recv() returns 0 only when the client has closed, and then every frame it
\* wrote has been handed over.
LEMMA RecvZeroEnds == IndInv /\ RecvZero => Stream!End
<1> SUFFICES ASSUME IndInv, RecvZero PROVE Stream!End
  OBVIOUS
<1>1. pc = "recv" /\ pc' = "closed" /\ UNCHANGED <<frames, open, handed>>
  BY DEF RecvZero, clientVars
<1>2. socket = << >> /\ ~open
  <2>1. Room(bufleft) # 0
    <3>1. Len(bufleft) < MaxFrameLen /\ Len(bufleft) \in Nat /\ MaxFrameLen \in Nat
      BY <1>1, RoomInv, FrameAssumption DEF RoomToRecv, IndInv, TypeOK
    <3>2. QED
      BY <3>1 DEF Room
  <2>2. QED
    BY <2>1 DEF RecvZero
<1>3. /\ bufleft \in Seq(Bytes) /\ Len(bufleft) \in Nat
      /\ frames \in Seq(FrameLens) /\ Len(frames) \in Nat
      /\ Len(handed) + 1 \in Nat /\ Len(handed) \in Nat
  BY DEF IndInv, TypeOK
<1>4. /\ FollowsOn(bufleft, Len(handed) + 1, frames)
      /\ IF haslen THEN framelen = frames[Len(handed) + 1] /\ ~Complete(bufleft, framelen)
         ELSE ~LengthKnown(bufleft)
  <2>1. bufleft \o socket = bufleft
    BY <1>2, <1>3, ConcatEmptySeq
  <2>2. QED
    BY <2>1, <1>1, InLoop DEF IndInv, LengthInv
<1>5. bufleft = << >>
  <2> SUFFICES ASSUME bufleft # << >> PROVE FALSE
    OBVIOUS
  <2>1. /\ frames[Len(handed) + 1] <= Len(bufleft)
        /\ frames[Len(handed) + 1] \in LenField..MaxFrameLen
    BY <1>3, <1>4, FollowsParts
  <2>2. Complete(bufleft, frames[Len(handed) + 1]) /\ LengthKnown(bufleft)
    BY <2>1, <1>3, FrameAssumption DEF Complete, LengthKnown, LenField
  <2>3. QED
    BY <2>2, <1>4
<1>6. Len(handed) = Len(frames)
  <2>1. Len(handed) + 1 = Len(frames) + 1
    BY <1>4, <1>5 DEF FollowsOn
  <2>2. QED
    BY <2>1, <1>3
<1>7. QED
  BY <1>1, <1>2, <1>6 DEF Stream!End

\* Every step is a step of the stream or changes nothing it shows.
LEMMA StreamStep ==
    ASSUME ~SplitsHeader
    PROVE  IndInv /\ [Next]_vars => [Stream!Next]_(Stream!vars)
<1> SUFFICES ASSUME IndInv, [Next]_vars PROVE [Stream!Next]_(Stream!vars)
  OBVIOUS
<1>1. CASE Begin
  BY <1>1, BeginHands DEF Stream!Next
<1>2. ASSUME NEW k \in 1..MaxFrameLen, Recv(k) PROVE UNCHANGED Stream!vars
  BY <1>2 DEF Recv, clientVars, Stream!vars
<1>3. CASE Cut
  BY <1>3, CutHands DEF Stream!Next
<1>4. CASE RecvZero
  BY <1>4, RecvZeroEnds DEF Stream!Next
<1>5. ASSUME NEW len \in FrameLens, ClientWrite(len) PROVE Stream!Write
  BY <1>5 DEF ClientWrite, Stream!Write
<1>6. ASSUME ClientClose PROVE Stream!Shut
  BY <1>6 DEF ClientClose, Stream!Shut
<1>7. ASSUME UNCHANGED vars PROVE UNCHANGED Stream!vars
  BY <1>7 DEF vars, clientVars, Stream!vars
<1>8. QED
  BY <1>1, <1>2, <1>3, <1>4, <1>5, <1>6, <1>7
     DEF Next, Receive, Client, Stream!Next

\* When no recv() returns a single byte into an empty buffer, RecvOneFrame
\* implements the stream of frames Link_Ctrl expects: one whole frame per call,
\* in order, and the end only after the last (LinkCtrl.c:109-118).
THEOREM Implements == ASSUME ~SplitsHeader PROVE Spec => ImplementsStream
<1>1. Init => Stream!Init
  BY DEF Init, Stream!Init
<1>2. IndInv /\ [Next]_vars => [Stream!Next]_(Stream!vars)
  BY StreamStep
<1>3. QED
  BY <1>1, <1>2, Inductive, PTL DEF Spec, ImplementsStream, Stream!Spec
=============================================================================
