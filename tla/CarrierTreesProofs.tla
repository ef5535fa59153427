------------------------ MODULE CarrierTreesProofs ------------------------
(***************************************************************************)
(* Proofs about CarrierTrees, for any trees, asset and names: what is on   *)
(* the device after a verified install or restore, and what a report lists.*)
(***************************************************************************)
EXTENDS CarrierTrees, SequenceTheorems, TLAPS

-----------------------------------------------------------------------------
(***************************************************************************)
(* Paths                                                                   *)
(***************************************************************************)
Path == {p \in Seq(Name) : Len(p) > 0}

LEMMA SequenceOfOne ==
  ASSUME NEW S, NEW e \in S
  PROVE  <<e>> \in Seq(S) /\ Len(<<e>>) = 1 /\ <<e>>[1] = e
OBVIOUS

\* A name is a path.
LEMMA NameIsPath ==
  ASSUME NEW n \in Name
  PROVE  <<n>> \in Path /\ Len(<<n>>) = 1 /\ <<n>>[1] = n
BY SequenceOfOne DEF Path

\* The part of a path above.
LEMMA PrefixOfPath ==
  ASSUME NEW p \in Path, NEW n \in 1 .. Len(p)
  PROVE  /\ SubSeq(p, 1, n) \in Path
         /\ Len(SubSeq(p, 1, n)) = n
         /\ SubSeq(p, 1, n)[1] = p[1]
         /\ \A m \in 1 .. n : SubSeq(SubSeq(p, 1, n), 1, m) = SubSeq(p, 1, m)
<1>1. p \in Seq(Name) /\ Len(p) \in Nat /\ n \in Nat /\ 1 <= n /\ n <= Len(p)
  BY DEF Path
<1>2. \A i \in 1 .. n : p[i] \in Name
  BY <1>1, ElementOfSeq
<1>3. /\ SubSeq(p, 1, n) \in Seq(Name)
      /\ Len(SubSeq(p, 1, n)) = n
      /\ \A i \in 1 .. n : SubSeq(p, 1, n)[i] = p[i]
  BY <1>1, <1>2, SubSeqProperties
<1>4. ASSUME NEW m \in 1 .. n
      PROVE  SubSeq(SubSeq(p, 1, n), 1, m) = SubSeq(p, 1, m)
  <2>. DEFINE s == SubSeq(p, 1, n)
              l == SubSeq(s, 1, m)
              r == SubSeq(p, 1, m)
  <2>0. m \in Nat /\ 1 <= m /\ m <= n
    BY <1>1
  <2>1. \A i \in 1 .. m : s[i] \in Name /\ p[i] \in Name /\ s[i] = p[i]
    BY <1>1, <1>2, <1>3, <2>0
  <2>. HIDE DEF s
  <2>2. /\ l \in Seq(Name) /\ Len(l) = m
        /\ \A i \in 1 .. m : l[i] = s[i]
    BY <2>0, <2>1, SubSeqProperties
  <2>3. /\ r \in Seq(Name) /\ Len(r) = m
        /\ \A i \in 1 .. m : r[i] = p[i]
    BY <2>0, <2>1, SubSeqProperties
  <2>. HIDE DEF l, r
  <2>4. l = r
    BY <2>1, <2>2, <2>3, SeqEqual
  <2>. QED  BY <2>4 DEF l, r, s
<1>. QED  BY <1>1, <1>3, <1>4 DEF Path

\* To be below a name is to start with it.
LEMMA BelowName ==
  ASSUME NEW p \in Path, NEW n \in Name
  PROVE  Below(p, <<n>>) <=> p[1] = n
<1>1. /\ SubSeq(p, 1, 1) \in Seq(Name) /\ Len(SubSeq(p, 1, 1)) = 1
      /\ SubSeq(p, 1, 1)[1] = p[1]
  BY PrefixOfPath DEF Path
<1>2. SubSeq(p, 1, 1) = <<n>> <=> p[1] = n
  <2>1. <<n>> \in Seq(Name) /\ Len(<<n>>) = 1 /\ <<n>>[1] = n
    BY SequenceOfOne
  <2>2. ASSUME p[1] = n
        PROVE  SubSeq(p, 1, 1) = <<n>>
    <3>1. \A i \in 1 .. 1 : SubSeq(p, 1, 1)[i] = <<n>>[i]
      BY <1>1, <2>1, <2>2
    <3>. QED  BY <1>1, <2>1, <3>1, SeqEqual
  <2>. QED  BY <1>1, <2>1, <2>2
<1>. QED  BY <1>2, NameIsPath DEF Below, Path

\* A path whose first name is replaced by another path, and back.
LEMMA RebasedPath ==
  ASSUME NEW p \in Path, NEW n \in Name, p[1] = n, NEW dst \in Path
  PROVE  /\ Rebased(p, <<n>>, dst) = dst \o Tail(p)
         /\ Rebased(p, <<n>>, dst) \in Path
         /\ Len(Rebased(p, <<n>>, dst)) = Len(dst) + Len(p) - 1
         /\ Rebased(p, <<n>>, dst)[1] = dst[1]
         /\ SubSeq(Rebased(p, <<n>>, dst), 1, Len(dst)) = dst
         /\ SubSeq(Rebased(p, <<n>>, dst), Len(dst) + 1, Len(dst) + Len(p) - 1) = Tail(p)
         /\ Rebased(Rebased(p, <<n>>, dst), dst, <<n>>) = p
<1>. DEFINE q == Rebased(p, <<n>>, dst)
            r == Tail(p)
<1>1. /\ p \in Seq(Name) /\ p # <<>> /\ Len(p) \in Nat /\ Len(p) >= 1
      /\ dst \in Seq(Name) /\ Len(dst) \in Nat /\ Len(dst) >= 1
  BY DEF Path
<1>2. /\ r \in Seq(Name) /\ Len(r) = Len(p) - 1
      /\ \A i \in 1 .. Len(r) : r[i] = p[i + 1]
      /\ r = SubSeq(p, 2, Len(p))
  BY <1>1, HeadTailProperties, TailIsSubSeq
<1>. HIDE DEF r
<1>3. q = dst \o r
  BY <1>2 DEF Rebased
<1>4. /\ dst \o r \in Seq(Name) /\ Len(dst \o r) = Len(dst) + Len(r)
      /\ \A i \in 1 .. Len(dst) + Len(r) :
           (dst \o r)[i] = IF i <= Len(dst) THEN dst[i] ELSE r[i - Len(dst)]
  BY <1>1, <1>2, ConcatProperties
<1>. HIDE DEF q
<1>5. /\ q \in Seq(Name) /\ Len(q) = Len(dst) + Len(p) - 1 /\ q[1] = dst[1]
  BY <1>1, <1>2, <1>3, <1>4
<1>6. SubSeq(q, 1, Len(dst)) = dst
  <2>1. SubSeq(dst \o r, 1, Len(dst)) = SubSeq(dst, 1, Len(dst))
    BY <1>1, <1>2, SubSeqOfConcat1
  <2>2. SubSeq(dst, 1, Len(dst)) = dst
    BY <1>1, SubSeqFull
  <2>. QED  BY <1>3, <2>1, <2>2
<1>7. SubSeq(q, Len(dst) + 1, Len(dst) + Len(p) - 1) = r
  <2>1. CASE Len(p) = 1
    <3>1. r = <<>>
      BY <1>2, <2>1, EmptySeq
    <3>2. SubSeq(q, Len(dst) + 1, Len(dst) + Len(p) - 1) = <<>>
      BY <1>1, <2>1, SubSeqEmpty
    <3>. QED  BY <3>1, <3>2
  <2>2. CASE Len(p) > 1
    <3>1. SubSeq(dst \o r, Len(dst) + 1, Len(dst) + Len(r)) = SubSeq(r, 1, Len(r))
      <4>1. /\ Len(dst) + 1 \in Len(dst) + 1 .. Len(dst) + Len(r)
            /\ Len(dst) + Len(r) \in Len(dst) + 1 .. Len(dst) + Len(r)
        BY <1>1, <1>2, <2>2
      <4>2. SubSeq(dst \o r, Len(dst) + 1, Len(dst) + Len(r))
              = SubSeq(r, Len(dst) + 1 - Len(dst), Len(dst) + Len(r) - Len(dst))
        BY <1>1, <1>2, <4>1, SubSeqOfConcat2
      <4>3. Len(dst) + 1 - Len(dst) = 1 /\ Len(dst) + Len(r) - Len(dst) = Len(r)
        BY <1>1, <1>2
      <4>. QED  BY <4>2, <4>3
    <3>2. SubSeq(r, 1, Len(r)) = r
      BY <1>2, SubSeqFull
    <3>3. Len(dst) + Len(r) = Len(dst) + Len(p) - 1
      BY <1>1, <1>2
    <3>. QED  BY <1>3, <3>1, <3>2, <3>3
  <2>3. Len(p) = 1 \/ Len(p) > 1
    <3>1. \A l \in Nat : l >= 1 => l = 1 \/ l > 1
      OBVIOUS
    <3>. QED  BY <1>1, <3>1
  <2>. QED  BY <2>1, <2>2, <2>3
<1>8. Rebased(q, dst, <<n>>) = p
  <2>1. Rebased(q, dst, <<n>>) = <<n>> \o r
    BY <1>5, <1>7 DEF Rebased
  <2>2. <<n>> \in Seq(Name) /\ Len(<<n>>) = 1 /\ <<n>>[1] = n
    BY SequenceOfOne
  <2>3. /\ <<n>> \o r \in Seq(Name) /\ Len(<<n>> \o r) = 1 + Len(r)
        /\ \A i \in 1 .. 1 + Len(r) :
             (<<n>> \o r)[i] = IF i <= 1 THEN <<n>>[i] ELSE r[i - 1]
    BY <1>2, <2>2, ConcatProperties
  <2>4. Len(<<n>> \o r) = Len(p)
    BY <1>1, <1>2, <2>3
  <2>5. \A i \in 1 .. Len(p) : (<<n>> \o r)[i] = p[i]
    BY <1>1, <1>2, <2>2, <2>3
  <2>6. <<n>> \o r = p
    BY <1>1, <2>3, <2>4, <2>5, SeqEqual
  <2>. QED  BY <2>1, <2>6
<1>9. q \in Path
  BY <1>1, <1>5 DEF Path
<1>. QED  BY <1>3, <1>5, <1>6, <1>7, <1>8, <1>9 DEF q, r

-----------------------------------------------------------------------------
(***************************************************************************)
(* Trees                                                                   *)
(***************************************************************************)
LEMMA PathOfTree ==
  ASSUME NEW t, IsTree(t), NEW p \in DOMAIN t
  PROVE  /\ p \in Path /\ Len(p) \in Nat /\ Len(p) >= 1
         /\ t[p] \in Entry
         /\ t[p].kind \in {"file", "dir", "link"} /\ t[p].data \in Name
         /\ \A n \in 1 .. Len(p) - 1 :
              SubSeq(p, 1, n) \in DOMAIN t /\ t[SubSeq(p, 1, n)].kind = "dir"
<1>1. p \in Seq(Name) /\ Len(p) > 0 /\ t[p] \in Entry
  BY DEF IsTree
<1>2. Len(p) \in Nat /\ Len(p) >= 1
  BY <1>1
<1>3. t[p].kind \in {"file", "dir", "link"} /\ t[p].data \in Name
  BY <1>1 DEF Entry
<1>. QED  BY <1>1, <1>2, <1>3 DEF IsTree, Path

\* Every part of a path of a tree, down to the whole path, is in the tree.
LEMMA PrefixInTree ==
  ASSUME NEW t, IsTree(t), NEW p \in DOMAIN t, NEW n \in 1 .. Len(p)
  PROVE  SubSeq(p, 1, n) \in DOMAIN t
<1>1. p \in Seq(Name) /\ Len(p) \in Nat
  BY PathOfTree DEF Path
<1>2. CASE n = Len(p)
  BY <1>1, <1>2, SubSeqFull
<1>3. CASE n \in 1 .. Len(p) - 1
  BY <1>3, PathOfTree
<1>. QED  BY <1>1, <1>2, <1>3

\* The name at its top is.
LEMMA TopInTree ==
  ASSUME NEW t, IsTree(t), NEW p \in DOMAIN t
  PROVE  <<p[1]>> \in DOMAIN t /\ p[1] \in Name
<1>1. p \in Path /\ Len(p) \in Nat /\ Len(p) >= 1
  BY PathOfTree
<1>2. p[1] \in Name
  BY <1>1, ElementOfSeq DEF Path
<1>3. 1 \in 1 .. Len(p)
  BY <1>1
<1>4. SubSeq(p, 1, 1) \in DOMAIN t
  BY <1>3, PrefixInTree
<1>5. SubSeq(p, 1, 1) = <<p[1]>>
  BY <1>1, <1>2, BelowName DEF Below, NameIsPath
<1>. QED  BY <1>2, <1>4, <1>5

LEMMA NamesAreNames ==
  /\ Lab \in Name /\ Lab \in BundleName
  /\ \A n \in Preserved : n \in Name /\ n \in BundleName /\ n # Lab
BY ConstantAssumption

\* What is left of a tree when all below one of its names is taken out.
LEMMA OutsideName ==
  ASSUME NEW t, IsTree(t), NEW p \in DOMAIN t
  PROVE  Below(p, <<Lab>>) <=> p[1] = Lab
BY PathOfTree, BelowName, NamesAreNames

\* WithAsset, path by path.
LEMMA WithAssetHas ==
  ASSUME NEW t, IsTree(t)
  PROVE  /\ DOMAIN WithAsset(t) = {q \in DOMAIN t : q[1] # Lab} \cup DOMAIN Asset
         /\ \A p \in DOMAIN Asset : WithAsset(t)[p] = Asset[p] /\ p[1] = Lab
         /\ \A p \in DOMAIN t : p[1] # Lab => WithAsset(t)[p] = t[p]
<1>1. \A p \in DOMAIN Asset : p[1] = Lab
  BY ConstantAssumption
<1>2. {q \in DOMAIN t : ~Below(q, <<Lab>>)} = {q \in DOMAIN t : q[1] # Lab}
  BY OutsideName
<1>. QED  BY <1>1, <1>2 DEF WithAsset

LEMMA WithAssetIsTree ==
  ASSUME NEW t, IsTree(t)
  PROVE  IsTree(WithAsset(t))
<1>. DEFINE w == WithAsset(t)
<1>0. IsTree(Asset)
  BY ConstantAssumption
<1>1. /\ DOMAIN w = {q \in DOMAIN t : q[1] # Lab} \cup DOMAIN Asset
      /\ \A p \in DOMAIN Asset : w[p] = Asset[p] /\ p[1] = Lab
      /\ \A p \in DOMAIN t : p[1] # Lab => w[p] = t[p]
  BY WithAssetHas
<1>2. w = [p \in DOMAIN w |-> w[p]]
  BY DEF WithAsset
<1>. HIDE DEF w
<1>3. \A p \in DOMAIN w : w[p] \in Entry
  BY <1>0, <1>1, PathOfTree
<1>4. w \in [DOMAIN w -> Entry]
  BY <1>2, <1>3
<1>5. ASSUME NEW p \in DOMAIN w
      PROVE  /\ p \in Seq(Name) /\ Len(p) > 0
             /\ \A n \in 1 .. Len(p) - 1 :
                  SubSeq(p, 1, n) \in DOMAIN w /\ w[SubSeq(p, 1, n)].kind = "dir"
  <2>1. CASE p \in DOMAIN Asset
    BY <1>0, <1>1, <2>1 DEF IsTree
  <2>2. CASE p \in DOMAIN t /\ p[1] # Lab
    <3>1. p \in Path /\ p \in Seq(Name) /\ Len(p) > 0 /\ Len(p) \in Nat
      BY <2>2, PathOfTree DEF Path
    <3>2. ASSUME NEW n \in 1 .. Len(p) - 1
          PROVE  SubSeq(p, 1, n) \in DOMAIN w /\ w[SubSeq(p, 1, n)].kind = "dir"
      <4>1. SubSeq(p, 1, n) \in DOMAIN t /\ t[SubSeq(p, 1, n)].kind = "dir"
        BY <2>2, PathOfTree
      <4>2. n \in 1 .. Len(p)
        BY <3>1
      <4>3. SubSeq(p, 1, n)[1] = p[1]
        BY <3>1, <4>2, PrefixOfPath
      <4>. QED  BY <1>1, <2>2, <4>1, <4>3
    <3>. QED  BY <3>1, <3>2
  <2>. QED  BY <1>1, <2>1, <2>2
<1>6. ASSUME NEW n \in BundleName, <<n>> \in DOMAIN w
      PROVE  w[<<n>>].kind = "dir"
  <2>1. CASE <<n>> \in DOMAIN Asset
    BY <1>0, <1>1, <2>1 DEF IsTree
  <2>2. CASE <<n>> \in DOMAIN t /\ <<n>>[1] # Lab
    BY <1>1, <2>2 DEF IsTree
  <2>. QED  BY <1>1, <1>6, <2>1, <2>2
<1>. QED  BY <1>4, <1>5, <1>6 DEF IsTree, w

-----------------------------------------------------------------------------
(***************************************************************************)
(* A tree whose CarrierLab bundle has been moved                           *)
(***************************************************************************)

\* The part of a path down to its first name.
LEMMA FirstOfPath ==
  ASSUME NEW p \in Path
  PROVE  /\ p[1] \in Name /\ SubSeq(p, 1, 1) = <<p[1]>>
         /\ Len(p) = 1 => p = <<p[1]>>
<1>1. p \in Seq(Name) /\ Len(p) \in Nat /\ Len(p) >= 1
  BY DEF Path
<1>2. p[1] \in Name
  BY <1>1, ElementOfSeq
<1>3. SubSeq(p, 1, 1) = <<p[1]>>
  BY <1>1, <1>2, BelowName, NameIsPath DEF Below
<1>4. SubSeq(p, 1, Len(p)) = p
  BY <1>1, SubSeqFull
<1>. QED  BY <1>2, <1>3, <1>4

\* A part of a path that goes below the replaced name.
LEMMA RebasedPrefix ==
  ASSUME NEW p \in Path, NEW n \in Name, p[1] = n, NEW dst \in Path,
         NEW j \in 1 .. Len(p)
  PROVE  /\ SubSeq(p, 1, j) \in Path /\ SubSeq(p, 1, j)[1] = n
         /\ Rebased(SubSeq(p, 1, j), <<n>>, dst)
              = SubSeq(Rebased(p, <<n>>, dst), 1, Len(dst) + j - 1)
<1>. DEFINE u == SubSeq(p, 1, j)
            q == Rebased(p, <<n>>, dst)
            l == Rebased(u, <<n>>, dst)
            r == SubSeq(q, 1, Len(dst) + j - 1)
<1>0. /\ p \in Seq(Name) /\ p # <<>> /\ Len(p) \in Nat /\ Len(p) >= 1
      /\ dst \in Seq(Name) /\ Len(dst) \in Nat /\ Len(dst) >= 1
      /\ j \in Nat /\ 1 <= j /\ j <= Len(p)
  BY DEF Path
<1>1. u \in Path /\ Len(u) = j /\ u[1] = n
  BY PrefixOfPath
<1>2. \A i \in 1 .. j : u[i] = p[i]
  <2>1. \A i \in 1 .. j : p[i] \in Name
    BY <1>0, ElementOfSeq
  <2>2. \A i \in 1 .. j - 1 + 1 : u[i] = p[1 + i - 1]
    BY <1>0, <2>1, SubSeqProperties
  <2>. HIDE DEF u
  <2>. QED  BY <1>0, <2>2
<1>. HIDE DEF u
<1>3. /\ u \in Seq(Name) /\ u # <<>>
  BY <1>0, <1>1 DEF Path
<1>4. /\ Tail(u) \in Seq(Name) /\ Len(Tail(u)) = j - 1
      /\ \A i \in 1 .. j - 1 : Tail(u)[i] = u[i + 1]
  BY <1>1, <1>3, HeadTailProperties
<1>5. /\ Tail(p) \in Seq(Name) /\ Len(Tail(p)) = Len(p) - 1
      /\ \A i \in 1 .. Len(p) - 1 : Tail(p)[i] = p[i + 1]
  BY <1>0, HeadTailProperties
<1>6. l = dst \o Tail(u) /\ l \in Seq(Name) /\ Len(l) = Len(dst) + j - 1
  BY <1>1, RebasedPath DEF Path
<1>7. q = dst \o Tail(p) /\ q \in Path /\ Len(q) = Len(dst) + Len(p) - 1
  BY RebasedPath
<1>8. \A i \in 1 .. Len(dst) + j - 1 :
        l[i] = IF i <= Len(dst) THEN dst[i] ELSE Tail(u)[i - Len(dst)]
  <2>1. \A i \in 1 .. Len(dst) + Len(Tail(u)) :
          (dst \o Tail(u))[i] = IF i <= Len(dst) THEN dst[i] ELSE Tail(u)[i - Len(dst)]
    BY <1>0, <1>4, ConcatProperties
  <2>. HIDE DEF l
  <2>. QED  BY <1>0, <1>4, <1>6, <2>1
<1>9. \A i \in 1 .. Len(dst) + Len(p) - 1 :
        q[i] = IF i <= Len(dst) THEN dst[i] ELSE Tail(p)[i - Len(dst)]
  <2>1. \A i \in 1 .. Len(dst) + Len(Tail(p)) :
          (dst \o Tail(p))[i] = IF i <= Len(dst) THEN dst[i] ELSE Tail(p)[i - Len(dst)]
    BY <1>0, <1>5, ConcatProperties
  <2>. HIDE DEF q
  <2>. QED  BY <1>0, <1>5, <1>7, <2>1
<1>. HIDE DEF l, q
<1>10. /\ r \in Seq(Name) /\ Len(r) = Len(dst) + j - 1
       /\ \A i \in 1 .. Len(dst) + j - 1 : r[i] = q[i]
  <2>. DEFINE N == Len(dst) + j - 1
  <2>1. N \in 1 .. Len(q) /\ N \in Nat /\ N >= 1
    BY <1>0, <1>7
  <2>2. q \in Seq(Name) /\ \A i \in 1 .. N : q[i] \in Name
    BY <1>7, <2>1, ElementOfSeq DEF Path
  <2>. HIDE DEF N
  <2>3. /\ SubSeq(q, 1, N) \in Seq(Name) /\ Len(SubSeq(q, 1, N)) = N
        /\ \A i \in 1 .. N : SubSeq(q, 1, N)[i] = q[i]
    BY <2>1, <2>2, SubSeqProperties
  <2>. QED  BY <2>3 DEF N
<1>. HIDE DEF r
<1>11. ASSUME NEW i \in 1 .. Len(dst) + j - 1
       PROVE  l[i] = r[i]
  <2>1. CASE i <= Len(dst)
    <3>1. i \in 1 .. Len(dst) + Len(p) - 1
      BY <1>0
    <3>2. l[i] = dst[i] /\ q[i] = dst[i]
      BY <1>8, <1>9, <2>1, <3>1
    <3>. QED  BY <1>10, <3>2
  <2>2. CASE i > Len(dst)
    <3>1. PICK k \in Nat : k = i - Len(dst)
      BY <1>0, <2>2
    <3>2. k \in 1 .. j - 1 /\ k \in 1 .. Len(p) - 1 /\ k + 1 \in 1 .. j
      BY <1>0, <2>2, <3>1
    <3>3. Tail(u)[k] = Tail(p)[k]
      BY <1>2, <1>4, <1>5, <3>2
    <3>4. ~(i <= Len(dst)) /\ i \in 1 .. Len(dst) + Len(p) - 1
      BY <1>0, <2>2
    <3>5. l[i] = Tail(u)[k] /\ q[i] = Tail(p)[k] /\ r[i] = q[i]
      BY <1>8, <1>9, <1>10, <3>1, <3>4
    <3>. QED  BY <3>3, <3>5
  <2>3. i <= Len(dst) \/ i > Len(dst)
    BY <1>0
  <2>. QED  BY <2>1, <2>2, <2>3
<1>12. l = r
  BY <1>6, <1>10, <1>11, SeqEqual
<1>. QED  BY <1>1, <1>12 DEF u, q, l, r

\* There is nothing below a path that is not there.
LEMMA NothingBelow ==
  ASSUME NEW t, IsTree(t), NEW dst \in Path, dst \notin DOMAIN t,
         NEW q \in DOMAIN t
  PROVE  ~(Len(q) >= Len(dst) /\ SubSeq(q, 1, Len(dst)) = dst)
<1>1. Len(dst) \in Nat /\ Len(dst) >= 1 /\ Len(q) \in Nat
  BY PathOfTree DEF Path
<1>. SUFFICES ASSUME Len(q) >= Len(dst), SubSeq(q, 1, Len(dst)) = dst
              PROVE  FALSE
  OBVIOUS
<1>2. Len(dst) \in 1 .. Len(q)
  BY <1>1
<1>. QED  BY <1>2, PrefixInTree

\* Moved, path by path, if there is nothing at the destination.
LEMMA MovedHas ==
  ASSUME NEW t, IsTree(t), NEW dst \in Path, dst \notin DOMAIN t
  PROVE  /\ DOMAIN Moved(t, <<Lab>>, dst)
              = {q \in DOMAIN t : q[1] # Lab}
                \cup {Rebased(p, <<Lab>>, dst) : p \in {q \in DOMAIN t : q[1] = Lab}}
         /\ \A q \in DOMAIN t : q[1] # Lab => Moved(t, <<Lab>>, dst)[q] = t[q]
         /\ \A p \in DOMAIN t : p[1] = Lab =>
              Moved(t, <<Lab>>, dst)[Rebased(p, <<Lab>>, dst)] = t[p]
<1>. DEFINE old == {p \in DOMAIN t : Below(p, <<Lab>>)}
            new == {Rebased(p, <<Lab>>, dst) : p \in old}
            m == Moved(t, <<Lab>>, dst)
<1>1. \A p \in DOMAIN t : p \in old <=> p[1] = Lab
  BY OutsideName
<1>2. m = [q \in (DOMAIN t \ old) \cup new |->
             IF q \in DOMAIN t \ old THEN t[q] ELSE t[Rebased(q, dst, <<Lab>>)]]
  BY DEF Moved
<1>3. DOMAIN t \ old = {q \in DOMAIN t : q[1] # Lab}
      /\ old = {q \in DOMAIN t : q[1] = Lab}
  BY <1>1
<1>. HIDE DEF m
<1>4. DOMAIN m = (DOMAIN t \ old) \cup new
  BY <1>2
<1>5. ASSUME NEW q \in DOMAIN t, q[1] # Lab
      PROVE  m[q] = t[q]
  BY <1>2, <1>3, <1>5
<1>6. ASSUME NEW p \in DOMAIN t, p[1] = Lab
      PROVE  m[Rebased(p, <<Lab>>, dst)] = t[p]
  <2>. DEFINE q == Rebased(p, <<Lab>>, dst)
  <2>1. p \in Path /\ Len(p) \in Nat /\ Len(p) >= 1 /\ Len(dst) \in Nat
    BY PathOfTree DEF Path
  <2>2. /\ Len(q) = Len(dst) + Len(p) - 1
        /\ SubSeq(q, 1, Len(dst)) = dst
        /\ Rebased(q, dst, <<Lab>>) = p
    <3>1. Lab \in Name
      BY NamesAreNames
    <3>. QED  BY <1>6, <2>1, <3>1, RebasedPath, ZenonT(60)
  <2>3. q \in new
    BY <1>1, <1>6
  <2>. HIDE DEF q
  <2>4. q \notin DOMAIN t
    BY <2>1, <2>2, NothingBelow
  <2>5. m[q] = t[p]
    BY <1>2, <2>2, <2>3, <2>4
  <2>. QED  BY <2>5 DEF q
<1>. QED  BY <1>3, <1>4, <1>5, <1>6 DEF m

\* A free place for the bundle: the preserved name, or its own name in the
\* directory that has that.  What is above it is a directory that stays.
Place(t, dst) ==
  /\ dst \in Path /\ dst[1] \in Preserved
  /\ dst \notin DOMAIN t
  /\ \A n \in 1 .. Len(dst) - 1 :
       SubSeq(dst, 1, n) \in DOMAIN t /\ t[SubSeq(dst, 1, n)].kind = "dir"

LEMMA MoveTargetIsPlace ==
  ASSUME NEW t, IsTree(t), NEW name \in Preserved,
         MoveTarget(t, <<Lab>>, name) \notin DOMAIN t
  PROVE  Place(t, MoveTarget(t, <<Lab>>, name))
<1>. DEFINE dst == MoveTarget(t, <<Lab>>, name)
<1>1. /\ name \in Name /\ name \in BundleName /\ Lab \in Name
  BY NamesAreNames
<1>2. /\ <<name>> \in Path /\ Len(<<name>>) = 1 /\ <<name>>[1] = name
      /\ <<Lab>> \in Path /\ Len(<<Lab>>) = 1
  BY <1>1, NameIsPath
<1>3. CASE <<name>> \notin DOMAIN t
  <2>1. dst = <<name>>
    BY <1>3 DEF MoveTarget
  <2>2. Len(dst) = 1
    BY <1>2, <2>1
  <2>. HIDE DEF dst
  <2>3. \A n \in 1 .. Len(dst) - 1 : FALSE
    BY <2>2
  <2>4. Place(t, dst)
    BY <1>2, <1>3, <2>1, <2>3 DEF Place
  <2>. QED  BY <2>4 DEF dst
<1>4. CASE <<name>> \in DOMAIN t
  <2>1. dst = <<name>> \o <<Lab>>
    BY <1>4 DEF MoveTarget
  <2>2. <<name>> \in Seq(Name) /\ <<Lab>> \in Seq(Name)
    BY <1>2 DEF Path
  <2>3. /\ dst \in Seq(Name) /\ Len(dst) = 2
        /\ dst[1] = name
    <3>1. /\ <<name>> \o <<Lab>> \in Seq(Name)
          /\ Len(<<name>> \o <<Lab>>) = Len(<<name>>) + Len(<<Lab>>)
          /\ \A i \in 1 .. Len(<<name>>) + Len(<<Lab>>) :
               (<<name>> \o <<Lab>>)[i]
                 = IF i <= Len(<<name>>) THEN <<name>>[i] ELSE <<Lab>>[i - Len(<<name>>)]
      BY <2>2, ConcatProperties
    <3>2. Len(<<name>> \o <<Lab>>) = 2 /\ 1 \in 1 .. Len(<<name>>) + Len(<<Lab>>)
      BY <1>2, <3>1
    <3>3. (<<name>> \o <<Lab>>)[1] = name
      BY <1>2, <3>1, <3>2
    <3>. HIDE DEF dst
    <3>. QED  BY <2>1, <3>1, <3>2, <3>3
  <2>. HIDE DEF dst
  <2>4. dst \in Path
    BY <2>3 DEF Path
  <2>5. SubSeq(dst, 1, 1) = <<name>>
    BY <2>3, <2>4, FirstOfPath
  <2>6. t[<<name>>].kind = "dir"
    BY <1>1, <1>4 DEF IsTree
  <2>7. \A n \in 1 .. Len(dst) - 1 : n = 1
    BY <2>3
  <2>8. dst \notin DOMAIN t
    BY DEF dst
  <2>9. Place(t, dst)
    BY <1>4, <2>3, <2>4, <2>5, <2>6, <2>7, <2>8 DEF Place
  <2>. QED  BY <2>9 DEF dst
<1>. QED  BY <1>3, <1>4

LEMMA MovedIsTree ==
  ASSUME NEW t, IsTree(t), <<Lab>> \in DOMAIN t, NEW dst, Place(t, dst)
  PROVE  IsTree(Moved(t, <<Lab>>, dst))
<1>. DEFINE m == Moved(t, <<Lab>>, dst)
            old == {q \in DOMAIN t : q[1] = Lab}
<1>0. /\ dst \in Path /\ dst \notin DOMAIN t /\ dst[1] # Lab
      /\ Len(dst) \in Nat /\ Len(dst) >= 1
      /\ Lab \in Name /\ Lab \in BundleName
  BY NamesAreNames DEF Place, Path
<1>1. /\ DOMAIN m = {q \in DOMAIN t : q[1] # Lab} \cup {Rebased(p, <<Lab>>, dst) : p \in old}
      /\ \A q \in DOMAIN t : q[1] # Lab => m[q] = t[q]
      /\ \A p \in DOMAIN t : p[1] = Lab => m[Rebased(p, <<Lab>>, dst)] = t[p]
  BY <1>0, MovedHas
<1>2. m = [p \in DOMAIN m |-> m[p]]
  BY DEF Moved
<1>. HIDE DEF m
<1>3. \A p \in DOMAIN m : m[p] \in Entry
  BY <1>1, PathOfTree
<1>4. m \in [DOMAIN m -> Entry]
  BY <1>2, <1>3
<1>5. ASSUME NEW q \in DOMAIN t, q[1] # Lab
      PROVE  /\ q \in Seq(Name) /\ Len(q) > 0
             /\ \A n \in 1 .. Len(q) - 1 :
                  SubSeq(q, 1, n) \in DOMAIN m /\ m[SubSeq(q, 1, n)].kind = "dir"
  <2>1. q \in Path /\ q \in Seq(Name) /\ Len(q) > 0 /\ Len(q) \in Nat
    BY PathOfTree DEF Path
  <2>2. ASSUME NEW n \in 1 .. Len(q) - 1
        PROVE  SubSeq(q, 1, n) \in DOMAIN m /\ m[SubSeq(q, 1, n)].kind = "dir"
    <3>1. SubSeq(q, 1, n) \in DOMAIN t /\ t[SubSeq(q, 1, n)].kind = "dir"
      BY PathOfTree
    <3>2. n \in 1 .. Len(q)
      BY <2>1
    <3>3. SubSeq(q, 1, n)[1] = q[1]
      BY <2>1, <3>2, PrefixOfPath
    <3>. QED  BY <1>1, <1>5, <3>1, <3>3
  <2>. QED  BY <2>1, <2>2
<1>6. ASSUME NEW p \in DOMAIN t, p[1] = Lab
      PROVE  LET q == Rebased(p, <<Lab>>, dst) IN
             /\ q \in Seq(Name) /\ Len(q) > 0
             /\ \A n \in 1 .. Len(q) - 1 :
                  SubSeq(q, 1, n) \in DOMAIN m /\ m[SubSeq(q, 1, n)].kind = "dir"
  <2>. DEFINE q == Rebased(p, <<Lab>>, dst)
  <2>1. p \in Path /\ Len(p) \in Nat /\ Len(p) >= 1
    BY PathOfTree
  <2>2. /\ q \in Path /\ Len(q) = Len(dst) + Len(p) - 1
        /\ SubSeq(q, 1, Len(dst)) = dst
    BY <1>0, <1>6, <2>1, RebasedPath, ZenonT(60)
  <2>3. \A j \in 1 .. Len(p) :
          Rebased(SubSeq(p, 1, j), <<Lab>>, dst) = SubSeq(q, 1, Len(dst) + j - 1)
    BY <1>0, <1>6, <2>1, RebasedPrefix
  <2>. HIDE DEF q
  <2>4. ASSUME NEW n \in 1 .. Len(q) - 1
        PROVE  SubSeq(q, 1, n) \in DOMAIN m /\ m[SubSeq(q, 1, n)].kind = "dir"
    <3>1. CASE n < Len(dst)
      <4>1. n \in 1 .. Len(dst) /\ n \in 1 .. Len(dst) - 1 /\ Len(dst) \in 1 .. Len(q)
        BY <1>0, <2>1, <2>2, <3>1
      <4>2. SubSeq(q, 1, n) = SubSeq(dst, 1, n)
        BY <2>2, <4>1, PrefixOfPath
      <4>3. SubSeq(dst, 1, n)[1] # Lab
        BY <1>0, <4>1, PrefixOfPath
      <4>4. SubSeq(dst, 1, n) \in DOMAIN t /\ t[SubSeq(dst, 1, n)].kind = "dir"
        BY <4>1 DEF Place
      <4>. QED  BY <1>1, <4>2, <4>3, <4>4
    <3>2. CASE n >= Len(dst)
      <4>0. \A a, b, c \in Nat : a >= 1 /\ b >= a /\ b \in 1 .. a + c - 2
              => \E i \in Nat : i = b - a + 1
        OBVIOUS
      <4>1. PICK j \in Nat : j = n - Len(dst) + 1
        <5>1. n \in Nat /\ n \in 1 .. Len(dst) + Len(p) - 2
          BY <1>0, <2>1, <2>2
        <5>. QED  BY <1>0, <2>1, <3>2, <4>0, <5>1
      <4>2. j \in 1 .. Len(p) - 1 /\ j \in 1 .. Len(p) /\ Len(dst) + j - 1 = n
        BY <1>0, <2>1, <2>2, <3>2, <4>1
      <4>3. SubSeq(p, 1, j) \in DOMAIN t /\ t[SubSeq(p, 1, j)].kind = "dir"
        BY <4>2, PathOfTree
      <4>4. SubSeq(p, 1, j)[1] = Lab
        BY <1>6, <2>1, <4>2, PrefixOfPath
      <4>5. Rebased(SubSeq(p, 1, j), <<Lab>>, dst) = SubSeq(q, 1, n)
        BY <2>3, <4>2
      <4>. QED  BY <1>1, <4>3, <4>4, <4>5
    <3>3. n < Len(dst) \/ n >= Len(dst)
      BY <1>0, <2>1, <2>2
    <3>. QED  BY <3>1, <3>2, <3>3
  <2>5. q \in Seq(Name) /\ Len(q) > 0
    BY <2>2 DEF Path
  <2>. QED  BY <2>4, <2>5 DEF q
<1>7. ASSUME NEW n \in BundleName, <<n>> \in DOMAIN m
      PROVE  m[<<n>>].kind = "dir"
  <2>1. CASE <<n>> \in {q \in DOMAIN t : q[1] # Lab}
    BY <1>1, <2>1 DEF IsTree
  <2>2. CASE <<n>> \in {Rebased(p, <<Lab>>, dst) : p \in old}
    <3>1. PICK p \in DOMAIN t : p[1] = Lab /\ <<n>> = Rebased(p, <<Lab>>, dst)
      BY <2>2
    <3>2. p \in Path /\ Len(p) \in Nat /\ Len(p) >= 1
      BY PathOfTree
    <3>3. Len(<<n>>) = Len(dst) + Len(p) - 1
      BY <1>0, <3>1, <3>2, RebasedPath
    <3>4. Len(<<n>>) = 1
      OBVIOUS
    <3>5. Len(p) = 1
      <4>1. \A a, b \in Nat : a >= 1 /\ b >= 1 /\ 1 = a + b - 1 => b = 1
        OBVIOUS
      <4>. QED  BY <1>0, <3>2, <3>3, <3>4, <4>1
    <3>6. p = <<Lab>>
      BY <3>1, <3>2, <3>5, FirstOfPath
    <3>7. t[<<Lab>>].kind = "dir"
      BY <1>0 DEF IsTree
    <3>. QED  BY <1>1, <3>1, <3>6, <3>7
  <2>. QED  BY <1>1, <1>7, <2>1, <2>2
<1>8. ASSUME NEW p \in DOMAIN m
      PROVE  /\ p \in Seq(Name) /\ Len(p) > 0
             /\ \A n \in 1 .. Len(p) - 1 :
                  SubSeq(p, 1, n) \in DOMAIN m /\ m[SubSeq(p, 1, n)].kind = "dir"
  <2>1. CASE p \in {q \in DOMAIN t : q[1] # Lab}
    BY <1>5, <2>1
  <2>2. CASE p \in {Rebased(q, <<Lab>>, dst) : q \in old}
    <3>1. PICK o \in DOMAIN t : o[1] = Lab /\ p = Rebased(o, <<Lab>>, dst)
      BY <2>2
    <3>. QED  BY <1>6, <3>1
  <2>. QED  BY <1>1, <2>1, <2>2
<1>. QED  BY <1>4, <1>7, <1>8 DEF IsTree, m

\* The tree to which the asset is added is a tree.
LEMMA ClearedIsTree ==
  ASSUME NEW t, IsTree(t), NEW s, NEW name \in Preserved, ~Stuck(t, s, name)
  PROVE  IsTree(Cleared(t, s, name))
<1>1. CASE s = "preserve-and-replace" /\ <<Lab>> \in DOMAIN t
  <2>1. MoveTarget(t, <<Lab>>, name) \notin DOMAIN t
    BY <1>1 DEF Stuck
  <2>2. Cleared(t, s, name) = Moved(t, <<Lab>>, MoveTarget(t, <<Lab>>, name))
    BY <1>1 DEF Cleared, MovedAway
  <2>. QED  BY <1>1, <2>1, <2>2, MoveTargetIsPlace, MovedIsTree
<1>2. CASE ~(s = "preserve-and-replace" /\ <<Lab>> \in DOMAIN t)
  BY <1>2 DEF Cleared, MovedAway
<1>. QED  BY <1>1, <1>2

-----------------------------------------------------------------------------
(***************************************************************************)
(* The inductive invariant                                                 *)
(***************************************************************************)

\* The backup is what was on the device.
BackupExact == original = before

\* The desired tree is the backup with the asset in it, and the bundle that was
\* there out of its way.
BuiltFromBackup ==
  pc \in {"built", "placing", "installed"} =>
    \E name \in Preserved :
      /\ ~Stuck(original, strategy, name)
      /\ desired = WithAsset(Cleared(original, strategy, name))

\* What has been placed, and waits to be verified, is the tree as it was
\* followed, or one file of it.
InstallPlaced ==
  pc = "installed" =>
    \/ whole /\ device = Followed(desired) /\ \A p \in DOMAIN desired : ~Dangling(desired, p)
    \/ ~whole /\ device \in FirstOnly(desired)

RestorePlaced ==
  pc = "restored" /\ whole => device = Followed(original)

\* A report under way has seen what the device has, and has copied what was
\* there all the time, or will, unless a copy has failed.
ReaderInv ==
  /\ reader \in [on : BOOLEAN, todo : SUBSET Name, failed : BOOLEAN,
                 seen : SUBSET Name, stayed : SUBSET Name]
  /\ reader.on =>
       /\ export \cup Top(device) \subseteq reader.seen
       /\ ~reader.failed => reader.stayed \subseteq reader.todo \cup export

TreesInv ==
  /\ TypeOK
  /\ BackupExact
  /\ BuiltFromBackup
  /\ InstallPlaced
  /\ RestorePlaced
  /\ ReaderInv

-----------------------------------------------------------------------------
(***************************************************************************)
(* What a placement leaves is a tree                                       *)
(***************************************************************************)
LEMMA EmptyIsTree == IsTree(<<>>)
<1>1. <<>> \in Seq(Entry) /\ Len(<<>>) = 0
  BY EmptySeq
<1>2. DOMAIN <<>> = {} /\ <<>> \in [DOMAIN <<>> -> Entry]
  <2>1. /\ <<>> \in [1 .. Len(<<>>) -> Entry]
        /\ DOMAIN <<>> = 1 .. Len(<<>>)
    BY <1>1, LenProperties
  <2>2. 1 .. 0 = {}
    OBVIOUS
  <2>. QED  BY <1>1, <2>1, <2>2
<1>. QED  BY <1>2 DEF IsTree

\* Followed, path by path.
LEMMA FollowedHas ==
  ASSUME NEW t
  PROVE  /\ DOMAIN Followed(t) = {q \in DOMAIN t : ~Dangling(t, q)}
         /\ \A p \in DOMAIN t : t[p].kind # "link" =>
              p \in DOMAIN Followed(t) /\ Followed(t)[p] = t[p]
         /\ \A p \in DOMAIN Followed(t) : t[p].kind = "link" =>
              /\ NextTo(p, t[p].data) \in DOMAIN t \ {p}
              /\ Followed(t)[p] = t[NextTo(p, t[p].data)]
BY DEF Followed, Dangling

LEMMA FollowedIsTree ==
  ASSUME NEW t, IsTree(t)
  PROVE  IsTree(Followed(t))
<1>. DEFINE f == Followed(t)
<1>1. /\ DOMAIN f \subseteq DOMAIN t
      /\ \A p \in DOMAIN t : t[p].kind # "link" => p \in DOMAIN f /\ f[p] = t[p]
      /\ \A p \in DOMAIN f : t[p].kind = "link" =>
           /\ NextTo(p, t[p].data) \in DOMAIN t
           /\ f[p] = t[NextTo(p, t[p].data)]
  BY FollowedHas, ZenonT(60)
<1>2. f = [p \in DOMAIN f |-> f[p]]
  BY DEF Followed
<1>. HIDE DEF f
<1>3. \A p \in DOMAIN f : f[p] \in Entry
  BY <1>1, PathOfTree
<1>4. f \in [DOMAIN f -> Entry]
  BY <1>2, <1>3
<1>5. ASSUME NEW p \in DOMAIN f
      PROVE  /\ p \in Seq(Name) /\ Len(p) > 0
             /\ \A n \in 1 .. Len(p) - 1 :
                  SubSeq(p, 1, n) \in DOMAIN f /\ f[SubSeq(p, 1, n)].kind = "dir"
  <2>1. p \in DOMAIN t
    BY <1>1
  <2>2. p \in Seq(Name) /\ Len(p) > 0
    BY <2>1 DEF IsTree
  <2>3. ASSUME NEW n \in 1 .. Len(p) - 1
        PROVE  SubSeq(p, 1, n) \in DOMAIN f /\ f[SubSeq(p, 1, n)].kind = "dir"
    <3>1. SubSeq(p, 1, n) \in DOMAIN t /\ t[SubSeq(p, 1, n)].kind = "dir"
      BY <2>1, PathOfTree
    <3>. QED  BY <1>1, <3>1
  <2>. QED  BY <2>2, <2>3
<1>6. ASSUME NEW n \in BundleName, <<n>> \in DOMAIN f
      PROVE  f[<<n>>].kind = "dir"
  <2>1. <<n>> \in DOMAIN t /\ t[<<n>>].kind = "dir"
    BY <1>1, <1>6 DEF IsTree
  <2>. QED  BY <1>1, <2>1
<1>. QED  BY <1>4, <1>5, <1>6 DEF IsTree, f

LEMMA PartIsTree ==
  ASSUME NEW t, IsTree(t), NEW part \in FirstOnly(t)
  PROVE  /\ IsTree(part)
         /\ \A q \in DOMAIN part : part[q].kind = "file"
<1>. DEFINE f == Followed(t)
<1>1. PICK p \in DOMAIN t :
        /\ Len(p) = 1
        /\ part = [q \in {r \in {p} \cap DOMAIN f : f[r].kind = "file"} |-> f[q]]
  BY DEF FirstOnly
<1>0. IsTree(f) /\ \A q \in DOMAIN t : t[q].kind # "link" => f[q] = t[q]
  BY FollowedIsTree, FollowedHas
<1>. HIDE DEF f
<1>2. \A q \in DOMAIN part :
        q = p /\ part[q] = f[q] /\ f[q].kind = "file" /\ q \in Seq(Name) /\ f[q] \in Entry
  BY <1>0, <1>1, PathOfTree DEF Path
<1>3. part \in [DOMAIN part -> Entry]
  BY <1>1, <1>2
<1>8. \A q \in DOMAIN part : Len(q) = 1
  BY <1>1, <1>2, Zenon
<1>4. \A q \in DOMAIN part : \A n \in 1 .. Len(q) - 1 : FALSE
  <2>1. ASSUME NEW q \in DOMAIN part, NEW n \in 1 .. Len(q) - 1
        PROVE  FALSE
    <3>1. Len(q) = 1 /\ n \in 1 .. Len(q) - 1
      BY <1>8, Zenon
    <3>2. n \in 1 .. 0
      BY <3>1
    <3>. QED  BY <3>2
  <2>. QED  BY <2>1
<1>5. \A n \in BundleName : <<n>> \notin DOMAIN part
  <2>1. ASSUME NEW n \in BundleName, <<n>> \in DOMAIN part
        PROVE  FALSE
    <3>1. <<n>> \in DOMAIN f /\ f[<<n>>].kind = "file"
      BY <1>1, <1>2, <2>1
    <3>2. f[<<n>>].kind = "dir"
      BY <1>0, <3>1 DEF IsTree
    <3>. QED  BY <3>1, <3>2
  <2>. QED  BY <2>1
<1>6. \A q \in DOMAIN part : q \in Seq(Name) /\ Len(q) > 0
  BY <1>2, <1>8
<1>7. IsTree(part)
  BY <1>3, <1>4, <1>5, <1>6 DEF IsTree
<1>. QED  BY <1>2, <1>7

\* The names at the top are names.
LEMMA TopsAreNames ==
  ASSUME NEW t, IsTree(t)
  PROVE  Top(t) \subseteq Name
BY TopInTree DEF Top

\* A report under way keeps up with a change of the device.
LEMMA ReaderKeepsUp ==
  ASSUME TypeOK, ReaderInv, NEW t, IsTree(t), Becomes(t), export' = export
  PROVE  ReaderInv' /\ reader'.todo \cup reader'.stayed \subseteq reader'.seen
<1>1. device' = t /\ Top(t) \subseteq Name
  BY TopsAreNames DEF Becomes
<1>2. CASE ~reader.on
  BY <1>1, <1>2 DEF TypeOK, ReaderInv, Becomes
<1>3. CASE reader.on
  <2>1. reader' = [reader EXCEPT !.seen = @ \cup Top(t), !.stayed = @ \cap Top(t)]
    BY <1>3 DEF Becomes
  <2>2. /\ reader \in [on : BOOLEAN, todo : SUBSET Name, failed : BOOLEAN,
                       seen : SUBSET Name, stayed : SUBSET Name]
        /\ reader.todo \cup reader.stayed \subseteq reader.seen
        /\ export \cup Top(device) \subseteq reader.seen
        /\ ~reader.failed => reader.stayed \subseteq reader.todo \cup export
    BY <1>3 DEF TypeOK, ReaderInv
  <2>3. /\ reader' \in [on : BOOLEAN, todo : SUBSET Name, failed : BOOLEAN,
                        seen : SUBSET Name, stayed : SUBSET Name]
        /\ reader'.on = reader.on /\ reader'.todo = reader.todo
        /\ reader'.failed = reader.failed
        /\ reader'.seen = reader.seen \cup Top(t)
        /\ reader'.stayed = reader.stayed \cap Top(t)
    BY <1>1, <2>1, <2>2
  <2>4. Top(device') = Top(t)
    BY <1>1
  <2>. QED  BY <2>2, <2>3, <2>4 DEF ReaderInv, Top
<1>. QED  BY <1>2, <1>3

-----------------------------------------------------------------------------
(***************************************************************************)
(* Every step keeps the invariant                                          *)
(***************************************************************************)
\* Before the first backup, the device, the backup and the desired tree are one
\* tree.
THEOREM TreesInvInit == Init => TreesInv
<1>. SUFFICES ASSUME Init
              PROVE  TreesInv
  OBVIOUS
<1>1. IsTree(device) /\ IsTree(before) /\ IsTree(original) /\ IsTree(desired)
  BY ConstantAssumption DEF Init
<1>2. TypeOK
  BY <1>1, ConstantAssumption DEF Init, TypeOK, Strategy, Idle
<1>3. ReaderInv
  BY DEF Init, ReaderInv, Idle
<1>. QED  BY <1>2, <1>3
     DEF Init, TreesInv, BackupExact, BuiltFromBackup, InstallPlaced, RestorePlaced

LEMMA BackupKeeps ==
  ASSUME TreesInv, Backup
  PROVE  TreesInv'
<1>1. /\ device' = device /\ before' = device /\ original' = device
      /\ desired' = desired /\ strategy' = strategy /\ whole' = whole
      /\ installs' = installs /\ reader' = reader /\ export' = export
      /\ pc' = "backed"
  BY DEF Backup, placed, reading, Exported
<1>2. TypeOK'
  BY <1>1 DEF TreesInv, TypeOK
<1>3. ReaderInv'
  BY <1>1 DEF TreesInv, ReaderInv, Top
<1>. QED  BY <1>1, <1>2, <1>3
     DEF TreesInv, BackupExact, BuiltFromBackup, InstallPlaced, RestorePlaced

LEMMA BuildKeeps ==
  ASSUME TreesInv, BuildDesired
  PROVE  TreesInv'
<1>1. /\ device' = device /\ before' = before /\ original' = original
      /\ whole' = whole /\ installs' = installs
      /\ reader' = reader /\ export' = export
  BY DEF BuildDesired, placed, reading
<1>2. ReaderInv'
  BY <1>1 DEF TreesInv, ReaderInv, Top
<1>3. CASE pc' = "idle" /\ UNCHANGED <<desired, strategy>>
  <2>1. TypeOK'
    BY <1>1, <1>3 DEF TreesInv, TypeOK
  <2>. QED  BY <1>1, <1>2, <1>3, <2>1
       DEF TreesInv, BackupExact, BuiltFromBackup, InstallPlaced, RestorePlaced
<1>4. CASE pc' # "idle"
  <2>1. PICK s \in Strategy, name \in Preserved :
          /\ ~Stuck(original, s, name)
          /\ desired' = WithAsset(Cleared(original, s, name))
          /\ pc' = "built" /\ strategy' = s
    BY <1>4 DEF BuildDesired
  <2>2. IsTree(original)
    BY DEF TreesInv, TypeOK
  <2>3. IsTree(desired')
    BY <2>1, <2>2, ClearedIsTree, WithAssetIsTree
  <2>4. TypeOK'
    BY <1>1, <2>1, <2>3 DEF TreesInv, TypeOK
  <2>5. BuiltFromBackup'
    BY <1>1, <2>1 DEF BuiltFromBackup
  <2>. QED  BY <1>1, <1>2, <2>1, <2>4, <2>5
       DEF TreesInv, BackupExact, InstallPlaced, RestorePlaced
<1>. QED  BY <1>3, <1>4 DEF BuildDesired

\* install_tree, as far as it does the same for an install and a restore.
LEMMA PlacementKeeps ==
  ASSUME TreesInv, NEW t, IsTree(t), NEW done, NEW raised, install_tree(t, done, raised),
         done \in {"installed", "restored"}, raised \in {"failed", "wedged"}
  PROVE  /\ TypeOK' /\ BackupExact' /\ ReaderInv'
         /\ desired' = desired /\ original' = original /\ strategy' = strategy
         /\ \/ /\ device' = Followed(t) /\ whole' = TRUE
               /\ pc' = IF \E p \in DOMAIN t : Dangling(t, p) THEN raised ELSE done
            \/ device' \in FirstOnly(t) /\ whole' = FALSE /\ pc' = done
<1>1. /\ desired' = desired /\ original' = original /\ strategy' = strategy
      /\ before' = before /\ installs' = installs /\ export' = export
  BY DEF install_tree, planned
<1>2. PICK d : /\ Becomes(d)
               /\ \/ /\ d = Followed(t) /\ whole' = TRUE
                     /\ pc' = IF \E p \in DOMAIN t : Dangling(t, p) THEN raised ELSE done
                  \/ d \in FirstOnly(t) /\ whole' = FALSE /\ pc' = done
  BY DEF install_tree
<1>3. IsTree(d)
  BY <1>2, FollowedIsTree, PartIsTree
<1>4. device' = d
  BY <1>2 DEF Becomes
<1>5. ReaderInv' /\ reader'.todo \cup reader'.stayed \subseteq reader'.seen
  BY <1>1, <1>2, <1>3, ReaderKeepsUp DEF TreesInv
<1>6. pc' \in {"installed", "restored", "failed", "wedged"} /\ whole' \in BOOLEAN
  BY <1>2
<1>7. TypeOK'
  BY <1>1, <1>3, <1>4, <1>5, <1>6 DEF TreesInv, TypeOK
<1>8. BackupExact'
  BY <1>1 DEF TreesInv, BackupExact
<1>. QED  BY <1>1, <1>2, <1>4, <1>5, <1>7, <1>8

LEMMA WipeKeeps ==
  ASSUME TreesInv, NEW to, Wipe(to), to \in {"placing", "restoring"},
         installs' \in 0 .. MaxInstalls,
         to = "placing" => pc \in {"built", "placing", "installed"}
  PROVE  TreesInv'
<1>1. /\ desired' = desired /\ original' = original /\ strategy' = strategy
      /\ before' = before /\ whole' = whole /\ export' = export /\ pc' = to
  BY DEF Wipe, planned
<1>2. Becomes(<<>>) /\ device' = <<>>
  BY DEF Wipe, Becomes
<1>3. ReaderInv' /\ reader'.todo \cup reader'.stayed \subseteq reader'.seen
  BY <1>1, <1>2, EmptyIsTree, ReaderKeepsUp DEF TreesInv
<1>4. TypeOK'
  BY <1>1, <1>2, <1>3, EmptyIsTree DEF TreesInv, TypeOK
<1>5. BuiltFromBackup'
  BY <1>1 DEF TreesInv, BuiltFromBackup
<1>. QED  BY <1>1, <1>3, <1>4, <1>5
     DEF TreesInv, BackupExact, InstallPlaced, RestorePlaced

LEMMA InstallCopyKeeps ==
  ASSUME TreesInv, InstallCopy
  PROVE  TreesInv'
<1>1. install_tree(desired, "installed", "failed") /\ pc = "placing" /\ IsTree(desired)
  BY DEF InstallCopy, TreesInv, TypeOK
<1>2. /\ TypeOK' /\ BackupExact' /\ ReaderInv'
      /\ desired' = desired /\ original' = original /\ strategy' = strategy
      /\ \/ /\ device' = Followed(desired) /\ whole' = TRUE
            /\ pc' = IF \E p \in DOMAIN desired : Dangling(desired, p)
                       THEN "failed" ELSE "installed"
         \/ device' \in FirstOnly(desired) /\ whole' = FALSE /\ pc' = "installed"
  BY <1>1, PlacementKeeps
<1>3. BuiltFromBackup'
  BY <1>1, <1>2 DEF TreesInv, BuiltFromBackup
<1>4. InstallPlaced'
  BY <1>2 DEF InstallPlaced
<1>5. RestorePlaced'
  BY <1>2 DEF RestorePlaced
<1>. QED  BY <1>2, <1>3, <1>4, <1>5 DEF TreesInv

LEMMA RestoreCopyKeeps ==
  ASSUME TreesInv, RestoreCopy
  PROVE  TreesInv'
<1>1. install_tree(original, "restored", "wedged") /\ IsTree(original)
  BY DEF RestoreCopy, TreesInv, TypeOK
<1>2. /\ TypeOK' /\ BackupExact' /\ ReaderInv'
      /\ desired' = desired /\ original' = original /\ strategy' = strategy
      /\ \/ /\ device' = Followed(original) /\ whole' = TRUE
            /\ pc' = IF \E p \in DOMAIN original : Dangling(original, p)
                       THEN "wedged" ELSE "restored"
         \/ device' \in FirstOnly(original) /\ whole' = FALSE /\ pc' = "restored"
  BY <1>1, PlacementKeeps
<1>3. pc' \in {"wedged", "restored"}
  BY <1>2
<1>4. BuiltFromBackup' /\ InstallPlaced'
  BY <1>3 DEF BuiltFromBackup, InstallPlaced
<1>5. RestorePlaced'
  BY <1>2 DEF RestorePlaced
<1>. QED  BY <1>2, <1>4, <1>5 DEF TreesInv

\* A verification only reads.
LEMMA VerifyKeeps ==
  ASSUME TreesInv, UNCHANGED <<placed, planned, reading>>,
         pc' \in {"waiting", "failed", "idle", "lost"}
  PROVE  TreesInv'
<1>1. /\ device' = device /\ before' = before /\ original' = original
      /\ desired' = desired /\ strategy' = strategy /\ whole' = whole
      /\ installs' = installs /\ reader' = reader /\ export' = export
  BY DEF placed, planned, reading
<1>2. TypeOK'
  BY <1>1 DEF TreesInv, TypeOK
<1>3. ReaderInv'
  BY <1>1 DEF TreesInv, ReaderInv, Top
<1>. QED  BY <1>1, <1>2, <1>3
     DEF TreesInv, BackupExact, BuiltFromBackup, InstallPlaced, RestorePlaced

\* A report changes nothing but itself.
LEMMA ReportingKeeps ==
  ASSUME TreesInv, UNCHANGED <<placed, planned, pc>>, ReaderInv',
         reader'.todo \cup reader'.stayed \subseteq reader'.seen
  PROVE  TreesInv'
<1>1. /\ device' = device /\ before' = before /\ original' = original
      /\ desired' = desired /\ strategy' = strategy /\ whole' = whole
      /\ installs' = installs /\ pc' = pc
  BY DEF placed, planned
<1>2. TypeOK'
  BY <1>1 DEF TreesInv, TypeOK
<1>3. BackupExact' /\ BuiltFromBackup' /\ InstallPlaced' /\ RestorePlaced'
  BY <1>1 DEF TreesInv, BackupExact, BuiltFromBackup, InstallPlaced, RestorePlaced
<1>. QED  BY <1>2, <1>3 DEF TreesInv

LEMMA BeginReportKeeps ==
  ASSUME TreesInv, BeginReport
  PROVE  TreesInv'
<1>1. Top(device) \subseteq Name
  BY TopsAreNames DEF TreesInv, TypeOK
<1>2. reader' = [on |-> TRUE, todo |-> Top(device), failed |-> FALSE,
                 seen |-> Top(device), stayed |-> Top(device)]
  BY DEF BeginReport, Idle
<1>3. device' = device /\ export' = {}
  BY DEF BeginReport, placed
<1>4. ReaderInv' /\ reader'.todo \cup reader'.stayed \subseteq reader'.seen
  BY <1>1, <1>2, <1>3 DEF ReaderInv, Top
<1>. QED  BY <1>4, ReportingKeeps DEF BeginReport

LEMMA CopyNameKeeps ==
  ASSUME TreesInv, CopyName
  PROVE  TreesInv'
<1>1. PICK n \in reader.todo :
        /\ reader' = [reader EXCEPT !.todo = @ \ {n}, !.failed = @ \/ n \notin Top(device)]
        /\ export' = export \cup ({n} \cap Top(device))
  BY DEF CopyName
<1>2. device' = device
  BY DEF CopyName, placed
<1>3. /\ reader \in [on : BOOLEAN, todo : SUBSET Name, failed : BOOLEAN,
                     seen : SUBSET Name, stayed : SUBSET Name]
      /\ reader.todo \cup reader.stayed \subseteq reader.seen
  BY DEF TreesInv, ReaderInv, TypeOK
<1>4. /\ reader'.on = reader.on /\ reader'.todo = reader.todo \ {n}
      /\ reader'.seen = reader.seen /\ reader'.stayed = reader.stayed
  BY <1>1, <1>3
<1>5. reader'.failed = (reader.failed \/ n \notin Top(device))
  BY <1>1, <1>3, Zenon
<1>6. reader' \in [on : BOOLEAN, todo : SUBSET Name, failed : BOOLEAN,
                   seen : SUBSET Name, stayed : SUBSET Name]
  <2>. DEFINE f == reader.failed \/ n \notin Top(device)
  <2>1. f \in BOOLEAN
    BY Zenon
  <2>2. reader' = [reader EXCEPT !.todo = @ \ {n}, !.failed = f]
    BY <1>1, Zenon
  <2>. HIDE DEF f
  <2>. QED  BY <1>3, <2>1, <2>2
<1>7. reader.on => export' \cup Top(device) \subseteq reader'.seen
  BY <1>1, <1>4 DEF TreesInv, ReaderInv
<1>8. ASSUME reader.on, ~reader'.failed
      PROVE  reader'.stayed \subseteq reader'.todo \cup export'
  <2>1. ~reader.failed /\ n \in Top(device)
    BY <1>5, <1>8
  <2>2. reader.stayed \subseteq reader.todo \cup export
    BY <1>8, <2>1 DEF TreesInv, ReaderInv
  <2>. QED  BY <1>1, <1>4, <2>1, <2>2
<1>9. Top(device') = Top(device)
  BY <1>2
<1>10. ReaderInv'
  BY <1>2, <1>4, <1>6, <1>7, <1>8 DEF ReaderInv, Top
<1>11. reader'.todo \cup reader'.stayed \subseteq reader'.seen
  BY <1>3, <1>4
<1>. QED  BY <1>10, <1>11, ReportingKeeps DEF CopyName

LEMMA ReportKeeps ==
  ASSUME TreesInv, Report
  PROVE  TreesInv'
<1>1. reader' = [on |-> FALSE, todo |-> {}, failed |-> FALSE, seen |-> {}, stayed |-> {}]
  BY DEF Report, Idle
<1>2. ReaderInv' /\ reader'.todo \cup reader'.stayed \subseteq reader'.seen
  BY <1>1 DEF ReaderInv
<1>. QED  BY <1>2, ReportingKeeps DEF Report

\* Every step of backup, build, placement, restore and report keeps it.
THEOREM TreesInvNext == TreesInv /\ [Next]_vars => TreesInv'
<1>. SUFFICES ASSUME TreesInv, [Next]_vars
              PROVE  TreesInv'
  OBVIOUS
<1>1. CASE Install
  <2>1. installs' \in 0 .. MaxInstalls
    BY <1>1, ConstantAssumption DEF Install, TreesInv, TypeOK
  <2>. QED  BY <1>1, <2>1, WipeKeeps DEF Install
<1>2. CASE Restore
  <2>1. installs' \in 0 .. MaxInstalls
    BY <1>2 DEF Restore, TreesInv, TypeOK
  <2>. QED  BY <1>2, <2>1, WipeKeeps DEF Restore
<1>3. CASE VerifyInstall
  BY <1>3, VerifyKeeps DEF VerifyInstall
<1>4. CASE VerifyRestore
  BY <1>4, VerifyKeeps DEF VerifyRestore
<1>5. CASE UNCHANGED vars
  <2>1. /\ device' = device /\ export' = export /\ reader' = reader
        /\ UNCHANGED <<placed, planned, pc>>
    BY <1>5 DEF vars, placed, reading
  <2>2. ReaderInv' /\ reader'.todo \cup reader'.stayed \subseteq reader'.seen
    BY <2>1 DEF TreesInv, ReaderInv, Top, TypeOK
  <2>. QED  BY <2>1, <2>2, ReportingKeeps
<1>. QED  BY <1>1, <1>2, <1>3, <1>4, <1>5, BackupKeeps, BuildKeeps, InstallCopyKeeps,
             RestoreCopyKeeps, BeginReportKeeps, CopyNameKeeps, ReportKeeps DEF Next

\* The invariant, from the first state on.
THEOREM TreesInvariant == Spec => []TreesInv
<1>. QED  BY TreesInvInit, TreesInvNext, PTL DEF Spec

\* What is on the device, backed up or built is a tree, through all partial
\* placements, followed links and moved bundles.
THEOREM TreesTyped == Spec => []TypeOK
<1>1. TreesInv => TypeOK
  BY DEF TreesInv
<1>. QED  BY <1>1, TreesInvariant, PTL

-----------------------------------------------------------------------------
(***************************************************************************)
(* What a verified placement leaves on the device                          *)
(***************************************************************************)

\* The comparison of two manifests is exact: for all its distinctions of kinds
\* and targets, it finds nothing only if every path has the same entry.
LEMMA SameIsEqual ==
  ASSUME NEW l, NEW r
  PROVE  Same(l, r) <=> DOMAIN l = DOMAIN r /\ \A p \in DOMAIN l : l[p] = r[p]
BY DEF Same, Changed, compare_manifests

LEMMA SameTrees ==
  ASSUME NEW l, IsTree(l), NEW r, IsTree(r), Same(l, r)
  PROVE  l = r
<1>1. l \in [DOMAIN l -> Entry] /\ r \in [DOMAIN r -> Entry]
  BY DEF IsTree
<1>2. DOMAIN l = DOMAIN r /\ \A p \in DOMAIN l : l[p] = r[p]
  BY SameIsEqual
<1>. QED  BY <1>1, <1>2

\* A restore that is verified has put back, link by link, what was on the device
\* when the backup was taken.
THEOREM RestoredExactly == Spec => RestoreExact
<1>1. ASSUME TreesInv, Next, pc = "restored", pc' = "idle"
      PROVE  device = before
  <2>1. VerifyRestore
    BY <1>1 DEF Next, Backup, BuildDesired, Install, InstallCopy, VerifyInstall,
                Restore, RestoreCopy, BeginReport, CopyName, Report
  <2>2. Same(original, device)
    BY <1>1, <2>1 DEF VerifyRestore
  <2>3. original = device
    BY <1>1, <2>2, SameTrees DEF TreesInv, TypeOK
  <2>. QED  BY <1>1, <2>3 DEF TreesInv, BackupExact
<1>2. TreesInv /\ [Next]_vars => [pc = "restored" /\ pc' = "idle" => device = before]_vars
  BY <1>1
<1>. QED  BY <1>2, TreesInvariant, PTL DEF Spec, RestoreExact

\* What VerifyInstall accepts is the desired tree.
LEMMA InstallVerified ==
  ASSUME TreesInv, Next, pc = "installed", pc' = "waiting"
  PROVE  Same(desired, device) /\ device = desired
<1>1. VerifyInstall
  BY DEF Next, Backup, BuildDesired, Install, InstallCopy, VerifyRestore,
         Restore, RestoreCopy, BeginReport, CopyName, Report
<1>2. Same(desired, device)
  BY <1>1 DEF VerifyInstall
<1>. QED  BY <1>2, SameTrees DEF TreesInv, TypeOK

\* Outside of CarrierLab's bundles, the tree with the bundle out of the way is
\* the tree.
LEMMA ClearedElsewhere ==
  ASSUME NEW t, IsTree(t), NEW s, NEW name \in Preserved, ~Stuck(t, s, name),
         NEW p, ~OfLabBundle(p), p \in DOMAIN t \cup DOMAIN Cleared(t, s, name)
  PROVE  /\ p \in DOMAIN t \cap DOMAIN Cleared(t, s, name)
         /\ Cleared(t, s, name)[p] = t[p]
<1>. DEFINE dst == MoveTarget(t, <<Lab>>, name)
<1>1. CASE s = "preserve-and-replace" /\ <<Lab>> \in DOMAIN t
  <2>1. dst \notin DOMAIN t /\ Cleared(t, s, name) = Moved(t, <<Lab>>, dst)
    BY <1>1 DEF Stuck, Cleared, MovedAway
  <2>2. dst \in Path /\ dst[1] \in Preserved
    BY <2>1, MoveTargetIsPlace DEF Place
  <2>. HIDE DEF dst
  <2>3. /\ DOMAIN Moved(t, <<Lab>>, dst)
             = {q \in DOMAIN t : q[1] # Lab}
               \cup {Rebased(q, <<Lab>>, dst) : q \in {o \in DOMAIN t : o[1] = Lab}}
        /\ \A q \in DOMAIN t : q[1] # Lab => Moved(t, <<Lab>>, dst)[q] = t[q]
    BY <2>1, <2>2, MovedHas
  <2>4. ASSUME NEW q \in DOMAIN t, q[1] = Lab
        PROVE  Rebased(q, <<Lab>>, dst)[1] \in Preserved
    <3>1. q \in Path /\ Lab \in Name
      BY PathOfTree, NamesAreNames
    <3>2. Rebased(q, <<Lab>>, dst)[1] = dst[1]
      BY <2>2, <2>4, <3>1, RebasedPath, ZenonT(60)
    <3>. QED  BY <2>2, <3>2
  <2>. QED  BY <2>1, <2>3, <2>4 DEF OfLabBundle
<1>2. CASE ~(s = "preserve-and-replace" /\ <<Lab>> \in DOMAIN t)
  BY <1>2 DEF Cleared, MovedAway
<1>. QED  BY <1>1, <1>2

\* A verified install has changed nothing outside of CarrierLab's bundles.
THEOREM ScopeKept == Spec => ScopeRespected
<1>1. ASSUME TreesInv, Next, pc = "installed", pc' = "waiting",
             NEW p \in DOMAIN before \cup DOMAIN device, ~OfLabBundle(p)
      PROVE  p \in DOMAIN before \cap DOMAIN device /\ device[p] = before[p]
  <2>1. device = desired /\ before = original /\ IsTree(original)
    BY <1>1, InstallVerified DEF TreesInv, BackupExact, TypeOK
  <2>2. PICK name \in Preserved :
          /\ ~Stuck(original, strategy, name)
          /\ desired = WithAsset(Cleared(original, strategy, name))
    BY <1>1 DEF TreesInv, BuiltFromBackup
  <2>. DEFINE c == Cleared(original, strategy, name)
  <2>3. IsTree(c)
    BY <2>1, <2>2, ClearedIsTree
  <2>4. p \in DOMAIN original \cup DOMAIN c
          => p \in DOMAIN original \cap DOMAIN c /\ c[p] = original[p]
    BY <1>1, <2>1, <2>2, ClearedElsewhere
  <2>. HIDE DEF c
  <2>5. desired = WithAsset(c)
    BY <2>2 DEF c
  <2>6. /\ DOMAIN desired = {q \in DOMAIN c : q[1] # Lab} \cup DOMAIN Asset
        /\ \A q \in DOMAIN Asset : q[1] = Lab
        /\ \A q \in DOMAIN c : q[1] # Lab => desired[q] = c[q]
    BY <2>3, <2>5, WithAssetHas
  <2>7. p[1] # Lab
    BY <1>1 DEF OfLabBundle
  <2>. QED  BY <1>1, <2>1, <2>4, <2>6, <2>7
<1>2. TreesInv /\ [Next]_vars
        => [pc = "installed" /\ pc' = "waiting" =>
              \A p \in DOMAIN before \cup DOMAIN device : ~OfLabBundle(p) =>
                /\ p \in DOMAIN before \cap DOMAIN device
                /\ device[p] = before[p]]_vars
  BY <1>1
<1>. QED  BY <1>2, TreesInvariant, PTL DEF Spec, ScopeRespected

\* Where a link next to q leads is found from q, too.
LEMMA NextToNext ==
  ASSUME NEW p \in Path, NEW n \in Name
  PROVE  /\ NextTo(p, n) \in Path
         /\ NextTo(NextTo(p, n), n) = NextTo(p, n)
<1>. DEFINE d == SubSeq(p, 1, Len(p) - 1)
            q == d \o <<n>>
<1>1. p \in Seq(Name) /\ Len(p) \in Nat /\ Len(p) >= 1
  BY DEF Path
<1>2. d \in Seq(Name) /\ Len(d) \in Nat
  <2>1. \A i \in 1 .. Len(p) - 1 : p[i] \in Name
    BY <1>1, ElementOfSeq
  <2>2. Len(p) - 1 \in Int /\ 1 \in Int
    BY <1>1
  <2>3. d \in Seq(Name)
    BY <2>1, <2>2, SubSeqProperties
  <2>. HIDE DEF d
  <2>. QED  BY <2>3, LenProperties
<1>3. <<n>> \in Seq(Name) /\ Len(<<n>>) = 1
  BY SequenceOfOne
<1>. HIDE DEF d
<1>4. q \in Seq(Name) /\ Len(q) = Len(d) + 1
  BY <1>2, <1>3, ConcatProperties
<1>5. q \in Path
  BY <1>2, <1>4 DEF Path
<1>6. SubSeq(q, 1, Len(d)) = d
  <2>1. CASE Len(d) >= 1
    <3>1. 1 \in 1 .. Len(d) /\ Len(d) \in 1 .. Len(d)
      BY <1>2, <2>1
    <3>2. SubSeq(d \o <<n>>, 1, Len(d)) = SubSeq(d, 1, Len(d))
      BY <1>2, <1>3, <3>1, SubSeqOfConcat1
    <3>. QED  BY <1>2, <3>2, SubSeqFull
  <2>2. CASE Len(d) = 0
    <3>1. d = <<>>
      BY <1>2, <2>2, EmptySeq
    <3>2. SubSeq(q, 1, Len(d)) = <<>>
      BY <2>2, SubSeqEmpty
    <3>. QED  BY <3>1, <3>2
  <2>3. \A l \in Nat : l >= 1 \/ l = 0
    OBVIOUS
  <2>. QED  BY <1>2, <2>1, <2>2, <2>3
<1>7. Len(q) - 1 = Len(d)
  BY <1>2, <1>4
<1>8. NextTo(p, n) = q
  BY DEF NextTo, d
<1>9. NextTo(q, n) = SubSeq(q, 1, Len(q) - 1) \o <<n>>
  BY DEF NextTo
<1>. QED  BY <1>5, <1>6, <1>7, <1>8, <1>9

\* The readback does not accept what the placement has made of a link, nor of
\* one that leads to another link of the same name.
LEMMA FollowedLinkDiffers ==
  ASSUME NEW t, IsTree(t), Same(t, Followed(t)), NEW p \in DOMAIN t
  PROVE  t[p].kind # "link"
<1>. SUFFICES ASSUME t[p].kind = "link"
              PROVE  FALSE
  OBVIOUS
<1>. DEFINE q == NextTo(p, t[p].data)
<1>1. DOMAIN t = DOMAIN Followed(t) /\ \A r \in DOMAIN t : t[r] = Followed(t)[r]
  BY SameIsEqual
<1>0. \A r \in DOMAIN Followed(t) : t[r].kind = "link" =>
        /\ NextTo(r, t[r].data) \in DOMAIN t \ {r}
        /\ Followed(t)[r] = t[NextTo(r, t[r].data)]
  BY FollowedHas
<1>2. q \in DOMAIN t \ {p} /\ t[p] = t[q]
  BY <1>0, <1>1
<1>3. p \in Path /\ t[p].data \in Name
  BY PathOfTree
<1>4. NextTo(q, t[p].data) = q
  BY <1>3, NextToNext
<1>. HIDE DEF q
<1>5. t[q].kind = "link" /\ t[q].data = t[p].data
  BY <1>2
<1>6. NextTo(q, t[q].data) \in DOMAIN t \ {q}
  BY <1>0, <1>1, <1>2, <1>5
<1>. QED  BY <1>4, <1>5, <1>6

\* A link that the placement replaced by a file does not pass the readback.
THEOREM LinksAreSeen == Spec => ReadbackSeesLinks
<1>1. ASSUME TreesInv, Next, pc = "installed", pc' = "waiting"
      PROVE  ~HasLink(desired)
  <2>1. Same(desired, device) /\ device = desired /\ IsTree(desired)
    BY <1>1, InstallVerified DEF TreesInv, TypeOK
  <2>2. CASE device = Followed(desired)
    BY <2>1, <2>2, FollowedLinkDiffers DEF HasLink
  <2>3. CASE device \in FirstOnly(desired)
    BY <2>1, <2>3, PartIsTree DEF HasLink
  <2>. QED  BY <1>1, <2>2, <2>3 DEF TreesInv, InstallPlaced
<1>2. TreesInv /\ [Next]_vars
        => [pc = "installed" /\ pc' = "waiting" => ~HasLink(desired)]_vars
  BY <1>1
<1>. QED  BY <1>2, TreesInvariant, PTL DEF Spec, ReadbackSeesLinks

\* Without links there is nothing to follow.
LEMMA PlainIsFollowed ==
  ASSUME NEW t, ~HasLink(t)
  PROVE  Same(t, Followed(t)) /\ \A p \in DOMAIN t : ~Dangling(t, p)
<1>1. \A p \in DOMAIN t : t[p].kind # "link"
  BY DEF HasLink
<1>2. /\ DOMAIN Followed(t) = DOMAIN t
      /\ \A p \in DOMAIN t : Followed(t)[p] = t[p]
  BY <1>1, FollowedHas
<1>. QED  BY <1>1, <1>2, SameIsEqual DEF Dangling

\* A tree of plain files comes back, unless only a part of it was copied.
THEOREM PlainTreesComeBack == Spec => PlainTreesReturn
<1>1. ASSUME TreesInv, Next, pc # pc', pc' \in {"lost", "wedged"}, whole',
             ~HasLink(original)
      PROVE  FALSE
  <2>1. Same(original, Followed(original)) /\ \A p \in DOMAIN original : ~Dangling(original, p)
    BY <1>1, PlainIsFollowed
  <2>2. CASE RestoreCopy
    BY <1>1, <2>1, <2>2 DEF RestoreCopy, install_tree
  <2>3. CASE VerifyRestore
    <3>1. /\ pc = "restored" /\ ~Same(original, device) /\ whole
      BY <1>1, <2>3 DEF VerifyRestore, placed
    <3>2. device = Followed(original)
      BY <1>1, <3>1 DEF TreesInv, RestorePlaced
    <3>. QED  BY <2>1, <3>1, <3>2
  <2>4. CASE InstallCopy
    BY <1>1, <2>4 DEF InstallCopy, install_tree
  <2>5. CASE Install \/ Restore
    BY <1>1, <2>5 DEF Install, Restore, Wipe
  <2>. QED  BY <1>1, <2>2, <2>3, <2>4, <2>5
       DEF Next, Backup, BuildDesired, VerifyInstall, BeginReport, CopyName, Report
<1>2. TreesInv /\ [Next]_vars
        => [pc # pc' /\ pc' \in {"lost", "wedged"} => ~whole' \/ HasLink(original)]_vars
  BY <1>1
<1>. QED  BY <1>2, TreesInvariant, PTL DEF Spec, PlainTreesReturn

\* A report lists what was there while it was made, and all that was there all
\* the time, or nothing.
THEOREM ReportsAreCurrent == Spec => ReportIsCurrent
<1>1. ASSUME TreesInv, Next, reader.on, ~reader'.on
      PROVE  /\ Listed \subseteq reader.seen
             /\ Listed # {} => reader.stayed \cap BundleName \subseteq Listed
  <2>1. CASE Report
    BY <1>1, <2>1 DEF Report, Listed, TreesInv, ReaderInv
  <2>2. ASSUME NEW t, Becomes(t)
        PROVE  FALSE
    BY <1>1, <2>2 DEF Becomes, TreesInv, ReaderInv
  <2>3. CASE CopyName
    BY <1>1, <2>3 DEF CopyName, TreesInv, ReaderInv
  <2>4. CASE Install \/ Restore
    BY <2>2, <2>4 DEF Install, Restore, Wipe
  <2>5. CASE InstallCopy \/ RestoreCopy
    BY <2>2, <2>5 DEF InstallCopy, RestoreCopy, install_tree
  <2>6. CASE Backup \/ BuildDesired \/ VerifyInstall \/ VerifyRestore
    BY <1>1, <2>6 DEF Backup, BuildDesired, VerifyInstall, VerifyRestore, reading
  <2>. QED  BY <1>1, <2>1, <2>3, <2>4, <2>5, <2>6 DEF Next, BeginReport
<1>2. TreesInv /\ [Next]_vars
        => [reader.on /\ ~reader'.on =>
              /\ Listed \subseteq reader.seen
              /\ Listed # {} => reader.stayed \cap BundleName \subseteq Listed]_vars
  BY <1>1
<1>. QED  BY <1>2, TreesInvariant, PTL DEF Spec, ReportIsCurrent

-----------------------------------------------------------------------------
(***************************************************************************)
(* Bundles that are preserved                                              *)
(***************************************************************************)

\* Where a path is after the bundle was moved out of the asset's way.
LEMMA ClearedHas ==
  ASSUME NEW t, IsTree(t), NEW s \in Strategy, s # "replace",
         NEW name \in Preserved, ~Stuck(t, s, name), NEW p \in DOMAIN t
  PROVE  LET c == Cleared(t, s, name) IN
         /\ p[1] # Lab => p \in DOMAIN c /\ c[p] = t[p]
         /\ p[1] = Lab => \E q \in DOMAIN c :
              /\ c[q] = t[p] /\ q[1] \in Preserved
              /\ \E k \in 1 .. Len(q) : SubSeq(q, k + 1, Len(q)) = Tail(p)
<1>1. CASE <<Lab>> \notin DOMAIN t
  <2>1. Cleared(t, s, name) = t
    BY <1>1 DEF Cleared, MovedAway
  <2>2. p[1] # Lab
    BY <1>1, TopInTree
  <2>. QED  BY <2>1, <2>2
<1>2. CASE <<Lab>> \in DOMAIN t
  <2>. DEFINE dst == MoveTarget(t, <<Lab>>, name)
              c == Cleared(t, s, name)
              q == Rebased(p, <<Lab>>, dst)
  <2>1. s = "preserve-and-replace" /\ dst \notin DOMAIN t
    BY <1>2 DEF Stuck, Strategy
  <2>2. c = Moved(t, <<Lab>>, dst)
    BY <1>2, <2>1 DEF Cleared, MovedAway
  <2>3. dst \in Path /\ dst[1] \in Preserved
    BY <2>1, MoveTargetIsPlace DEF Place
  <2>. HIDE DEF dst, c
  <2>4. /\ DOMAIN c = {r \in DOMAIN t : r[1] # Lab}
                      \cup {Rebased(r, <<Lab>>, dst) : r \in {o \in DOMAIN t : o[1] = Lab}}
        /\ \A r \in DOMAIN t : r[1] # Lab => c[r] = t[r]
        /\ \A r \in DOMAIN t : r[1] = Lab => c[Rebased(r, <<Lab>>, dst)] = t[r]
    BY <2>1, <2>2, <2>3, MovedHas
  <2>5. CASE p[1] # Lab
    BY <2>4, <2>5 DEF c
  <2>6. CASE p[1] = Lab
    <3>1. p \in Path /\ Len(p) \in Nat /\ Len(p) >= 1 /\ Len(dst) \in Nat /\ Len(dst) >= 1
      BY <2>3, PathOfTree DEF Path
    <3>2. /\ Len(q) = Len(dst) + Len(p) - 1 /\ q[1] = dst[1]
          /\ SubSeq(q, Len(dst) + 1, Len(dst) + Len(p) - 1) = Tail(p)
      <4>1. Lab \in Name
        BY NamesAreNames
      <4>. QED  BY <2>3, <2>6, <3>1, <4>1, RebasedPath, ZenonT(60)
    <3>3. q \in DOMAIN c /\ c[q] = t[p]
      BY <2>4, <2>6
    <3>. HIDE DEF q
    <3>4. Len(dst) \in 1 .. Len(q) /\ SubSeq(q, Len(dst) + 1, Len(q)) = Tail(p)
      <4>1. \A a, b \in Nat : a >= 1 /\ b >= 1 => a \in 1 .. a + b - 1
        OBVIOUS
      <4>. QED  BY <3>1, <3>2, <4>1
    <3>. QED  BY <2>3, <2>6, <3>2, <3>3, <3>4 DEF c
  <2>. QED  BY <2>5, <2>6
<1>. QED  BY <1>1, <1>2

\* Unless it was asked to replace it, a verified install keeps the CarrierLab
\* bundle it has found, and all that were preserved before, file by file.
THEOREM BundlesAreKept == Spec => NothingLost
<1>1. ASSUME TreesInv, Next, pc = "installed", pc' = "waiting", strategy # "replace",
             NEW p \in DOMAIN before, OfLabBundle(p)
      PROVE  \E q \in DOMAIN device :
               /\ q[1] \in Preserved
               /\ device[q] = before[p]
               /\ IF p[1] = Lab THEN \E k \in 1 .. Len(q) : SubSeq(q, k + 1, Len(q)) = Tail(p)
                                ELSE q = p
  <2>1. device = desired /\ before = original /\ IsTree(original) /\ strategy \in Strategy
    BY <1>1, InstallVerified DEF TreesInv, BackupExact, TypeOK
  <2>2. PICK name \in Preserved :
          /\ ~Stuck(original, strategy, name)
          /\ desired = WithAsset(Cleared(original, strategy, name))
    BY <1>1 DEF TreesInv, BuiltFromBackup
  <2>. DEFINE c == Cleared(original, strategy, name)
  <2>3. IsTree(c)
    BY <2>1, <2>2, ClearedIsTree
  <2>4. /\ p[1] # Lab => p \in DOMAIN c /\ c[p] = original[p]
        /\ p[1] = Lab => \E q \in DOMAIN c :
             /\ c[q] = original[p] /\ q[1] \in Preserved
             /\ \E k \in 1 .. Len(q) : SubSeq(q, k + 1, Len(q)) = Tail(p)
    BY <1>1, <2>1, <2>2, ClearedHas
  <2>. HIDE DEF c
  <2>5. \A q \in DOMAIN c : q[1] \in Preserved => q \in DOMAIN desired /\ desired[q] = c[q]
    <3>1. desired = WithAsset(c)
      BY <2>2 DEF c
    <3>. QED  BY <2>3, <3>1, WithAssetHas, NamesAreNames
  <2>6. p[1] # Lab => p[1] \in Preserved
    BY <1>1 DEF OfLabBundle
  <2>7. CASE p[1] # Lab
    BY <2>1, <2>4, <2>5, <2>6, <2>7
  <2>8. CASE p[1] = Lab
    <3>1. PICK q \in DOMAIN c :
            /\ c[q] = original[p] /\ q[1] \in Preserved
            /\ \E k \in 1 .. Len(q) : SubSeq(q, k + 1, Len(q)) = Tail(p)
      BY <2>4, <2>8
    <3>. QED  BY <2>1, <2>5, <2>8, <3>1
  <2>. QED  BY <2>7, <2>8
<1>2. TreesInv /\ [Next]_vars
        => [pc = "installed" /\ pc' = "waiting" /\ strategy # "replace" =>
              \A p \in DOMAIN before : OfLabBundle(p) =>
                \E q \in DOMAIN device :
                  /\ q[1] \in Preserved
                  /\ device[q] = before[p]
                  /\ IF p[1] = Lab
                       THEN \E k \in 1 .. Len(q) : SubSeq(q, k + 1, Len(q)) = Tail(p)
                       ELSE q = p]_vars
  BY <1>1
<1>. QED  BY <1>2, TreesInvariant, PTL DEF Spec, NothingLost
=============================================================================
