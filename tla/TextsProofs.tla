----------------------------- MODULE TextsProofs -----------------------------
EXTENDS Texts, SequenceTheorems, TLAPS

(***************************************************************************)
(* A prefix, position by position.                                         *)
(***************************************************************************)
LEMMA PrefixByPosition ==
    ASSUME NEW p \in Place, NEW q \in Place
    PROVE  IsPrefix(p, q) <=> Len(p) <= Len(q) /\ \A i \in 1 .. Len(p) : p[i] = q[i]
<1>1. p = SubSeq(p, 1, Len(p))
  BY SubSeqFull DEF Place
<1>2. ASSUME Len(p) <= Len(q)
      PROVE  SubSeq(p, 1, Len(p)) = SubSeq(q, 1, Len(p))
                <=> \A i \in 1 .. Len(p) : p[i] = q[i]
  BY <1>2 DEF Place
<1> QED
  BY <1>2 DEF IsPrefix

(***************************************************************************)
(* The place of a nested value.                                            *)
(***************************************************************************)
LEMMA AppendPlace ==
    ASSUME NEW p \in Place, NEW i \in Nat \ {0}
    PROVE  /\ Append(p, i) \in Place
           /\ Len(Append(p, i)) = Len(p) + 1
           /\ \A k \in 1 .. Len(p) : Append(p, i)[k] = p[k]
           /\ Append(p, i)[Len(p) + 1] = i
           /\ Front(Append(p, i)) = p
           /\ Append(p, i) # Root
<1>1. Front(Append(p, i)) = p
  BY SMTT(30) DEF Place, Front
<1> QED
  BY <1>1 DEF Place, Root

LEMMA PartByPosition ==
    ASSUME NEW p \in Place, NEW q \in Place, NEW k \in Nat
    PROVE  PartAt(p, q, k) <=>
              /\ k \in 1 .. Len(p) /\ k \in 1 .. Len(q)
              /\ \A i \in 1 .. k - 1 : p[i] = q[i]
              /\ p[k] < q[k]
<1>1. ASSUME k \in 1 .. Len(p), k \in 1 .. Len(q)
      PROVE  SubSeq(p, 1, k - 1) = SubSeq(q, 1, k - 1)
                <=> \A i \in 1 .. k - 1 : p[i] = q[i]
  BY <1>1 DEF Place
<1> QED
  BY <1>1 DEF PartAt, Place

(***************************************************************************)
(* Of two prefixes of one place one is a prefix of the other.              *)
(***************************************************************************)
LEMMA PrefixOrder ==
    ASSUME NEW p \in Place, NEW q \in Place, NEW r \in Place
    PROVE  /\ IsPrefix(p, p)
           /\ IsPrefix(p, q) /\ IsPrefix(q, r) => IsPrefix(p, r)
           /\ IsPrefix(p, r) /\ IsPrefix(q, r) => IsPrefix(p, q) \/ IsPrefix(q, p)
           /\ IsPrefix(p, q) /\ IsPrefix(q, p) => p = q
<1>1. IsPrefix(p, q) /\ IsPrefix(q, p) => p = q
  BY PrefixByPosition, SeqEqual DEF Place
<1> QED
  <2>1. IsPrefix(p, p)
    BY PrefixByPosition DEF Place
  <2>2. /\ Len(p) \in Nat /\ Len(q) \in Nat /\ Len(r) \in Nat
    BY DEF Place
  <2>3. /\ IsPrefix(p, q) <=> Len(p) <= Len(q) /\ \A i \in 1 .. Len(p) : p[i] = q[i]
        /\ IsPrefix(q, p) <=> Len(q) <= Len(p) /\ \A i \in 1 .. Len(q) : q[i] = p[i]
        /\ IsPrefix(q, r) <=> Len(q) <= Len(r) /\ \A i \in 1 .. Len(q) : q[i] = r[i]
        /\ IsPrefix(p, r) <=> Len(p) <= Len(r) /\ \A i \in 1 .. Len(p) : p[i] = r[i]
    BY PrefixByPosition
  <2>4. IsPrefix(p, q) /\ IsPrefix(q, r) => IsPrefix(p, r)
    BY <2>2, <2>3
  <2>5. IsPrefix(p, r) /\ IsPrefix(q, r) => IsPrefix(p, q) \/ IsPrefix(q, p)
    BY <2>2, <2>3
  <2> QED
    BY <1>1, <2>1, <2>4, <2>5

(***************************************************************************)
(* Prefixes of a nested value's place.                                     *)
(***************************************************************************)
LEMMA PrefixOfAppend ==
    ASSUME NEW p \in Place, NEW h \in Place, NEW i \in Nat \ {0}
    PROVE  /\ IsPrefix(p, Append(h, i)) <=> IsPrefix(p, h) \/ p = Append(h, i)
           /\ IsPrefix(Append(h, i), p) <=>
                 /\ IsPrefix(h, p) /\ Len(h) < Len(p)
                 /\ p[Len(h) + 1] = i
<1> DEFINE c == Append(h, i)
<1>1. /\ c \in Place /\ Len(c) = Len(h) + 1
      /\ \A k \in 1 .. Len(h) : c[k] = h[k]
      /\ c[Len(h) + 1] = i
  BY AppendPlace
<1> HIDE DEF c
<1>2. /\ Len(h) \in Nat /\ Len(p) \in Nat /\ Len(c) \in Nat
  BY <1>1 DEF Place
<1>3. IsPrefix(p, c) => IsPrefix(p, h) \/ p = c
  <2>1. ASSUME IsPrefix(p, c), Len(p) <= Len(h)
        PROVE  IsPrefix(p, h)
    BY <1>1, <1>2, <2>1, PrefixByPosition
  <2>2. ASSUME IsPrefix(p, c), ~ (Len(p) <= Len(h))
        PROVE  p = c
    <3>1. Len(p) = Len(c)
      BY <1>1, <1>2, <2>2, PrefixByPosition
    <3>2. \A k \in 1 .. Len(p) : p[k] = c[k]
      BY <1>1, <2>2, PrefixByPosition
    <3> QED
      BY <1>1, <3>1, <3>2, SeqEqual DEF Place
  <2> QED
    BY <2>1, <2>2
<1>4. IsPrefix(p, h) => IsPrefix(p, c)
  BY <1>1, <1>2, PrefixByPosition
<1>5. IsPrefix(c, c)
  BY <1>1, PrefixOrder
<1>6. IsPrefix(c, p) <=> IsPrefix(h, p) /\ Len(h) < Len(p) /\ p[Len(h) + 1] = i
  <2>1. IsPrefix(c, p) <=> Len(c) <= Len(p) /\ \A k \in 1 .. Len(c) : c[k] = p[k]
    BY <1>1, PrefixByPosition
  <2>2. IsPrefix(h, p) <=> Len(h) <= Len(p) /\ \A k \in 1 .. Len(h) : h[k] = p[k]
    BY PrefixByPosition
  <2>3. (\A k \in 1 .. Len(c) : c[k] = p[k])
           <=> (\A k \in 1 .. Len(h) : h[k] = p[k]) /\ p[Len(h) + 1] = i
    BY <1>1, <1>2
  <2> QED
    BY <1>1, <1>2, <2>1, <2>2, <2>3
<1> QED
  BY <1>3, <1>4, <1>5, <1>6 DEF c

(***************************************************************************)
(* Where the place of a nested value parts from another.                   *)
(***************************************************************************)
LEMMA PartOfAppend ==
    ASSUME NEW h \in Place, NEW i \in Nat \ {0}, NEW q \in Place, NEW k \in Nat
    PROVE  /\ PartAt(h, q, k) => PartAt(Append(h, i), q, k) /\ k <= Len(h)
           /\ PartAt(q, h, k) => PartAt(q, Append(h, i), k) /\ k <= Len(h)
           /\ PartAt(Append(h, i), q, k) =>
                 PartAt(h, q, k) \/ (IsPrefix(h, q) /\ Len(h) < Len(q) /\ k = Len(h) + 1)
           /\ PartAt(q, Append(h, i), k) =>
                 PartAt(q, h, k) \/ (IsPrefix(h, q) /\ Len(h) < Len(q) /\ k = Len(h) + 1)
<1> DEFINE c == Append(h, i)
<1>1. /\ c \in Place /\ Len(c) = Len(h) + 1
      /\ \A m \in 1 .. Len(h) : c[m] = h[m]
  BY AppendPlace
<1> HIDE DEF c
<1>2. /\ Len(h) \in Nat /\ Len(q) \in Nat /\ Len(c) \in Nat
  BY <1>1 DEF Place
<1>a. PartAt(h, q, k) <=> /\ k \in 1 .. Len(h) /\ k \in 1 .. Len(q)
                          /\ \A m \in 1 .. k - 1 : h[m] = q[m]
                          /\ h[k] < q[k]
  BY PartByPosition
<1>b. PartAt(q, h, k) <=> /\ k \in 1 .. Len(q) /\ k \in 1 .. Len(h)
                          /\ \A m \in 1 .. k - 1 : q[m] = h[m]
                          /\ q[k] < h[k]
  BY PartByPosition
<1>c. PartAt(c, q, k) <=> /\ k \in 1 .. Len(c) /\ k \in 1 .. Len(q)
                          /\ \A m \in 1 .. k - 1 : c[m] = q[m]
                          /\ c[k] < q[k]
  BY <1>1, PartByPosition
<1>d. PartAt(q, c, k) <=> /\ k \in 1 .. Len(q) /\ k \in 1 .. Len(c)
                          /\ \A m \in 1 .. k - 1 : q[m] = c[m]
                          /\ q[k] < c[k]
  BY <1>1, PartByPosition
<1>3. /\ PartAt(h, q, k) => PartAt(c, q, k) /\ k <= Len(h)
      /\ PartAt(q, h, k) => PartAt(q, c, k) /\ k <= Len(h)
  <2>1. ASSUME k \in 1 .. Len(h)
        PROVE  /\ c[k] = h[k] /\ k \in 1 .. Len(c)
               /\ \A m \in 1 .. k - 1 : c[m] = h[m]
    BY <1>1, <1>2, <2>1
  <2> QED
    BY <1>2, <1>a, <1>b, <1>c, <1>d, <2>1
<1>4. ASSUME PartAt(c, q, k) \/ PartAt(q, c, k), k # Len(h) + 1
      PROVE  /\ PartAt(c, q, k) => PartAt(h, q, k)
             /\ PartAt(q, c, k) => PartAt(q, h, k)
  <2>1. k \in 1 .. Len(h)
    BY <1>1, <1>2, <1>4, <1>c, <1>d
  <2>2. c[k] = h[k] /\ \A m \in 1 .. k - 1 : c[m] = h[m]
    BY <1>1, <1>2, <2>1
  <2> QED
    BY <1>a, <1>b, <1>c, <1>d, <2>1, <2>2
<1>5. ASSUME PartAt(c, q, k) \/ PartAt(q, c, k), k = Len(h) + 1
      PROVE  IsPrefix(h, q) /\ Len(h) < Len(q)
  <2>1. k \in 1 .. Len(q) /\ \A m \in 1 .. Len(h) : h[m] = q[m]
    BY <1>1, <1>2, <1>5, PartByPosition
  <2> QED
    BY <1>2, <1>5, <2>1, PrefixByPosition
<1> QED
  BY <1>3, <1>4, <1>5 DEF c

(***************************************************************************)
(* What is above a place parts from another where the place does, unless   *)
(* it is above both.                                                       *)
(***************************************************************************)
LEMMA PartAbove ==
    ASSUME NEW a \in Place, NEW p \in Place, NEW q \in Place, NEW k \in Nat,
           IsPrefix(a, p)
    PROVE  /\ PartAt(p, q, k) => PartAt(a, q, k) \/ IsPrefix(a, q)
           /\ PartAt(a, q, k) => PartAt(p, q, k)
           /\ PartAt(q, a, k) => PartAt(q, p, k)
<1>1. /\ Len(a) \in Nat /\ Len(p) \in Nat /\ Len(q) \in Nat
      /\ Len(a) <= Len(p) /\ \A i \in 1 .. Len(a) : a[i] = p[i]
  BY PrefixByPosition DEF Place
<1>2. ASSUME PartAt(p, q, k)
      PROVE  PartAt(a, q, k) \/ IsPrefix(a, q)
  <2>1. /\ k \in 1 .. Len(p) /\ k \in 1 .. Len(q)
        /\ \A i \in 1 .. k - 1 : p[i] = q[i]
        /\ p[k] < q[k]
    BY <1>2, PartByPosition
  <2>2. CASE k <= Len(a)
    <3>1. k \in 1 .. Len(a) /\ a[k] = p[k] /\ \A i \in 1 .. k - 1 : a[i] = q[i]
      BY <1>1, <2>1, <2>2
    <3> QED
      BY <2>1, <3>1, PartByPosition
  <2>3. CASE ~ (k <= Len(a))
    BY <1>1, <2>1, <2>3, PrefixByPosition
  <2> QED
    BY <2>2, <2>3
<1>3. PartAt(a, q, k) => PartAt(p, q, k)
  BY <1>1, PartByPosition
<1>4. PartAt(q, a, k) => PartAt(q, p, k)
  BY <1>1, PartByPosition
<1> QED
  BY <1>2, <1>3, <1>4

(***************************************************************************)
(* Two items of one array, or fields of one object.                        *)
(***************************************************************************)
LEMMA PartOfSiblings ==
    ASSUME NEW h \in Place, NEW i \in Nat \ {0}, NEW j \in Nat \ {0}, NEW k \in Nat
    PROVE  /\ PartAt(Append(h, i), Append(h, j), k) <=> k = Len(h) + 1 /\ i < j
           /\ IsPrefix(Append(h, i), Append(h, j)) => i = j
           /\ SubSeq(Append(h, i), 1, Len(h)) = h
<1>1. \A n \in Nat \ {0} :
         /\ Append(h, n) \in Place /\ Len(Append(h, n)) = Len(h) + 1
         /\ \A m \in 1 .. Len(h) : Append(h, n)[m] = h[m]
         /\ Append(h, n)[Len(h) + 1] = n
         /\ Front(Append(h, n)) = h
  BY AppendPlace
<1>2. Len(h) \in Nat
  BY DEF Place
<1>3. PartAt(Append(h, i), Append(h, j), k) <=> k = Len(h) + 1 /\ i < j
  <2>1. PartAt(Append(h, i), Append(h, j), k) <=>
           /\ k \in 1 .. Len(Append(h, i)) /\ k \in 1 .. Len(Append(h, j))
           /\ \A m \in 1 .. k - 1 : Append(h, i)[m] = Append(h, j)[m]
           /\ Append(h, i)[k] < Append(h, j)[k]
    BY <1>1, PartByPosition
  <2>2. ASSUME k \in 1 .. Len(h), Append(h, i)[k] < Append(h, j)[k]
        PROVE  FALSE
    <3>1. Append(h, i)[k] = h[k] /\ Append(h, j)[k] = h[k] /\ h[k] \in Nat
      BY <1>1, <2>2 DEF Place
    <3> QED
      BY <2>2, <3>1
  <2>3. ASSUME k = Len(h) + 1
        PROVE  /\ k \in 1 .. Len(h) + 1
               /\ \A m \in 1 .. k - 1 : Append(h, i)[m] = Append(h, j)[m]
               /\ Append(h, i)[k] = i /\ Append(h, j)[k] = j
    BY <1>1, <1>2, <2>3
  <2> QED
    BY <1>1, <1>2, <2>1, <2>2, <2>3
<1>4. IsPrefix(Append(h, i), Append(h, j)) => i = j
  <2>1. ASSUME IsPrefix(Append(h, i), Append(h, j))
        PROVE  Append(h, i)[Len(h) + 1] = Append(h, j)[Len(h) + 1]
    <3>1. \A m \in 1 .. Len(Append(h, i)) : Append(h, i)[m] = Append(h, j)[m]
      BY <1>1, <2>1, PrefixByPosition
    <3>2. Len(h) + 1 \in 1 .. Len(Append(h, i))
      BY <1>1, <1>2
    <3> QED
      BY <3>1, <3>2
  <2> QED
    BY <1>1, <2>1
<1>5. SubSeq(Append(h, i), 1, Len(h)) = h
  BY <1>1, <1>2 DEF Front
<1> QED
  BY <1>3, <1>4, <1>5

-----------------------------------------------------------------------------

(***************************************************************************)
(* The values of a document.                                               *)
(***************************************************************************)
LEMMA DocumentFacts ==
    ASSUME NEW d, IsDocument(d), NEW p \in DOMAIN d
    PROVE  /\ p \in Place
           /\ d[p] \in Value /\ d[p].width \in Nat /\ d[p].text \in Seq(Char)
           /\ \A i \in 1 .. d[p].width : Append(p, i) \in DOMAIN d
           /\ d[p].kind \in {"string", "other"} => d[p].width = 0
  BY DEF IsDocument, Value

(***************************************************************************)
(* Every value but the root is nested in the one at the front of its       *)
(* place.                                                                  *)
(***************************************************************************)
LEMMA FrontFacts ==
    ASSUME NEW d, IsDocument(d), NEW p \in DOMAIN d, p # Root
    PROVE  /\ Front(p) \in DOMAIN d
           /\ p[Len(p)] \in 1 .. d[Front(p)].width
           /\ p = Append(Front(p), p[Len(p)])
<1>1. p \in Place
  BY DocumentFacts
<1>2. Len(p) \in Nat \ {0} /\ Len(p) \in 1 .. Len(p)
  BY <1>1 DEF Place, Root
<1>3. SubSeq(p, 1, Len(p) - 1) \in DOMAIN d
      /\ p[Len(p)] \in 1 .. d[SubSeq(p, 1, Len(p) - 1)].width
  BY <1>2 DEF IsDocument
<1>4. p = Append(SubSeq(p, 1, Len(p) - 1), p[Len(p)])
  BY <1>1, <1>2, SMTT(30) DEF Place
<1> QED
  BY <1>3, <1>4 DEF Front

(***************************************************************************)
(* The value on the way from one above.                                    *)
(***************************************************************************)
LEMMA StepDown ==
    ASSUME NEW d, IsDocument(d), NEW h \in DOMAIN d, NEW p \in DOMAIN d,
           IsPrefix(h, p), h # p
    PROVE  /\ Len(h) < Len(p) /\ p[Len(h) + 1] \in 1 .. d[h].width
           /\ IsPrefix(Append(h, p[Len(h) + 1]), p)
<1>1. h \in Place /\ p \in Place
  BY DocumentFacts
<1>2. /\ Len(h) \in Nat /\ Len(p) \in Nat /\ Len(h) <= Len(p)
      /\ \A i \in 1 .. Len(h) : h[i] = p[i]
  BY <1>1, PrefixByPosition DEF Place
<1>3. Len(h) # Len(p)
  BY <1>1, <1>2, SeqEqual DEF Place
<1>4. Len(h) + 1 \in 1 .. Len(p)
  BY <1>2, <1>3
<1>5. SubSeq(p, 1, (Len(h) + 1) - 1) = h
  <2>1. SubSeq(p, 1, Len(h)) = h
    BY <1>1, <1>2, SeqEqual DEF Place
  <2> QED
    BY <1>2, <2>1
<1>6. p[Len(h) + 1] \in 1 .. d[h].width
  BY <1>4, <1>5 DEF IsDocument
<1>7. p[Len(h) + 1] \in Nat \ {0}
  BY <1>1, <1>4 DEF Place
<1>8. IsPrefix(Append(h, p[Len(h) + 1]), p)
  BY <1>1, <1>4, <1>7, <1>2, PrefixOfAppend
<1> QED
  BY <1>2, <1>3, <1>6, <1>8

(***************************************************************************)
(* The agenda after a call: the nested values in some order, then what was *)
(* owed before.                                                            *)
(***************************************************************************)
Nested(d, h, order) == [i \in 1 .. d[h].width |-> Append(h, order[i])]

Permutation(d, h) == Bijection(1 .. d[h].width, 1 .. d[h].width)

Lists(d, h, order, n) ==
    /\ n \in Seq(DOMAIN d) /\ Len(n) = d[h].width
    /\ \A k \in 1 .. d[h].width :
          /\ order[k] \in 1 .. d[h].width /\ order[k] \in Nat \ {0}
          /\ n[k] = Append(h, order[k])
    /\ \A k, l \in 1 .. d[h].width : order[k] = order[l] => k = l
    /\ \A i \in 1 .. d[h].width : \E k \in 1 .. d[h].width : order[k] = i

LEMMA PermutationFacts ==
    ASSUME NEW d, IsDocument(d), NEW h \in DOMAIN d, NEW order \in Permutation(d, h)
    PROVE  Lists(d, h, order, Nested(d, h, order))
<1>1. d[h].width \in Nat /\ \A i \in 1 .. d[h].width : Append(h, i) \in DOMAIN d
  BY DocumentFacts
<1>2. order \in [1 .. d[h].width -> 1 .. d[h].width]
  BY DEF Permutation, Bijection, Injection
<1>3. \A k, l \in 1 .. d[h].width : order[k] = order[l] => k = l
  BY <1>2 DEF Permutation, Bijection, Injection, IsInjective
<1>4. \A i \in 1 .. d[h].width : \E k \in 1 .. d[h].width : order[k] = i
  BY DEF Permutation, Bijection, Surjection
<1>5. \A k \in 1 .. d[h].width : Append(h, order[k]) \in DOMAIN d
  BY <1>1, <1>2
<1>6. Nested(d, h, order) \in Seq(DOMAIN d) /\ Len(Nested(d, h, order)) = d[h].width
  <2>1. Nested(d, h, order) \in [1 .. d[h].width -> DOMAIN d]
    BY <1>5 DEF Nested
  <2> QED
    BY <1>1, <2>1
<1>7. \A k \in 1 .. d[h].width : Nested(d, h, order)[k] = Append(h, order[k])
  BY DEF Nested
<1>8. \A k \in 1 .. d[h].width :
         order[k] \in 1 .. d[h].width /\ order[k] \in Nat \ {0}
  BY <1>1, <1>2
<1> QED
  BY <1>3, <1>4, <1>6, <1>7, <1>8 DEF Lists

LEMMA ConcatTail ==
    ASSUME NEW S, NEW n \in Seq(S), NEW a \in Seq(S), a # <<>>,
           NEW b, b = n \o Tail(a)
    PROVE  /\ b \in Seq(S) /\ Len(n) \in Nat /\ Len(a) \in Nat \ {0}
           /\ Len(b) = Len(n) + Len(a) - 1
           /\ \A k \in 1 .. Len(n) : b[k] = n[k]
           /\ \A k \in 2 .. Len(a) : b[k + Len(n) - 1] = a[k]
           /\ \A k \in 1 .. Len(b) :
                 k \in 1 .. Len(n)
                    \/ (k - Len(n) + 1 \in 2 .. Len(a) /\ b[k] = a[k - Len(n) + 1])
<1>1. /\ Tail(a) \in Seq(S)
      /\ Len(a) \in Nat \ {0} /\ Len(Tail(a)) = Len(a) - 1
      /\ \A k \in 1 .. Len(a) - 1 : Tail(a)[k] = a[k + 1]
  OBVIOUS
<1>2. Len(n) \in Nat
  OBVIOUS
<1>3. /\ b \in Seq(S) /\ Len(b) = Len(n) + (Len(a) - 1)
      /\ \A k \in 1 .. Len(b) : b[k] = IF k <= Len(n) THEN n[k] ELSE Tail(a)[k - Len(n)]
  <2>1. /\ n \o Tail(a) \in Seq(S)
        /\ Len(n \o Tail(a)) = Len(n) + Len(Tail(a))
        /\ \A k \in 1 .. Len(n) + Len(Tail(a)) :
              (n \o Tail(a))[k] = IF k <= Len(n) THEN n[k] ELSE Tail(a)[k - Len(n)]
    BY <1>1, ConcatProperties
  <2> QED
    BY <1>1, <1>2, <2>1
<1>4. \A k \in 1 .. Len(n) : b[k] = n[k]
  <2>1. TAKE k \in 1 .. Len(n)
  <2>2. k \in 1 .. Len(b) /\ k <= Len(n)
    BY <1>1, <1>2, <1>3
  <2> QED
    BY <1>3, <2>2
<1>5. \A k \in 2 .. Len(a) : b[k + Len(n) - 1] = a[k]
  <2>1. TAKE k \in 2 .. Len(a)
  <2>2. /\ k + Len(n) - 1 \in 1 .. Len(b) /\ ~ (k + Len(n) - 1 <= Len(n))
        /\ (k + Len(n) - 1) - Len(n) = k - 1
    BY <1>1, <1>2, <1>3
  <2>3. b[k + Len(n) - 1] = Tail(a)[k - 1]
    BY <1>3, <2>2
  <2>4. k - 1 \in 1 .. Len(a) - 1 /\ (k - 1) + 1 = k
    BY <1>1
  <2> QED
    BY <1>1, <2>3, <2>4
<1>6. \A k \in 1 .. Len(b) :
         k \in 1 .. Len(n)
            \/ (k - Len(n) + 1 \in 2 .. Len(a) /\ b[k] = a[k - Len(n) + 1])
  <2>1. SUFFICES ASSUME NEW k \in 1 .. Len(b), k \notin 1 .. Len(n)
                 PROVE  k - Len(n) + 1 \in 2 .. Len(a) /\ b[k] = a[k - Len(n) + 1]
    OBVIOUS
  <2>2. k - Len(n) + 1 \in 2 .. Len(a)
    BY <1>1, <1>2, <1>3, <2>1
  <2>3. b[(k - Len(n) + 1) + Len(n) - 1] = a[k - Len(n) + 1]
    BY <1>5, <2>2
  <2>4. (k - Len(n) + 1) + Len(n) - 1 = k
    BY <1>2
  <2> QED
    BY <2>2, <2>3, <2>4
<1>7. Len(b) = Len(n) + Len(a) - 1
  BY <1>1, <1>2, <1>3
<1> QED
  BY <1>1, <1>2, <1>3, <1>4, <1>5, <1>6, <1>7

(***************************************************************************)
(* The agenda a before the value h is walked, and the agenda b after it.   *)
(***************************************************************************)
Before(d, a, h) ==
    /\ IsDocument(d) /\ a \in Seq(DOMAIN d) /\ a # <<>> /\ Apart(a)
    /\ h = Head(a)

After(d, a, h, order, b) ==
    order \in Permutation(d, h) /\ b = Nested(d, h, order) \o Tail(a)

LEMMA BeforeFacts ==
    ASSUME NEW d, NEW a, NEW h, Before(d, a, h)
    PROVE  /\ IsDocument(d)
           /\ h \in DOMAIN d /\ h \in Place /\ h = a[1] /\ 1 \in DOMAIN a
           /\ Len(a) \in Nat \ {0} /\ DOMAIN a = 1 .. Len(a)
           /\ \A k \in DOMAIN a : a[k] \in DOMAIN d /\ a[k] \in Place
           /\ \A k \in DOMAIN a : k # 1 => ~ IsPrefix(a[k], h) /\ ~ IsPrefix(h, a[k])
           /\ \A i \in 1 .. d[h].width : i \in Nat \ {0} /\ Append(h, i) \in DOMAIN d
<1>1. /\ a \in Seq(DOMAIN d) /\ a # <<>> /\ h = Head(a) /\ IsDocument(d) /\ Apart(a)
  BY DEF Before
<1>2. /\ h \in DOMAIN d /\ h = a[1] /\ Len(a) \in Nat \ {0} /\ 1 \in DOMAIN a
      /\ DOMAIN a = 1 .. Len(a)
      /\ \A k \in DOMAIN a : a[k] \in DOMAIN d
  BY <1>1
<1>3. h \in Place /\ \A k \in DOMAIN a : a[k] \in Place
  BY <1>1, <1>2, DocumentFacts
<1>4. \A k \in DOMAIN a : k # 1 => ~ IsPrefix(a[k], h) /\ ~ IsPrefix(h, a[k])
  BY <1>1, <1>2 DEF Apart
<1>5. \A i \in 1 .. d[h].width : i \in Nat \ {0} /\ Append(h, i) \in DOMAIN d
  BY <1>1, <1>2, DocumentFacts
<1> QED
  BY <1>1, <1>2, <1>3, <1>4, <1>5

Positions(d, a, h, order, b, w) ==
    /\ w = d[h].width
    /\ b \in Seq(DOMAIN d) /\ DOMAIN b = 1 .. w + Len(a) - 1
    /\ \A k \in 1 .. w : b[k] = Append(h, order[k])
    /\ \A k \in 2 .. Len(a) : b[k + w - 1] = a[k]
    /\ \A k \in DOMAIN b :
          k \in 1 .. w \/ (k - w + 1 \in 2 .. Len(a) /\ b[k] = a[k - w + 1])
    /\ \A k \in 1 .. w : order[k] \in 1 .. w /\ order[k] \in Nat \ {0}
    /\ \A k, l \in 1 .. w : order[k] = order[l] => k = l
    /\ \A i \in 1 .. w : \E k \in 1 .. w : order[k] = i

LEMMA CallByPosition ==
    ASSUME NEW d, NEW a, NEW h, Before(d, a, h), NEW order, NEW b, After(d, a, h, order, b)
    PROVE  \E w \in Nat : Positions(d, a, h, order, b, w)
<1> DEFINE n == Nested(d, h, order)
           w == d[h].width
<1>1. /\ a \in Seq(DOMAIN d) /\ a # <<>> /\ IsDocument(d) /\ h \in DOMAIN d
      /\ order \in Permutation(d, h) /\ b = n \o Tail(a)
  BY BeforeFacts DEF Before, After
<1>2. /\ n \in Seq(DOMAIN d) /\ Len(n) = w
      /\ \A k \in 1 .. w :
            /\ order[k] \in 1 .. w /\ order[k] \in Nat \ {0}
            /\ n[k] = Append(h, order[k])
      /\ \A k, l \in 1 .. w : order[k] = order[l] => k = l
      /\ \A i \in 1 .. w : \E k \in 1 .. w : order[k] = i
  <2>1. Lists(d, h, order, n)
    BY <1>1, PermutationFacts
  <2> QED
    BY <2>1 DEF Lists
<1>3. w = d[h].width
  OBVIOUS
<1> HIDE DEF n, w
<1>4. /\ b \in Seq(DOMAIN d) /\ w \in Nat
      /\ Len(b) = w + Len(a) - 1
      /\ \A k \in 1 .. w : b[k] = n[k]
      /\ \A k \in 2 .. Len(a) : b[k + w - 1] = a[k]
      /\ \A k \in 1 .. Len(b) :
            k \in 1 .. w \/ (k - w + 1 \in 2 .. Len(a) /\ b[k] = a[k - w + 1])
  <2>1. /\ b \in Seq(DOMAIN d) /\ Len(n) \in Nat
        /\ Len(b) = Len(n) + Len(a) - 1
        /\ \A k \in 1 .. Len(n) : b[k] = n[k]
        /\ \A k \in 2 .. Len(a) : b[k + Len(n) - 1] = a[k]
        /\ \A k \in 1 .. Len(b) :
              k \in 1 .. Len(n)
                 \/ (k - Len(n) + 1 \in 2 .. Len(a) /\ b[k] = a[k - Len(n) + 1])
    <3>1. a \in Seq(DOMAIN d) /\ a # <<>> /\ b = n \o Tail(a) /\ n \in Seq(DOMAIN d)
      BY <1>1, <1>2
    <3> QED
      BY <3>1, ConcatTail
  <2> QED
    BY <1>2, <2>1
<1>5. DOMAIN b = 1 .. Len(b)
  BY <1>4
<1> QED
  BY <1>2, <1>3, <1>4, <1>5 DEF Positions

(***************************************************************************)
(* After a call is owed what was owed before, but for the value walked.    *)
(***************************************************************************)
LEMMA OwedAfterCall ==
    ASSUME NEW d, NEW a, NEW h, Before(d, a, h), NEW order, NEW b, After(d, a, h, order, b)
    PROVE  /\ b \in Seq(DOMAIN d) /\ Apart(b)
           /\ \A p \in DOMAIN d : Owed(b, p) <=> Owed(a, p) /\ p # h
<1>1. /\ IsDocument(d)
      /\ h \in DOMAIN d /\ h \in Place /\ h = a[1] /\ 1 \in DOMAIN a
      /\ Len(a) \in Nat \ {0} /\ DOMAIN a = 1 .. Len(a)
      /\ \A k \in DOMAIN a : a[k] \in DOMAIN d /\ a[k] \in Place
      /\ \A k \in DOMAIN a : k # 1 => ~ IsPrefix(a[k], h) /\ ~ IsPrefix(h, a[k])
  BY BeforeFacts
<1>0. PICK w \in Nat : Positions(d, a, h, order, b, w)
  BY CallByPosition
<1>2. /\ w = d[h].width
      /\ b \in Seq(DOMAIN d) /\ DOMAIN b = 1 .. w + Len(a) - 1
      /\ \A k \in 1 .. w : b[k] = Append(h, order[k])
      /\ \A k \in 2 .. Len(a) : b[k + w - 1] = a[k]
      /\ \A k \in DOMAIN b :
            k \in 1 .. w \/ (k - w + 1 \in 2 .. Len(a) /\ b[k] = a[k - w + 1])
      /\ \A k \in 1 .. w : order[k] \in 1 .. w /\ order[k] \in Nat \ {0}
      /\ \A k, l \in 1 .. w : order[k] = order[l] => k = l
      /\ \A i \in 1 .. w : \E k \in 1 .. w : order[k] = i
  BY <1>0 DEF Positions
<1>3. \A k \in DOMAIN b : k \notin 1 .. w => \E m \in DOMAIN a : m # 1 /\ b[k] = a[m]
                                                /\ k = m + w - 1
  <2>1. SUFFICES ASSUME NEW k \in DOMAIN b, k \notin 1 .. w
                 PROVE  \E m \in DOMAIN a : m # 1 /\ b[k] = a[m] /\ k = m + w - 1
    OBVIOUS
  <2>2. k - w + 1 \in 2 .. Len(a) /\ b[k] = a[k - w + 1]
    BY <1>2, <2>1
  <2>3. k - w + 1 \in DOMAIN a /\ k - w + 1 # 1 /\ k = (k - w + 1) + w - 1
    BY <1>1, <1>2, <2>2
  <2> QED
    BY <2>2, <2>3
<1>4. Apart(b)
  <2>1. SUFFICES ASSUME NEW k \in DOMAIN b, NEW l \in DOMAIN b, IsPrefix(b[k], b[l])
                 PROVE  k = l
    BY DEF Apart
  <2>2. CASE k \in 1 .. w /\ l \in 1 .. w
    <3>1. IsPrefix(Append(h, order[k]), Append(h, order[l]))
      BY <1>2, <2>1, <2>2
    <3>2. order[k] = order[l]
      BY <1>1, <1>2, <2>2, <3>1, PartOfSiblings
    <3> QED
      BY <1>2, <2>2, <3>2
  <2>3. CASE k \in 1 .. w /\ l \notin 1 .. w
    <3>1. PICK m \in DOMAIN a : m # 1 /\ b[l] = a[m]
      BY <1>3, <2>3
    <3>2. IsPrefix(Append(h, order[k]), a[m]) /\ order[k] \in Nat \ {0} /\ a[m] \in Place
      BY <1>1, <1>2, <2>1, <2>3, <3>1
    <3>3. IsPrefix(h, a[m])
      BY <1>1, <3>2, PrefixOfAppend
    <3> QED
      BY <1>1, <3>1, <3>3
  <2>4. CASE k \notin 1 .. w /\ l \in 1 .. w
    <3>1. PICK m \in DOMAIN a : m # 1 /\ b[k] = a[m]
      BY <1>3, <2>4
    <3>2. IsPrefix(a[m], Append(h, order[l])) /\ order[l] \in Nat \ {0} /\ a[m] \in Place
      BY <1>1, <1>2, <2>1, <2>4, <3>1
    <3>3. IsPrefix(a[m], h) \/ a[m] = Append(h, order[l])
      BY <1>1, <3>2, PrefixOfAppend
    <3>4. IsPrefix(h, Append(h, order[l]))
      BY <1>1, <3>2, PrefixOfAppend, PrefixOrder
    <3> QED
      BY <1>1, <3>1, <3>3, <3>4
  <2>5. CASE k \notin 1 .. w /\ l \notin 1 .. w
    <3>1. PICK m \in DOMAIN a : m # 1 /\ b[k] = a[m] /\ k = m + w - 1
      BY <1>3, <2>5
    <3>2. PICK r \in DOMAIN a : r # 1 /\ b[l] = a[r] /\ l = r + w - 1
      BY <1>3, <2>5
    <3>3. m = r
      BY <2>1, <3>1, <3>2 DEF Apart, Before
    <3> QED
      BY <3>1, <3>2, <3>3
  <2> QED
    BY <2>2, <2>3, <2>4, <2>5
<1>5. ASSUME NEW p \in DOMAIN d, Owed(b, p)
      PROVE  Owed(a, p) /\ p # h
  <2>1. p \in Place
    BY <1>1, DocumentFacts
  <2>2. PICK k \in DOMAIN b : IsPrefix(b[k], p)
    BY <1>5 DEF Owed
  <2>3. CASE k \in 1 .. w
    <3>1. IsPrefix(Append(h, order[k]), p) /\ order[k] \in Nat \ {0}
      BY <1>2, <2>2, <2>3
    <3>2. IsPrefix(h, p) /\ Len(h) < Len(p)
      BY <1>1, <2>1, <3>1, PrefixOfAppend
    <3>3. p # h
      BY <1>1, <3>2 DEF Place
    <3> QED
      BY <1>1, <3>2, <3>3 DEF Owed
  <2>4. CASE k \notin 1 .. w
    <3>1. PICK m \in DOMAIN a : m # 1 /\ b[k] = a[m]
      BY <1>3, <2>4
    <3>2. IsPrefix(a[m], p)
      BY <2>2, <3>1
    <3>3. p # h
      BY <1>1, <3>1, <3>2
    <3> QED
      BY <3>2, <3>3 DEF Owed
  <2> QED
    BY <2>3, <2>4
<1>6. ASSUME NEW p \in DOMAIN d, Owed(a, p), p # h
      PROVE  Owed(b, p)
  <2>1. PICK k \in DOMAIN a : IsPrefix(a[k], p)
    BY <1>6 DEF Owed
  <2>2. CASE k = 1
    <3>1. /\ p[Len(h) + 1] \in 1 .. w
          /\ IsPrefix(Append(h, p[Len(h) + 1]), p)
      BY <1>1, <1>2, <1>6, <2>1, <2>2, StepDown
    <3>2. PICK m \in 1 .. w : order[m] = p[Len(h) + 1]
      BY <1>2, <3>1
    <3>3. m \in DOMAIN b
      BY <1>1, <1>2
    <3>4. b[m] = Append(h, p[Len(h) + 1])
      BY <1>2, <3>2
    <3> QED
      BY <3>1, <3>3, <3>4 DEF Owed
  <2>3. CASE k # 1
    <3>1. k \in 2 .. Len(a) /\ k + w - 1 \in DOMAIN b
      BY <1>1, <1>2, <2>3
    <3>2. b[k + w - 1] = a[k]
      BY <1>2, <3>1
    <3> QED
      BY <2>1, <3>1, <3>2 DEF Owed
  <2> QED
    BY <2>2, <2>3
<1> QED
  BY <1>2, <1>4, <1>5, <1>6

-----------------------------------------------------------------------------

(***************************************************************************)
(* Places have positions, which are numbers.                               *)
(***************************************************************************)
LEMMA PlaceDomain ==
    ASSUME NEW p \in Place
    PROVE  /\ DOMAIN p = 1 .. Len(p) /\ Len(p) \in Nat
           /\ \A k \in DOMAIN p : k \in Nat
  BY DEF Place

(***************************************************************************)
(* The order of the document between a value and one nested in another.    *)
(***************************************************************************)
LEMMA EarlierDown ==
    ASSUME NEW h \in Place, NEW i \in Nat \ {0}, NEW q \in Place
    PROVE  /\ Earlier(h, q) => Earlier(Append(h, i), q)
           /\ Earlier(q, h) => Earlier(q, Append(h, i))
<1> DEFINE c == Append(h, i)
<1>1. c \in Place
  BY AppendPlace
<1>2. ASSUME Earlier(h, q)
      PROVE  Earlier(c, q)
  <2>1. PICK k \in DOMAIN h : PartAt(h, q, k)
    BY <1>2 DEF Earlier
  <2>2. k \in Nat
    BY PlaceDomain
  <2>3. PartAt(c, q, k)
    BY <2>1, <2>2, PartOfAppend
  <2>4. k \in DOMAIN c
    BY <2>3 DEF PartAt
  <2> QED
    BY <2>3, <2>4 DEF Earlier
<1>3. ASSUME Earlier(q, h)
      PROVE  Earlier(q, c)
  <2>1. PICK k \in DOMAIN q : PartAt(q, h, k)
    BY <1>3 DEF Earlier
  <2>2. k \in Nat
    BY PlaceDomain
  <2>3. PartAt(q, c, k)
    BY <2>1, <2>2, PartOfAppend
  <2> QED
    BY <2>3 DEF Earlier
<1> QED
  BY <1>2, <1>3

(***************************************************************************)
(* The same in arrays: a nested value comes before or after another where  *)
(* the one that holds it does, unless that is an array that holds both.    *)
(***************************************************************************)
Holds(d, h, q) == IsPrefix(h, q) /\ h # q /\ d[h].kind = "array"

LEMMA EarlierItemDown ==
    ASSUME NEW d, NEW h \in Place, NEW i \in Nat \ {0}, NEW q \in Place
    PROVE  /\ EarlierItem(d, Append(h, i), q) => EarlierItem(d, h, q) \/ Holds(d, h, q)
           /\ EarlierItem(d, q, Append(h, i)) => EarlierItem(d, q, h) \/ Holds(d, h, q)
<1> DEFINE c == Append(h, i)
<1>1. /\ c \in Place /\ SubSeq(c, 1, Len(h)) = h
      /\ Len(h) \in Nat /\ Len(c) \in Nat
  BY AppendPlace, PartOfSiblings, PlaceDomain
<1>2. \A k \in 1 .. Len(h) : SubSeq(c, 1, k - 1) = SubSeq(h, 1, k - 1)
  <2>1. TAKE k \in 1 .. Len(h)
  <2>2. PICK m \in Nat : m = k - 1 /\ m <= Len(h)
    BY <1>1
  <2>3. Len(c) = Len(h) + 1 /\ \A n \in 1 .. Len(h) : c[n] = h[n]
    BY AppendPlace
  <2> HIDE DEF c
  <2>4. SubSeq(c, 1, m) = SubSeq(h, 1, m)
    BY <1>1, <2>2, <2>3 DEF Place
  <2> QED
    BY <2>2, <2>4
<1>3. ASSUME EarlierItem(d, c, q)
      PROVE  EarlierItem(d, h, q) \/ Holds(d, h, q)
  <2>1. PICK k \in DOMAIN c : PartAt(c, q, k) /\ d[SubSeq(c, 1, k - 1)].kind = "array"
    BY <1>3 DEF EarlierItem
  <2>2. k \in Nat
    BY <1>1, PlaceDomain
  <2>3. CASE PartAt(h, q, k)
    <3>1. k \in DOMAIN h /\ k \in 1 .. Len(h)
      BY <2>3, PlaceDomain DEF PartAt
    <3> QED
      BY <1>2, <2>1, <2>3, <3>1 DEF EarlierItem
  <2>4. CASE IsPrefix(h, q) /\ Len(h) < Len(q) /\ k = Len(h) + 1
    <3>1. h # q
      BY <1>1, <2>4
    <3>2. SubSeq(c, 1, k - 1) = h
      BY <1>1, <2>4
    <3> QED
      BY <2>1, <2>4, <3>1, <3>2 DEF Holds
  <2> QED
    BY <2>1, <2>2, <2>3, <2>4, PartOfAppend
<1>4. ASSUME EarlierItem(d, q, c)
      PROVE  EarlierItem(d, q, h) \/ Holds(d, h, q)
  <2>1. PICK k \in DOMAIN q : PartAt(q, c, k) /\ d[SubSeq(q, 1, k - 1)].kind = "array"
    BY <1>4 DEF EarlierItem
  <2>2. k \in Nat
    BY PlaceDomain
  <2>3. CASE PartAt(q, h, k)
    BY <2>1, <2>3 DEF EarlierItem
  <2>4. CASE IsPrefix(h, q) /\ Len(h) < Len(q) /\ k = Len(h) + 1
    <3>1. h # q
      BY <1>1, <2>4
    <3>2. SubSeq(q, 1, k - 1) = h
      <4>1. SubSeq(q, 1, k - 1) = SubSeq(c, 1, k - 1)
        BY <2>1 DEF PartAt
      <4> QED
        BY <1>1, <2>4, <4>1
    <3> QED
      BY <2>1, <2>4, <3>1, <3>2 DEF Holds
  <2> QED
    BY <2>1, <2>2, <2>3, <2>4, PartOfAppend
<1> QED
  BY <1>3, <1>4

(***************************************************************************)
(* Values nested in one value.                                             *)
(***************************************************************************)
LEMMA Siblings ==
    ASSUME NEW d, NEW h \in Place, NEW i \in Nat \ {0}, NEW j \in Nat \ {0}
    PROVE  /\ EarlierItem(d, Append(h, i), Append(h, j)) => i < j /\ d[h].kind = "array"
           /\ i < j => Earlier(Append(h, i), Append(h, j))
<1>1. /\ SubSeq(Append(h, i), 1, Len(h)) = h /\ Len(h) \in Nat
      /\ Append(h, i) \in Place
      /\ Len(h) + 1 \in DOMAIN Append(h, i)
  BY AppendPlace, PartOfSiblings, PlaceDomain
<1>2. \A k \in Nat : PartAt(Append(h, i), Append(h, j), k) <=> k = Len(h) + 1 /\ i < j
  BY PartOfSiblings
<1>3. ASSUME EarlierItem(d, Append(h, i), Append(h, j))
      PROVE  i < j /\ d[h].kind = "array"
  <2>1. PICK k \in DOMAIN Append(h, i) :
           /\ PartAt(Append(h, i), Append(h, j), k)
           /\ d[SubSeq(Append(h, i), 1, k - 1)].kind = "array"
    BY <1>3 DEF EarlierItem
  <2>2. k = Len(h) + 1 /\ i < j
    BY <1>1, <1>2, <2>1, PlaceDomain
  <2>3. k - 1 = Len(h)
    BY <1>1, <2>2
  <2> QED
    BY <1>1, <2>1, <2>2, <2>3
<1>4. i < j => Earlier(Append(h, i), Append(h, j))
  BY <1>1, <1>2 DEF Earlier
<1> QED
  BY <1>3, <1>4

(***************************************************************************)
(* What comes before a value in an array comes after no value above it,    *)
(* and what is above a value comes neither before nor after it.            *)
(***************************************************************************)
LEMMA EarlierItemAbove ==
    ASSUME NEW d, NEW a \in Place, NEW p \in Place, NEW q \in Place, IsPrefix(a, p)
    PROVE  /\ EarlierItem(d, p, q) => EarlierItem(d, a, q) \/ IsPrefix(a, q)
           /\ ~ EarlierItem(d, p, a)
<1>1. /\ Len(a) \in Nat /\ Len(p) \in Nat
      /\ Len(a) <= Len(p) /\ \A i \in 1 .. Len(a) : a[i] = p[i]
  BY PrefixByPosition, PlaceDomain
<1>2. ASSUME EarlierItem(d, p, q), ~ IsPrefix(a, q)
      PROVE  EarlierItem(d, a, q)
  <2>1. PICK k \in DOMAIN p : PartAt(p, q, k) /\ d[SubSeq(p, 1, k - 1)].kind = "array"
    BY <1>2 DEF EarlierItem
  <2>2. k \in Nat
    BY PlaceDomain
  <2>3. PartAt(a, q, k)
    BY <1>2, <2>1, <2>2, PartAbove
  <2>4. k \in DOMAIN a /\ SubSeq(a, 1, k - 1) = SubSeq(p, 1, k - 1)
    BY <2>1, <2>3 DEF PartAt
  <2> QED
    BY <2>1, <2>3, <2>4 DEF EarlierItem
<1>3. ASSUME EarlierItem(d, p, a)
      PROVE  FALSE
  <2>1. PICK k \in DOMAIN p : PartAt(p, a, k)
    BY <1>3 DEF EarlierItem
  <2>2. k \in 1 .. Len(a) /\ p[k] < a[k]
    BY <2>1, PlaceDomain DEF PartAt
  <2>3. a[k] \in Nat /\ p[k] = a[k]
    BY <1>1, <2>2 DEF Place
  <2> QED
    BY <2>2, <2>3
<1> QED
  BY <1>2, <1>3

(***************************************************************************)
(* What is strictly above a value is above the value that holds it.        *)
(***************************************************************************)
LEMMA AboveFront ==
    ASSUME NEW d, IsDocument(d), NEW q \in DOMAIN d, q # Root, NEW p \in Place
    PROVE  /\ IsPrefix(p, q) /\ p # q => IsPrefix(p, Front(q))
           /\ IsPrefix(p, Front(q)) => IsPrefix(p, q) /\ p # q
           /\ Front(q) \in Place
<1>1. Front(q) \in DOMAIN d /\ q = Append(Front(q), q[Len(q)]) /\ q \in Place
  BY FrontFacts, DocumentFacts
<1>2. Front(q) \in Place
  BY <1>1, DocumentFacts
<1>3. q[Len(q)] \in Nat \ {0}
  <2>1. Len(q) \in 1 .. Len(q)
    BY <1>1 DEF Place, Root
  <2> QED
    BY <1>1, <2>1 DEF Place
<1> DEFINE f == Front(q)
           n == q[Len(q)]
<1>4. f \in Place /\ n \in Nat \ {0} /\ q = Append(f, n)
  BY <1>1, <1>2, <1>3
<1> HIDE DEF f, n
<1>5. IsPrefix(p, Append(f, n)) <=> IsPrefix(p, f) \/ p = Append(f, n)
  BY <1>4, PrefixOfAppend
<1>6. ASSUME IsPrefix(p, f), p = q
      PROVE  FALSE
  <2>1. Len(p) <= Len(f)
    BY <1>4, <1>6, PrefixByPosition
  <2>2. Len(q) = Len(f) + 1 /\ Len(f) \in Nat
    BY <1>4, AppendPlace, PlaceDomain
  <2> QED
    BY <1>6, <2>1, <2>2
<1> QED
  BY <1>4, <1>5, <1>6 DEF f

-----------------------------------------------------------------------------

(***************************************************************************)
(* Orders of the agenda: no value comes before an earlier one of it in an  *)
(* array, and the order of the document.                                   *)
(***************************************************************************)
ItemsInOrder(d, a) ==
    \A k, l \in DOMAIN a : k < l => ~ EarlierItem(d, a[l], a[k])

InOrder(a) ==
    \A k, l \in DOMAIN a : k < l => Earlier(a[k], a[l])

InPlace(d, h, order) == \A k \in 1 .. d[h].width : order[k] = k

(***************************************************************************)
(* An entry of the agenda after a call is nested in the value walked, or   *)
(* was on the agenda behind it.                                            *)
(***************************************************************************)
LEMMA EntryAfterCall ==
    ASSUME NEW d, NEW a, NEW h, Before(d, a, h), NEW order, NEW b, After(d, a, h, order, b),
           NEW w \in Nat, Positions(d, a, h, order, b, w), NEW k \in DOMAIN b
    PROVE  \/ /\ k \in 1 .. w /\ order[k] \in Nat \ {0} /\ order[k] \in 1 .. w
              /\ b[k] = Append(h, order[k])
           \/ /\ k \notin 1 .. w
              /\ \E m \in DOMAIN a : m # 1 /\ 1 < m /\ b[k] = a[m] /\ k = m + w - 1
<1>1. DOMAIN a = 1 .. Len(a) /\ Len(a) \in Nat
  BY BeforeFacts
<1>2. ASSUME k \notin 1 .. w
      PROVE  \E m \in DOMAIN a : m # 1 /\ 1 < m /\ b[k] = a[m] /\ k = m + w - 1
  <2>1. /\ DOMAIN b = 1 .. w + Len(a) - 1
        /\ k - w + 1 \in 2 .. Len(a) /\ b[k] = a[k - w + 1]
    BY <1>2 DEF Positions
  <2>2. /\ k - w + 1 \in DOMAIN a /\ k - w + 1 # 1 /\ 1 < k - w + 1
        /\ k = (k - w + 1) + w - 1
    BY <1>1, <2>1
  <2> QED
    BY <2>1, <2>2
<1> QED
  BY <1>2 DEF Positions

LEMMA ItemsAfterCall ==
    ASSUME NEW d, NEW a, NEW h, Before(d, a, h), NEW order, NEW b, After(d, a, h, order, b),
           d[h].kind = "array" => InPlace(d, h, order), ItemsInOrder(d, a)
    PROVE  ItemsInOrder(d, b)
<1>1. /\ h \in Place /\ h = a[1] /\ 1 \in DOMAIN a
      /\ \A k \in DOMAIN a : a[k] \in Place
      /\ \A k \in DOMAIN a : k # 1 => ~ IsPrefix(a[k], h) /\ ~ IsPrefix(h, a[k])
  BY BeforeFacts
<1>0. PICK w \in Nat : Positions(d, a, h, order, b, w)
  BY CallByPosition
<1>2. SUFFICES ASSUME NEW k \in DOMAIN b, NEW l \in DOMAIN b, k < l,
                      EarlierItem(d, b[l], b[k])
               PROVE  FALSE
  BY DEF ItemsInOrder
<1>3. k \in Nat /\ l \in Nat /\ DOMAIN b = 1 .. w + Len(a) - 1 /\ Len(a) \in Nat
  BY <1>0, BeforeFacts DEF Positions
<1>4. CASE l \in 1 .. w
  <2>1. k \in 1 .. w
    BY <1>2, <1>3, <1>4
  <2>2. /\ order[k] \in Nat \ {0} /\ b[k] = Append(h, order[k])
        /\ order[l] \in Nat \ {0} /\ b[l] = Append(h, order[l])
    BY <1>0, <1>4, <2>1, EntryAfterCall
  <2>3. order[l] < order[k] /\ d[h].kind = "array"
    BY <1>1, <1>2, <2>2, Siblings
  <2>4. order[k] = k /\ order[l] = l
    BY <1>0, <1>4, <2>1, <2>3 DEF InPlace, Positions
  <2> QED
    BY <1>2, <1>3, <2>3, <2>4
<1>5. CASE l \notin 1 .. w
  <2>1. PICK m \in DOMAIN a : m # 1 /\ 1 < m /\ b[l] = a[m] /\ l = m + w - 1
    BY <1>0, <1>5, EntryAfterCall
  <2>2. a[m] \in Place /\ ~ EarlierItem(d, a[m], h)
    BY <1>1, <2>1 DEF ItemsInOrder
  <2>3. CASE k \in 1 .. w
    <3>1. order[k] \in Nat \ {0} /\ b[k] = Append(h, order[k])
      BY <1>0, <2>3, EntryAfterCall
    <3>2. EarlierItem(d, a[m], h) \/ Holds(d, h, a[m])
      BY <1>1, <1>2, <2>1, <2>2, <3>1, EarlierItemDown
    <3> QED
      BY <1>1, <2>1, <2>2, <3>2 DEF Holds
  <2>4. CASE k \notin 1 .. w
    <3>1. PICK n \in DOMAIN a : n # 1 /\ 1 < n /\ b[k] = a[n] /\ k = n + w - 1
      BY <1>0, <2>4, EntryAfterCall
    <3>2. n < m
      BY <1>2, <1>3, <2>1, <3>1, BeforeFacts
    <3> QED
      BY <1>2, <2>1, <3>1, <3>2 DEF ItemsInOrder
  <2> QED
    BY <2>3, <2>4
<1> QED
  BY <1>4, <1>5

LEMMA InOrderAfterCall ==
    ASSUME NEW d, NEW a, NEW h, Before(d, a, h), NEW order, NEW b, After(d, a, h, order, b),
           InPlace(d, h, order), InOrder(a)
    PROVE  InOrder(b)
<1>1. /\ h \in Place /\ h = a[1] /\ 1 \in DOMAIN a
      /\ \A k \in DOMAIN a : a[k] \in Place
  BY BeforeFacts
<1>0. PICK w \in Nat : Positions(d, a, h, order, b, w)
  BY CallByPosition
<1>2. SUFFICES ASSUME NEW k \in DOMAIN b, NEW l \in DOMAIN b, k < l
               PROVE  Earlier(b[k], b[l])
  BY DEF InOrder
<1>3. k \in Nat /\ l \in Nat /\ DOMAIN b = 1 .. w + Len(a) - 1 /\ Len(a) \in Nat
  BY <1>0, BeforeFacts DEF Positions
<1>4. CASE l \in 1 .. w
  <2>1. k \in 1 .. w
    BY <1>2, <1>3, <1>4
  <2>2. /\ order[k] \in Nat \ {0} /\ b[k] = Append(h, order[k])
        /\ order[l] \in Nat \ {0} /\ b[l] = Append(h, order[l])
    BY <1>0, <1>4, <2>1, EntryAfterCall
  <2>3. order[k] = k /\ order[l] = l
    BY <1>0, <1>4, <2>1 DEF InPlace, Positions
  <2>4. order[k] < order[l]
    BY <1>2, <2>3
  <2> QED
    BY <1>1, <2>2, <2>4, Siblings
<1>5. CASE l \notin 1 .. w
  <2>1. PICK m \in DOMAIN a : m # 1 /\ 1 < m /\ b[l] = a[m] /\ l = m + w - 1
    BY <1>0, <1>5, EntryAfterCall
  <2>2. a[m] \in Place /\ Earlier(h, a[m])
    BY <1>1, <2>1 DEF InOrder
  <2>3. CASE k \in 1 .. w
    <3>1. order[k] \in Nat \ {0} /\ b[k] = Append(h, order[k])
      BY <1>0, <2>3, EntryAfterCall
    <3> QED
      BY <1>1, <2>1, <2>2, <3>1, EarlierDown
  <2>4. CASE k \notin 1 .. w
    <3>1. PICK n \in DOMAIN a : n # 1 /\ 1 < n /\ b[k] = a[n] /\ k = n + w - 1
      BY <1>0, <2>4, EntryAfterCall
    <3>2. n < m
      BY <1>2, <1>3, <2>1, <3>1, BeforeFacts
    <3> QED
      BY <2>1, <3>1, <3>2 DEF InOrder
  <2> QED
    BY <2>3, <2>4
<1> QED
  BY <1>4, <1>5

(***************************************************************************)
(* A value that no entry of the agenda comes before still has none after   *)
(* the call, if it is nowhere below the value walked.                      *)
(***************************************************************************)
LEMMA ClearAfterCall ==
    ASSUME NEW d, NEW a, NEW h, Before(d, a, h), NEW order, NEW b, After(d, a, h, order, b),
           NEW q \in Place, ~ Holds(d, h, q),
           \A k \in DOMAIN a : ~ EarlierItem(d, a[k], q)
    PROVE  \A k \in DOMAIN b : ~ EarlierItem(d, b[k], q)
<1>1. h \in Place /\ h = a[1] /\ 1 \in DOMAIN a
  BY BeforeFacts
<1>0. PICK w \in Nat : Positions(d, a, h, order, b, w)
  BY CallByPosition
<1>2. TAKE k \in DOMAIN b
<1>3. CASE k \in 1 .. w
  <2>1. order[k] \in Nat \ {0} /\ b[k] = Append(h, order[k])
    BY <1>0, <1>3, EntryAfterCall
  <2> QED
    BY <1>1, <2>1, EarlierItemDown
<1>4. CASE k \notin 1 .. w
  BY <1>0, <1>4, EntryAfterCall
<1> QED
  BY <1>3, <1>4

(***************************************************************************)
(* What stands before every entry of the agenda does so after the call.    *)
(***************************************************************************)
LEMMA EarlierAfterCall ==
    ASSUME NEW d, NEW a, NEW h, Before(d, a, h), NEW order, NEW b, After(d, a, h, order, b),
           NEW q \in Place, \A k \in DOMAIN a : Earlier(q, a[k])
    PROVE  \A k \in DOMAIN b : Earlier(q, b[k])
<1>1. h \in Place /\ h = a[1] /\ 1 \in DOMAIN a
  BY BeforeFacts
<1>0. PICK w \in Nat : Positions(d, a, h, order, b, w)
  BY CallByPosition
<1>2. TAKE k \in DOMAIN b
<1>3. CASE k \in 1 .. w
  <2>1. order[k] \in Nat \ {0} /\ b[k] = Append(h, order[k])
    BY <1>0, <1>3, EntryAfterCall
  <2> QED
    BY <1>1, <2>1, EarlierDown
<1>4. CASE k \notin 1 .. w
  BY <1>0, <1>4, EntryAfterCall
<1> QED
  BY <1>3, <1>4

-----------------------------------------------------------------------------

(***************************************************************************)
(* The orders that a walk may take the nested values in.                   *)
(***************************************************************************)
Identity(d, h) == [i \in 1 .. d[h].width |-> i]

LEMMA IdentityFacts ==
    ASSUME NEW h, doc[h].width \in Nat
    PROVE  /\ Identity(doc, h) \in Permutation(doc, h) /\ InPlace(doc, h, Identity(doc, h))
           /\ Children(h) = Nested(doc, h, Identity(doc, h))
<1>1. Identity(doc, h) \in Permutation(doc, h)
  BY DEF Identity, Permutation, Bijection, Injection, Surjection, IsInjective
<1>2. InPlace(doc, h, Identity(doc, h))
  BY DEF Identity, InPlace
<1>3. Children(h) = Nested(doc, h, Identity(doc, h))
  BY DEF Identity, Children, Nested
<1> QED
  BY <1>1, <1>2, <1>3

LEMMA OrdersFacts ==
    ASSUME NEW h, doc[h].width \in Nat, NEW o \in Orders(h)
    PROVE  \E order \in Permutation(doc, h) :
              /\ o = Nested(doc, h, order)
              /\ doc[h].kind = "array" => InPlace(doc, h, order)
<1>1. CASE doc[h].kind = "object"
  <2>1. o \in {[i \in 1 .. doc[h].width |-> Append(h, order[i])] :
                   order \in Bijection(1 .. doc[h].width, 1 .. doc[h].width)}
    BY <1>1 DEF Orders
  <2>2. \E order \in Permutation(doc, h) : o = Nested(doc, h, order)
    BY <2>1 DEF Permutation, Nested
  <2> QED
    BY <1>1, <2>2
<1>2. CASE doc[h].kind # "object"
  <2>1. o = Children(h)
    BY <1>2 DEF Orders
  <2> QED
    BY <2>1, IdentityFacts
<1> QED
  BY <1>1, <1>2

(***************************************************************************)
(* The text of an object itself is the one text field it has.              *)
(***************************************************************************)
IsOwn(d, h, o) ==
    /\ o \in TicketTexts(d) /\ o # Root /\ Front(o) = h
    /\ o \in DOMAIN d /\ o \in Place
    /\ d[h].kind # "array"
    /\ \E i \in Nat \ {0} : o = Append(h, i)

LEMMA OwnTextFacts ==
    ASSUME IsDocument(doc), NEW h \in DOMAIN doc
    PROVE  \/ /\ OwnText(h) = <<>>
              /\ \A q \in TicketTexts(doc) : q # Root => Front(q) # h
           \/ \E o \in DOMAIN doc :
                 /\ IsOwn(doc, h, o) /\ OwnText(h) = <<o>>
                 /\ \A q \in TicketTexts(doc) : q # Root /\ Front(q) = h => q = o
<1> DEFINE own == {q \in Range(Children(h)) : HasText(q)}
<1>1. /\ h \in Place /\ doc[h].width \in Nat
      /\ \A i \in 1 .. doc[h].width : Append(h, i) \in DOMAIN doc /\ i \in Nat \ {0}
  BY DocumentFacts
<1>2. Range(Children(h)) = {Append(h, i) : i \in 1 .. doc[h].width}
  BY DEF Range, Children
<1>3. ASSUME NEW q \in TicketTexts(doc), q # Root, Front(q) = h
      PROVE  q \in own
  <2>1. q \in DOMAIN doc /\ HasText(q)
    BY <1>3 DEF TicketTexts, HasText, IsTextField
  <2>2. q[Len(q)] \in 1 .. doc[h].width /\ q = Append(h, q[Len(q)])
    BY <1>3, <2>1, FrontFacts
  <2> QED
    BY <1>2, <2>1, <2>2
<1>4. ASSUME NEW o \in own
      PROVE  o \in DOMAIN doc /\ IsOwn(doc, h, o)
  <2>1. PICK i \in 1 .. doc[h].width : o = Append(h, i)
    BY <1>2
  <2>2. i \in Nat \ {0} /\ o \in DOMAIN doc /\ o \in Place /\ Front(o) = h /\ o # Root
    BY <1>1, <2>1, AppendPlace
  <2>3. doc[o].key = "text" /\ doc[o].kind = "string" /\ ~ Blank(doc[o].text)
    BY DEF HasText, IsTextField
  <2>4. o \in TicketTexts(doc)
    BY <2>2, <2>3 DEF TicketTexts
  <2>5. doc[h].kind # "array"
    BY <2>1, <2>3 DEF IsDocument
  <2> QED
    BY <2>1, <2>2, <2>4, <2>5 DEF IsOwn
<1>5. ASSUME NEW o \in own, NEW q \in own
      PROVE  o = q
  <2>1. PICK i \in 1 .. doc[h].width : o = Append(h, i)
    BY <1>2
  <2>2. PICK j \in 1 .. doc[h].width : q = Append(h, j)
    BY <1>2
  <2>3. doc[o].key = "text" /\ doc[q].key = "text"
    BY DEF HasText, IsTextField
  <2>4. i = j
    BY <2>1, <2>2, <2>3 DEF IsDocument
  <2> QED
    BY <2>1, <2>2, <2>4
<1>6. OwnText(h) = IF own = {} THEN <<>> ELSE <<CHOOSE q \in own : TRUE>>
  BY DEF OwnText
<1> HIDE DEF own
<1>7. CASE own = {}
  BY <1>3, <1>6, <1>7
<1>8. CASE own # {}
  <2>1. PICK o \in own : OwnText(h) = <<o>>
    BY <1>6, <1>8
  <2> QED
    BY <1>3, <1>4, <1>5, <2>1
<1> QED
  BY <1>7, <1>8

-----------------------------------------------------------------------------
(*                      The description of a ticket.                       *)

(***************************************************************************)
(* The parts collected, as PartsInv has them, for the agenda a.            *)
(***************************************************************************)
Collected(a, parts) ==
    /\ Range(parts) = {p \in TicketTexts(doc) : ~ Owed(a, Front(p))}
    /\ IsInjective(parts) /\ Ordered(parts)
    /\ \A k \in DOMAIN a : \A i \in DOMAIN parts : ~ EarlierItem(doc, a[k], parts[i])
    /\ ItemsInOrder(doc, a)
    /\ Root \in TicketTexts(doc) => a = <<>>

LEMMA PartsAsCollected ==
    PartsInv <=> (stage \in {"storing", "deciding"} => Collected(agenda, textParts))
  BY DEF PartsInv, Collected, ItemsInOrder

(***************************************************************************)
(* Nothing that is collected is below the value walked, or beside its own  *)
(* text, so the own text fits behind what is collected.                    *)
(***************************************************************************)
LEMMA CollectedApart ==
    ASSUME NEW a, NEW h, Before(doc, a, h), NEW q \in TicketTexts(doc), q # Root,
           ~ Owed(a, Front(q))
    PROVE  /\ q \in Place /\ q \in DOMAIN doc
           /\ ~ (IsPrefix(h, q) /\ h # q) /\ ~ IsPrefix(h, Front(q))
<1>1. IsDocument(doc) /\ q \in DOMAIN doc /\ h \in Place /\ h = a[1] /\ 1 \in DOMAIN a
  BY BeforeFacts DEF TicketTexts
<1>2. q \in Place
  BY <1>1, DocumentFacts
<1>3. ~ IsPrefix(h, Front(q))
  BY <1>1 DEF Owed
<1> QED
  BY <1>1, <1>2, <1>3, AboveFront

LEMMA OwnAfterParts ==
    ASSUME NEW a, NEW h, Before(doc, a, h), ItemsInOrder(doc, a),
           NEW o, IsOwn(doc, h, o)
    PROVE  /\ \A k \in DOMAIN a : ~ EarlierItem(doc, a[k], o)
           /\ ~ Holds(doc, h, o)
           /\ Owed(a, Front(o))
           /\ \A q \in TicketTexts(doc) :
                 q # Root /\ ~ Owed(a, Front(q)) /\ ~ EarlierItem(doc, h, q)
                    => q # o /\ ~ EarlierItem(doc, o, q) /\ ~ OwnOf(o, q)
<1>1. /\ h \in Place /\ h = a[1] /\ 1 \in DOMAIN a /\ DOMAIN a = 1 .. Len(a)
      /\ \A k \in DOMAIN a : a[k] \in Place
      /\ \A k \in DOMAIN a : k # 1 => ~ IsPrefix(a[k], h) /\ ~ IsPrefix(h, a[k])
  BY BeforeFacts
<1>2. PICK i \in Nat \ {0} : o = Append(h, i)
  BY DEF IsOwn
<1>3. \A k \in DOMAIN a : ~ EarlierItem(doc, a[k], h)
  <2>1. TAKE k \in DOMAIN a
  <2>2. CASE k = 1
    BY <1>1, <2>2, EarlierItemAbove, PrefixOrder
  <2>3. CASE k # 1
    <3>1. 1 < k
      BY <1>1, <2>3
    <3> QED
      BY <1>1, <3>1 DEF ItemsInOrder
  <2> QED
    BY <2>2, <2>3
<1>4. ~ Holds(doc, h, o)
  BY DEF Holds, IsOwn
<1>5. \A k \in DOMAIN a : ~ EarlierItem(doc, a[k], o)
  <2>1. TAKE k \in DOMAIN a
  <2>2. EarlierItem(doc, a[k], o) =>
           EarlierItem(doc, a[k], h) \/ Holds(doc, h, a[k])
    BY <1>1, <1>2, EarlierItemDown
  <2>3. ~ Holds(doc, h, a[k])
    BY <1>1 DEF Holds
  <2> QED
    BY <1>3, <2>2, <2>3
<1>6. Front(o) = h /\ IsPrefix(h, h)
  BY <1>1, PrefixOrder DEF IsOwn
<1>7. Owed(a, Front(o))
  BY <1>1, <1>6 DEF Owed
<1>8. ASSUME NEW q \in TicketTexts(doc), q # Root, ~ Owed(a, Front(q)),
             ~ EarlierItem(doc, h, q)
      PROVE  q # o /\ ~ EarlierItem(doc, o, q) /\ ~ OwnOf(o, q)
  <2>1. /\ q \in Place
        /\ ~ (IsPrefix(h, q) /\ h # q) /\ ~ IsPrefix(h, Front(q))
    BY <1>8, CollectedApart
  <2>2. ~ EarlierItem(doc, o, q)
    BY <1>1, <1>2, <1>8, <2>1, EarlierItemDown DEF Holds
  <2>3. ~ OwnOf(o, q)
    BY <1>6, <2>1 DEF OwnOf, IsStrictPrefix
  <2> QED
    BY <1>7, <1>8, <2>2, <2>3
<1> QED
  BY <1>4, <1>5, <1>7, <1>8

(***************************************************************************)
(* A call leaves exactly what it owes no more among the parts.             *)
(***************************************************************************)
LEMMA OwedTexts ==
    ASSUME NEW a, NEW h, Before(doc, a, h), NEW order, NEW b, After(doc, a, h, order, b),
           NEW q \in TicketTexts(doc), q # Root
    PROVE  Owed(b, Front(q)) <=> Owed(a, Front(q)) /\ Front(q) # h
<1>1. IsDocument(doc) /\ q \in DOMAIN doc
  BY BeforeFacts DEF TicketTexts
<1>2. Front(q) \in DOMAIN doc
  BY <1>1, FrontFacts
<1> QED
  BY <1>2, OwedAfterCall

LEMMA CollectedAfterCall ==
    ASSUME NEW a, NEW h, Before(doc, a, h), NEW order, NEW b, After(doc, a, h, order, b),
           doc[h].kind = "array" => InPlace(doc, h, order),
           NEW parts \in Seq(DOMAIN doc), Collected(a, parts)
    PROVE  Collected(b, parts \o OwnText(h)) /\ parts \o OwnText(h) \in Seq(DOMAIN doc)
<1>1. /\ IsDocument(doc) /\ h \in DOMAIN doc /\ h \in Place /\ h = a[1] /\ 1 \in DOMAIN a
      /\ ItemsInOrder(doc, a)
      /\ a # <<>>
  BY BeforeFacts DEF Before, Collected
<1>2. ItemsInOrder(doc, b)
  BY <1>1, ItemsAfterCall
<1>3. Root \notin TicketTexts(doc)
  BY <1>1 DEF Collected
<1>4. \A i \in DOMAIN parts :
         /\ parts[i] \in TicketTexts(doc) /\ parts[i] # Root /\ parts[i] \in Place
         /\ ~ Owed(a, Front(parts[i])) /\ ~ Holds(doc, h, parts[i])
         /\ \A k \in DOMAIN a : ~ EarlierItem(doc, a[k], parts[i])
  <2>1. TAKE i \in DOMAIN parts
  <2>2. parts[i] \in Range(parts)
    BY DEF Range
  <2>3. parts[i] \in TicketTexts(doc) /\ parts[i] # Root /\ ~ Owed(a, Front(parts[i]))
    BY <1>3, <2>2 DEF Collected
  <2>4. parts[i] \in Place /\ ~ Holds(doc, h, parts[i])
    BY <2>3, CollectedApart DEF Holds
  <2> QED
    BY <2>3, <2>4 DEF Collected
<1>5. \A k \in DOMAIN b : \A i \in DOMAIN parts : ~ EarlierItem(doc, b[k], parts[i])
  <2>1. SUFFICES ASSUME NEW i \in DOMAIN parts
                 PROVE  \A k \in DOMAIN b : ~ EarlierItem(doc, b[k], parts[i])
    OBVIOUS
  <2> QED
    BY <1>4, ClearAfterCall
<1>6. \A q \in TicketTexts(doc) :
         q # Root /\ (Owed(b, Front(q)) <=> Owed(a, Front(q)) /\ Front(q) # h)
  BY <1>3, OwedTexts
<1>7. CASE /\ OwnText(h) = <<>>
           /\ \A q \in TicketTexts(doc) : q # Root => Front(q) # h
  <2>1. parts \o OwnText(h) = parts
    BY <1>7
  <2>2. Range(parts) = {p \in TicketTexts(doc) : ~ Owed(b, Front(p))}
    BY <1>6, <1>7 DEF Collected
  <2> QED
    BY <1>2, <1>3, <1>5, <2>1, <2>2 DEF Collected
<1>8. ASSUME NEW o \in DOMAIN doc, IsOwn(doc, h, o), OwnText(h) = <<o>>,
             \A q \in TicketTexts(doc) : q # Root /\ Front(q) = h => q = o
      PROVE  Collected(b, parts \o OwnText(h)) /\ parts \o OwnText(h) \in Seq(DOMAIN doc)
  <2> DEFINE new == parts \o <<o>>
  <2>1. /\ new \in Seq(DOMAIN doc) /\ DOMAIN new = 1 .. Len(parts) + 1 /\ Len(parts) \in Nat
        /\ DOMAIN parts = 1 .. Len(parts)
        /\ \A i \in 1 .. Len(parts) : new[i] = parts[i]
        /\ new[Len(parts) + 1] = o
        /\ Range(new) = Range(parts) \cup {o}
    <3> DEFINE S == DOMAIN doc
    <3>1. o \in S /\ parts \in Seq(S) /\ new = parts \o <<o>>
      OBVIOUS
    <3> HIDE DEF new, S
    <3>2. /\ new \in Seq(S) /\ DOMAIN new = 1 .. Len(parts) + 1 /\ Len(parts) \in Nat
          /\ DOMAIN parts = 1 .. Len(parts)
          /\ \A i \in 1 .. Len(parts) : new[i] = parts[i]
          /\ new[Len(parts) + 1] = o
      BY <3>1
    <3>3. Range(new) = Range(parts) \cup {o}
      BY <3>2 DEF Range
    <3> QED
      BY <3>2, <3>3 DEF S
  <2>2. parts \o OwnText(h) = new
    BY <1>8
  <2> HIDE DEF new
  <2>3. /\ \A k \in DOMAIN a : ~ EarlierItem(doc, a[k], o)
        /\ ~ Holds(doc, h, o) /\ Owed(a, Front(o)) /\ Front(o) = h
        /\ o \in TicketTexts(doc) /\ o \in Place
        /\ \A q \in TicketTexts(doc) :
              q # Root /\ ~ Owed(a, Front(q)) /\ ~ EarlierItem(doc, h, q)
                 => q # o /\ ~ EarlierItem(doc, o, q) /\ ~ OwnOf(o, q)
    BY <1>1, <1>8, OwnAfterParts DEF IsOwn
  <2>4. \A i \in DOMAIN parts :
           parts[i] # o /\ ~ EarlierItem(doc, o, parts[i]) /\ ~ OwnOf(o, parts[i])
    BY <1>1, <1>4, <2>3
  <2>5. Range(new) = {p \in TicketTexts(doc) : ~ Owed(b, Front(p))}
    BY <1>6, <1>8, <2>1, <2>3 DEF Collected
  <2>6. IsInjective(new)
    <3>1. \A i, j \in DOMAIN parts : parts[i] = parts[j] => i = j
      BY DEF Collected, IsInjective
    <3>2. \A i, j \in DOMAIN new : new[i] = new[j] => i = j
      BY <2>1, <2>4, <3>1
    <3> QED
      BY <3>2 DEF IsInjective
  <2>7. Ordered(new)
    <3>1. \A i, j \in DOMAIN parts : i < j =>
             ~ EarlierItem(doc, parts[j], parts[i]) /\ ~ OwnOf(parts[j], parts[i])
      BY DEF Collected, Ordered
    <3>2. SUFFICES ASSUME NEW i \in DOMAIN new, NEW j \in DOMAIN new, i < j
                   PROVE  ~ EarlierItem(doc, new[j], new[i]) /\ ~ OwnOf(new[j], new[i])
      BY DEF Ordered
    <3>3. CASE j \in DOMAIN parts
      <4>1. i \in DOMAIN parts /\ new[i] = parts[i] /\ new[j] = parts[j]
        BY <2>1, <3>2, <3>3
      <4> QED
        BY <3>1, <3>2, <3>3, <4>1
    <3>4. CASE j \notin DOMAIN parts
      <4>1. i \in DOMAIN parts /\ new[i] = parts[i] /\ new[j] = o
        BY <2>1, <3>2, <3>4
      <4> QED
        BY <2>4, <4>1
    <3> QED
      BY <3>3, <3>4
  <2>8. \A k \in DOMAIN b : ~ EarlierItem(doc, b[k], o)
    BY <2>3, ClearAfterCall
  <2>9. \A k \in DOMAIN b : \A i \in DOMAIN new : ~ EarlierItem(doc, b[k], new[i])
    <3>1. \A i \in DOMAIN new : i \in DOMAIN parts \/ new[i] = o
      BY <2>1
    <3>2. \A i \in DOMAIN parts : new[i] = parts[i]
      BY <2>1
    <3> QED
      BY <1>5, <2>8, <3>1, <3>2
  <2> QED
    BY <1>2, <1>3, <2>1, <2>2, <2>5, <2>6, <2>7, <2>9 DEF Collected
<1> QED
  BY <1>1, <1>7, <1>8, OwnTextFacts

LEMMA PrefixOfTexts ==
    ASSUME NEW s \in Seq(DOMAIN doc), NEW t \in Seq(DOMAIN doc)
    PROVE  /\ IsPrefix(s, t) <=> Len(s) <= Len(t) /\ \A i \in 1 .. Len(s) : s[i] = t[i]
           /\ DOMAIN s = 1 .. Len(s) /\ Len(s) \in Nat
<1> DEFINE S == DOMAIN doc
<1>1. s \in Seq(S) /\ t \in Seq(S)
  OBVIOUS
<1> HIDE DEF S
<1>2. /\ s = SubSeq(s, 1, Len(s)) /\ DOMAIN s = 1 .. Len(s) /\ Len(s) \in Nat
  BY <1>1, SubSeqFull
<1>3. ASSUME Len(s) <= Len(t)
      PROVE  SubSeq(s, 1, Len(s)) = SubSeq(t, 1, Len(s))
                <=> \A i \in 1 .. Len(s) : s[i] = t[i]
  BY <1>1, <1>3
<1> QED
  BY <1>2, <1>3 DEF IsPrefix

(***************************************************************************)
(* Where the order leaves no choice, the part that a call collects is the  *)
(* next one of the first reading.                                          *)
(***************************************************************************)
LEMMA AgreementAfterCall ==
    ASSUME NEW a, NEW h, Before(doc, a, h),
           NEW parts \in Seq(DOMAIN doc), Collected(a, parts),
           NEW first \in Seq(DOMAIN doc), Whole(first),
           InOneOrder(doc), IsPrefix(parts, first)
    PROVE  IsPrefix(parts \o OwnText(h), first)
<1>1. /\ IsDocument(doc) /\ h \in DOMAIN doc /\ h \in Place /\ h = a[1] /\ 1 \in DOMAIN a
      /\ ItemsInOrder(doc, a)
      /\ a # <<>> /\ Root \notin TicketTexts(doc)
      /\ DOMAIN a = 1 .. Len(a)
      /\ \A k \in DOMAIN a : a[k] \in Place
      /\ \A k \in DOMAIN a : k # 1 => ~ IsPrefix(a[k], h) /\ ~ IsPrefix(h, a[k])
  BY BeforeFacts DEF Before, Collected
<1>2. CASE OwnText(h) = <<>>
  <2>1. parts \o OwnText(h) = parts
    BY <1>2
  <2> QED
    BY <2>1
<1>3. SUFFICES ASSUME NEW o \in DOMAIN doc, IsOwn(doc, h, o), OwnText(h) = <<o>>
               PROVE  IsPrefix(parts \o OwnText(h), first)
  BY <1>1, <1>2, OwnTextFacts
<1>4. /\ Len(parts) <= Len(first) /\ \A i \in 1 .. Len(parts) : parts[i] = first[i]
      /\ DOMAIN parts = 1 .. Len(parts) /\ Len(parts) \in Nat
      /\ DOMAIN first = 1 .. Len(first) /\ Len(first) \in Nat
  BY PrefixOfTexts
<1>5. o \in TicketTexts(doc) /\ o \in Place /\ Owed(a, Front(o)) /\ Front(o) = h
  BY <1>1, <1>3, OwnAfterParts DEF IsOwn
<1>6. o \notin Range(parts)
  BY <1>5 DEF Collected
<1>7. PICK m \in DOMAIN first : first[m] = o
  BY <1>5 DEF Whole, Range
<1>8. m \notin DOMAIN parts
  BY <1>4, <1>6, <1>7 DEF Range
<1> DEFINE n == Len(parts) + 1
<1>9. n \in DOMAIN first /\ n <= m /\ n \in Nat
  BY <1>4, <1>7, <1>8
<1> HIDE DEF n
<1>10. ASSUME n # m
       PROVE  FALSE
  <2> DEFINE q == first[n]
  <2>1. n < m
    BY <1>4, <1>7, <1>9, <1>10
  <2>2. q \in TicketTexts(doc) /\ q # Root
    BY <1>1, <1>9 DEF Whole, Range
  <2>3. q # o
    BY <1>7, <1>9, <1>10 DEF Whole, IsInjective
  <2>4. q \notin Range(parts)
    <3>1. ASSUME NEW i \in DOMAIN parts, parts[i] = q
          PROVE  FALSE
      <4>1. i \in DOMAIN first /\ first[i] = first[n] /\ i # n
        BY <1>4, <1>9, <3>1 DEF n
      <4> QED
        BY <1>9, <4>1 DEF Whole, IsInjective
    <3> QED
      BY <3>1 DEF Range
  <2>5. Owed(a, Front(q))
    BY <2>2, <2>4 DEF Collected
  <2>6. ~ EarlierItem(doc, o, q) /\ ~ OwnOf(o, q)
    BY <1>7, <1>9, <2>1 DEF Whole, Ordered
  <2> HIDE DEF q
  <2>7. PICK k \in DOMAIN a : IsPrefix(a[k], Front(q))
    BY <2>5 DEF Owed
  <2>8. /\ q \in Place /\ q \in DOMAIN doc /\ Front(q) \in Place
        /\ IsPrefix(a[k], q) /\ a[k] # q
    <3>1. q \in DOMAIN doc
      BY <2>2 DEF TicketTexts
    <3>2. q \in Place
      BY <1>1, <3>1, DocumentFacts
    <3> QED
      BY <1>1, <2>2, <2>7, <3>1, <3>2, AboveFront
  <2>9. CASE OwnOf(q, o)
    <3>1. IsPrefix(Front(q), h) /\ Front(q) # h
      BY <1>5, <2>9 DEF OwnOf, IsStrictPrefix
    <3>2. IsPrefix(a[k], h)
      BY <1>1, <2>7, <2>8, <3>1, PrefixOrder
    <3>3. a[k] = h
      BY <1>1, <3>2
    <3>4. h = Front(q)
      BY <1>1, <2>7, <2>8, <3>1, <3>3, PrefixOrder
    <3> QED
      BY <3>1, <3>4
  <2>10. CASE EarlierItem(doc, q, o)
    <3>1. PICK i \in Nat \ {0} : o = Append(h, i)
      BY <1>3 DEF IsOwn
    <3>2. EarlierItem(doc, q, h)
      BY <1>1, <1>3, <2>8, <2>10, <3>1, EarlierItemDown DEF Holds, IsOwn
    <3>3. EarlierItem(doc, a[k], h) \/ IsPrefix(a[k], h)
      BY <1>1, <2>8, <3>2, EarlierItemAbove
    <3>4. CASE k = 1
      BY <1>1, <2>8, <3>2, <3>4, EarlierItemAbove
    <3>5. CASE k # 1
      <4>1. 1 < k
        BY <1>1, <3>5
      <4> QED
        BY <1>1, <3>3, <3>5, <4>1 DEF ItemsInOrder
    <3> QED
      BY <3>4, <3>5
  <2> QED
    BY <1>5, <2>2, <2>3, <2>6, <2>9, <2>10 DEF InOneOrder
<1>11. IsPrefix(parts \o <<o>>, first)
  <2> DEFINE S == DOMAIN doc
             new == parts \o <<o>>
  <2>1. o \in S /\ parts \in Seq(S)
    OBVIOUS
  <2> HIDE DEF S
  <2>2. /\ new \in Seq(S) /\ Len(new) = Len(parts) + 1
        /\ \A i \in 1 .. Len(parts) : new[i] = parts[i]
        /\ new[Len(parts) + 1] = o
    BY <2>1
  <2> HIDE DEF new
  <2>3. Len(new) <= Len(first) /\ \A i \in 1 .. Len(new) : new[i] = first[i]
    BY <1>4, <1>7, <1>9, <1>10, <2>2 DEF n
  <2>4. IsPrefix(new, first)
    BY <2>2, <2>3, PrefixOfTexts DEF S
  <2> QED
    BY <2>4 DEF new
<1> QED
  BY <1>3, <1>11

(***************************************************************************)
(* When nothing is owed every text has been collected, and a reading that  *)
(* begins like another is the other.                                       *)
(***************************************************************************)
LEMMA WholeWhenDone ==
    ASSUME NEW parts, Collected(<<>>, parts)
    PROVE  Whole(parts)
<1>1. \A p : ~ Owed(<<>>, p)
  BY DEF Owed
<1> QED
  BY <1>1 DEF Collected, Whole

LEMMA WholePrefix ==
    ASSUME NEW s \in Seq(DOMAIN doc), NEW t \in Seq(DOMAIN doc),
           Whole(s), Whole(t), IsPrefix(s, t)
    PROVE  s = t
<1>1. /\ Len(s) <= Len(t) /\ \A i \in 1 .. Len(s) : s[i] = t[i]
      /\ DOMAIN s = 1 .. Len(s) /\ Len(s) \in Nat
      /\ DOMAIN t = 1 .. Len(t) /\ Len(t) \in Nat
  BY PrefixOfTexts
<1>2. ASSUME Len(s) # Len(t)
      PROVE  FALSE
  <2>1. Len(t) \in DOMAIN t /\ Len(t) \notin DOMAIN s
    <3>1. \A m, n \in Nat : m <= n /\ m # n => n \in 1 .. n /\ n \notin 1 .. m
      OBVIOUS
    <3>2. Len(t) \in 1 .. Len(t) /\ Len(t) \notin 1 .. Len(s)
      BY <1>1, <1>2, <3>1
    <3> QED
      BY <1>1, <3>2, Zenon
  <2>2. t[Len(t)] \in Range(s)
    BY <2>1 DEF Whole, Range
  <2>3. PICK i \in DOMAIN s : s[i] = t[Len(t)]
    BY <2>2 DEF Range
  <2>4. i \in DOMAIN t /\ t[i] = t[Len(t)] /\ i # Len(t)
    BY <1>1, <2>1, <2>3
  <2> QED
    BY <2>1, <2>4 DEF Whole, IsInjective
<1> DEFINE S == DOMAIN doc
<1>3. s \in Seq(S) /\ t \in Seq(S)
  OBVIOUS
<1> HIDE DEF S
<1> QED
  BY <1>1, <1>2, <1>3, SeqEqual

-----------------------------------------------------------------------------
(*                            The transcript.                              *)

(***************************************************************************)
(* appendText leaves what is there, and puts the text on a line of its own *)
(* behind it, position s being the last one before the text.               *)
(***************************************************************************)
Converted(c) == IF c = Escape THEN Newline ELSE c

Line(out, t, r, s) ==
    /\ r \in Seq(Char) /\ Len(r) = s + Len(t)
    /\ Len(out) <= s /\ s <= Len(out) + 1
    /\ s = 0 \/ r[s] = Newline
    /\ \A i \in 1 .. Len(out) : r[i] = out[i]
    /\ \A x \in 1 .. Len(t) : r[s + x] = Converted(t[x])

LEMMA ConvertedText ==
    ASSUME NEW t \in Seq(Char)
    PROVE  /\ [x \in DOMAIN t |-> Converted(t[x])] \in Seq(Char)
           /\ Len([x \in DOMAIN t |-> Converted(t[x])]) = Len(t)
<1>1. \A x \in 1 .. Len(t) : Converted(t[x]) \in Char
  BY DEF Converted, Char
<1>2. [x \in DOMAIN t |-> Converted(t[x])] \in [1 .. Len(t) -> Char] /\ Len(t) \in Nat
  BY <1>1
<1> QED
  BY <1>2

LEMMA ConcatChars ==
    ASSUME NEW u \in Seq(Char), NEW v \in Seq(Char), NEW r, r = u \o v
    PROVE  /\ r \in Seq(Char) /\ Len(r) = Len(u) + Len(v) /\ Len(u) \in Nat /\ Len(v) \in Nat
           /\ \A i \in 1 .. Len(u) : r[i] = u[i]
           /\ \A x \in 1 .. Len(v) : r[Len(u) + x] = v[x]
  OBVIOUS

LEMMA AppendTextFacts ==
    ASSUME NEW out \in Seq(Char), NEW t \in Seq(Char)
    PROVE  /\ t = <<>> => appendText(out, t) = out
           /\ t # <<>> => \E s \in Nat : Line(out, t, appendText(out, t), s)
<1> DEFINE v == [x \in DOMAIN t |-> Converted(t[x])]
           onNewLine == out = <<>> \/ Last(out) = Newline
           u == IF onNewLine THEN out ELSE Append(out, Newline)
<1>1. v \in Seq(Char) /\ Len(v) = Len(t) /\ \A x \in 1 .. Len(t) : v[x] = Converted(t[x])
  <2>1. \A x \in 1 .. Len(t) : v[x] = Converted(t[x])
    OBVIOUS
  <2> QED
    BY <2>1, ConvertedText
<1>2. appendText(out, t) = IF v = <<>> THEN out ELSE u \o v
  BY DEF appendText, Converted
<1>3. v = <<>> <=> t = <<>>
  <2> HIDE DEF v
  <2>1. \A z \in Seq(Char) : z = <<>> <=> Len(z) = 0
    BY EmptySeq
  <2> QED
    BY <1>1, <2>1
<1>4. /\ u \in Seq(Char) /\ Len(u) \in Nat /\ Len(out) \in Nat
      /\ Len(out) <= Len(u) /\ Len(u) <= Len(out) + 1
      /\ Len(u) = 0 \/ u[Len(u)] = Newline
      /\ \A i \in 1 .. Len(out) : u[i] = out[i]
  <2>1. CASE onNewLine
    <3>1. out = <<>> => Len(out) = 0
      OBVIOUS
    <3>2. u = out
      BY <2>1
    <3> HIDE DEF u
    <3> QED
      BY <2>1, <3>1, <3>2 DEF Last
  <2>2. CASE ~ onNewLine
    <3>1. u = Append(out, Newline) /\ Newline \in Char
      BY <2>2 DEF Char
    <3> HIDE DEF u
    <3> QED
      BY <3>1
  <2> QED
    BY <2>1, <2>2
<1> HIDE DEF u, v
<1>5. ASSUME t # <<>>
      PROVE  Line(out, t, appendText(out, t), Len(u))
  <2> DEFINE r == u \o v
  <2>1. /\ r \in Seq(Char) /\ Len(r) = Len(u) + Len(v)
        /\ \A i \in 1 .. Len(u) : r[i] = u[i]
        /\ \A x \in 1 .. Len(v) : r[Len(u) + x] = v[x]
    <3>1. v \in Seq(Char) /\ u \in Seq(Char) /\ r = u \o v
      BY <1>1, <1>4
    <3> HIDE DEF r
    <3> QED
      BY <3>1, ConcatChars
  <2>2. appendText(out, t) = r
    BY <1>2, <1>3, <1>5
  <2> HIDE DEF r
  <2>3. \A i \in 1 .. Len(out) : r[i] = out[i]
    BY <1>4, <2>1
  <2>4. Len(u) = 0 \/ r[Len(u)] = Newline
    BY <1>4, <2>1
  <2>5. \A x \in 1 .. Len(t) : r[Len(u) + x] = Converted(t[x])
    BY <1>1, <2>1
  <2> QED
    BY <1>1, <1>4, <2>1, <2>2, <2>3, <2>4, <2>5 DEF Line
<1> QED
  BY <1>2, <1>3, <1>4, <1>5

(***************************************************************************)
(* A word is known by the value it stands in and its position there.       *)
(***************************************************************************)
LEMMA WordFacts ==
    ASSUME NEW p, NEW x
    PROVE  /\ Word(p, x).char = "word" /\ Word(p, x) # Escape /\ Word(p, x) # Newline
           /\ Word(p, x).at[1] = p /\ Word(p, x).at[2] = x
           /\ Newline.char # "word" /\ Escape.char # "word"
           /\ Escape # Newline
  BY DEF Word, Escape, Newline

LEMMA WordsOfDocument ==
    ASSUME IsDocument(doc), NEW c
    PROVE  c \in WordsOf(doc) <=>
              \E p \in DOMAIN doc : \E x \in 1 .. Len(doc[p].text) :
                 /\ IsTextField(doc, p) /\ doc[p].text[x].char = "word"
                 /\ doc[p].text[x] = c /\ c = Word(p, x) /\ c.at[1] = p
<1>1. \A p \in DOMAIN doc : DOMAIN doc[p].text = 1 .. Len(doc[p].text)
  BY DocumentFacts
<1>2. \A p \in DOMAIN doc : \A x \in 1 .. Len(doc[p].text) :
         doc[p].text[x].char = "word" =>
            doc[p].text[x] = Word(p, x) /\ doc[p].text[x].at[1] = p
  <2>1. \A p \in DOMAIN doc : \A x \in 1 .. Len(doc[p].text) :
           doc[p].text[x].char = "word" => doc[p].text[x] = Word(p, x)
    BY DEF IsDocument
  <2> QED
    BY <2>1, WordFacts
<1>3. ASSUME c \in WordsOf(doc)
      PROVE  \E p \in DOMAIN doc : \E x \in 1 .. Len(doc[p].text) :
                 /\ IsTextField(doc, p) /\ doc[p].text[x].char = "word"
                 /\ doc[p].text[x] = c /\ c = Word(p, x) /\ c.at[1] = p
  <2>1. PICK p \in DOMAIN doc : /\ IsTextField(doc, p)
                                /\ c \in Range(doc[p].text) /\ c.char = "word"
    BY <1>3 DEF WordsOf
  <2>2. PICK x \in 1 .. Len(doc[p].text) : doc[p].text[x] = c
    BY <1>1, <2>1 DEF Range
  <2> QED
    BY <1>2, <2>1, <2>2
<1>4. ASSUME NEW p \in DOMAIN doc, NEW x \in 1 .. Len(doc[p].text), IsTextField(doc, p),
             doc[p].text[x].char = "word", doc[p].text[x] = c
      PROVE  c \in WordsOf(doc)
  <2>1. c \in Range(doc[p].text)
    BY <1>1, <1>4 DEF Range
  <2> QED
    BY <1>4, <2>1 DEF WordsOf
<1> QED
  BY <1>3, <1>4

(***************************************************************************)
(* What the transcript has, as TranscriptInv says it, for the agenda a.    *)
(***************************************************************************)
LinesApart(out) ==
    \A i, j \in WordsIn(out) : i < j =>
        /\ WordBefore(out[i], out[j])
        /\ out[i].at[1] # out[j].at[1] => \E k \in i .. j : out[k] = Newline

Written(a, out) ==
    /\ {out[i] : i \in WordsIn(out)} = {c \in WordsOf(doc) : ~ Owed(a, c.at[1])}
    /\ \A i \in WordsIn(out) : \A k \in DOMAIN a : Earlier(out[i].at[1], a[k])
    /\ InOrder(a) /\ LinesApart(out)
    /\ \A i \in DOMAIN out : out[i] # Escape

LEMMA TranscriptAsWritten ==
    TranscriptInv <=> (stage \in {"transcript", "read"} =>
                          Written(agenda, output) /\ (stage = "read" => agenda = <<>>))
  BY DEF TranscriptInv, Written, InOrder, LinesApart

(***************************************************************************)
(* A text put on a line of its own.                                        *)
(***************************************************************************)
WordsOfText(h, t) ==
    /\ t \in Seq(Char)
    /\ \A x \in 1 .. Len(t) : t[x].char = "word" => t[x] = Word(h, x)

WordsKept(out, h, t, r, s) ==
    /\ \A i \in DOMAIN r : r[i] # Escape
    /\ \A i \in WordsIn(r) :
          \/ i \in WordsIn(out) /\ r[i] = out[i]
          \/ \E x \in 1 .. Len(t) : i = s + x /\ t[x].char = "word" /\ r[i] = Word(h, x)
    /\ \A i \in WordsIn(out) : i \in WordsIn(r) /\ r[i] = out[i]
    /\ \A x \in 1 .. Len(t) :
          t[x].char = "word" => s + x \in WordsIn(r) /\ r[s + x] = Word(h, x)

LEMMA WordsAfterLine ==
    ASSUME NEW out \in Seq(Char), NEW h, NEW t, WordsOfText(h, t),
           NEW r, NEW s \in Nat, Line(out, t, r, s),
           \A i \in DOMAIN out : out[i] # Escape
    PROVE  WordsKept(out, h, t, r, s)
<1>1. /\ Len(out) \in Nat /\ DOMAIN out = 1 .. Len(out) /\ Len(t) \in Nat
      /\ Len(r) = s + Len(t) /\ Len(out) <= s /\ s <= Len(out) + 1
      /\ s = 0 \/ r[s] = Newline
      /\ \A i \in 1 .. Len(out) : r[i] = out[i]
      /\ \A x \in 1 .. Len(t) : r[s + x] = Converted(t[x])
      /\ r \in Seq(Char)
  BY DEF Line, WordsOfText
<1>2. DOMAIN r = 1 .. s + Len(t)
  BY <1>1
<1>3. \A x \in 1 .. Len(t) :
         /\ r[s + x] # Escape
         /\ r[s + x].char = "word" <=> t[x].char = "word"
         /\ t[x].char = "word" => r[s + x] = Word(h, x)
  <2>1. TAKE x \in 1 .. Len(t)
  <2>2. r[s + x] = Converted(t[x])
    BY <1>1
  <2>0. t[x].char = "word" => t[x] = Word(h, x)
    BY DEF WordsOfText
  <2>3. CASE t[x] = Escape
    BY <2>2, <2>3, WordFacts DEF Converted
  <2>4. CASE t[x] # Escape
    BY <2>0, <2>2, <2>4 DEF Converted
  <2> QED
    BY <2>3, <2>4
<1>4. \A i \in DOMAIN r :
         \/ i \in 1 .. Len(out)
         \/ r[i] = Newline
         \/ i - s \in 1 .. Len(t) /\ i = s + (i - s)
  <2>1. TAKE i \in DOMAIN r
  <2>2. CASE i <= Len(out)
    BY <1>1, <1>2, <2>2
  <2>3. CASE ~ (i <= Len(out)) /\ i <= s
    <3>1. i = s /\ s # 0
      BY <1>1, <1>2, <2>3
    <3> QED
      BY <1>1, <3>1
  <2>4. CASE ~ (i <= s)
    BY <1>1, <1>2, <2>4
  <2> QED
    BY <1>1, <1>2, <2>2, <2>3, <2>4
<1>5. \A i \in DOMAIN r : r[i] # Escape
  <2>1. TAKE i \in DOMAIN r
  <2>2. CASE i \in 1 .. Len(out)
    BY <1>1, <2>2
  <2>3. CASE r[i] = Newline
    BY <2>3, WordFacts
  <2>4. CASE i - s \in 1 .. Len(t) /\ i = s + (i - s)
    BY <1>3, <2>4
  <2> QED
    BY <1>4, <2>2, <2>3, <2>4
<1>6. ASSUME NEW i \in WordsIn(r)
      PROVE  \/ i \in WordsIn(out) /\ r[i] = out[i]
             \/ \E x \in 1 .. Len(t) : i = s + x /\ t[x].char = "word" /\ r[i] = Word(h, x)
  <2>1. i \in DOMAIN r /\ r[i].char = "word"
    BY DEF WordsIn
  <2>2. CASE i \in 1 .. Len(out)
    BY <1>1, <2>1, <2>2 DEF WordsIn
  <2>3. CASE r[i] = Newline
    BY <2>1, <2>3, WordFacts
  <2>4. CASE i - s \in 1 .. Len(t) /\ i = s + (i - s)
    BY <1>3, <2>1, <2>4
  <2> QED
    BY <1>4, <2>1, <2>2, <2>3, <2>4
<1>7. ASSUME NEW i \in WordsIn(out)
      PROVE  i \in WordsIn(r) /\ r[i] = out[i]
  <2>1. i \in 1 .. Len(out) /\ out[i].char = "word"
    BY <1>1 DEF WordsIn
  <2>2. i \in DOMAIN r
    BY <1>1, <1>2, <2>1
  <2> QED
    BY <1>1, <2>1, <2>2 DEF WordsIn
<1>8. ASSUME NEW x \in 1 .. Len(t), t[x].char = "word"
      PROVE  s + x \in WordsIn(r) /\ r[s + x] = Word(h, x)
  <2>1. s + x \in DOMAIN r
    BY <1>1, <1>2
  <2> QED
    BY <1>3, <1>8, <2>1 DEF WordsIn
<1> QED
  BY <1>5, <1>6, <1>7, <1>8 DEF WordsKept

LEMMA LinesAfterLine ==
    ASSUME NEW out \in Seq(Char), NEW h, NEW t, WordsOfText(h, t),
           NEW r, NEW s \in Nat, Line(out, t, r, s),
           \A i \in DOMAIN out : out[i] # Escape,
           LinesApart(out),
           \A i \in WordsIn(out) : Earlier(out[i].at[1], h)
    PROVE  LinesApart(r)
<1>1. /\ \A i \in WordsIn(r) :
            \/ i \in WordsIn(out) /\ r[i] = out[i]
            \/ \E x \in 1 .. Len(t) : i = s + x /\ t[x].char = "word" /\ r[i] = Word(h, x)
      /\ Len(out) \in Nat /\ DOMAIN out = 1 .. Len(out) /\ Len(t) \in Nat
      /\ Len(out) <= s /\ (s = 0 \/ r[s] = Newline)
      /\ \A i \in 1 .. Len(out) : r[i] = out[i]
  <2>1. /\ Len(out) \in Nat /\ DOMAIN out = 1 .. Len(out) /\ Len(t) \in Nat
        /\ Len(out) <= s /\ (s = 0 \/ r[s] = Newline)
        /\ \A i \in 1 .. Len(out) : r[i] = out[i]
    BY DEF Line, WordsOfText
  <2>2. \A i \in WordsIn(r) :
           \/ i \in WordsIn(out) /\ r[i] = out[i]
           \/ \E x \in 1 .. Len(t) : i = s + x /\ t[x].char = "word" /\ r[i] = Word(h, x)
    BY WordsAfterLine DEF WordsKept
  <2> QED
    BY <2>1, <2>2
<1>2. WordsIn(out) \subseteq 1 .. Len(out)
  BY <1>1 DEF WordsIn
<1>3. SUFFICES ASSUME NEW i \in WordsIn(r), NEW j \in WordsIn(r), i < j
               PROVE  /\ WordBefore(r[i], r[j])
                      /\ r[i].at[1] # r[j].at[1] => \E k \in i .. j : r[k] = Newline
  BY DEF LinesApart
<1>4. CASE i \in WordsIn(out) /\ j \in WordsIn(out)
  <2>1. r[i] = out[i] /\ r[j] = out[j]
    BY <1>1, <1>2, <1>4
  <2>2. /\ WordBefore(out[i], out[j])
        /\ out[i].at[1] # out[j].at[1] => \E k \in i .. j : out[k] = Newline
    BY <1>3, <1>4 DEF LinesApart
  <2>3. \A k \in i .. j : r[k] = out[k]
    BY <1>1, <1>2, <1>4
  <2> QED
    BY <2>1, <2>2, <2>3
<1>5. CASE j \notin WordsIn(out)
  <2>1. PICK x \in 1 .. Len(t) : j = s + x /\ r[j] = Word(h, x)
    BY <1>1, <1>5
  <2>2. CASE i \in WordsIn(out)
    <3>1. r[i] = out[i] /\ Earlier(out[i].at[1], h) /\ r[j].at[1] = h
      BY <1>1, <1>2, <2>1, <2>2, WordFacts
    <3>2. i \in 1 .. Len(out)
      BY <1>2, <2>2
    <3>3. s \in i .. j /\ r[s] = Newline
      BY <1>1, <2>1, <3>2
    <3> QED
      BY <3>1, <3>3 DEF WordBefore
  <2>3. CASE i \notin WordsIn(out)
    <3>1. PICK y \in 1 .. Len(t) : i = s + y /\ r[i] = Word(h, y)
      BY <1>1, <2>3
    <3>2. y < x
      BY <1>1, <1>3, <2>1, <3>1
    <3>3. r[i].at[1] = h /\ r[j].at[1] = h /\ r[i].at[2] = y /\ r[j].at[2] = x
      BY <2>1, <3>1, WordFacts
    <3> QED
      BY <3>2, <3>3 DEF WordBefore
  <2> QED
    BY <2>2, <2>3
<1>6. CASE i \notin WordsIn(out) /\ j \in WordsIn(out)
  <2>1. PICK y \in 1 .. Len(t) : i = s + y
    BY <1>1, <1>6
  <2>2. j \in 1 .. Len(out)
    BY <1>2, <1>6
  <2> QED
    BY <1>1, <1>3, <2>1, <2>2
<1> QED
  BY <1>4, <1>5, <1>6

(***************************************************************************)
(* One call of the transcript's walk.                                      *)
(***************************************************************************)
Appended(out, h) ==
    IF IsTextField(doc, h) THEN appendText(out, doc[h].text) ELSE out

LEMMA WordsOwed ==
    ASSUME NEW a, NEW h, Before(doc, a, h), NEW order, NEW b, After(doc, a, h, order, b),
           NEW c \in WordsOf(doc)
    PROVE  /\ c.at[1] \in DOMAIN doc /\ c.at[1] \in Place
           /\ Owed(b, c.at[1]) <=> Owed(a, c.at[1]) /\ c.at[1] # h
<1>1. IsDocument(doc)
  BY BeforeFacts
<1>2. c.at[1] \in DOMAIN doc
  BY <1>1, WordsOfDocument
<1> QED
  BY <1>1, <1>2, DocumentFacts, OwedAfterCall

LEMMA WrittenAfterCall ==
    ASSUME NEW a, NEW h, Before(doc, a, h), NEW order, NEW b, After(doc, a, h, order, b),
           InPlace(doc, h, order),
           NEW out \in Seq(Char), Written(a, out)
    PROVE  Written(b, Appended(out, h)) /\ Appended(out, h) \in Seq(Char)
<1>1. /\ IsDocument(doc) /\ h \in DOMAIN doc /\ h \in Place /\ h = a[1] /\ 1 \in DOMAIN a
      /\ doc[h].text \in Seq(Char)
      /\ doc[h].kind \in {"string", "other"} => doc[h].width = 0
      /\ InOrder(a)
  BY BeforeFacts, DocumentFacts DEF Written
<1>2. InOrder(b)
  BY <1>1, InOrderAfterCall
<1>3. \A c \in WordsOf(doc) :
         /\ c.at[1] \in DOMAIN doc /\ c.at[1] \in Place
         /\ Owed(b, c.at[1]) <=> Owed(a, c.at[1]) /\ c.at[1] # h
  BY WordsOwed
<1>4. \A i \in WordsIn(out) : out[i] \in WordsOf(doc) /\ ~ Owed(a, out[i].at[1])
  BY DEF Written
<1>5. \A i \in WordsIn(out) : Earlier(out[i].at[1], h)
  BY <1>1 DEF Written
<1>6. \A i \in WordsIn(out) : \A k \in DOMAIN b : Earlier(out[i].at[1], b[k])
  <2>1. SUFFICES ASSUME NEW i \in WordsIn(out)
                 PROVE  \A k \in DOMAIN b : Earlier(out[i].at[1], b[k])
    OBVIOUS
  <2>2. out[i].at[1] \in Place /\ \A k \in DOMAIN a : Earlier(out[i].at[1], a[k])
    BY <1>3, <1>4 DEF Written
  <2> QED
    BY <2>2, EarlierAfterCall
<1>7. CASE /\ Appended(out, h) = out
           /\ \A c \in WordsOf(doc) : c.at[1] # h
  <2>1. {out[i] : i \in WordsIn(out)} = {c \in WordsOf(doc) : ~ Owed(b, c.at[1])}
    BY <1>3, <1>7 DEF Written
  <2>2. /\ \A i \in DOMAIN out : out[i] # Escape
        /\ LinesApart(out)
    BY DEF Written
  <2> QED
    BY <1>2, <1>6, <1>7, <2>1, <2>2 DEF Written
<1>8. CASE IsTextField(doc, h) /\ doc[h].text # <<>>
  <2> DEFINE t == doc[h].text
             r == Appended(out, h)
  <2>1. /\ t \in Seq(Char)
        /\ \A x \in 1 .. Len(t) : t[x].char = "word" => t[x] = Word(h, x)
    BY <1>1 DEF IsDocument
  <2>2. PICK s \in Nat : Line(out, t, r, s)
    <3>1. r = appendText(out, t)
      BY <1>8 DEF Appended
    <3> QED
      BY <1>1, <1>8, <3>1, AppendTextFacts
  <2>3. \A c \in WordsOf(doc) : c.at[1] = h =>
           \E x \in 1 .. Len(t) : t[x].char = "word" /\ c = Word(h, x)
    <3>1. TAKE c \in WordsOf(doc)
    <3>2. \E p \in DOMAIN doc : \E x \in 1 .. Len(doc[p].text) :
             doc[p].text[x].char = "word" /\ c = Word(p, x) /\ c.at[1] = p
      BY <1>1, WordsOfDocument
    <3> QED
      BY <3>2
  <2>4. \A x \in 1 .. Len(t) : t[x].char = "word" =>
           Word(h, x) \in WordsOf(doc) /\ Word(h, x).at[1] = h
    <3>1. TAKE x \in 1 .. Len(t)
    <3>2. HAVE t[x].char = "word"
    <3>3. t[x] = Word(h, x) /\ Word(h, x).at[1] = h
      BY <2>1, <3>2, WordFacts
    <3>4. Word(h, x) \in WordsOf(doc)
      BY <1>1, <1>8, <3>2, <3>3, WordsOfDocument
    <3> QED
      BY <3>3, <3>4
  <2>12. WordsOfText(h, t)
    BY <2>1 DEF WordsOfText
  <2> HIDE DEF t, r
  <2>5. \A i \in DOMAIN out : out[i] # Escape
    BY DEF Written
  <2>6. /\ \A i \in DOMAIN r : r[i] # Escape
        /\ \A i \in WordsIn(r) :
              \/ i \in WordsIn(out) /\ r[i] = out[i]
              \/ \E x \in 1 .. Len(t) : i = s + x /\ t[x].char = "word" /\ r[i] = Word(h, x)
        /\ \A i \in WordsIn(out) : i \in WordsIn(r) /\ r[i] = out[i]
        /\ \A x \in 1 .. Len(t) :
              t[x].char = "word" => s + x \in WordsIn(r) /\ r[s + x] = Word(h, x)
    <3>1. WordsKept(out, h, t, r, s)
      BY <2>12, <2>2, <2>5, WordsAfterLine
    <3> QED
      BY <3>1 DEF WordsKept
  <2>7. LinesApart(r)
    <3>1. LinesApart(out)
      BY DEF Written
    <3> QED
      BY <1>5, <2>12, <2>2, <2>5, <3>1, LinesAfterLine
  <2>8. r \in Seq(Char)
    BY <2>2 DEF Line
  <2>9. {r[i] : i \in WordsIn(r)} = {c \in WordsOf(doc) : ~ Owed(b, c.at[1])}
    <3>1. ASSUME NEW i \in WordsIn(r)
          PROVE  r[i] \in WordsOf(doc) /\ ~ Owed(b, r[i].at[1])
      <4>1. CASE i \in WordsIn(out) /\ r[i] = out[i]
        BY <1>3, <1>4, <4>1
      <4>2. CASE \E x \in 1 .. Len(t) : t[x].char = "word" /\ r[i] = Word(h, x)
        BY <1>3, <2>4, <4>2
      <4> QED
        BY <2>6, <4>1, <4>2
    <3>2. ASSUME NEW c \in WordsOf(doc), ~ Owed(b, c.at[1])
          PROVE  \E i \in WordsIn(r) : r[i] = c
      <4>1. CASE c.at[1] = h
        <5>1. PICK x \in 1 .. Len(t) : t[x].char = "word" /\ c = Word(h, x)
          BY <2>3, <4>1
        <5> QED
          BY <2>6, <5>1
      <4>2. CASE c.at[1] # h
        <5>1. ~ Owed(a, c.at[1])
          BY <1>3, <3>2, <4>2
        <5>2. PICK i \in WordsIn(out) : out[i] = c
          BY <5>1 DEF Written
        <5> QED
          BY <2>6, <5>2
      <4> QED
        BY <4>1, <4>2
    <3> QED
      BY <3>1, <3>2
  <2>10. \A i \in WordsIn(r) : \A k \in DOMAIN b : Earlier(r[i].at[1], b[k])
    <3>1. SUFFICES ASSUME NEW i \in WordsIn(r), NEW k \in DOMAIN b
                   PROVE  Earlier(r[i].at[1], b[k])
      OBVIOUS
    <3>2. CASE i \in WordsIn(out) /\ r[i] = out[i]
      BY <1>6, <3>2
    <3>3. CASE \E x \in 1 .. Len(t) : t[x].char = "word" /\ r[i] = Word(h, x)
      <4>1. r[i].at[1] = h
        BY <2>4, <3>3
      <4>2. PICK w \in Nat : Positions(doc, a, h, order, b, w)
        BY CallByPosition
      <4>3. w = 0
        BY <1>1, <1>8, <4>2 DEF Positions, IsTextField
      <4>4. PICK m \in DOMAIN a : 1 < m /\ b[k] = a[m]
        BY <4>2, <4>3, EntryAfterCall
      <4> QED
        BY <1>1, <4>1, <4>4 DEF InOrder
    <3> QED
      BY <2>6, <3>2, <3>3
  <2>11. Written(b, r)
    BY <1>2, <2>6, <2>7, <2>9, <2>10 DEF Written
  <2> QED
    BY <2>8, <2>11 DEF r
<1>9. CASE ~ (IsTextField(doc, h) /\ doc[h].text # <<>>)
  <2>1. Appended(out, h) = out
    BY <1>1, <1>9, AppendTextFacts DEF Appended
  <2>2. ASSUME NEW c \in WordsOf(doc), c.at[1] = h
        PROVE  FALSE
    <3>1. \E p \in DOMAIN doc : \E x \in 1 .. Len(doc[p].text) :
             IsTextField(doc, p) /\ c.at[1] = p
      BY <1>1, WordsOfDocument
    <3>2. IsTextField(doc, h) /\ \E x \in 1 .. Len(doc[h].text) : TRUE
      BY <2>2, <3>1
    <3> QED
      BY <1>9, <3>2
  <2> QED
    BY <1>7, <2>1, <2>2
<1> QED
  BY <1>8, <1>9

-----------------------------------------------------------------------------
(*                        The inductive invariant.                         *)

(***************************************************************************)
(* Flattening begins with nothing collected and all of a document owed, or *)
(* ends at once with the text that the description is.                     *)
(***************************************************************************)
LEMMA SingleAgenda ==
    ASSUME IsDocument(doc), Root \in DOMAIN doc
    PROVE  /\ <<Root>> \in Seq(DOMAIN doc) /\ Apart(<<Root>>)
           /\ ItemsInOrder(doc, <<Root>>) /\ InOrder(<<Root>>)
           /\ \A p \in Place : Owed(<<Root>>, p)
<1>1. Root \in Place
  BY DEF Root, Place
<1>2. DOMAIN <<Root>> = {1} /\ <<Root>>[1] = Root
  OBVIOUS
<1>3. \A p \in Place : IsPrefix(Root, p)
  <2>1. Len(Root) = 0
    BY DEF Root
  <2> QED
    BY <1>1, <2>1, PrefixByPosition, PlaceDomain
<1>4. Apart(<<Root>>) /\ ItemsInOrder(doc, <<Root>>) /\ InOrder(<<Root>>)
  BY <1>2 DEF Apart, ItemsInOrder, InOrder
<1> QED
  BY <1>2, <1>3, <1>4 DEF Owed

LEMMA NoAgenda ==
    /\ <<>> \in Seq(DOMAIN doc) /\ Apart(<<>>) /\ ItemsInOrder(doc, <<>>) /\ InOrder(<<>>)
    /\ \A p : ~ Owed(<<>>, p)
  BY DEF Apart, ItemsInOrder, InOrder, Owed

LEMMA NoParts ==
    /\ <<>> \in Seq(DOMAIN doc) /\ Range(<<>>) = {} /\ IsInjective(<<>>) /\ Ordered(<<>>)
    /\ \A t \in Seq(DOMAIN doc) : IsPrefix(<<>>, t)
<1>1. Range(<<>>) = {} /\ IsInjective(<<>>) /\ Ordered(<<>>)
  BY DEF Range, IsInjective, Ordered
<1>2. \A t \in Seq(DOMAIN doc) : IsPrefix(<<>>, t)
  <2>1. TAKE t \in Seq(DOMAIN doc)
  <2>2. Len(t) \in Nat /\ <<>> \in Seq(DOMAIN doc) /\ Len(<<>>) = 0
    OBVIOUS
  <2> DEFINE e == <<>>
  <2>3. e \in Seq(DOMAIN doc) /\ Len(e) = 0
    BY <2>2
  <2> HIDE DEF e
  <2>4. Len(e) <= Len(t) /\ \A i \in 1 .. Len(e) : e[i] = t[i]
    BY <2>2, <2>3
  <2>5. IsPrefix(e, t)
    BY <2>3, <2>4, PrefixOfTexts
  <2> QED
    BY <2>5 DEF e
<1> QED
  BY <1>1, <1>2

LEMMA TextsHaveFronts ==
    ASSUME IsDocument(doc), NEW q \in TicketTexts(doc)
    PROVE  /\ q \in DOMAIN doc /\ q \in Place
           /\ Root \in DOMAIN doc
           /\ q # Root => /\ Front(q) \in Place
                          /\ doc[Root].kind # "string"
<1>1. q \in DOMAIN doc /\ q \in Place
  BY DocumentFacts DEF TicketTexts
<1>2. CASE q = Root
  BY <1>1, <1>2
<1>3. CASE q # Root
  <2>1. Front(q) \in Place
    BY <1>1, <1>3, AboveFront
  <2>2. 1 \in 1 .. Len(q)
    BY <1>1, <1>3 DEF Place, Root
  <2>3. SubSeq(q, 1, 1 - 1) = Root
    BY <1>1 DEF Place, Root
  <2>4. Root \in DOMAIN doc /\ q[1] \in 1 .. doc[Root].width
    BY <1>1, <2>2, <2>3 DEF IsDocument
  <2>5. doc[Root].kind # "string"
    <3>1. doc[Root].kind = "string" => doc[Root].width = 0
      BY <2>4, DocumentFacts
    <3> QED
      BY <2>4, <3>1
  <2> QED
    BY <1>1, <2>1, <2>4, <2>5
<1> QED
  BY <1>2, <1>3

LEMMA FlattenFacts ==
    ASSUME IsDocument(doc), FlattenDescription
    PROVE  /\ agenda' \in Seq(DOMAIN doc) /\ Apart(agenda')
           /\ textParts' \in Seq(DOMAIN doc)
           /\ Collected(agenda', textParts')
           /\ \A t \in Seq(DOMAIN doc) : Whole(t) => IsPrefix(textParts', t)
<1>1. CASE Root \in DOMAIN doc /\ doc[Root].kind = "string"
  <2>1. \A q \in TicketTexts(doc) : q = Root
    BY <1>1, TextsHaveFronts
  <2>2. agenda' = <<>>
    BY <1>1 DEF FlattenDescription
  <2>3. CASE Blank(doc[Root].text)
    <3>1. TicketTexts(doc) = {}
      BY <2>1, <2>3 DEF TicketTexts
    <3>2. textParts' = <<>>
      BY <1>1, <2>3 DEF FlattenDescription
    <3> QED
      BY <2>2, <3>1, <3>2, NoAgenda, NoParts DEF Collected
  <2>4. CASE ~ Blank(doc[Root].text)
    <3>1. TicketTexts(doc) = {Root}
      BY <1>1, <2>1, <2>4 DEF TicketTexts
    <3>2. textParts' = <<Root>>
      BY <1>1, <2>4 DEF FlattenDescription
    <3>3. /\ <<Root>> \in Seq(DOMAIN doc) /\ DOMAIN <<Root>> = {1} /\ <<Root>>[1] = Root
          /\ Len(<<Root>>) = 1
      BY <1>1
    <3>4. Range(<<Root>>) = {Root} /\ IsInjective(<<Root>>) /\ Ordered(<<Root>>)
      BY <3>3 DEF Range, IsInjective, Ordered
    <3>5. Collected(<<>>, <<Root>>)
      BY <3>1, <3>4, NoAgenda DEF Collected
    <3>6. ASSUME NEW t \in Seq(DOMAIN doc), Whole(t)
          PROVE  IsPrefix(<<Root>>, t)
      <4>1. DOMAIN t = 1 .. Len(t) /\ Len(t) \in Nat
        OBVIOUS
      <4>2. \A i \in DOMAIN t : t[i] = Root
        BY <3>1, <3>6 DEF Whole, Range
      <4>3. \E i \in DOMAIN t : TRUE
        BY <3>1, <3>6 DEF Whole, Range
      <4>4. 1 \in DOMAIN t /\ 1 <= Len(t)
        BY <4>1, <4>3
      <4> QED
        BY <3>3, <4>2, <4>4, PrefixOfTexts
    <3> QED
      BY <2>2, <3>2, <3>3, <3>5, <3>6, NoAgenda
  <2> QED
    BY <2>3, <2>4
<1>2. CASE Root \in DOMAIN doc /\ doc[Root].kind # "string"
  <2>1. agenda' = <<Root>> /\ textParts' = <<>>
    BY <1>2 DEF FlattenDescription
  <2>2. \A q \in TicketTexts(doc) : q # Root /\ Front(q) \in Place
    BY <1>2, TextsHaveFronts DEF TicketTexts
  <2>3. Collected(<<Root>>, <<>>)
    <3>1. Range(<<>>) = {p \in TicketTexts(doc) : ~ Owed(<<Root>>, Front(p))}
      BY <1>2, <2>2, SingleAgenda, NoParts
    <3> QED
      BY <1>2, <2>2, <3>1, SingleAgenda, NoParts DEF Collected
  <2> QED
    BY <1>2, <2>1, <2>3, SingleAgenda, NoParts
<1>3. CASE Root \notin DOMAIN doc
  <2>1. agenda' = <<>> /\ textParts' = <<>>
    BY <1>3 DEF FlattenDescription
  <2>2. TicketTexts(doc) = {}
    BY <1>3, TextsHaveFronts
  <2>3. Collected(<<>>, <<>>)
    BY <2>2, NoAgenda, NoParts DEF Collected
  <2> QED
    BY <2>1, <2>3, NoAgenda, NoParts
<1> QED
  BY <1>1, <1>2, <1>3

LEMMA IInvInitially == Init => IInv
<1> SUFFICES ASSUME Init
             PROVE  IInv
  OBVIOUS
<1>1. /\ textParts = <<>> /\ text = <<>> /\ output = <<>>
      /\ textParts \in Seq(DOMAIN doc) /\ text \in Seq(DOMAIN doc) /\ output \in Seq(Char)
  BY DEF Init
<1>2. CASE stage = "received" /\ body \in Bodies /\ doc = body.description /\ agenda = <<>>
  <2>1. IsDocument(doc)
    BY <1>2, TextsAssumption
  <2>2. TypeOK
    BY <1>1, <1>2, <2>1, NoAgenda DEF TypeOK
  <2> QED
    BY <1>2, <2>2 DEF IInv, PartsInv, StageInv, AgreementInv, TranscriptInv
<1>3. CASE stage = "transcript" /\ doc \in Transcripts /\ agenda = <<Root>>
  <2>1. IsDocument(doc) /\ Root \in DOMAIN doc
    BY <1>3, TextsAssumption
  <2>2. TypeOK
    BY <1>1, <1>3, <2>1, SingleAgenda DEF TypeOK
  <2>3. WordsIn(output) = {} /\ DOMAIN output = {}
    BY <1>1 DEF WordsIn
  <2>4. \A c \in WordsOf(doc) : Owed(agenda, c.at[1])
    <3>1. TAKE c \in WordsOf(doc)
    <3>2. c.at[1] \in DOMAIN doc
      BY <2>1, WordsOfDocument
    <3> QED
      BY <1>3, <2>1, <3>2, DocumentFacts, SingleAgenda
  <2>5. Written(agenda, output)
    BY <1>3, <2>1, <2>3, <2>4, SingleAgenda DEF Written, LinesApart
  <2>6. TranscriptInv
    BY <1>3, <2>5, TranscriptAsWritten
  <2> QED
    BY <1>3, <2>2, <2>6 DEF IInv, PartsInv, StageInv, AgreementInv
<1> QED
  BY <1>2, <1>3 DEF Init

(***************************************************************************)
(* The invariant after a step, which never changes the document.           *)
(***************************************************************************)
WellTyped(st, a, parts, first, out) ==
    /\ st \in {"alarm", "unsupported", "storing", "ticket", "deciding",
               "decided", "transcript", "read"}
    /\ a \in Seq(DOMAIN doc) /\ Apart(a)
    /\ parts \in Seq(DOMAIN doc) /\ first \in Seq(DOMAIN doc)
    /\ out \in Seq(Char)

LEMMA IInvAfter ==
    ASSUME doc' = doc, TypeOK
    PROVE  /\ WellTyped(stage', agenda', textParts', text', output') => TypeOK'
           /\ PartsInv' <=>
                 (stage' \in {"storing", "deciding"} => Collected(agenda', textParts'))
           /\ TranscriptInv' <=>
                 (stage' \in {"transcript", "read"} =>
                     Written(agenda', output') /\ (stage' = "read" => agenda' = <<>>))
           /\ Whole(text)' <=> Whole(text')
           /\ Whole(textParts)' <=> Whole(textParts')
           /\ InOneOrder(doc)' <=> InOneOrder(doc)
           /\ TicketTexts(doc)' = TicketTexts(doc)
<1>1. PartsInv' <=>
         (stage' \in {"storing", "deciding"} => Collected(agenda', textParts'))
  BY DEF PartsInv, Collected, ItemsInOrder, Ordered
<1>2. TranscriptInv' <=>
         (stage' \in {"transcript", "read"} =>
             Written(agenda', output') /\ (stage' = "read" => agenda' = <<>>))
  BY DEF TranscriptInv, Written, InOrder, LinesApart
<1>3. Whole(text)' <=> Whole(text')
  BY DEF Whole, Ordered
<1>4. Whole(textParts)' <=> Whole(textParts')
  BY DEF Whole, Ordered
<1>5. (InOneOrder(doc)' <=> InOneOrder(doc)) /\ TicketTexts(doc)' = TicketTexts(doc)
  BY DEF InOneOrder, TicketTexts
<1>6. WellTyped(stage', agenda', textParts', text', output') => TypeOK'
  BY DEF TypeOK, WellTyped
<1> QED
  BY <1>1, <1>2, <1>3, <1>4, <1>5, <1>6

LEMMA InsertKeeps == IInv /\ Insert => IInv'
<1> SUFFICES ASSUME IInv, Insert
             PROVE  IInv'
  OBVIOUS
<1>1. TypeOK /\ IsDocument(doc)
  BY DEF IInv, TypeOK
<1>2. doc' = doc /\ body' = body /\ text' = text /\ output' = output /\ stage = "received"
  BY DEF Insert
<1>3. CASE ~ IsIncident(body) /\ IsTicketNamed(body)
  <2>1. stage' = "storing" /\ FlattenDescription
    BY <1>3 DEF Insert
  <2>2. TypeOK' /\ PartsInv'
    BY <1>1, <1>2, <2>1, FlattenFacts, IInvAfter DEF TypeOK, WellTyped
  <2>3. StageInv'
    BY <1>2, <1>3, <2>1 DEF StageInv
  <2> QED
    BY <2>1, <2>2, <2>3 DEF IInv, AgreementInv, TranscriptInv
<1>4. CASE ~ (~ IsIncident(body) /\ IsTicketNamed(body))
  <2>1. /\ stage' = IF IsIncident(body) THEN "alarm" ELSE "unsupported"
        /\ agenda' = agenda /\ textParts' = textParts
    BY <1>4 DEF Insert
  <2>2. stage' = "alarm" \/ (stage' = "unsupported" /\ ~ IsTicketNamed(body'))
    BY <1>2, <1>4, <2>1
  <2>3. TypeOK'
    BY <1>1, <1>2, <2>1, <2>2 DEF TypeOK
  <2> QED
    BY <2>2, <2>3 DEF IInv, PartsInv, StageInv, AgreementInv, TranscriptInv
<1> QED
  BY <1>3, <1>4

LEMMA StoreKeeps == IInv /\ Store => IInv'
<1> SUFFICES ASSUME IInv, Store
             PROVE  IInv'
  OBVIOUS
<1>1. TypeOK /\ PartsInv /\ StageInv /\ IsDocument(doc)
  BY DEF IInv, TypeOK
<1>2. /\ doc' = doc /\ body' = body /\ output' = output
      /\ agenda' = agenda /\ textParts' = textParts /\ text' = textParts
      /\ stage = "storing" /\ agenda = <<>>
      /\ stage' = IF textParts = <<>> THEN "unsupported" ELSE "ticket"
  BY DEF Store
<1>3. Whole(textParts) /\ IsTicketNamed(body)
  <2>1. Collected(<<>>, textParts)
    BY <1>1, <1>2, PartsAsCollected
  <2> QED
    BY <1>1, <1>2, <2>1, WholeWhenDone DEF StageInv
<1>4. textParts = <<>> => TicketTexts(doc) = {}
  BY <1>3 DEF Whole, Range
<1>5. TypeOK'
  BY <1>1, <1>2 DEF TypeOK
<1>6. Whole(text)'
  BY <1>1, <1>2, <1>3, IInvAfter
<1>7. StageInv'
  BY <1>2, <1>3, <1>4, <1>6 DEF StageInv
<1> QED
  BY <1>2, <1>5, <1>7 DEF IInv, PartsInv, AgreementInv, TranscriptInv

LEMMA ScheduleKeeps == IInv /\ Schedule => IInv'
<1> SUFFICES ASSUME IInv, Schedule
             PROVE  IInv'
  OBVIOUS
<1>1. TypeOK /\ StageInv /\ IsDocument(doc)
  BY DEF IInv, TypeOK
<1>2. doc' = doc /\ body' = body /\ text' = text /\ output' = output /\ stage = "ticket"
  BY DEF Schedule
<1>3. IsTicketNamed(body) /\ Whole(text) /\ text # <<>>
  BY <1>1, <1>2 DEF StageInv
<1>4. stage' = "deciding" /\ FlattenDescription
  BY <1>3 DEF Schedule
<1>5. /\ agenda' \in Seq(DOMAIN doc) /\ Apart(agenda')
      /\ textParts' \in Seq(DOMAIN doc)
      /\ Collected(agenda', textParts')
      /\ IsPrefix(textParts', text)
  BY <1>1, <1>3, <1>4, FlattenFacts DEF TypeOK
<1>6. TypeOK' /\ PartsInv' /\ Whole(text)'
  BY <1>1, <1>2, <1>3, <1>4, <1>5, IInvAfter DEF TypeOK, WellTyped
<1>7. StageInv'
  BY <1>2, <1>3, <1>4, <1>6 DEF StageInv
<1>8. AgreementInv'
  BY <1>2, <1>5 DEF AgreementInv
<1> QED
  BY <1>4, <1>6, <1>7, <1>8 DEF IInv, TranscriptInv

LEMMA DecideKeeps == IInv /\ Decide => IInv'
<1> SUFFICES ASSUME IInv, Decide
             PROVE  IInv'
  OBVIOUS
<1>1. TypeOK /\ PartsInv /\ StageInv /\ AgreementInv /\ IsDocument(doc)
  BY DEF IInv, TypeOK
<1>2. /\ doc' = doc /\ body' = body /\ output' = output
      /\ agenda' = agenda /\ textParts' = textParts /\ text' = text
      /\ stage = "deciding" /\ agenda = <<>>
      /\ stage' = IF textParts = <<>> THEN "raw" ELSE "decided"
  BY DEF Decide
<1>3. Whole(textParts) /\ Whole(text) /\ text # <<>> /\ IsTicketNamed(body)
  <2>1. Collected(<<>>, textParts)
    BY <1>1, <1>2, PartsAsCollected
  <2> QED
    BY <1>1, <1>2, <2>1, WholeWhenDone DEF StageInv
<1>4. textParts # <<>>
  <2>1. text[1] \in Range(text)
    BY <1>1, <1>3 DEF TypeOK, Range
  <2> QED
    BY <1>3, <2>1 DEF Whole, Range
<1>5. stage' = "decided"
  BY <1>2, <1>4
<1>6. TypeOK'
  BY <1>1, <1>2, <1>5 DEF TypeOK
<1>7. Whole(text)' /\ Whole(textParts)'
  BY <1>1, <1>2, <1>3, IInvAfter
<1>8. StageInv'
  BY <1>2, <1>3, <1>5, <1>7 DEF StageInv
<1>9. AgreementInv'
  BY <1>1, <1>2 DEF AgreementInv
<1> QED
  BY <1>5, <1>6, <1>8, <1>9 DEF IInv, PartsInv, TranscriptInv

LEMMA CollectKeeps == IInv /\ collectTicketDescriptionTextParts => IInv'
<1> SUFFICES ASSUME IInv, collectTicketDescriptionTextParts
             PROVE  IInv'
  OBVIOUS
<1> DEFINE h == Head(agenda)
<1>1. TypeOK /\ PartsInv /\ StageInv /\ AgreementInv /\ IsDocument(doc)
  BY DEF IInv, TypeOK
<1>2. PICK nested \in Orders(h) : Walk(h, nested, OwnText(h))
  BY DEF collectTicketDescriptionTextParts
<1>3. /\ doc' = doc /\ body' = body /\ text' = text /\ output' = output /\ stage' = stage
      /\ stage \in {"storing", "deciding"}
      /\ agenda' = nested \o Tail(agenda) /\ textParts' = textParts \o OwnText(h)
  BY <1>2 DEF Walk
<1>4. Before(doc, agenda, h) /\ agenda # <<>>
  BY <1>1 DEF Before, TypeOK, collectTicketDescriptionTextParts
<1> HIDE DEF h
<1>5. doc[h].width \in Nat
  BY <1>1, <1>4, BeforeFacts, DocumentFacts
<1>6. PICK order \in Permutation(doc, h) :
         /\ nested = Nested(doc, h, order)
         /\ doc[h].kind = "array" => InPlace(doc, h, order)
  BY <1>2, <1>5, OrdersFacts
<1>7. After(doc, agenda, h, order, agenda')
  BY <1>3, <1>6 DEF After
<1>8. Collected(agenda, textParts) /\ textParts \in Seq(DOMAIN doc)
  BY <1>1, <1>3, PartsAsCollected DEF TypeOK
<1>9. Collected(agenda', textParts') /\ textParts' \in Seq(DOMAIN doc)
  BY <1>3, <1>4, <1>6, <1>7, <1>8, CollectedAfterCall
<1>10. agenda' \in Seq(DOMAIN doc) /\ Apart(agenda')
  BY <1>4, <1>7, OwedAfterCall
<1>11. TypeOK' /\ PartsInv'
  BY <1>1, <1>3, <1>9, <1>10, IInvAfter DEF TypeOK, WellTyped
<1>12. stage = "deciding" => Whole(text)'
  BY <1>1, <1>3, IInvAfter DEF StageInv
<1>13. StageInv'
  BY <1>1, <1>3, <1>12 DEF StageInv
<1>14. ASSUME stage = "deciding", InOneOrder(doc)
       PROVE  IsPrefix(textParts', text)
  <2>1. Whole(text) /\ text \in Seq(DOMAIN doc) /\ IsPrefix(textParts, text)
    BY <1>1, <1>14 DEF StageInv, AgreementInv, TypeOK
  <2> QED
    BY <1>3, <1>4, <1>8, <1>14, <2>1, AgreementAfterCall
<1>15. AgreementInv'
  BY <1>3, <1>14 DEF AgreementInv
<1> QED
  BY <1>3, <1>11, <1>13, <1>15 DEF IInv, TranscriptInv

LEMMA TokenKeeps == IInv /\ collectToken => IInv'
<1> SUFFICES ASSUME IInv, collectToken
             PROVE  IInv'
  OBVIOUS
<1> DEFINE h == Head(agenda)
           order == Identity(doc, h)
<1>1. TypeOK /\ TranscriptInv /\ IsDocument(doc)
  BY DEF IInv, TypeOK
<1>2. /\ doc' = doc /\ body' = body /\ text' = text /\ textParts' = textParts /\ stage' = stage
      /\ stage = "transcript" /\ agenda # <<>>
      /\ agenda' = Children(h) \o Tail(agenda)
      /\ output' = Appended(output, h)
  BY DEF collectToken, Appended
<1>3. Before(doc, agenda, h)
  BY <1>1, <1>2 DEF Before, TypeOK
<1> HIDE DEF h
<1>4. doc[h].width \in Nat
  BY <1>1, <1>3, BeforeFacts, DocumentFacts
<1>5. /\ order \in Permutation(doc, h) /\ InPlace(doc, h, order)
      /\ Children(h) = Nested(doc, h, order)
  BY <1>4, IdentityFacts
<1> HIDE DEF order
<1>6. After(doc, agenda, h, order, agenda')
  BY <1>2, <1>5 DEF After
<1>7. Written(agenda, output) /\ output \in Seq(Char)
  BY <1>1, <1>2, TranscriptAsWritten DEF TypeOK
<1>8. Written(agenda', output') /\ output' \in Seq(Char)
  BY <1>2, <1>3, <1>5, <1>6, <1>7, WrittenAfterCall
<1>9. agenda' \in Seq(DOMAIN doc) /\ Apart(agenda')
  BY <1>3, <1>6, OwedAfterCall
<1>10. TypeOK' /\ TranscriptInv'
  BY <1>1, <1>2, <1>8, <1>9, IInvAfter DEF TypeOK, WellTyped
<1> QED
  BY <1>2, <1>10 DEF IInv, PartsInv, StageInv, AgreementInv

LEMMA ReadKeeps == IInv /\ ReadTranscript => IInv'
<1> SUFFICES ASSUME IInv, ReadTranscript
             PROVE  IInv'
  OBVIOUS
<1>1. TypeOK /\ TranscriptInv /\ IsDocument(doc)
  BY DEF IInv, TypeOK
<1>2. /\ doc' = doc /\ body' = body /\ output' = output
      /\ agenda' = agenda /\ textParts' = textParts /\ text' = text
      /\ stage = "transcript" /\ agenda = <<>> /\ stage' = "read"
  BY DEF ReadTranscript
<1>3. Written(agenda', output')
  BY <1>1, <1>2, TranscriptAsWritten
<1>4. TypeOK' /\ TranscriptInv'
  BY <1>1, <1>2, <1>3, IInvAfter DEF TypeOK, WellTyped
<1> QED
  BY <1>2, <1>4 DEF IInv, PartsInv, StageInv, AgreementInv

LEMMA StutterKeeps == IInv /\ UNCHANGED vars => IInv'
<1> SUFFICES ASSUME IInv, UNCHANGED vars
             PROVE  IInv'
  OBVIOUS
<1>1. TypeOK /\ PartsInv /\ StageInv /\ AgreementInv /\ TranscriptInv
  BY DEF IInv
<1>2. /\ doc' = doc /\ body' = body /\ output' = output /\ stage' = stage
      /\ agenda' = agenda /\ textParts' = textParts /\ text' = text
  BY DEF vars
<1>3. TypeOK'
  BY <1>1, <1>2 DEF TypeOK
<1>4. PartsInv' /\ TranscriptInv'
  BY <1>1, <1>2, PartsAsCollected, TranscriptAsWritten, IInvAfter
<1>5. (Whole(text)' <=> Whole(text)) /\ (Whole(textParts)' <=> Whole(textParts))
  BY <1>1, <1>2, IInvAfter
<1>6. StageInv'
  BY <1>1, <1>2, <1>5 DEF StageInv
<1>7. AgreementInv'
  BY <1>1, <1>2 DEF AgreementInv
<1> QED
  BY <1>3, <1>4, <1>6, <1>7 DEF IInv

LEMMA IInvStep == IInv /\ [Next]_vars => IInv'
  BY InsertKeeps, StoreKeeps, ScheduleKeeps, DecideKeeps, CollectKeeps, TokenKeeps,
     ReadKeeps, StutterKeeps DEF Next

(***************************************************************************)
(* Both walks keep the invariant: at every step what has been collected is *)
(* what is not owed any more, in an order that the document allows.        *)
(***************************************************************************)
THEOREM Invariance == Spec => []IInv
  BY IInvInitially, IInvStep, PTL DEF Spec

(***************************************************************************)
(* Every text field of a ticket's description is in its text once, and     *)
(* nothing else, whatever order Go's maps hand their fields out in; no     *)
(* ticket with a text is turned away or handed out as raw JSON.            *)
(***************************************************************************)
THEOREM TextsOnce == Spec => []EveryTextOnce
<1>1. IInv => EveryTextOnce
  BY DEF IInv, TypeOK, StageInv, Whole, EveryTextOnce
<1> QED
  BY <1>1, Invariance, PTL

(***************************************************************************)
(* Texts that an array orders are handed out in that order.                *)
(***************************************************************************)
THEOREM OrderKept == Spec => []ArraysKeepOrder
<1>1. IInv => ArraysKeepOrder
  <2>1. SUFFICES ASSUME IInv, stage = "decided",
                        NEW i \in DOMAIN textParts, NEW j \in DOMAIN textParts,
                        EarlierItem(doc, textParts[i], textParts[j])
                 PROVE  i < j
    BY DEF ArraysKeepOrder
  <2>2. /\ IsDocument(doc) /\ textParts \in Seq(DOMAIN doc)
        /\ Ordered(textParts)
    BY <2>1 DEF IInv, TypeOK, StageInv, Whole
  <2>3. textParts[i] \in Place /\ i \in Nat /\ j \in Nat
    BY <2>2, DocumentFacts
  <2>4. i # j
    BY <2>1, <2>3, EarlierItemAbove, PrefixOrder
  <2>5. ~ (j < i)
    BY <2>1, <2>2 DEF Ordered
  <2> QED
    BY <2>3, <2>4, <2>5
<1> QED
  BY <1>1, Invariance, PTL

(***************************************************************************)
(* The text stored with a ticket and the text an agent gets are the same,  *)
(* unless an object has two nested fields with text below them.            *)
(***************************************************************************)
THEOREM ReadingsAgree == Spec => []BothReadingsAgree
<1>1. IInv => BothReadingsAgree
  <2>1. SUFFICES ASSUME IInv, stage = "decided", InOneOrder(doc)
                 PROVE  textParts = text
    BY DEF BothReadingsAgree
  <2>2. /\ textParts \in Seq(DOMAIN doc) /\ text \in Seq(DOMAIN doc)
        /\ Whole(textParts) /\ Whole(text) /\ IsPrefix(textParts, text)
    BY <2>1 DEF IInv, TypeOK, StageInv, AgreementInv
  <2> QED
    BY <2>2, WholePrefix
<1> QED
  BY <1>1, Invariance, PTL

(***************************************************************************)
(* The transcript has the words of every text field once, in the order of  *)
(* the document, texts on lines of their own and without escapes.          *)
(***************************************************************************)
THEOREM TranscriptKept == Spec => []TranscriptInOrder
<1>1. IInv => TranscriptInOrder
  <2>1. SUFFICES ASSUME IInv, stage = "read"
                 PROVE  TranscriptInOrder
    BY DEF TranscriptInOrder
  <2>2. Written(<<>>, output)
    BY <2>1, TranscriptAsWritten DEF IInv
  <2>3. {output[i] : i \in WordsIn(output)} = WordsOf(doc)
    BY <2>2, NoAgenda DEF Written
  <2> QED
    BY <2>2, <2>3 DEF TranscriptInOrder, Written, LinesApart, WordsIn
<1> QED
  BY <1>1, Invariance, PTL

=============================================================================
