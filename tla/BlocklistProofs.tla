-------------------------- MODULE BlocklistProofs --------------------------
(***************************************************************************)
(* Proofs about the algorithms of Blocklist: normalize finds the host of a *)
(* pasted URL where it does not misread it, the loop of is_blocked finds   *)
(* what the lines of a text mean, and a list that is saved is read back as *)
(* it was.                                                                 *)
(***************************************************************************)
EXTENDS Blocklist, SequenceTheorems, WellFoundedInduction, TLAPS

\* The part of a name from label i on.
From(name, i) == SubSeq(name, i, Len(name))

-----------------------------------------------------------------------------
\* The loop of is_blocked.

\* A set of numbers that is not empty has a least one.
LEMMA LeastOf ==
  ASSUME NEW S, S \subseteq Nat, S # {}
  PROVE  \E x \in S : \A y \in S : x <= y
<1>1. PICK x \in S : \A y \in S : ~(<<y, x>> \in OpToRel(<, Nat))
  BY NatLessThanWellFounded, WFMin
<1>2. \A y \in S : ~(y < x)
  BY <1>1 DEF OpToRel
<1> QED
  BY <1>2

\* The loop finds a suffix of the name iff there is one in the set: the walk
\* looks at every suffix, the last label included.
LEMMA SuffixInMeans ==
  ASSUME NEW Labels, NEW name \in Seq(Labels), NEW set
  PROVE  SuffixIn(set, name) <=> \E i \in 1 .. Len(name) : From(name, i) \in set
<1> DEFINE len == Len(name)
           found[i \in 1 .. Len(name)] ==
              IF SubSeq(name, i, Len(name)) \in set THEN TRUE
              ELSE IF i < Len(name) THEN found[i + 1] ELSE FALSE
           hit == [i \in 1 .. Len(name) |->
                      \E j \in 1 .. Len(name) : i <= j /\ SubSeq(name, j, Len(name)) \in set]
<1>1. len \in Nat /\ (name # <<>> => len # 0) /\ (name = <<>> => len = 0)
  BY LenProperties, EmptySeq
<1>2. hit = [i \in 1 .. Len(name) |->
               IF SubSeq(name, i, Len(name)) \in set THEN TRUE
               ELSE IF i < Len(name) THEN hit[i + 1] ELSE FALSE]
  <2>1. ASSUME NEW i \in 1 .. len
        PROVE  hit[i] = IF SubSeq(name, i, len) \in set THEN TRUE
                        ELSE IF i < len THEN hit[i + 1] ELSE FALSE
    <3>1. hit[i] = \E j \in 1 .. len : i <= j /\ SubSeq(name, j, len) \in set
      OBVIOUS
    <3>2. ASSUME i < len
          PROVE  hit[i + 1] = \E j \in 1 .. len : i + 1 <= j /\ SubSeq(name, j, len) \in set
      <4>1. i + 1 \in 1 .. len
        <5> HIDE DEF len
        <5> QED
          BY <1>1, <3>2
      <4> QED
        BY <4>1
    <3> HIDE DEF hit, len
    <3>3. \A j \in 1 .. len : i <= j <=> i = j \/ (i < len /\ i + 1 <= j)
      BY <1>1
    <3> QED
      BY <1>1, <3>1, <3>2, <3>3
  <2> QED
    BY <2>1
<1>3. found = [i \in 1 .. Len(name) |->
                 IF SubSeq(name, i, Len(name)) \in set THEN TRUE
                 ELSE IF i < Len(name) THEN found[i + 1] ELSE FALSE]
  <2>1. \E f : f = [i \in 1 .. Len(name) |->
                     IF SubSeq(name, i, Len(name)) \in set THEN TRUE
                     ELSE IF i < Len(name) THEN f[i + 1] ELSE FALSE]
    BY <1>2
  <2> HIDE DEF hit
  <2> QED
    BY <2>1 DEF found
<1>4. SuffixIn(set, name) <=> name # <<>> /\ found[1]
  BY DEF SuffixIn, found
<1> HIDE DEF found, hit
<1>5. \A i \in 1 .. len : found[i] = hit[i]
  <2> SUFFICES ASSUME NEW i \in 1 .. len, found[i] # hit[i] PROVE FALSE
    OBVIOUS
  <2> DEFINE wrong == {k \in Nat : len - k \in 1 .. len /\ found[len - k] # hit[len - k]}
  <2>1. len - i \in wrong
    <3> HIDE DEF len
    <3>1. len - i \in Nat /\ len - (len - i) = i
      BY <1>1
    <3> QED
      BY <3>1
  <2>2. PICK k \in wrong : \A m \in wrong : k <= m
    <3>1. wrong \subseteq Nat /\ wrong # {}
      BY <2>1
    <3> HIDE DEF wrong
    <3> QED
      BY <3>1, LeastOf
  <2> DEFINE j == len - k
  <2>3. j \in 1 .. len /\ found[j] # hit[j]
    BY <2>2
  <2>4. j < len => found[j + 1] = hit[j + 1]
    <3>1. ASSUME j < len, found[j + 1] # hit[j + 1] PROVE FALSE
      <4>0. k \in Nat /\ len \in Nat
        BY <1>1, <2>2
      <4>1. len - (k - 1) = j + 1 /\ k - 1 \in Nat /\ j + 1 \in 1 .. len
        <5> HIDE DEF len
        <5> QED
          BY <2>3, <3>1, <4>0
      <4>2. k - 1 \in wrong
        BY <3>1, <4>1
      <4> HIDE DEF wrong
      <4> QED
        BY <2>2, <4>0, <4>2
    <3> QED
      BY <3>1
  <2> HIDE DEF wrong, j
  <2>5. found[j] = IF SubSeq(name, j, Len(name)) \in set THEN TRUE
                   ELSE IF j < Len(name) THEN found[j + 1] ELSE FALSE
    BY <1>3, <2>3
  <2>6. hit[j] = IF SubSeq(name, j, Len(name)) \in set THEN TRUE
                 ELSE IF j < Len(name) THEN hit[j + 1] ELSE FALSE
    BY <1>2, <2>3
  <2> QED
    BY <2>3, <2>4, <2>5, <2>6
<1>6. name # <<>> => 1 \in 1 .. len
  BY <1>1
<1>7. name # <<>> => (hit[1] <=> \E j \in 1 .. len : SubSeq(name, j, len) \in set)
  <2>1. name # <<>> =>
          hit[1] = \E j \in 1 .. len : 1 <= j /\ SubSeq(name, j, len) \in set
    BY <1>6 DEF hit
  <2>2. \A j \in 1 .. len : 1 <= j
    BY <1>1
  <2> HIDE DEF len
  <2> QED
    BY <2>1, <2>2
<1>8. name = <<>> => 1 .. len = {}
  BY <1>1
<1> QED
  BY <1>4, <1>5, <1>6, <1>7, <1>8 DEF From

-----------------------------------------------------------------------------
\* Suffixes.

\* The last labels of name are those of d.
Ends(d, name) ==
    /\ Len(d) <= Len(name)
    /\ \A j \in 1 .. Len(d) : name[(Len(name) - Len(d)) + j] = d[j]

\* A sequence written backwards.
LEMMA ReverseIs ==
  ASSUME NEW Labels, NEW s \in Seq(Labels)
  PROVE  /\ Ext!Reverse(s) \in Seq(Labels)
         /\ Len(Ext!Reverse(s)) = Len(s)
         /\ \A i \in 1 .. Len(s) : Ext!Reverse(s)[i] = s[(Len(s) - i) + 1]
<1> DEFINE n == Len(s)
<1>1. n \in Nat /\ s \in [1 .. n -> Labels]
  BY LenProperties
<1>2. Ext!Reverse(s) = [i \in 1 .. n |-> s[(n - i) + 1]]
  BY DEF Ext!Reverse
<1> HIDE DEF n
<1>3. \A i \in 1 .. n : (n - i) + 1 \in 1 .. n
  BY <1>1
<1>4. Ext!Reverse(s) \in [1 .. n -> Labels]
  BY <1>1, <1>2, <1>3
<1>5. Ext!Reverse(s) \in Seq(Labels) /\ Len(Ext!Reverse(s)) = n
  BY <1>1, <1>4
<1>6. \A i \in 1 .. n : Ext!Reverse(s)[i] = s[(n - i) + 1]
  BY <1>2
<1> QED
  BY <1>5, <1>6 DEF n

\* IsSuffix of the library, label by label.
LEMMA SuffixEnds ==
  ASSUME NEW Labels, NEW d \in Seq(Labels), NEW name \in Seq(Labels)
  PROVE  Ext!IsSuffix(d, name) <=> Ends(d, name)
<1> DEFINE k == Len(d)
           n == Len(name)
           r == Ext!Reverse(d)
           q == Ext!Reverse(name)
<1>1. k \in Nat /\ n \in Nat
  BY LenProperties
<1>2. /\ r \in Seq(Labels) /\ Len(r) = k
      /\ \A i \in 1 .. k : r[i] = d[(k - i) + 1]
      /\ q \in Seq(Labels) /\ Len(q) = n
      /\ \A i \in 1 .. n : q[i] = name[(n - i) + 1]
  BY ReverseIs
<1>3. Ext!IsSuffix(d, name) <=> k <= n /\ SubSeq(r, 1, k) = SubSeq(q, 1, k)
  BY <1>2 DEF Ext!IsSuffix, Ext!IsPrefix
<1> HIDE DEF r, q
<1>4. ASSUME k <= n
      PROVE  /\ SubSeq(r, 1, k) \in Seq(Labels) /\ SubSeq(q, 1, k) \in Seq(Labels)
             /\ Len(SubSeq(r, 1, k)) = k /\ Len(SubSeq(q, 1, k)) = k
             /\ \A i \in 1 .. k : SubSeq(r, 1, k)[i] = r[i] /\ SubSeq(q, 1, k)[i] = q[i]
  <2>1. /\ \A i \in 1 .. k : r[i] \in Labels
        /\ \A i \in 1 .. k : q[i] \in Labels
    <3> HIDE DEF k, n
    <3> QED
      BY <1>1, <1>2, <1>4, ElementOfSeq
  <2> HIDE DEF k, n
  <2>2. /\ SubSeq(r, 1, k) \in Seq(Labels)
        /\ Len(SubSeq(r, 1, k)) = IF 1 <= k THEN (k - 1) + 1 ELSE 0
        /\ \A i \in 1 .. (k - 1) + 1 : SubSeq(r, 1, k)[i] = r[(1 + i) - 1]
    BY <1>1, <2>1, SubSeqProperties
  <2>3. /\ SubSeq(q, 1, k) \in Seq(Labels)
        /\ Len(SubSeq(q, 1, k)) = IF 1 <= k THEN (k - 1) + 1 ELSE 0
        /\ \A i \in 1 .. (k - 1) + 1 : SubSeq(q, 1, k)[i] = q[(1 + i) - 1]
    BY <1>1, <2>1, SubSeqProperties
  <2> QED
    BY <1>1, <2>2, <2>3
<1>5. ASSUME k <= n
      PROVE  SubSeq(r, 1, k) = SubSeq(q, 1, k) <=> \A i \in 1 .. k : r[i] = q[i]
  <2> HIDE DEF k, n
  <2> QED
    BY <1>4, <1>5, SeqEqual
<1>6. ASSUME k <= n
      PROVE  (\A i \in 1 .. k : r[i] = q[i]) <=>
                \A j \in 1 .. k : name[(n - k) + j] = d[j]
  <2> HIDE DEF k, n
  <2>1. \A i \in 1 .. k : (r[i] = q[i]) <=> name[(n - i) + 1] = d[(k - i) + 1]
    BY <1>1, <1>2, <1>6
  <2>2. ASSUME NEW i \in 1 .. k
        PROVE  /\ (k - i) + 1 \in 1 .. k
               /\ (n - k) + ((k - i) + 1) = (n - i) + 1
               /\ (n - ((k - i) + 1)) + 1 = (n - k) + i
               /\ (k - ((k - i) + 1)) + 1 = i
    BY <1>1
  <2>3. ASSUME \A i \in 1 .. k : r[i] = q[i], NEW j \in 1 .. k
        PROVE  name[(n - k) + j] = d[j]
    <3>1. name[(n - ((k - j) + 1)) + 1] = d[(k - ((k - j) + 1)) + 1]
      BY <2>1, <2>2, <2>3
    <3> QED
      BY <2>2, <3>1
  <2>4. ASSUME \A j \in 1 .. k : name[(n - k) + j] = d[j], NEW i \in 1 .. k
        PROVE  r[i] = q[i]
    <3>1. name[(n - k) + ((k - i) + 1)] = d[(k - i) + 1]
      BY <2>2, <2>4
    <3> QED
      BY <2>1, <2>2, <3>1
  <2> QED
    BY <2>3, <2>4
<1> QED
  BY <1>3, <1>5, <1>6 DEF Ends

\* The part of a name from label i on, label by label.
LEMMA FromIs ==
  ASSUME NEW Labels, NEW name \in Seq(Labels), NEW i \in 1 .. Len(name)
  PROVE  /\ From(name, i) \in Seq(Labels)
         /\ Len(From(name, i)) = (Len(name) - i) + 1
         /\ \A j \in 1 .. (Len(name) - i) + 1 : From(name, i)[j] = name[(i + j) - 1]
<1> DEFINE n == Len(name)
<1>1. n \in Nat /\ i \in 1 .. n
  BY LenProperties
<1>2. \A j \in i .. n : name[j] \in Labels
  <2>1. \A j \in 1 .. n : name[j] \in Labels
    BY ElementOfSeq
  <2> HIDE DEF n
  <2> QED
    BY <1>1, <2>1
<1> HIDE DEF n
<1>3. /\ SubSeq(name, i, n) \in Seq(Labels)
      /\ Len(SubSeq(name, i, n)) = IF i <= n THEN (n - i) + 1 ELSE 0
      /\ \A j \in 1 .. (n - i) + 1 : SubSeq(name, i, n)[j] = name[(i + j) - 1]
  BY <1>1, <1>2, SubSeqProperties
<1>4. Len(SubSeq(name, i, n)) = (n - i) + 1
  BY <1>1, <1>3
<1> QED
  BY <1>3, <1>4 DEF n, From

\* A domain that is not empty is a suffix iff it is what follows some dot.
LEMMA EndsMeans ==
  ASSUME NEW Labels, NEW name \in Seq(Labels), NEW d \in Seq(Labels), d # <<>>
  PROVE  Ends(d, name) <=> \E i \in 1 .. Len(name) : From(name, i) = d
<1> DEFINE k == Len(d)
           n == Len(name)
<1>1. k \in Nat \ {0} /\ n \in Nat
  BY LenProperties, EmptySeq
<1>2. ASSUME Ends(d, name) PROVE \E i \in 1 .. n : From(name, i) = d
  <2> DEFINE i == (n - k) + 1
  <2>1. k <= n /\ \A j \in 1 .. k : name[(n - k) + j] = d[j]
    BY <1>2 DEF Ends
  <2>2. i \in 1 .. n /\ (n - i) + 1 = k /\ \A j \in 1 .. k : (i + j) - 1 = (n - k) + j
    <3> HIDE DEF k, n
    <3> QED
      BY <1>1, <2>1
  <2>3. /\ From(name, i) \in Seq(Labels) /\ Len(From(name, i)) = k
        /\ \A j \in 1 .. k : From(name, i)[j] = name[(i + j) - 1]
    <3> HIDE DEF i
    <3> QED
      BY <2>2, FromIs
  <2>4. \A j \in 1 .. k : From(name, i)[j] = d[j]
    <3> HIDE DEF i, k, n
    <3> QED
      BY <2>1, <2>2, <2>3
  <2>5. From(name, i) = d
    <3> HIDE DEF i
    <3> QED
      BY <2>3, <2>4, SeqEqual
  <2> QED
    BY <2>2, <2>5
<1>3. ASSUME NEW i \in 1 .. n, From(name, i) = d PROVE Ends(d, name)
  <2>1. /\ k = (n - i) + 1
        /\ \A j \in 1 .. (n - i) + 1 : d[j] = name[(i + j) - 1]
    BY <1>3, FromIs
  <2> HIDE DEF k, n
  <2>2. k <= n /\ i = (n - k) + 1
    BY <1>1, <2>1
  <2>3. \A j \in 1 .. k : (i + j) - 1 = (n - k) + j
    BY <1>1, <2>2
  <2>4. \A j \in 1 .. k : name[(n - k) + j] = d[j]
    BY <2>1, <2>3
  <2> QED
    BY <2>2, <2>4 DEF Ends, k, n
<1> QED
  BY <1>2, <1>3


\* What follows the first dot, from label i on.
LEMMA FromTail ==
  ASSUME NEW Labels, NEW name \in Seq(Labels), name # <<>>,
         NEW i \in 1 .. Len(name) - 1
  PROVE  From(Tail(name), i) = From(name, i + 1)
<1> DEFINE n == Len(name)
           t == Tail(name)
<1>1. /\ n \in Nat \ {0} /\ t \in Seq(Labels) /\ Len(t) = n - 1
      /\ \A j \in 1 .. n - 1 : t[j] = name[j + 1]
  BY LenProperties, EmptySeq, HeadTailProperties
<1>2. /\ i \in 1 .. Len(t) /\ i + 1 \in 1 .. n
      /\ (Len(t) - i) + 1 = (n - (i + 1)) + 1
  <2> HIDE DEF n, t
  <2>1. i \in 1 .. n - 1
    BY DEF n
  <2> QED
    BY <1>1, <2>1
<1> DEFINE m == (n - (i + 1)) + 1
<1>3. /\ From(t, i) \in Seq(Labels) /\ Len(From(t, i)) = m
      /\ \A j \in 1 .. m : From(t, i)[j] = t[(i + j) - 1]
  <2>1. m = (Len(t) - i) + 1
    BY <1>2
  <2> HIDE DEF t, m
  <2> QED
    BY <1>1, <1>2, <2>1, FromIs
<1>4. /\ From(name, i + 1) \in Seq(Labels) /\ Len(From(name, i + 1)) = m
      /\ \A j \in 1 .. m : From(name, i + 1)[j] = name[((i + 1) + j) - 1]
  BY <1>2, FromIs
<1>5. ASSUME NEW j \in 1 .. m PROVE From(t, i)[j] = From(name, i + 1)[j]
  <2>1. (i + j) - 1 \in 1 .. n - 1 /\ ((i + j) - 1) + 1 = ((i + 1) + j) - 1
    <3>1. m \in Nat /\ m = (n - (i + 1)) + 1
      <4> HIDE DEF n
      <4> QED
        BY <1>1, <1>2
    <3> HIDE DEF n, m
    <3> QED
      BY <1>1, <1>2, <1>5, <3>1
  <2> HIDE DEF n, m, t
  <2> QED
    BY <1>1, <1>3, <1>4, <2>1
<1> HIDE DEF m, t
<1>6. From(t, i) = From(name, i + 1)
  BY <1>3, <1>4, <1>5, SeqEqual
<1> QED
  BY <1>6 DEF t

\* A domain that is not empty is a strict suffix iff it follows a dot.
LEMMA StrictEndsMeans ==
  ASSUME NEW Labels, NEW name \in Seq(Labels), NEW d \in Seq(Labels), d # <<>>
  PROVE  Ends(d, name) /\ d # name <=>
            /\ Len(name) > 1
            /\ \E i \in 1 .. Len(Tail(name)) : From(Tail(name), i) = d
<1> DEFINE n == Len(name)
<1>1. n \in Nat
  BY LenProperties
<1>2. Len(name) > 1 => name # <<>> /\ Len(Tail(name)) = n - 1
  BY EmptySeq, HeadTailProperties
<1>3. ASSUME Ends(d, name), d # name
      PROVE  Len(name) > 1 /\ \E i \in 1 .. Len(Tail(name)) : From(Tail(name), i) = d
  <2>1. PICK i \in 1 .. n : From(name, i) = d
    BY <1>3, EndsMeans
  <2>2. i # 1
    BY <1>3, <2>1, SubSeqFull DEF From
  <2>3. n > 1 /\ i - 1 \in 1 .. n - 1 /\ (i - 1) + 1 = i
    <3> HIDE DEF n
    <3> QED
      BY <1>1, <2>1, <2>2
  <2>4. From(Tail(name), i - 1) = From(name, (i - 1) + 1)
    <3> DEFINE p == i - 1
    <3>1. p \in 1 .. Len(name) - 1 /\ name # <<>>
      BY <1>2, <2>3
    <3> HIDE DEF p
    <3>2. From(Tail(name), p) = From(name, p + 1)
      BY <3>1, FromTail
    <3> QED
      BY <3>2 DEF p
  <2> QED
    BY <1>2, <2>1, <2>3, <2>4
<1>4. ASSUME n > 1, NEW i \in 1 .. Len(Tail(name)), From(Tail(name), i) = d
      PROVE  Ends(d, name) /\ d # name
  <2>1. i \in 1 .. n - 1 /\ name # <<>>
    BY <1>2, <1>4
  <2>2. From(name, i + 1) = d
    BY <1>4, <2>1, FromTail
  <2>3. i + 1 \in 1 .. n /\ (n - (i + 1)) + 1 # n
    <3> HIDE DEF n
    <3> QED
      BY <1>1, <2>1
  <2>4. Len(d) = (n - (i + 1)) + 1
    BY <2>2, <2>3, FromIs
  <2>5. Len(d) # Len(name)
    BY <2>3, <2>4
  <2> QED
    BY <2>2, <2>3, <2>5, EndsMeans
<1> QED
  BY <1>3, <1>4

-----------------------------------------------------------------------------
\* normalize.

\* The first n tokens of a line.
LEMMA PrefixIs ==
  ASSUME NEW Tokens, NEW s \in Seq(Tokens), NEW n \in 0 .. Len(s)
  PROVE  /\ SubSeq(s, 1, n) \in Seq(Tokens)
         /\ Len(SubSeq(s, 1, n)) = n
         /\ \A i \in 1 .. n : SubSeq(s, 1, n)[i] = s[i]
         /\ n = Len(s) => SubSeq(s, 1, n) = s
<1> DEFINE len == Len(s)
<1>1. len \in Nat /\ n \in 0 .. len
  BY LenProperties
<1>2. \A i \in 1 .. n : s[i] \in Tokens
  <2>1. \A i \in 1 .. len : s[i] \in Tokens
    BY ElementOfSeq
  <2> HIDE DEF len
  <2> QED
    BY <1>1, <2>1
<1>3. n \in Int
  <2> HIDE DEF len
  <2> QED
    BY <1>1
<1>4. /\ SubSeq(s, 1, n) \in Seq(Tokens)
      /\ Len(SubSeq(s, 1, n)) = IF 1 <= n THEN (n - 1) + 1 ELSE 0
      /\ \A i \in 1 .. (n - 1) + 1 : SubSeq(s, 1, n)[i] = s[(1 + i) - 1]
  BY <1>2, <1>3, SubSeqProperties
<1>5. (IF 1 <= n THEN (n - 1) + 1 ELSE 0) = n /\ (n - 1) + 1 = n
      /\ \A i \in 1 .. n : (1 + i) - 1 = i
  <2> HIDE DEF len
  <2> QED
    BY <1>1
<1>6. n = Len(s) => SubSeq(s, 1, n) = s
  BY SubSeqFull
<1> QED
  BY <1>4, <1>5, <1>6

\* The tokens from the one after the next to number a on.
LEMMA RestIs ==
  ASSUME NEW Tokens, NEW s \in Seq(Tokens), NEW a \in 0 .. Len(s) - 1
  PROVE  /\ SubSeq(s, a + 2, Len(s)) \in Seq(Tokens)
         /\ Len(SubSeq(s, a + 2, Len(s))) = (Len(s) - a) - 1
         /\ \A i \in 1 .. (Len(s) - a) - 1 :
               SubSeq(s, a + 2, Len(s))[i] = s[(a + 1) + i]
<1> DEFINE len == Len(s)
           b == a + 2
<1>1. len \in Nat /\ a \in 0 .. len - 1
  BY LenProperties
<1>2. \A i \in b .. len : s[i] \in Tokens
  <2>1. \A i \in 1 .. len : s[i] \in Tokens
    BY ElementOfSeq
  <2> HIDE DEF len
  <2> QED
    BY <1>1, <2>1
<1>3. b \in Int /\ len \in Int
  <2> HIDE DEF len
  <2> QED
    BY <1>1
<1>3a. \A i \in b .. len : s[i] \in Tokens
  BY <1>2
<1>4. /\ SubSeq(s, b, len) \in Seq(Tokens)
      /\ Len(SubSeq(s, b, len)) = IF b <= len THEN (len - b) + 1 ELSE 0
      /\ \A i \in 1 .. (len - b) + 1 : SubSeq(s, b, len)[i] = s[(b + i) - 1]
  <2> HIDE DEF b, len
  <2> QED
    BY <1>3, <1>3a, SubSeqProperties
<1>5. /\ (IF b <= len THEN (len - b) + 1 ELSE 0) = (len - a) - 1
      /\ (len - b) + 1 = (len - a) - 1
      /\ \A i \in 1 .. (len - a) - 1 : (b + i) - 1 = (a + 1) + i
  <2> HIDE DEF len
  <2> QED
    BY <1>1
<1> QED
  BY <1>4, <1>5

\* find: the first token in the set, if there is one.
LEMMA AheadIs ==
  ASSUME NEW Tokens, NEW s \in Seq(Tokens), NEW set
  PROVE  /\ Ahead(s, set) \in 0 .. Len(s)
         /\ \A i \in 1 .. Ahead(s, set) : s[i] \notin set
         /\ Ahead(s, set) < Len(s) => s[Ahead(s, set) + 1] \in set
<1> DEFINE len == Len(s)
           S == {n \in Nat : n <= len /\ (n < len => s[n + 1] \in set)}
<1>1. len \in Nat
  BY LenProperties
<1>2. len \in S /\ S \subseteq Nat
  <2> HIDE DEF len
  <2> QED
    BY <1>1
<1>3. PICK n \in S : \A m \in S : n <= m
  <2> HIDE DEF S
  <2> QED
    BY <1>2, LeastOf
<1>4. n \in 0 .. len /\ (n < len => s[n + 1] \in set)
  <2> HIDE DEF len
  <2> QED
    BY <1>1, <1>3
<1>5. ASSUME NEW i \in 1 .. n PROVE s[i] \notin set
  <2> HIDE DEF len
  <2>1. i - 1 \in Nat /\ i - 1 < n /\ i - 1 < len /\ (i - 1) + 1 = i
    BY <1>1, <1>4
  <2>2. i - 1 \notin S
    <3> HIDE DEF S
    <3> QED
      BY <1>2, <1>3, <1>4, <2>1
  <2>3. ~(i - 1 <= len /\ (i - 1 < len => s[(i - 1) + 1] \in set))
    BY <2>1, <2>2
  <2>4. i - 1 <= len /\ i - 1 < len
    BY <1>1, <2>1
  <2>5. s[(i - 1) + 1] \notin set
    BY <2>3, <2>4
  <2> HIDE DEF S
  <2> QED
    BY <2>1, <2>5
<1>6. \E k \in 0 .. Len(s) : /\ \A i \in 1 .. k : s[i] \notin set
                             /\ k < Len(s) => s[k + 1] \in set
  BY <1>4, <1>5
<1> QED
  BY <1>6 DEF Ahead

\* trim_end_matches: the last token that is not an empty label.
LEMMA SolidIs ==
  ASSUME NEW Tokens, NEW s \in Seq(Tokens)
  PROVE  /\ Solid(s) \in 0 .. Len(s)
         /\ \A i \in Solid(s) + 1 .. Len(s) : s[i] = Nil
         /\ Solid(s) > 0 => s[Solid(s)] # Nil
<1> DEFINE len == Len(s)
           S == {n \in Nat : n <= len /\ \A i \in n + 1 .. len : s[i] = Nil}
<1>1. len \in Nat
  BY LenProperties
<1>2. len \in S /\ S \subseteq Nat
  <2> HIDE DEF len
  <2> QED
    BY <1>1
<1>3. PICK n \in S : \A m \in S : n <= m
  <2> HIDE DEF S
  <2> QED
    BY <1>2, LeastOf
<1>4. n \in 0 .. len /\ \A i \in n + 1 .. len : s[i] = Nil
  <2> HIDE DEF len
  <2> QED
    BY <1>1, <1>3
<1>5. ASSUME n > 0, s[n] = Nil PROVE FALSE
  <2> HIDE DEF len
  <2>1. n - 1 \in Nat /\ n - 1 <= len /\ (n - 1) + 1 = n
    BY <1>1, <1>4, <1>5
  <2>2. \A i \in (n - 1) + 1 .. len : i = n \/ i \in n + 1 .. len
    BY <1>1, <1>4, <2>1
  <2>3. n - 1 \in S
    BY <1>4, <1>5, <2>1, <2>2
  <2> HIDE DEF S
  <2> QED
    BY <1>3, <1>4, <2>3
<1>6. \E k \in 0 .. Len(s) : /\ \A i \in k + 1 .. Len(s) : s[i] = Nil
                             /\ k > 0 => s[k] # Nil
  BY <1>4, <1>5
<1> QED
  BY <1>6 DEF Solid

\* What stands in front of the first token in a set has none of them.
LEMMA UpToIs ==
  ASSUME NEW Tokens, NEW s \in Lines(Tokens), NEW set
  PROVE  /\ UpTo(s, set) \in Lines(Tokens)
         /\ \A i \in 1 .. Len(UpTo(s, set)) : UpTo(s, set)[i] \notin set
         /\ (\A i \in 1 .. Len(s) : s[i] \notin set) => UpTo(s, set) = s
<1> DEFINE n == Ahead(s, set)
           u == SubSeq(s, 1, n)
           len == Len(s)
<1>1. s \in Seq(Tokens) /\ len \in Nat
  BY LenProperties DEF Lines
<1>2. n \in 0 .. len /\ (\A i \in 1 .. n : s[i] \notin set) /\ (n < len => s[n + 1] \in set)
  BY <1>1, AheadIs
<1> HIDE DEF n
<1>3. /\ u \in Seq(Tokens) /\ Len(u) = n /\ (\A i \in 1 .. n : u[i] = s[i])
      /\ n = len => u = s
  BY <1>1, <1>2, PrefixIs
<1>4. \A i \in 1 .. len : s[i] \in Marks => i > 1 /\ s[i - 1] \notin Marks
  BY <1>1 DEF Lines
<1>5. UpTo(s, set) = u
  BY DEF UpTo, n
<1> HIDE DEF u, len
<1>6. u \in Lines(Tokens)
  <2>1. DOMAIN u = 1 .. n
    BY <1>3
  <2>2. ASSUME NEW i \in 1 .. n, u[i] \in Marks PROVE i > 1 /\ u[i - 1] \notin Marks
    <3>1. i \in 1 .. len /\ s[i] \in Marks
      BY <1>1, <1>2, <1>3, <2>2
    <3>2. i > 1 /\ s[i - 1] \notin Marks
      BY <1>4, <3>1
    <3>3. i - 1 \in 1 .. n
      BY <1>1, <1>2, <3>2
    <3> QED
      BY <1>3, <3>2, <3>3
  <2> QED
    BY <1>3, <2>1, <2>2 DEF Lines
<1>7. (\A i \in 1 .. len : s[i] \notin set) => n = len
  BY <1>1, <1>2
<1> QED
  BY <1>2, <1>3, <1>5, <1>6, <1>7 DEF len

\* What follows a mark starts with a label.
LEMMA BehindIs ==
  ASSUME NEW Tokens, NEW s \in Lines(Tokens)
  PROVE  /\ Behind(s, {Sep}) \in Lines(Tokens)
         /\ (\A i \in 1 .. Len(s) : s[i] # Sep) => Behind(s, {Sep}) = s
<1> DEFINE n == Ahead(s, {Sep})
           r == SubSeq(s, n + 2, Len(s))
           len == Len(s)
           m == (len - n) - 1
<1>1. s \in Seq(Tokens) /\ len \in Nat
  BY LenProperties DEF Lines
<1>2. n \in 0 .. len /\ (\A i \in 1 .. n : s[i] # Sep) /\ (n < len => s[n + 1] = Sep)
  BY <1>1, AheadIs
<1>3. Behind(s, {Sep}) = IF n < len THEN r ELSE s
  BY DEF Behind
<1> HIDE DEF n
<1>4. \A i \in 1 .. len : s[i] \in Marks => i > 1 /\ s[i - 1] \notin Marks
  BY <1>1 DEF Lines
<1>5. ASSUME n < len PROVE r \in Lines(Tokens)
  <2>1. n \in 0 .. len - 1
    <3> HIDE DEF len
    <3> QED
      BY <1>1, <1>2, <1>5
  <2>2. r \in Seq(Tokens) /\ Len(r) = m /\ \A i \in 1 .. m : r[i] = s[(n + 1) + i]
    BY <1>1, <2>1, RestIs
  <2> HIDE DEF r, len
  <2>3. m \in Nat
    BY <1>1, <2>1
  <2>4. DOMAIN r = 1 .. m
    BY <2>2
  <2>5. ASSUME NEW i \in 1 .. m, r[i] \in Marks PROVE i > 1 /\ r[i - 1] \notin Marks
    <3>0. (n + 1) + i \in 1 .. len
      BY <1>1, <2>1
    <3>1. (n + 1) + i \in 1 .. len /\ s[(n + 1) + i] \in Marks
      BY <2>2, <2>5, <3>0
    <3>2. s[((n + 1) + i) - 1] \notin Marks
      BY <1>4, <3>1
    <3>3. i # 1
      <4> SUFFICES ASSUME i = 1 PROVE FALSE
        OBVIOUS
      <4>1. ((n + 1) + i) - 1 = n + 1
        BY <2>1
      <4> QED
        BY <1>2, <1>5, <3>2, <4>1 DEF Marks
    <3>4. i > 1 /\ i - 1 \in 1 .. m /\ ((n + 1) + i) - 1 = (n + 1) + (i - 1)
      BY <1>1, <2>1, <2>3, <2>5, <3>3
    <3> QED
      BY <2>2, <3>2, <3>4
  <2> QED
    BY <2>2, <2>4, <2>5 DEF Lines
<1>6. (\A i \in 1 .. len : s[i] # Sep) => n = len
  <2> HIDE DEF len
  <2> QED
    BY <1>1, <1>2
<1>7. n = len => ~(n < len)
  <2> HIDE DEF len
  <2> QED
    BY <1>1
<1> QED
  BY <1>3, <1>5, <1>6, <1>7

\* Final dots are dropped, and only they.
LEMMA TrimIs ==
  ASSUME NEW Tokens, NEW s \in Lines(Tokens)
  PROVE  /\ TrimDots(s) \in Lines(Tokens)
         /\ Len(TrimDots(s)) \in 0 .. Len(s)
         /\ \A i \in 1 .. Len(TrimDots(s)) : TrimDots(s)[i] = s[i]
         /\ \A i \in 1 .. Len(s) : s[i] # Nil => i <= Len(TrimDots(s))
         /\ Len(TrimDots(s)) > 0 => TrimDots(s)[Len(TrimDots(s))] # Nil
         /\ (Len(s) > 0 => s[Len(s)] # Nil) => TrimDots(s) = s
<1> DEFINE n == Solid(s)
           u == SubSeq(s, 1, n)
           len == Len(s)
<1>1. s \in Seq(Tokens) /\ len \in Nat
  BY LenProperties DEF Lines
<1>2. n \in 0 .. len /\ (\A i \in n + 1 .. len : s[i] = Nil) /\ (n > 0 => s[n] # Nil)
  BY <1>1, SolidIs
<1>5. TrimDots(s) = u
  BY DEF TrimDots
<1> HIDE DEF n
<1>3. /\ u \in Seq(Tokens) /\ Len(u) = n /\ (\A i \in 1 .. n : u[i] = s[i])
      /\ n = len => u = s
  BY <1>1, <1>2, PrefixIs
<1>4. \A i \in 1 .. len : s[i] \in Marks => i > 1 /\ s[i - 1] \notin Marks
  BY <1>1 DEF Lines
<1> HIDE DEF u, len
<1>6. u \in Lines(Tokens)
  <2>1. DOMAIN u = 1 .. n
    BY <1>3
  <2>2. ASSUME NEW i \in 1 .. n, u[i] \in Marks PROVE i > 1 /\ u[i - 1] \notin Marks
    <3>1. i \in 1 .. len /\ s[i] \in Marks
      BY <1>1, <1>2, <1>3, <2>2
    <3>2. i > 1 /\ s[i - 1] \notin Marks
      BY <1>4, <3>1
    <3>3. i - 1 \in 1 .. n
      BY <1>1, <1>2, <3>2
    <3> QED
      BY <1>3, <3>2, <3>3
  <2> QED
    BY <1>3, <2>1, <2>2 DEF Lines
<1>7. \A i \in 1 .. len : s[i] # Nil => i <= n
  BY <1>1, <1>2
<1>8. n > 0 => u[n] # Nil
  BY <1>1, <1>2, <1>3
<1>9. (len > 0 => s[len] # Nil) => n = len
  BY <1>1, <1>2
<1> QED
  BY <1>2, <1>3, <1>5, <1>6, <1>7, <1>8, <1>9 DEF len

\* An entry of a list: what normalize makes of some line.
Entries(Tokens) ==
    {d \in Lines(Tokens) :
        /\ d # <<>>
        /\ \A i \in 1 .. Len(d) : d[i] \notin {Sep, Cut}
        /\ d[Len(d)] # Nil}

\* normalize returns an entry, or nothing.
LEMMA NormalizeIs ==
  ASSUME NEW Tokens, NEW l \in Lines(Tokens)
  PROVE  Normalize(l) \in Entries(Tokens) \cup {<<>>}
<1> DEFINE r == Behind(l, {Sep})
           u == UpTo(r, {Sep, Cut})
           d == TrimDots(u)
<1>1. r \in Lines(Tokens)
  BY BehindIs
<1> HIDE DEF r
<1>2. u \in Lines(Tokens) /\ \A i \in 1 .. Len(u) : u[i] \notin {Sep, Cut}
  BY <1>1, UpToIs
<1> HIDE DEF u
<1>3. /\ d \in Lines(Tokens) /\ Len(d) \in 0 .. Len(u)
      /\ \A i \in 1 .. Len(d) : d[i] = u[i]
      /\ Len(d) > 0 => d[Len(d)] # Nil
  BY <1>2, TrimIs
<1>4. Normalize(l) = d
  BY DEF Normalize, r, u
<1> HIDE DEF d
<1> SUFFICES ASSUME d # <<>> PROVE d \in Entries(Tokens)
  BY <1>4
<1>5. d \in Seq(Tokens) /\ u \in Seq(Tokens)
  BY <1>2, <1>3 DEF Lines
<1>6. Len(d) \in Nat /\ Len(u) \in Nat /\ Len(d) # 0
  BY <1>5, LenProperties, EmptySeq
<1>7. Len(d) > 0 /\ \A i \in 1 .. Len(d) : i \in 1 .. Len(u)
  BY <1>3, <1>6
<1> QED
  BY <1>2, <1>3, <1>7 DEF Entries

\* normalize leaves an entry as it is.
LEMMA NormalizeEntry ==
  ASSUME NEW Tokens, NEW d \in Entries(Tokens)
  PROVE  Normalize(d) = d
<1>1. /\ d \in Lines(Tokens) /\ d[Len(d)] # Nil
      /\ \A i \in 1 .. Len(d) : d[i] \notin {Sep, Cut}
  BY DEF Entries
<1>2. Behind(d, {Sep}) = d
  BY <1>1, BehindIs
<1>3. UpTo(d, {Sep, Cut}) = d
  BY <1>1, UpToIs
<1>4. TrimDots(d) = d
  BY <1>1, TrimIs
<1> QED
  BY <1>2, <1>3, <1>4 DEF Normalize

\* Unless it misreads the line, normalize finds the host of a pasted URL.
LEMMA NormalizeFindsHost ==
  ASSUME NEW Tokens, NEW l \in Lines(Tokens), ~Misread(l)
  PROVE  Normalize(l) = Host(l)
<1> DEFINE r == Behind(l, {Sep})
           m == Ahead(r, {Sep, Cut})
           k == Ahead(r, Marks)
           u == UpTo(r, {Sep, Cut})
           len == Len(l)
<1>1. l \in Seq(Tokens) /\ len \in Nat /\ DOMAIN l = 1 .. len
  BY LenProperties DEF Lines
<1>2. r = IF IsUrl(l) THEN SubSeq(l, 3, Len(l)) ELSE l
  <2>1. CASE IsUrl(l)
    <3> DEFINE a == Ahead(l, {Sep})
    <3>1. a \in 0 .. len /\ (\A i \in 1 .. a : l[i] # Sep) /\ (a < len => l[a + 1] = Sep)
      BY <1>1, AheadIs
    <3>2. len > 1 /\ l[1] # Sep /\ l[2] = Sep
      BY <2>1 DEF IsUrl, Marks
    <3> HIDE DEF a, len
    <3>3. a = 1
      <4>1. a # 0
        BY <1>1, <3>1, <3>2
      <4>2. ~(a >= 2)
        BY <1>1, <3>1, <3>2
      <4> QED
        BY <1>1, <3>1, <4>1, <4>2
    <3>4. a < len /\ a + 2 = 3
      BY <1>1, <3>2, <3>3
    <3> QED
      BY <2>1, <3>4 DEF Behind, a, len
  <2>2. CASE ~IsUrl(l)
    <3>1. \A i \in 1 .. Len(l) : l[i] # Sep
      BY <1>1, <2>2 DEF Misread
    <3> QED
      BY <2>2, <3>1, BehindIs
  <2> QED
    BY <2>1, <2>2
<1>3. r \in Lines(Tokens) /\ r \in Seq(Tokens)
  BY BehindIs DEF Lines
<1>4. Host(l) = TrimDots(UpTo(r, Marks)) /\ Normalize(l) = TrimDots(u)
  BY <1>2 DEF Host, Normalize
<1> HIDE DEF r
<1>5. /\ m \in 0 .. Len(r) /\ (m < Len(r) => r[m + 1] \in {Sep, Cut})
      /\ \A i \in 1 .. m : r[i] \notin {Sep, Cut}
  BY <1>3, AheadIs
<1>6. /\ k \in 0 .. Len(r) /\ (k < Len(r) => r[k + 1] \in Marks)
      /\ \A i \in 1 .. k : r[i] \notin Marks
  BY <1>3, AheadIs
<1>7. u = SubSeq(r, 1, m) /\ UpTo(r, Marks) = SubSeq(r, 1, k)
  BY DEF UpTo
<1>8. u \in Lines(Tokens) /\ u \in Seq(Tokens)
  BY <1>3, UpToIs DEF Lines
<1> HIDE DEF m, k, u
<1>9. Len(u) = m /\ \A i \in 1 .. m : u[i] = r[i]
  BY <1>3, <1>5, <1>7, PrefixIs
<1>10. \A i \in 1 .. m : r[i] # Query
  <2> SUFFICES ASSUME NEW i \in 1 .. m, r[i] = Query PROVE FALSE
    OBVIOUS
  <2> DEFINE d == TrimDots(u)
  <2>1. /\ d \in Seq(Tokens)
        /\ \A j \in 1 .. Len(d) : d[j] = u[j]
        /\ \A j \in 1 .. Len(u) : u[j] # Nil => j <= Len(d)
    BY <1>8, TrimIs DEF Lines
  <2>2. i \in 1 .. Len(u) /\ u[i] = Query
    BY <1>9
  <2>3. u[i] # Nil
    BY <2>2, BlocklistAssumption DEF Marks
  <2> HIDE DEF d
  <2>4. Len(d) \in Nat /\ DOMAIN d = 1 .. Len(d) /\ m \in Nat
    BY <1>5, <1>9, <1>8, <2>1, LenProperties
  <2>5. i \in DOMAIN d /\ d[i] = Query
    BY <2>1, <2>2, <2>3, <2>4
  <2> QED
    BY <1>4, <2>5 DEF Misread, d
<1>11. k = m
  <2>1. Len(r) \in Nat
    BY <1>3, LenProperties
  <2> DEFINE n == Len(r)
  <2>2. /\ m \in 0 .. n /\ (m < n => r[m + 1] \in Marks)
        /\ \A i \in 1 .. m : r[i] \notin Marks
    BY <1>5, <1>10 DEF Marks
  <2>3. /\ k \in 0 .. n /\ (k < n => r[k + 1] \in Marks)
        /\ \A i \in 1 .. k : r[i] \notin Marks
    BY <1>6
  <2> HIDE DEF n
  <2>4. n \in Nat
    BY <2>1 DEF n
  <2>5. ~(k < m)
    BY <2>2, <2>3, <2>4
  <2>6. ~(m < k)
    BY <2>2, <2>3, <2>4
  <2> QED
    BY <2>2, <2>3, <2>4, <2>5, <2>6
<1> QED
  BY <1>4, <1>7, <1>11

-----------------------------------------------------------------------------
\* Texts and lists.

\* What follows the star of a wildcard and its dot is a line.
LEMMA WildcardTail ==
  ASSUME NEW Tokens, NEW l \in Lines(Tokens), IsWildcard(l)
  PROVE  Tail(l) \in Lines(Tokens)
<1> DEFINE n == Len(l)
           t == Tail(l)
<1>1. l \in Seq(Tokens) /\ n \in Nat /\ n > 1 /\ l # <<>> /\ l[2] \notin Marks
  BY LenProperties, EmptySeq DEF Lines, IsWildcard
<1>2. t \in Seq(Tokens) /\ Len(t) = n - 1 /\ \A i \in 1 .. Len(t) : t[i] = l[i + 1]
  BY <1>1, HeadTailProperties
<1>3. \A i \in 1 .. n : l[i] \in Marks => i > 1 /\ l[i - 1] \notin Marks
  <2>1. DOMAIN l = 1 .. n
    BY <1>1
  <2>2. \A i \in DOMAIN l : l[i] \in Marks => i > 1 /\ l[i - 1] \notin Marks
    BY DEF Lines
  <2> QED
    BY <2>1, <2>2
<1> HIDE DEF n, t
<1>4. ASSUME NEW i \in 1 .. n - 1, t[i] \in Marks PROVE i > 1 /\ t[i - 1] \notin Marks
  <2>1. i + 1 \in 1 .. n /\ t[i] = l[i + 1] /\ (i + 1) - 1 = i
    BY <1>1, <1>2, <1>4
  <2>2. l[i] \notin Marks
    BY <1>3, <1>4, <2>1
  <2>3. i # 1
    BY <1>1, <1>4, <2>1
  <2>4. i > 1 /\ i - 1 \in 1 .. n - 1 /\ (i - 1) + 1 = i
    BY <1>1, <1>4, <2>3
  <2> QED
    BY <1>2, <2>2, <2>4
<1>5. DOMAIN t = 1 .. n - 1
  BY <1>1, <1>2
<1> QED
  BY <1>2, <1>4, <1>5 DEF Lines, t

\* A list is a list of entries.
LEMMA FromTextType ==
  ASSUME NEW Tokens, NEW text, text \subseteq Lines(Tokens)
  PROVE  /\ FromText(text) = [exact |-> FromText(text).exact,
                              wildcard |-> FromText(text).wildcard]
         /\ FromText(text).exact \subseteq Entries(Tokens)
         /\ FromText(text).wildcard \subseteq Entries(Tokens)
<1>1. \A l \in text : Normalize(l) \in Entries(Tokens) \cup {<<>>}
  BY NormalizeIs
<1>2. \A l \in text : IsWildcard(l) => Normalize(Tail(l)) \in Entries(Tokens) \cup {<<>>}
  BY NormalizeIs, WildcardTail
<1>3. FromText(text).exact \subseteq Entries(Tokens)
  BY <1>1 DEF FromText
<1>4. FromText(text).wildcard \subseteq Entries(Tokens)
  BY <1>2 DEF FromText
<1> QED
  BY <1>3, <1>4 DEF FromText

\* A name is blocked iff a line of the text that the list was read from covers
\* it by the documentation, as long as normalize misreads none of the lines:
\* from_text, normalize and is_blocked together.
THEOREM BlocksWhatLinesCover ==
  ASSUME NEW Tokens, NEW text, text \subseteq Lines(Tokens),
         \A l \in text : ~IsMisread(l),
         NEW name \in Seq(Tokens)
  PROVE  IsBlocked(FromText(text), name) <=> \E l \in text : Covers(l, name)
<1> DEFINE bl == FromText(text)
<1>1. SuffixIn(bl.exact, name) <=> \E i \in 1 .. Len(name) : From(name, i) \in bl.exact
  BY SuffixInMeans
<1>2. bl.exact = {Normalize(l) : l \in {k \in text : ~IsComment(k) /\ ~IsWildcard(k)}} \ {<<>>}
  BY DEF FromText
<1>3. bl.wildcard = {Normalize(Tail(l)) :
                        l \in {k \in text : ~IsComment(k) /\ IsWildcard(k)}} \ {<<>>}
  BY DEF FromText
<1>4. ASSUME NEW l \in text, ~IsComment(l), ~IsWildcard(l)
      PROVE  Covers(l, name) <=>
                /\ Normalize(l) # <<>>
                /\ \E i \in 1 .. Len(name) : From(name, i) = Normalize(l)
  <2> DEFINE d == Normalize(l)
  <2>1. d = Host(l)
    BY <1>4, NormalizeFindsHost DEF IsMisread
  <2>2. d # <<>> => d \in Seq(Tokens)
    BY NormalizeIs DEF Entries, Lines
  <2>3. Covers(l, name) <=> d # <<>> /\ Ext!IsSuffix(d, name)
    BY <1>4, <2>1 DEF Covers
  <2> HIDE DEF d
  <2>4. d # <<>> => (Ext!IsSuffix(d, name) <=> \E i \in 1 .. Len(name) : From(name, i) = d)
    BY <2>2, SuffixEnds, EndsMeans
  <2> QED
    BY <2>3, <2>4 DEF d
<1>5. SuffixIn(bl.exact, name) <=>
         \E l \in text : ~IsComment(l) /\ ~IsWildcard(l) /\ Covers(l, name)
  <2> HIDE DEF bl
  <2> QED
    BY <1>1, <1>2, <1>4
<1>6. ASSUME NEW l \in text, ~IsComment(l), IsWildcard(l)
      PROVE  Covers(l, name) <=>
                /\ Normalize(Tail(l)) # <<>>
                /\ Len(name) > 1
                /\ \E i \in 1 .. Len(Tail(name)) :
                      From(Tail(name), i) = Normalize(Tail(l))
  <2> DEFINE d == Normalize(Tail(l))
  <2>0. Tail(l) \in Lines(Tokens)
    BY <1>6, WildcardTail
  <2>1. d = Host(Tail(l))
    BY <1>6, <2>0, NormalizeFindsHost DEF IsMisread
  <2>2. d # <<>> => d \in Seq(Tokens)
    BY <2>0, NormalizeIs DEF Entries, Lines
  <2>3. Covers(l, name) <=> d # <<>> /\ Ext!IsStrictSuffix(d, name)
    BY <1>6, <2>1 DEF Covers
  <2> HIDE DEF d
  <2>4. d # <<>> => (Ext!IsStrictSuffix(d, name) <=> Ends(d, name) /\ d # name)
    BY <2>2, SuffixEnds DEF Ext!IsStrictSuffix
  <2>5. d # <<>> => (Ends(d, name) /\ d # name <=>
                        /\ Len(name) > 1
                        /\ \E i \in 1 .. Len(Tail(name)) : From(Tail(name), i) = d)
    BY <2>2, StrictEndsMeans
  <2> QED
    BY <2>3, <2>4, <2>5 DEF d
<1>7. ASSUME Len(name) > 1
      PROVE  SuffixIn(bl.wildcard, Tail(name)) <=>
                \E i \in 1 .. Len(Tail(name)) : From(Tail(name), i) \in bl.wildcard
  <2>1. name # <<>>
    BY <1>7, EmptySeq
  <2>2. Tail(name) \in Seq(Tokens)
    BY <2>1, HeadTailProperties
  <2> QED
    BY <2>2, SuffixInMeans
<1>8. Len(name) > 1 /\ SuffixIn(bl.wildcard, Tail(name)) <=>
         \E l \in text : ~IsComment(l) /\ IsWildcard(l) /\ Covers(l, name)
  <2> HIDE DEF bl
  <2> QED
    BY <1>3, <1>6, <1>7
<1>9. \A l \in text : Covers(l, name) => ~IsComment(l)
  BY DEF Covers
<1> QED
  BY <1>5, <1>8, <1>9 DEF IsBlocked

\* The line to_file_text makes of a wildcard is read as that wildcard.
LEMMA StarLine ==
  ASSUME NEW Tokens, Star \in Tokens, NEW d \in Entries(Tokens)
  PROVE  LET l == <<Star>> \o d
         IN  /\ l \in Lines(Tokens)
             /\ ~IsComment(l) /\ IsWildcard(l) /\ Tail(l) = d
<1> DEFINE h == <<Star>> \o d
<1>0. d \in Seq(Tokens) /\ d # <<>>
      /\ \A i \in 1 .. Len(d) : d[i] \in Marks => i > 1 /\ d[i - 1] \notin Marks
  BY DEF Entries, Lines
<1>1. Len(d) \in Nat \ {0} /\ <<Star>> \in Seq(Tokens) /\ Len(<<Star>>) = 1
  BY <1>0, LenProperties, EmptySeq
<1>2. /\ h \in Seq(Tokens) /\ Len(h) = 1 + Len(d)
      /\ \A i \in 1 .. 1 + Len(d) : h[i] = IF i <= 1 THEN <<Star>>[i] ELSE d[i - 1]
  BY <1>0, <1>1, ConcatProperties
<1> HIDE DEF h
<1> DEFINE k == Len(d)
<1>3. k \in Nat /\ k # 0 /\ Len(h) = 1 + k
  BY <1>1, <1>2
<1>4. /\ h[1] = Star
      /\ \A i \in 1 .. k : h[i + 1] = d[i]
  <2>1. <<Star>>[1] = Star
    OBVIOUS
  <2>2. \A i \in 1 .. 1 + k : h[i] = IF i <= 1 THEN <<Star>>[i] ELSE d[i - 1]
    BY <1>2
  <2> HIDE DEF k
  <2>3. 1 \in 1 .. 1 + k
        /\ \A i \in 1 .. k : i + 1 \in 1 .. 1 + k /\ ~(i + 1 <= 1) /\ (i + 1) - 1 = i
    BY <1>3
  <2> QED
    BY <2>1, <2>2, <2>3
<1>5. h # <<>> /\ Head(h) = Star /\ Len(h) > 1
  <2>1. 1 + k # 0 /\ 1 + k > 1
    <3> HIDE DEF k
    <3> QED
      BY <1>3
  <2> QED
    BY <1>2, <1>3, <1>4, <2>1, EmptySeq
<1>6. Tail(h) = d
  <2>1. /\ Tail(h) \in Seq(Tokens) /\ Len(Tail(h)) = Len(h) - 1
        /\ \A i \in 1 .. Len(Tail(h)) : Tail(h)[i] = h[i + 1]
    BY <1>2, <1>5, HeadTailProperties
  <2>2. Len(Tail(h)) = k
    <3> HIDE DEF k
    <3> QED
      BY <1>3, <2>1
  <2>3. \A i \in 1 .. k : Tail(h)[i] = d[i]
    BY <1>4, <2>1, <2>2
  <2> QED
    BY <1>0, <2>1, <2>2, <2>3, SeqEqual
<1>7. h[2] \notin Marks
  <2>1. 1 \in 1 .. k /\ 1 + 1 = 2
    <3> HIDE DEF k
    <3> QED
      BY <1>3
  <2> QED
    BY <1>0, <1>4, <2>1
<1>8. h \in Lines(Tokens)
  <2>1. Star \notin Marks
    BY BlocklistAssumption
  <2>2. \A i \in 1 .. k : d[i] \in Marks => i > 1 /\ d[i - 1] \notin Marks
    BY <1>0
  <2>3. DOMAIN h = 1 .. 1 + k
    BY <1>2
  <2> HIDE DEF k
  <2>4. ASSUME NEW i \in 1 .. 1 + k, h[i] \in Marks PROVE i > 1 /\ h[i - 1] \notin Marks
    <3>1. i # 1
      BY <1>4, <2>1, <2>4
    <3>2. i - 1 \in 1 .. k /\ (i - 1) + 1 = i
      BY <1>3, <2>4, <3>1
    <3>3. d[i - 1] \in Marks
      BY <1>4, <2>4, <3>2
    <3>4. i - 1 > 1 /\ d[(i - 1) - 1] \notin Marks
      BY <2>2, <3>2, <3>3
    <3>5. (i - 1) - 1 \in 1 .. k /\ ((i - 1) - 1) + 1 = i - 1
      BY <1>3, <3>2, <3>4
    <3>6. h[i - 1] = d[(i - 1) - 1]
      BY <1>4, <3>5
    <3> QED
      BY <1>3, <3>1, <3>4, <3>6
  <2> QED
    BY <1>2, <2>3, <2>4 DEF Lines
<1>9. ~IsComment(h) /\ IsWildcard(h)
  BY <1>5, <1>7, BlocklistAssumption DEF IsComment, IsWildcard, First
<1> QED
  BY <1>6, <1>8, <1>9 DEF h

\* What to_file_text writes is lines.
LEMMA ToFileTextType ==
  ASSUME NEW Tokens, Star \in Tokens, NEW text, text \subseteq Lines(Tokens)
  PROVE  ToFileText(FromText(text)) \subseteq Lines(Tokens)
<1>1. \A d \in FromText(text).exact : d \in Lines(Tokens)
  BY FromTextType DEF Entries
<1>2. \A d \in FromText(text).wildcard : <<Star>> \o d \in Lines(Tokens)
  BY FromTextType, StarLine
<1> QED
  BY <1>1, <1>2 DEF ToFileText

\* A list that is saved is read back as it was, unless the scheme of a line hid
\* that its host looks like a comment or a wildcard: to_file_text, from_text.
THEOREM SavedListReadBack ==
  ASSUME NEW Tokens, Star \in Tokens, NEW text, text \subseteq Lines(Tokens),
         ~IsOdd(FromText(text))
  PROVE  FromText(ToFileText(FromText(text))) = FromText(text)
<1> DEFINE bl == FromText(text)
           new == ToFileText(bl)
<1>1. /\ bl = [exact |-> bl.exact, wildcard |-> bl.wildcard]
      /\ bl.exact \subseteq Entries(Tokens)
      /\ bl.wildcard \subseteq Entries(Tokens)
  BY FromTextType
<1>2. \A d \in bl.exact : ~IsComment(d) /\ ~IsWildcard(d)
  BY DEF IsOdd
<1> HIDE DEF bl
<1>3. \A d \in bl.wildcard :
         LET l == <<Star>> \o d
         IN  ~IsComment(l) /\ IsWildcard(l) /\ Tail(l) = d
  BY <1>1, StarLine
<1>4. new = bl.exact \cup {<<Star>> \o d : d \in bl.wildcard}
  BY DEF ToFileText
<1> HIDE DEF new
<1>5. FromText(new) =
        [exact    |-> {Normalize(l) : l \in {k \in new : ~IsComment(k) /\ ~IsWildcard(k)}}
                         \ {<<>>},
         wildcard |-> {Normalize(Tail(l)) :
                          l \in {k \in new : ~IsComment(k) /\ IsWildcard(k)}} \ {<<>>}]
  BY DEF FromText
<1>6. {k \in new : ~IsComment(k) /\ ~IsWildcard(k)} = bl.exact
  BY <1>2, <1>3, <1>4
<1>7. {k \in new : ~IsComment(k) /\ IsWildcard(k)} = {<<Star>> \o d : d \in bl.wildcard}
  BY <1>2, <1>3, <1>4
<1>n. \A d \in bl.exact \cup bl.wildcard : Normalize(d) = d /\ d # <<>>
  BY <1>1, NormalizeEntry DEF Entries
<1>8. {Normalize(l) : l \in bl.exact} \ {<<>>} = bl.exact
  BY <1>n
<1>9. {Normalize(Tail(l)) : l \in {<<Star>> \o d : d \in bl.wildcard}} \ {<<>>}
         = bl.wildcard
  BY <1>3, <1>n
<1>10. FromText(new) = bl
  BY <1>1, <1>5, <1>6, <1>7, <1>8, <1>9
<1> QED
  BY <1>10 DEF new, bl

=============================================================================
