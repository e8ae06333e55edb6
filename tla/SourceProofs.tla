---------------------------- MODULE SourceProofs ----------------------------
(***************************************************************************)
(* The sources of a document, for any number of them.                      *)
(*                                                                         *)
(* The descriptions (SourceCatalog).  The invariant types the sources and  *)
(* says of what each key and the catalog were made.  That a key tells      *)
(* every other request needs the marker bytes: a stream of parameters is   *)
(* read from its end, the last 254 telling where the last parameter        *)
(* starts and the 253 after it where its value does.                       *)
(*                                                                         *)
(* The fetches (RemoteSources): polls never stack and timers follow the    *)
(* open document, for any number of origins, fetches, documents and        *)
(* redefinitions.                                                          *)
(***************************************************************************)
EXTENDS RemoteSources, SourceCatalog, FiniteSetTheorems, SequenceTheorems, NaturalsInduction,
        WellFoundedInduction, TLAPS

-----------------------------------------------------------------------------
(* Sequences joined end to end.                                            *)

LEMMA LeastNumber ==
    ASSUME NEW S, S \subseteq Nat, S # {}
    PROVE  \E k \in S : \A m \in S : k <= m
<1> DEFINE R == OpToRel(<, Nat)
<1>1. IsWellFoundedOn(R, Nat)
    BY NatLessThanWellFounded
<1> HIDE DEF R
<1>2. \E x \in S : \A y \in S : ~(<<y, x>> \in R)
    BY <1>1, WFMin, ZenonT(60)
<1>3. PICK k \in S : \A m \in S : ~(<<m, k>> \in R)
    BY <1>2
<1>4. \A m \in S : ~(m < k)
    BY <1>3 DEF OpToRel, R
<1> QED
    BY <1>4

\* What the first n of sequences ff come to, part by part.
Joined(ff, n, T, f) ==
    /\ f \in [0..n -> Seq(T)]
    /\ f[0] = <<>>
    /\ \A k \in 1..n : f[k] = f[k - 1] \o ff[k]

Joinable(ff, n, T) == \E f : Joined(ff, n, T, f)

LEMMA PartsJoin ==
    ASSUME NEW T, NEW ff \in Seq(Seq(T))
    PROVE  Joinable(ff, Len(ff), T)
<1> DEFINE n == Len(ff)
           Out == {m \in 0..n : ~ Joinable(ff, m, T)}
<1>1. n \in Nat /\ \A k \in 1..n : ff[k] \in Seq(T)
    OBVIOUS
<1>2. Joinable(ff, 0, T)
    <2> DEFINE f == [i \in 0..0 |-> <<>>]
    <2>1. f \in [0..0 -> Seq(T)] /\ f[0] = <<>> /\ \A k \in 1..0 : f[k] = f[k - 1] \o ff[k]
        OBVIOUS
    <2> HIDE DEF f
    <2> QED
        BY <2>1 DEF Joinable, Joined
<1>3. ASSUME NEW m \in 1..n, Joinable(ff, m - 1, T)
      PROVE  Joinable(ff, m, T)
    <2> HIDE DEF n
    <2>1. m \in Nat /\ m - 1 \in 0..(m - 1) /\ 0 \in 0..(m - 1) /\ m # 0
        BY <1>1
    <2>2. PICK f : Joined(ff, m - 1, T, f)
        BY <1>3 DEF Joinable
    <2>3. /\ f \in [0..(m - 1) -> Seq(T)] /\ f[0] = <<>>
          /\ \A k \in 1..(m - 1) : f[k] = f[k - 1] \o ff[k]
        BY <2>2 DEF Joined
    <2> DEFINE g == [i \in 0..m |-> IF i = m THEN f[m - 1] \o ff[m] ELSE f[i]]
    <2>4. f[m - 1] \in Seq(T) /\ f[m - 1] \o ff[m] \in Seq(T)
        <3>1. f[m - 1] \in Seq(T) /\ ff[m] \in Seq(T)
            BY <1>1, <2>1, <2>3
        <3> QED
            BY <3>1, ConcatProperties
    <2>5. \A i \in 0..m : i = m \/ i \in 0..(m - 1)
        BY <2>1
    <2>6. g \in [0..m -> Seq(T)]
        BY <2>3, <2>4, <2>5
    <2>7. g[0] = <<>>
        BY <2>1, <2>3
    <2>8. ASSUME NEW k \in 1..m
          PROVE  g[k] = g[k - 1] \o ff[k]
        <3>1. k - 1 \in 0..m /\ k - 1 # m /\ g[k - 1] = f[k - 1]
            BY <2>1
        <3>2. CASE k = m
            <4>1. m \in 0..m
                BY <2>1
            <4>2. g[m] = f[m - 1] \o ff[m]
                BY <4>1
            <4> HIDE DEF g
            <4> QED
                BY <3>1, <3>2, <4>2
        <3>3. CASE k # m
            <4>1. k \in 1..(m - 1) /\ k \in 0..m
                BY <2>1, <3>3
            <4>2. g[k] = f[k]
                BY <3>3, <4>1
            <4> QED
                BY <2>3, <3>1, <4>1, <4>2
        <3> QED
            BY <3>2, <3>3
    <2> HIDE DEF g
    <2> QED
        BY <2>6, <2>7, <2>8 DEF Joinable, Joined
<1>4. Out = {}
    <2> SUFFICES ASSUME Out # {} PROVE FALSE
        OBVIOUS
    <2>1. Out \subseteq Nat
        OBVIOUS
    <2>2. PICK m \in Out : \A k \in Out : m <= k
        <3> HIDE DEF Out
        <3> QED
            BY <2>1, LeastNumber
    <2>3. m \in 0..n /\ ~ Joinable(ff, m, T) /\ m # 0
        BY <1>2
    <2>4. m \in 1..n /\ m - 1 \in 0..n /\ ~(m <= m - 1)
        BY <2>3
    <2>5. Joinable(ff, m - 1, T)
        BY <2>2, <2>4
    <2> QED
        BY <1>3, <2>3, <2>4, <2>5
<1> QED
    BY <1>1, <1>4

\* Flattening joins the parts.
LEMMA FlattenJoins ==
    ASSUME NEW T, NEW ff \in Seq(Seq(T))
    PROVE  \E f : Joined(ff, Len(ff), T, f) /\ Lists!FlattenSeq(ff) = f[Len(ff)]
<1> DEFINE n == Len(ff)
           flat == Lists!FlattenSeq(ff)
<1>1. n \in Nat /\ \A k \in 1..n : ff[k] \in Seq(T)
    OBVIOUS
<1>2. PICK f : Joined(ff, n, T, f)
    BY PartsJoin DEF Joinable
<1>3. f[0] = <<>> /\ \A k \in 1..n : f[k] = f[k - 1] \o ff[k]
    BY <1>2 DEF Joined
<1>4. CASE n = 0
    <2>1. flat = ff /\ ff = <<>>
        BY <1>4 DEF Lists!FlattenSeq
    <2> QED
        BY <1>2, <1>3, <1>4, <2>1
<1>5. CASE n # 0
    <2> DEFINE Fixed(g) == g = [i \in 1..n |-> IF i = 1 THEN ff[i] ELSE g[i - 1] \o ff[i]]
               c == CHOOSE g : Fixed(g)
               w == [i \in 1..n |-> f[i]]
    <2>1. flat = c[n]
        BY <1>5 DEF Lists!FlattenSeq
    <2>0. ASSUME NEW i \in 1..n, i = 1
          PROVE  f[i] = ff[i]
        <3>1. f[i - 1] = <<>> /\ ff[i] \in Seq(T)
            BY <1>1, <1>3, <2>0
        <3>2. <<>> \o ff[i] = ff[i]
            BY <3>1
        <3> QED
            BY <1>3, <3>1, <3>2
    <2>2. Fixed(w)
        <3> DEFINE e == [i \in 1..n |-> IF i = 1 THEN ff[i] ELSE w[i - 1] \o ff[i]]
        <3> SUFFICES ASSUME NEW i \in 1..n PROVE w[i] = e[i]
            OBVIOUS
        <3>1. CASE i = 1
            BY <2>0, <3>1
        <3>2. CASE i # 1
            <4>1. i - 1 \in 1..n
                BY <1>1, <3>2
            <4>2. w[i - 1] = f[i - 1]
                BY <4>1
            <4>3. f[i] = f[i - 1] \o ff[i]
                BY <1>3
            <4> QED
                BY <3>2, <4>2, <4>3
        <3> QED
            BY <3>1, <3>2
    <2>3. Fixed(c)
        <3> HIDE DEF Fixed, w
        <3> QED
            BY <2>2
    <2>4. c = [i \in 1..n |-> IF i = 1 THEN ff[i] ELSE c[i - 1] \o ff[i]]
        <3> HIDE DEF c
        <3> QED
            BY <2>3
    <2> HIDE DEF c, n
    <2>5. \A i \in 1..n : c[i] = IF i = 1 THEN ff[i] ELSE c[i - 1] \o ff[i]
        BY <2>4
    <2>6. \A i \in 1..n : c[i] = f[i]
        <3> DEFINE Bad == {i \in 1..n : c[i] # f[i]}
        <3> SUFFICES ASSUME Bad # {} PROVE FALSE
            OBVIOUS
        <3>1. Bad \subseteq Nat
            OBVIOUS
        <3>2. PICK i \in Bad : \A k \in Bad : i <= k
            <4> HIDE DEF Bad
            <4> QED
                BY <3>1, LeastNumber
        <3>3. i \in 1..n /\ c[i] # f[i] /\ f[i] = f[i - 1] \o ff[i] /\ i # 1
            BY <1>3, <2>0, <2>5
        <3>4. i - 1 \in 1..n /\ ~(i <= i - 1)
            BY <1>1, <3>3
        <3>5. c[i - 1] = f[i - 1]
            BY <3>2, <3>4
        <3> QED
            BY <2>5, <3>3, <3>5
    <2>7. n \in 1..n
        BY <1>1, <1>5
    <2>8. flat = f[n]
        BY <2>1, <2>6, <2>7
    <2> QED
        BY <1>2, <2>8 DEF n
<1> QED
    BY <1>4, <1>5

\* The elements of two sequences joined.
LEMMA JoinedElements ==
    ASSUME NEW T, NEW a \in Seq(T), NEW b \in Seq(T)
    PROVE  \A d : d \in Lists!ToSet(a \o b) <=> d \in Lists!ToSet(a) \/ d \in Lists!ToSet(b)
<1>1. /\ Len(a) \in Nat /\ Len(b) \in Nat /\ DOMAIN a = 1..Len(a) /\ DOMAIN b = 1..Len(b)
      /\ DOMAIN (a \o b) = 1..(Len(a) + Len(b))
    BY LenProperties, ConcatProperties
<1>2. \A i \in 1..Len(a) : i \in DOMAIN (a \o b) /\ (a \o b)[i] = a[i]
    BY <1>1, ConcatProperties
<1>3. \A i \in 1..Len(b) : Len(a) + i \in DOMAIN (a \o b) /\ (a \o b)[Len(a) + i] = b[i]
    BY <1>1
<1>4. \A i \in DOMAIN (a \o b) : i \in 1..Len(a) \/ \E j \in 1..Len(b) : i = Len(a) + j
    <2> SUFFICES ASSUME NEW i \in DOMAIN (a \o b), i \notin 1..Len(a)
                 PROVE  \E j \in 1..Len(b) : i = Len(a) + j
        OBVIOUS
    <2>1. i - Len(a) \in 1..Len(b) /\ i = Len(a) + (i - Len(a))
        BY <1>1
    <2> QED
        BY <2>1
<1>5. \A d : d \in Lists!ToSet(a \o b) <=> \E i \in DOMAIN (a \o b) : d = (a \o b)[i]
    BY DEF Lists!ToSet
<1>6. \A d : (d \in Lists!ToSet(a) <=> \E i \in 1..Len(a) : d = a[i])
             /\ (d \in Lists!ToSet(b) <=> \E i \in 1..Len(b) : d = b[i])
    BY <1>1 DEF Lists!ToSet
<1>7. ASSUME NEW d
      PROVE  d \in Lists!ToSet(a \o b) <=> d \in Lists!ToSet(a) \/ d \in Lists!ToSet(b)
    <2>1. ASSUME d \in Lists!ToSet(a \o b)
          PROVE  d \in Lists!ToSet(a) \/ d \in Lists!ToSet(b)
        <3>1. PICK i \in DOMAIN (a \o b) : d = (a \o b)[i]
            BY <1>5, <2>1
        <3>2. CASE i \in 1..Len(a)
            <4>1. d = a[i]
                BY <1>2, <3>1, <3>2
            <4> QED
                BY <1>6, <3>2, <4>1
        <3>3. CASE \E j \in 1..Len(b) : i = Len(a) + j
            <4>1. PICK j \in 1..Len(b) : i = Len(a) + j
                BY <3>3
            <4>2. d = b[j]
                BY <1>3, <3>1, <4>1
            <4> QED
                BY <1>6, <4>2
        <3> QED
            BY <1>4, <3>2, <3>3
    <2>2. ASSUME d \in Lists!ToSet(a)
          PROVE  d \in Lists!ToSet(a \o b)
        BY <1>2, <1>5, <1>6, <2>2
    <2>3. ASSUME d \in Lists!ToSet(b)
          PROVE  d \in Lists!ToSet(a \o b)
        <3>1. PICK j \in 1..Len(b) : d = b[j]
            BY <1>6, <2>3
        <3>2. Len(a) + j \in DOMAIN (a \o b) /\ (a \o b)[Len(a) + j] = d
            BY <1>3, <3>1
        <3> QED
            BY <1>5, <3>2
    <2> QED
        BY <2>1, <2>2, <2>3
<1> QED
    BY <1>7

\* The elements of joined parts are those of the parts.
LEMMA FlattenElements ==
    ASSUME NEW T, NEW ff \in Seq(Seq(T))
    PROVE  /\ Lists!FlattenSeq(ff) \in Seq(T)
           /\ \A d : d \in Lists!ToSet(Lists!FlattenSeq(ff))
                        <=> \E k \in DOMAIN ff : d \in Lists!ToSet(ff[k])
<1> DEFINE n == Len(ff)
           flat == Lists!FlattenSeq(ff)
<1>1. n \in Nat /\ DOMAIN ff = 1..n /\ \A k \in 1..n : ff[k] \in Seq(T)
    BY LenProperties
<1>2. PICK f : Joined(ff, n, T, f) /\ flat = f[n]
    BY FlattenJoins
<1> HIDE DEF n, flat
<1>3. /\ \A k \in 0..n : f[k] \in Seq(T)
      /\ f[0] = <<>> /\ \A k \in 1..n : f[k] = f[k - 1] \o ff[k]
    BY <1>2 DEF Joined
<1> DEFINE Part(d, k) == \E i \in 1..k : d \in Lists!ToSet(ff[i])
           Holds(k) == \A d : d \in Lists!ToSet(f[k]) <=> Part(d, k)
           Bad == {k \in 0..n : ~ Holds(k)}
<1>4. Holds(0)
    BY <1>3 DEF Lists!ToSet
<1>5. ASSUME NEW k \in 1..n, Holds(k - 1)
      PROVE  Holds(k)
    <2>1. k \in Nat /\ k - 1 \in 0..n /\ f[k - 1] \in Seq(T) /\ ff[k] \in Seq(T)
        BY <1>1, <1>3
    <2>2. \A d : d \in Lists!ToSet(f[k]) <=> d \in Lists!ToSet(f[k - 1]) \/ d \in Lists!ToSet(ff[k])
        <3> DEFINE a == f[k - 1]
                   b == ff[k]
        <3>1. f[k] = a \o b /\ a \in Seq(T) /\ b \in Seq(T)
            BY <1>3, <2>1
        <3> HIDE DEF a, b
        <3>2. \A d : d \in Lists!ToSet(a \o b) <=> d \in Lists!ToSet(a) \/ d \in Lists!ToSet(b)
            BY <3>1, JoinedElements
        <3> QED
            BY <3>1, <3>2 DEF a, b
    <2>3. \A d : Part(d, k) <=> Part(d, k - 1) \/ d \in Lists!ToSet(ff[k])
        <3>1. \A i : i \in 1..k <=> i \in 1..(k - 1) \/ i = k
            BY <2>1
        <3> QED
            BY <3>1
    <2> HIDE DEF Part
    <2> QED
        BY <1>5, <2>2, <2>3
<1>6. \A k \in 0..n : Holds(k)
    <2> HIDE DEF Holds
    <2> SUFFICES ASSUME Bad # {} PROVE FALSE
        OBVIOUS
    <2>1. Bad \subseteq Nat
        OBVIOUS
    <2>2. PICK k \in Bad : \A i \in Bad : k <= i
        <3> HIDE DEF Bad
        <3> QED
            BY <2>1, LeastNumber
    <2>3. k \in 0..n /\ k # 0 /\ ~ Holds(k)
        BY <1>4
    <2>4. k \in 1..n /\ k - 1 \in 0..n /\ ~(k <= k - 1)
        BY <1>1, <2>3
    <2>5. Holds(k - 1)
        BY <2>2, <2>4
    <2> QED
        BY <1>5, <2>3, <2>4, <2>5
<1>7. n \in 0..n
    BY <1>1
<1>8. Holds(n) /\ flat \in Seq(T)
    <2> HIDE DEF Holds
    <2> QED
        BY <1>2, <1>3, <1>6, <1>7
<1>9. \A d : d \in Lists!ToSet(flat) <=> \E k \in DOMAIN ff : d \in Lists!ToSet(ff[k])
    BY <1>1, <1>2, <1>8
<1> QED
    BY <1>8, <1>9 DEF flat

-----------------------------------------------------------------------------
(* The stream a descriptor's parameters are hashed as.                     *)

Text    == Seq(Byte)
Mark(a, b) == <<254>> \o a \o <<253>> \o b

LEMMA TextTyped ==
    ASSUME NEW a \in Text
    PROVE  a \in Seq(Nat) /\ Len(a) \in Nat /\ \A i \in 1..Len(a) : a[i] \in Byte
<1>1. Len(a) \in Nat /\ a \in [1..Len(a) -> Byte]
    BY LenProperties DEF Text
<1>2. \A i \in 1..Len(a) : a[i] \in Byte /\ a[i] \in Nat
    <2>1. Byte \subseteq Nat
        BY DEF Byte
    <2> QED
        BY <1>1, <2>1
<1>3. a \in [1..Len(a) -> Nat]
    BY <1>1, <1>2
<1> QED
    BY <1>1, <1>2, <1>3, SeqDef

\* Where the bytes of a marked parameter are.
Marks(y, a, b) ==
    /\ y \in Seq(Nat) /\ Len(y) = Len(a) + Len(b) + 2
    /\ y[1] = 254 /\ y[Len(a) + 2] = 253
    /\ \A i \in 1..Len(a) : y[i + 1] = a[i]
    /\ \A i \in 1..Len(b) : y[Len(a) + 2 + i] = b[i]

LEMMA MarkedBytes ==
    ASSUME NEW a \in Text, NEW b \in Text
    PROVE  Marks(Mark(a, b), a, b)
<1> DEFINE l == Len(a)
           m == Len(b)
           h == <<254>> \o a
           k == h \o <<253>>
<1>1. l \in Nat /\ m \in Nat /\ a \in Seq(Nat) /\ b \in Seq(Nat)
    BY TextTyped
<1>2. Mark(a, b) = k \o b
    BY DEF Mark
<1>3. /\ h \in Seq(Nat) /\ Len(h) = l + 1 /\ h[1] = 254
      /\ \A i \in 1..l : h[i + 1] = a[i]
    BY <1>1
<1> HIDE DEF h
<1>4. /\ k \in Seq(Nat) /\ Len(k) = l + 2 /\ k[1] = 254 /\ k[l + 2] = 253
      /\ \A i \in 1..l : k[i + 1] = a[i]
    <2>1. k \in Seq(Nat) /\ Len(k) = l + 2
        BY <1>1, <1>3
    <2>2. \A i \in 1..(l + 1) : k[i] = h[i]
        BY <1>1, <1>3
    <2>3. k[l + 2] = 253
        BY <1>1, <1>3
    <2>4. 1 \in 1..(l + 1) /\ \A i \in 1..l : i + 1 \in 1..(l + 1)
        BY <1>1
    <2> QED
        BY <1>3, <2>1, <2>2, <2>3, <2>4
<1> HIDE DEF k
<1> DEFINE w == k \o b
<1>5. /\ w \in Seq(Nat) /\ Len(w) = l + m + 2
      /\ \A i \in 1..(l + 2) : w[i] = k[i]
      /\ \A i \in 1..m : w[l + 2 + i] = b[i]
    <2>1. w \in Seq(Nat) /\ Len(w) = l + m + 2
        <3>1. k \in Seq(Nat) /\ Len(k) = l + 2
            BY <1>4
        <3>2. w \in Seq(Nat) /\ Len(w) = Len(k) + Len(b)
            BY <1>1, <3>1, ConcatProperties
        <3> QED
            BY <1>1, <3>1, <3>2
    <2>2. \A i \in 1..(l + 2) : w[i] = k[i]
        BY <1>1, <1>4
    <2>3. \A i \in 1..m : w[l + 2 + i] = b[i]
        <3>1. k \in Seq(Nat) /\ Len(k) = l + 2
            BY <1>4
        <3> DEFINE lk == Len(k)
                   lb == Len(b)
        <3>2. /\ lk \in Nat /\ lb \in Nat
              /\ \A i \in 1..(lk + lb) : w[i] = IF i <= lk THEN k[i] ELSE b[i - lk]
            BY <1>1, <3>1, ConcatProperties
        <3> HIDE DEF w, lk, lb
        <3>3. \A i \in 1..lb : lk + i \in 1..(lk + lb) /\ ~(lk + i <= lk) /\ (lk + i) - lk = i
            BY <3>2
        <3>4. \A i \in 1..lb : w[lk + i] = b[i]
            BY <3>2, <3>3
        <3> QED
            BY <3>1, <3>4 DEF lk, lb
    <2> QED
        BY <2>1, <2>2, <2>3
<1>6. 1 \in 1..(l + 2) /\ l + 2 \in 1..(l + 2) /\ \A i \in 1..l : i + 1 \in 1..(l + 2)
    BY <1>1
<1> HIDE DEF w, l, m
<1>7. w[1] = 254 /\ w[l + 2] = 253 /\ \A i \in 1..l : w[i + 1] = a[i]
    <2>1. w[1] = 254 /\ w[l + 2] = 253
        BY <1>4, <1>5, <1>6
    <2>2. \A i \in 1..l : w[i + 1] = a[i]
        BY <1>4, <1>5, <1>6
    <2> QED
        BY <2>1, <2>2
<1>8. Mark(a, b) = w
    BY <1>2 DEF w
<1> QED
    BY <1>5, <1>7, <1>8 DEF Marks, l, m

\* Stream w ends, after its first n elements, with the marked texts a and b.
EndsWith(w, n, a, b) ==
    /\ n \in Nat /\ Len(w) = n + Len(a) + Len(b) + 2
    /\ w[n + 1] = 254 /\ w[n + Len(a) + 2] = 253
    /\ \A i \in 1..Len(a) : w[n + 1 + i] = a[i]
    /\ \A i \in 1..Len(b) : w[n + Len(a) + 2 + i] = b[i]

LEMMA EndIsMarked ==
    ASSUME NEW x \in Seq(Nat), NEW a \in Text, NEW b \in Text
    PROVE  /\ EndsWith(x \o Mark(a, b), Len(x), a, b)
           /\ \A i \in 1..Len(x) : (x \o Mark(a, b))[i] = x[i]
<1> DEFINE y == Mark(a, b)
           w == x \o y
           n == Len(x)
           l == Len(a)
           m == Len(b)
<1>1. n \in Nat /\ l \in Nat /\ m \in Nat
    BY TextTyped
<1>2. /\ y \in Seq(Nat) /\ Len(y) = l + m + 2 /\ y[1] = 254 /\ y[l + 2] = 253
      /\ \A i \in 1..l : y[i + 1] = a[i]
      /\ \A i \in 1..m : y[l + 2 + i] = b[i]
    <2>1. Marks(y, a, b)
        BY MarkedBytes
    <2> HIDE DEF y
    <2> QED
        BY <2>1 DEF Marks
<1> HIDE DEF y
<1>3. /\ Len(w) = n + (l + m + 2)
      /\ \A i \in 1..n : w[i] = x[i]
      /\ \A i \in 1..(l + m + 2) : w[n + i] = y[i]
    <2>0. y \in Seq(Nat) /\ Len(y) = l + m + 2
        BY <1>2
    <2>1. Len(w) = n + (l + m + 2)
        <3>1. Len(w) = Len(x) + Len(y)
            BY <2>0
        <3> QED
            BY <2>0, <3>1
    <2>2. \A i \in 1..n : w[i] = x[i]
        BY <1>1, <2>0
    <2>3. \A i \in 1..(l + m + 2) : w[n + i] = y[i]
        <3>1. \A i \in 1..Len(y) : w[Len(x) + i] = y[i]
            <4> SUFFICES ASSUME NEW i \in 1..Len(y) PROVE w[Len(x) + i] = y[i]
                OBVIOUS
            <4>0. Len(x) \in Nat /\ Len(y) \in Nat
                BY <2>0
            <4>1. Len(x) + i \in 1..(Len(x) + Len(y)) /\ (Len(x) + i) - Len(x) = i /\ ~(Len(x) + i <= Len(x))
                BY <4>0
            <4> QED
                BY <2>0, <4>1, ConcatProperties
        <3> QED
            BY <2>0, <3>1
    <2> QED
        BY <2>1, <2>2, <2>3
<1>4. Len(w) = n + l + m + 2
    BY <1>1, <1>3
<1> HIDE DEF w, n, l, m
<1>5. w[n + 1] = 254 /\ w[n + l + 2] = 253
    <2>1. 1 \in 1..(l + m + 2) /\ l + 2 \in 1..(l + m + 2) /\ n + (l + 2) = n + l + 2
        BY <1>1
    <2>2. w[n + 1] = y[1] /\ w[n + (l + 2)] = y[l + 2]
        BY <1>3, <2>1
    <2> QED
        BY <1>2, <2>1, <2>2
<1>6. ASSUME NEW i \in 1..l
      PROVE  w[n + 1 + i] = a[i]
    <2>1. i + 1 \in 1..(l + m + 2) /\ n + (i + 1) = n + 1 + i
        BY <1>1
    <2>2. w[n + (i + 1)] = y[i + 1]
        BY <1>3, <2>1
    <2> QED
        BY <1>2, <2>1, <2>2
<1>7. ASSUME NEW i \in 1..m
      PROVE  w[n + l + 2 + i] = b[i]
    <2> DEFINE k == l + 2 + i
    <2>1. k \in 1..(l + m + 2) /\ n + k = n + l + 2 + i
        BY <1>1
    <2>2. y[k] = b[i]
        BY <1>2
    <2> HIDE DEF k
    <2>3. w[n + k] = y[k]
        BY <1>3, <2>1
    <2> QED
        BY <2>1, <2>2, <2>3
<1>8. EndsWith(w, n, a, b)
    BY <1>1, <1>4, <1>5, <1>6, <1>7 DEF EndsWith, l, m
<1> QED
    BY <1>3, <1>8 DEF w, n, y

\* After the 254 come bytes of text and the 253.
LEMMA EndTells ==
    ASSUME NEW w, NEW n, NEW a \in Text, NEW b \in Text, EndsWith(w, n, a, b)
    PROVE  \A i \in (n + 2)..Len(w) : w[i] # 254 /\ (w[i] = 253 <=> i = n + Len(a) + 2)
<1> DEFINE l == Len(a)
           m == Len(b)
<1>0. \A x \in 0..244 : x # 254 /\ x # 253
    OBVIOUS
<1>1. /\ l \in Nat /\ (\A j \in 1..l : a[j] \in 0..244)
      /\ m \in Nat /\ (\A j \in 1..m : b[j] \in 0..244)
    BY TextTyped DEF Byte
<1>2. /\ n \in Nat /\ Len(w) = n + l + m + 2 /\ w[n + l + 2] = 253
      /\ \A j \in 1..l : w[n + 1 + j] = a[j]
      /\ \A j \in 1..m : w[n + l + 2 + j] = b[j]
    BY DEF EndsWith
<1> SUFFICES ASSUME NEW i \in (n + 2)..Len(w)
             PROVE  w[i] # 254 /\ (w[i] = 253 <=> i = n + l + 2)
    OBVIOUS
<1> HIDE DEF l, m
<1>3. i \in Nat /\ n + 1 < i /\ i <= n + l + m + 2 /\ n \in Nat /\ l \in Nat /\ m \in Nat
    BY <1>1, <1>2
<1>4. CASE i = n + l + 2
    BY <1>2, <1>4
<1>5. CASE i < n + l + 2
    <2> DEFINE j == i - n - 1
    <2>1. j \in 1..l /\ n + 1 + j = i /\ i # n + l + 2
        BY <1>3, <1>5
    <2> HIDE DEF j
    <2>2. w[n + 1 + j] = a[j] /\ a[j] \in 0..244
        BY <1>1, <1>2, <2>1
    <2>3. w[i] \in 0..244
        BY <1>3, <2>1, <2>2
    <2>4. w[i] # 254 /\ w[i] # 253
        BY <1>0, <2>3, Zenon
    <2> QED
        BY <2>1, <2>4
<1>6. CASE i > n + l + 2
    <2> DEFINE j == i - n - l - 2
    <2>1. j \in 1..m /\ n + l + 2 + j = i /\ i # n + l + 2
        BY <1>3, <1>6
    <2> HIDE DEF j
    <2>2. w[n + l + 2 + j] = b[j] /\ b[j] \in 0..244
        BY <1>1, <1>2, <2>1
    <2>3. w[i] \in 0..244
        BY <1>3, <2>1, <2>2
    <2>4. w[i] # 254 /\ w[i] # 253
        BY <1>0, <2>3, Zenon
    <2> QED
        BY <2>1, <2>4
<1> QED
    BY <1>3, <1>4, <1>5, <1>6

\* A stream with one more parameter.
Marked(x, a, b) == x \o Mark(a, b)

\* A stream that ends with a parameter tells where it starts and what it is:
\* no text has the markers' bytes.
LEMMA LastParam ==
    ASSUME NEW u \in Seq(Nat), NEW a \in Text, NEW b \in Text,
           NEW v \in Seq(Nat), NEW c \in Text, NEW d \in Text,
           Marked(u, a, b) = Marked(v, c, d)
    PROVE  u = v /\ a = c /\ b = d
<1> DEFINE w == u \o Mark(a, b)
           n == Len(u)
           o == Len(v)
<1>1. EndsWith(w, n, a, b) /\ \A i \in 1..n : w[i] = u[i]
    BY EndIsMarked
<1>2. EndsWith(w, o, c, d) /\ \A i \in 1..o : w[i] = v[i]
    <2>1. w = v \o Mark(c, d)
        BY DEF Marked
    <2> HIDE DEF w
    <2> QED
        BY <2>1, EndIsMarked
<1> HIDE DEF w, n, o
<1>3. /\ Len(a) \in Nat /\ Len(b) \in Nat /\ Len(c) \in Nat /\ Len(d) \in Nat
      /\ n \in Nat /\ o \in Nat
    BY TextTyped DEF n, o
<1>4. /\ Len(w) = n + Len(a) + Len(b) + 2 /\ w[n + 1] = 254 /\ w[n + Len(a) + 2] = 253
      /\ Len(w) = o + Len(c) + Len(d) + 2 /\ w[o + 1] = 254 /\ w[o + Len(c) + 2] = 253
    BY <1>1, <1>2 DEF EndsWith
<1>5. n = o
    <2>1. ~(n < o)
        <3> SUFFICES ASSUME n < o PROVE FALSE
            OBVIOUS
        <3> DEFINE i == o + 1
        <3>1. i \in (n + 2)..Len(w) /\ w[i] = 254
            BY <1>3, <1>4
        <3>2. \A k \in (n + 2)..Len(w) : w[k] # 254
            <4>1. EndsWith(w, n, a, b)
                BY <1>1
            <4>2. \A k \in (n + 2)..Len(w) : w[k] # 254 /\ (w[k] = 253 <=> k = n + Len(a) + 2)
                BY <4>1, EndTells
            <4> QED
                BY <4>2
        <3> HIDE DEF i
        <3> QED
            BY <3>1, <3>2
    <2>2. ~(o < n)
        <3> SUFFICES ASSUME o < n PROVE FALSE
            OBVIOUS
        <3> DEFINE i == n + 1
        <3>1. i \in (o + 2)..Len(w) /\ w[i] = 254
            BY <1>3, <1>4
        <3>2. \A k \in (o + 2)..Len(w) : w[k] # 254
            <4>1. EndsWith(w, o, c, d)
                BY <1>2
            <4>2. \A k \in (o + 2)..Len(w) : w[k] # 254 /\ (w[k] = 253 <=> k = o + Len(c) + 2)
                BY <4>1, EndTells
            <4> QED
                BY <4>2
        <3> HIDE DEF i
        <3> QED
            BY <3>1, <3>2
    <2> QED
        BY <1>3, <2>1, <2>2
<1>6. Len(a) = Len(c)
    <2> DEFINE i == n + Len(a) + 2
    <2>1. i \in (o + 2)..Len(w) /\ w[i] = 253
        BY <1>3, <1>4, <1>5
    <2>2. \A k \in (o + 2)..Len(w) : w[k] = 253 <=> k = o + Len(c) + 2
        BY <1>2, EndTells
    <2> HIDE DEF i
    <2>3. i = o + Len(c) + 2
        BY <2>1, <2>2
    <2> QED
        BY <1>3, <1>5, <2>3 DEF i
<1>7. Len(b) = Len(d)
    BY <1>3, <1>4, <1>5, <1>6
<1>8. u = v
    <2>1. \A i \in 1..Len(u) : u[i] = v[i]
        BY <1>1, <1>2, <1>5 DEF n
    <2> QED
        BY <1>5, <2>1, SeqEqual DEF n, o
<1>9. a = c
    <2>1. \A i \in 1..Len(a) : a[i] = c[i]
        BY <1>1, <1>2, <1>5, <1>6 DEF EndsWith
    <2> QED
        BY <1>6, <2>1, SeqEqual DEF Text
<1>10. b = d
    <2>1. \A i \in 1..Len(b) : b[i] = d[i]
        BY <1>1, <1>2, <1>5, <1>6, <1>7 DEF EndsWith
    <2> QED
        BY <1>7, <2>1, SeqEqual DEF Text
<1> QED
    BY <1>8, <1>9, <1>10

\* What the stream of parameters ps comes to, parameter by parameter.
Streams(ps, f) ==
    /\ f \in [0..Len(ps) -> Seq(Nat)]
    /\ f[0] = <<>>
    /\ \A k \in 1..Len(ps) : f[k] = Marked(f[k - 1], ps[k][1], ps[k][2])
    /\ ParamStream(ps) = f[Len(ps)]

LEMMA StreamJoins ==
    ASSUME NEW ps \in Seq(Text \X Text)
    PROVE  \E f : Streams(ps, f)
<1> DEFINE ff == [i \in DOMAIN ps |-> <<254>> \o ps[i][1] \o <<253>> \o ps[i][2]]
<1>1. Len(ps) \in Nat /\ DOMAIN ps = 1..Len(ps)
    BY LenProperties
<1>2. ASSUME NEW i \in 1..Len(ps)
      PROVE  ff[i] = Mark(ps[i][1], ps[i][2]) /\ ff[i] \in Seq(Nat)
    <2>1. ff[i] = Mark(ps[i][1], ps[i][2])
        BY <1>1 DEF Mark
    <2>2. ps[i] \in Text \X Text
        BY <1>1
    <2>3. ps[i][1] \in Text /\ ps[i][2] \in Text
        BY <2>2
    <2>4. Mark(ps[i][1], ps[i][2]) \in Seq(Nat)
        <3>1. Marks(Mark(ps[i][1], ps[i][2]), ps[i][1], ps[i][2])
            BY <2>3, MarkedBytes
        <3> QED
            BY <3>1 DEF Marks
    <2> QED
        BY <2>1, <2>4
<1>3. DOMAIN ff = 1..Len(ps) /\ ff = [i \in 1..Len(ps) |-> ff[i]]
    BY <1>1
<1>4. Lists!FlattenSeq(ff) = ParamStream(ps)
    BY DEF ParamStream, MarkedParams
<1> HIDE DEF ff
<1>5. ff \in [1..Len(ps) -> Seq(Nat)]
    BY <1>2, <1>3
<1>6. ff \in Seq(Seq(Nat)) /\ Len(ff) = Len(ps)
    BY <1>1, <1>5
<1>7. PICK f : Joined(ff, Len(ff), Nat, f) /\ Lists!FlattenSeq(ff) = f[Len(ff)]
    BY <1>6, FlattenJoins
<1>8. Streams(ps, f)
    BY <1>2, <1>4, <1>6, <1>7 DEF Streams, Joined, Marked
<1> QED
    BY <1>8

\* Descriptors with the same stream have the same parameters: the last ones
\* are the same, and so is the stream before them.
LEMMA ParamsTold ==
    ASSUME NEW ps \in Seq(Text \X Text), NEW qs \in Seq(Text \X Text),
           ParamStream(ps) = ParamStream(qs)
    PROVE  ps = qs
<1> DEFINE m == Len(ps)
           n == Len(qs)
<1>1. /\ m \in Nat /\ n \in Nat
      /\ \A i \in 1..m : ps[i] \in Text \X Text
      /\ \A i \in 1..n : qs[i] \in Text \X Text
    BY LenProperties
<1>2. PICK f : Streams(ps, f)
    BY StreamJoins
<1>3. PICK g : Streams(qs, g)
    BY StreamJoins
<1>4. /\ \A k \in 0..m : f[k] \in Seq(Nat)
      /\ f[0] = <<>> /\ \A k \in 1..m : f[k] = Marked(f[k - 1], ps[k][1], ps[k][2])
      /\ ParamStream(ps) = f[m]
    BY <1>2 DEF Streams
<1>5. /\ \A k \in 0..n : g[k] \in Seq(Nat)
      /\ g[0] = <<>> /\ \A k \in 1..n : g[k] = Marked(g[k - 1], qs[k][1], qs[k][2])
      /\ ParamStream(qs) = g[n]
    BY <1>3 DEF Streams
<1> HIDE DEF m, n
<1>6. ASSUME NEW x \in Seq(Nat), NEW p \in Text \X Text
      PROVE  Marked(x, p[1], p[2]) # <<>>
    <2>1. p[1] \in Text /\ p[2] \in Text
        OBVIOUS
    <2>2. EndsWith(x \o Mark(p[1], p[2]), Len(x), p[1], p[2])
        BY <2>1, EndIsMarked
    <2>3. Len(p[1]) \in Nat /\ Len(p[2]) \in Nat
        BY <2>1, TextTyped
    <2>4. Len(x \o Mark(p[1], p[2])) = Len(x) + Len(p[1]) + Len(p[2]) + 2 /\ Len(x) \in Nat
        BY <2>2 DEF EndsWith
    <2>5. Len(x \o Mark(p[1], p[2])) # 0
        BY <2>3, <2>4
    <2> QED
        BY <2>5 DEF Marked
<1> DEFINE Same(k) == \A j \in 0..n : f[k] = g[j] => k = j /\ \A i \in 1..k : ps[i] = qs[i]
           Bad == {k \in 0..m : ~ Same(k)}
<1>7. Same(0)
    <2> SUFFICES ASSUME NEW j \in 0..n, f[0] = g[j], j # 0 PROVE FALSE
        OBVIOUS
    <2>1. j \in 1..n /\ j - 1 \in 0..n
        BY <1>1
    <2>2. g[j] # <<>>
        BY <1>1, <1>5, <1>6, <2>1
    <2> QED
        BY <1>4, <2>2
<1>8. ASSUME NEW k \in 1..m, Same(k - 1), NEW j \in 0..n, f[k] = g[j]
      PROVE  k = j /\ \A i \in 1..k : ps[i] = qs[i]
    <2>1. k \in Nat /\ k - 1 \in 0..m
        BY <1>1
    <2>2. f[k] = Marked(f[k - 1], ps[k][1], ps[k][2]) /\ f[k - 1] \in Seq(Nat)
        BY <1>4, <2>1
    <2>3. f[k] # <<>>
        BY <1>1, <1>6, <2>2
    <2>4. j # 0
        BY <1>5, <1>8, <2>3
    <2>5. j \in 1..n /\ j - 1 \in 0..n
        BY <1>1, <2>4
    <2>6. g[j] = Marked(g[j - 1], qs[j][1], qs[j][2]) /\ g[j - 1] \in Seq(Nat)
        BY <1>5, <2>5
    <2>7. /\ ps[k] \in Text \X Text /\ qs[j] \in Text \X Text
        BY <1>1, <2>5
    <2>8. /\ ps[k][1] \in Text /\ ps[k][2] \in Text /\ qs[j][1] \in Text /\ qs[j][2] \in Text
          /\ ps[k] = <<ps[k][1], ps[k][2]>> /\ qs[j] = <<qs[j][1], qs[j][2]>>
        BY <2>7
    <2>9. Marked(f[k - 1], ps[k][1], ps[k][2]) = Marked(g[j - 1], qs[j][1], qs[j][2])
        BY <1>8, <2>2, <2>6
    <2>10. f[k - 1] = g[j - 1] /\ ps[k][1] = qs[j][1] /\ ps[k][2] = qs[j][2]
        <3> DEFINE F == f[k - 1]
                   G == g[j - 1]
                   p1 == ps[k][1]
                   p2 == ps[k][2]
                   q1 == qs[j][1]
                   q2 == qs[j][2]
        <3>1. F \in Seq(Nat) /\ G \in Seq(Nat) /\ p1 \in Text /\ p2 \in Text /\ q1 \in Text /\ q2 \in Text
            BY <2>2, <2>6, <2>8
        <3>2. Marked(F, p1, p2) = Marked(G, q1, q2)
            BY <2>9
        <3> HIDE DEF F, G, p1, p2, q1, q2
        <3>3. F = G /\ p1 = q1 /\ p2 = q2
            BY <3>1, <3>2, LastParam
        <3> QED
            BY <3>3 DEF F, G, p1, p2, q1, q2
    <2>11. k - 1 = j - 1 /\ \A i \in 1..(k - 1) : ps[i] = qs[i]
        BY <1>8, <2>5, <2>10
    <2>12. k = j
        BY <2>1, <2>5, <2>11
    <2>13. ps[k] = qs[k]
        BY <2>8, <2>10, <2>12
    <2>14. \A i \in 1..k : i = k \/ i \in 1..(k - 1)
        BY <2>1
    <2> QED
        BY <2>11, <2>12, <2>13, <2>14
<1>9. Bad = {}
    <2> HIDE DEF Same
    <2> SUFFICES ASSUME Bad # {} PROVE FALSE
        OBVIOUS
    <2>1. Bad \subseteq Nat
        OBVIOUS
    <2>2. PICK k \in Bad : \A i \in Bad : k <= i
        <3> HIDE DEF Bad
        <3> QED
            BY <2>1, LeastNumber
    <2>3. k \in 0..m /\ k # 0 /\ ~ Same(k)
        BY <1>7
    <2>4. k \in 1..m /\ k - 1 \in 0..m /\ ~(k <= k - 1)
        BY <1>1, <2>3
    <2>5. Same(k - 1)
        BY <2>2, <2>4
    <2>6. Same(k)
        BY <1>8, <2>4, <2>5 DEF Same
    <2> QED
        BY <2>3, <2>6
<1>10. m = n /\ \A i \in 1..m : ps[i] = qs[i]
    <2>1. m \in 0..m /\ n \in 0..n /\ f[m] = g[n]
        <3>1. m \in 0..m /\ n \in 0..n
            BY <1>1
        <3>2. f[m] = g[n]
            BY <1>4, <1>5
        <3> QED
            BY <3>1, <3>2
    <2>2. Same(m)
        <3> HIDE DEF Same
        <3> QED
            BY <1>9, <2>1
    <2> QED
        BY <2>1, <2>2
<1> QED
    BY <1>10, SeqEqual DEF m, n

-----------------------------------------------------------------------------
(* The keys of remote sources.                                             *)

RemoteKind == [kind : {"remote"}, url : Locator, format : STRING, params : Seq(Text \X Text)]

\* A key tells the request and the bytes it is of.
LEMMA KeyTells ==
    ASSUME NEW k \in RemoteKind, NEW b, NEW l \in RemoteKind, NEW c
    PROVE  InvalidationKey(k, b) = InvalidationKey(l, c)
               <=> b = c /\ k.url = l.url /\ k.format = l.format /\ k.params = l.params
<1> DEFINE E == Locator \cup STRING \cup Nat \cup {<<"content", b>>, <<"content", c>>}
           s == ParamStream(k.params)
           t == ParamStream(l.params)
           x == <<k.url, 255, k.format>>
           y == <<l.url, 255, l.format>>
<1>1. k.url \in Locator /\ k.format \in STRING /\ k.params \in Seq(Text \X Text)
    BY DEF RemoteKind
<1>2. l.url \in Locator /\ l.format \in STRING /\ l.params \in Seq(Text \X Text)
    BY DEF RemoteKind
<1>3. s \in Seq(Nat) /\ t \in Seq(Nat)
    <2>1. ASSUME NEW ps \in Seq(Text \X Text)
          PROVE  ParamStream(ps) \in Seq(Nat)
        <3>1. PICK f : Streams(ps, f)
            BY StreamJoins
        <3>2. Len(ps) \in 0..Len(ps)
            BY LenProperties
        <3> QED
            BY <3>1, <3>2 DEF Streams
    <2> QED
        BY <1>1, <1>2, <2>1
<1>4. s \in Seq(E) /\ t \in Seq(E)
    <2>1. Nat \subseteq E
        OBVIOUS
    <2> HIDE DEF E, s, t
    <2>2. ASSUME NEW z \in Seq(Nat) PROVE z \in Seq(E)
        <3>1. Len(z) \in Nat /\ z \in [1..Len(z) -> Nat]
            BY LenProperties
        <3>2. z \in [1..Len(z) -> E]
            BY <2>1, <3>1
        <3> QED
            BY <3>1, <3>2, SeqDef
    <2> QED
        BY <1>3, <2>2
<1>5. /\ k.url \in E /\ 255 \in E /\ k.format \in E /\ l.url \in E /\ l.format \in E
      /\ <<"content", b>> \in E /\ <<"content", c>> \in E
    BY <1>1, <1>2
<1> HIDE DEF E
<1>6. x \in Seq(E) /\ Len(x) = 3 /\ y \in Seq(E) /\ Len(y) = 3
    BY <1>5
<1>7. /\ InvalidationKey(k, b) = Append(x \o s, <<"content", b>>)
      /\ InvalidationKey(l, c) = Append(y \o t, <<"content", c>>)
    BY DEF InvalidationKey, RemoteDescriptorHash
<1>8. ASSUME InvalidationKey(k, b) = InvalidationKey(l, c)
      PROVE  b = c /\ k.url = l.url /\ k.format = l.format /\ k.params = l.params
    <2> HIDE DEF x, y, s, t
    <2>1. x \o s \in Seq(E) /\ y \o t \in Seq(E)
        BY <1>4, <1>6, ConcatProperties
    <2>2. x \o s = y \o t /\ <<"content", b>> = <<"content", c>>
        <3>1. \A u, v \in Seq(E) : \A d, e \in E : Append(u, d) = Append(v, e) => u = v /\ d = e
            BY AppendInjective
        <3>2. Append(x \o s, <<"content", b>>) = Append(y \o t, <<"content", c>>)
            BY <1>7, <1>8
        <3> DEFINE X == x \o s
                   Y == y \o t
                   D == <<"content", b>>
                   F == <<"content", c>>
        <3>3. X \in Seq(E) /\ Y \in Seq(E) /\ D \in E /\ F \in E /\ Append(X, D) = Append(Y, F)
            BY <1>5, <2>1, <3>2
        <3> HIDE DEF X, Y, D, F
        <3>4. X = Y /\ D = F
            BY <3>1, <3>3
        <3> QED
            BY <3>4 DEF X, Y, D, F
    <2>3. b = c
        BY <2>2
    <2>4. x = y /\ s = t
        <3>1. \A i \in 1..3 : (x \o s)[i] = x[i] /\ (y \o t)[i] = y[i]
            <4>1. ASSUME NEW u \in Seq(E), NEW v \in Seq(E), Len(u) = 3, NEW i \in 1..3
                  PROVE  (u \o v)[i] = u[i]
                <5>1. Len(v) \in Nat /\ i \in 1..(3 + Len(v)) /\ i <= 3
                    BY LenProperties
                <5> QED
                    BY <4>1, <5>1, ConcatProperties
            <4> QED
                BY <1>4, <1>6, <4>1
        <3>2. \A i \in 1..3 : x[i] = y[i]
            BY <2>2, <3>1
        <3>3. x = y
            BY <1>6, <3>2, SeqEqual
        <3>4. x \o s = x \o t
            BY <2>2, <3>3
        <3>5. \A u, v, w \in Seq(E) : u \o v = u \o w => v = w
            BY ConcatSimplifications
        <3> QED
            BY <1>4, <1>6, <3>3, <3>4, <3>5
    <2>5. k.params = l.params
        BY <1>1, <1>2, <2>4, ParamsTold DEF s, t
    <2>6. k.url = l.url /\ k.format = l.format
        BY <2>4 DEF x, y
    <2> QED
        BY <2>3, <2>5, <2>6
<1>9. ASSUME b = c, k.url = l.url, k.format = l.format, k.params = l.params
      PROVE  InvalidationKey(k, b) = InvalidationKey(l, c)
    BY <1>7, <1>9
<1> QED
    BY <1>8, <1>9

-----------------------------------------------------------------------------
(* The catalog.                                                            *)

\* A catalog tells of each name exactly the drift there is: the entries about
\* it are those of the columns and the sidecar entries of that name.
CatalogTells(schema, sidecar, of) ==
    /\ \A i \in DOMAIN schema : of.columns[i].name = schema[i].name /\ of.columns[i].type = schema[i].type
    /\ \A d : d \in Lists!ToSet(of.drift)
                 <=> \/ \E i \in DOMAIN schema : d \in Lists!ToSet(Drift(sidecar, schema[i]))
                     \/ \E j \in DOMAIN sidecar : d \in Lists!ToSet(Absent(schema, sidecar[j]))

LEMMA EnrichedTells ==
    ASSUME NEW schema \in Seq(Field), NEW sidecar \in Seq(ColumnMetadata)
    PROVE  CatalogTells(schema, sidecar, EnrichSchema(schema, sidecar))
<1> DEFINE E == {"UndocumentedColumn", "TypeMismatch", "MissingColumn"} \X STRING
           ff == [i \in DOMAIN schema |-> Drift(sidecar, schema[i])]
           gg == [j \in DOMAIN sidecar |-> Absent(schema, sidecar[j])]
           of == EnrichSchema(schema, sidecar)
           A  == Lists!FlattenSeq(ff)
           B  == Lists!FlattenSeq(gg)
<1>1. /\ of.columns = [i \in DOMAIN schema |-> CatalogColumn(sidecar, schema[i])]
      /\ of.drift = A \o B
    BY DEF EnrichSchema
<1>2. /\ DOMAIN schema = 1..Len(schema) /\ Len(schema) \in Nat
      /\ DOMAIN sidecar = 1..Len(sidecar) /\ Len(sidecar) \in Nat
      /\ \A i \in DOMAIN schema : schema[i].name \in STRING
      /\ \A j \in DOMAIN sidecar : sidecar[j].name \in STRING
    <2>1. DOMAIN schema = 1..Len(schema) /\ Len(schema) \in Nat /\ \A i \in DOMAIN schema : schema[i] \in Field
        BY LenProperties
    <2>2. DOMAIN sidecar = 1..Len(sidecar) /\ Len(sidecar) \in Nat /\ \A j \in DOMAIN sidecar : sidecar[j] \in ColumnMetadata
        BY LenProperties
    <2> QED
        BY <2>1, <2>2 DEF Field, ColumnMetadata
<1>3. ff \in Seq(Seq(E)) /\ DOMAIN ff = DOMAIN schema
    <2>1. ASSUME NEW i \in DOMAIN schema PROVE Drift(sidecar, schema[i]) \in Seq(E)
        <3> DEFINE n == schema[i].name
        <3>1. n \in STRING
            BY <1>2
        <3> HIDE DEF n
        <3>2. <<"UndocumentedColumn", n>> \in E /\ <<"TypeMismatch", n>> \in E
            BY <3>1
        <3> HIDE DEF E
        <3>3. << <<"UndocumentedColumn", n>> >> \in Seq(E) /\ << <<"TypeMismatch", n>> >> \in Seq(E) /\ << >> \in Seq(E)
            BY <3>2
        <3> QED
            BY <3>3 DEF Drift, n
    <2> HIDE DEF E
    <2>2. ff \in [1..Len(schema) -> Seq(E)]
        BY <1>2, <2>1
    <2> HIDE DEF ff
    <2> QED
        BY <1>2, <2>2
<1>4. gg \in Seq(Seq(E)) /\ DOMAIN gg = DOMAIN sidecar
    <2>1. ASSUME NEW j \in DOMAIN sidecar PROVE Absent(schema, sidecar[j]) \in Seq(E)
        <3> DEFINE n == sidecar[j].name
        <3>1. n \in STRING
            BY <1>2
        <3> HIDE DEF n
        <3>2. <<"MissingColumn", n>> \in E
            BY <3>1
        <3> HIDE DEF E
        <3>3. << <<"MissingColumn", n>> >> \in Seq(E) /\ << >> \in Seq(E)
            BY <3>2
        <3> QED
            BY <3>3 DEF Absent, n
    <2> HIDE DEF E
    <2>2. gg \in [1..Len(sidecar) -> Seq(E)]
        BY <1>2, <2>1
    <2> HIDE DEF gg
    <2> QED
        BY <1>2, <2>2
<1>5. /\ A \in Seq(E)
      /\ \A d : d \in Lists!ToSet(A) <=> \E i \in DOMAIN ff : d \in Lists!ToSet(ff[i])
    <2> HIDE DEF E, ff
    <2> QED
        BY <1>3, FlattenElements
<1>6. /\ B \in Seq(E)
      /\ \A d : d \in Lists!ToSet(B) <=> \E j \in DOMAIN gg : d \in Lists!ToSet(gg[j])
    <2> HIDE DEF E, gg
    <2> QED
        BY <1>4, FlattenElements
<1>7. \A d : d \in Lists!ToSet(A \o B) <=> d \in Lists!ToSet(A) \/ d \in Lists!ToSet(B)
    <2> HIDE DEF A, B, E
    <2> QED
        BY <1>5, <1>6, JoinedElements
<1>8. \A i \in DOMAIN schema : ff[i] = Drift(sidecar, schema[i])
    OBVIOUS
<1>9. \A j \in DOMAIN sidecar : gg[j] = Absent(schema, sidecar[j])
    OBVIOUS
<1>10. \A i \in DOMAIN schema : of.columns[i].name = schema[i].name /\ of.columns[i].type = schema[i].type
    <2> SUFFICES ASSUME NEW i \in DOMAIN schema
                 PROVE  of.columns[i].name = schema[i].name /\ of.columns[i].type = schema[i].type
        OBVIOUS
    <2>1. of.columns[i] = CatalogColumn(sidecar, schema[i])
        BY <1>1
    <2> HIDE DEF of
    <2> QED
        BY <2>1 DEF CatalogColumn
<1> HIDE DEF ff, gg, A, B, of
<1>11. \A d : d \in Lists!ToSet(of.drift)
                 <=> \/ \E i \in DOMAIN schema : d \in Lists!ToSet(Drift(sidecar, schema[i]))
                     \/ \E j \in DOMAIN sidecar : d \in Lists!ToSet(Absent(schema, sidecar[j]))
    BY <1>1, <1>3, <1>4, <1>5, <1>6, <1>7, <1>8, <1>9
<1> QED
    BY <1>10, <1>11 DEF CatalogTells, of

-----------------------------------------------------------------------------
(* The session that reads the descriptions.                                *)

KeyTrue(k) ==
    /\ k.kind \in RemoteKind
    /\ k.key = InvalidationKey(k.kind, k.bytes)

CatalogTrue == catalog # NoDoc => CatalogTells(catalog.schema, catalog.sidecar, catalog.of)

CatalogInv ==
    /\ sources \in Seq(Source)
    /\ \A k \in keys : KeyTrue(k)
    /\ CatalogTrue

LEMMA RemoteKinds ==
    ASSUME NEW k \in SourceKind, ValidateRemote(k) = "ok"
    PROVE  k \in RemoteKind
<1>1. k.kind = "remote"
    BY DEF ValidateRemote
<1> QED
    BY <1>1 DEF SourceKind, RemoteKind, Text

\* A descriptor's redaction is one of a source again.
LEMMA RedactedKind ==
    ASSUME NEW k \in SourceKind
    PROVE  RedactCredentials(k) \in SourceKind
<1>1. CASE k.kind # "dbAttach"
    BY <1>1 DEF RedactCredentials
<1>2. CASE k.kind = "dbAttach"
    <2> DEFINE Attach == [kind : {"dbAttach"}, engine : {"sqlite", "postgres", "mysql"},
                          dsn : Locator \cup {NoLocator}, target : Locator \cup {NoLocator},
                          ref : STRING \cup {NoRef}]
    <2>1. k \in Attach
        BY <1>2 DEF SourceKind
    <2>2. RedactDsn(k.dsn) \in Locator \cup {NoLocator}
        <3>1. k.dsn \in Locator \cup {NoLocator}
            BY <2>1
        <3> QED
            BY <3>1 DEF RedactDsn, Locator
    <2>3. RedactCredentials(k) = [k EXCEPT !.dsn = RedactDsn(k.dsn)]
        BY <1>2 DEF RedactCredentials
    <2>4. [k EXCEPT !.dsn = RedactDsn(k.dsn)] \in Attach
        BY <2>1, <2>2
    <2>5. Attach \subseteq SourceKind
        BY DEF SourceKind
    <2> QED
        BY <2>3, <2>4, <2>5
<1> QED
    BY <1>1, <1>2

LEMMA CatalogInvHolds == Cataloguing => []CatalogInv
<1>1. CatalogInit => CatalogInv
    BY DEF CatalogInit, CatalogInv, CatalogTrue
<1>2. CatalogInv /\ [CatalogNext]_catalogVars => CatalogInv'
    <2> SUFFICES ASSUME CatalogInv, [CatalogNext]_catalogVars PROVE CatalogInv'
        OBVIOUS
    <2>0. sources \in Seq(Source) /\ DOMAIN sources = 1..Len(sources) /\ Len(sources) \in Nat
          /\ \A i \in DOMAIN sources : sources[i] \in Source
        BY LenProperties DEF CatalogInv
    <2>1. ASSUME NEW src \in Source, DefineSource(src) PROVE CatalogInv'
        <3>1. keys' = keys /\ catalog' = catalog
            BY <2>1 DEF DefineSource
        <3>2. CASE \E i \in DOMAIN sources : sources[i].id = src.id
            <4> DEFINE ss == [i \in DOMAIN sources |-> IF sources[i].id = src.id THEN src ELSE sources[i]]
            <4>1. sources' = ss
                BY <2>1, <3>2 DEF DefineSource
            <4>2. ss \in [1..Len(sources) -> Source]
                BY <2>0
            <4> HIDE DEF ss
            <4>3. sources' \in Seq(Source)
                BY <2>0, <4>1, <4>2
            <4> QED
                BY <3>1, <4>3 DEF CatalogInv, CatalogTrue, KeyTrue
        <3>3. CASE ~ \E i \in DOMAIN sources : sources[i].id = src.id
            <4>1. sources' = Append(sources, src)
                BY <2>1, <3>3 DEF DefineSource
            <4>2. sources' \in Seq(Source)
                BY <2>0, <4>1
            <4> QED
                BY <3>1, <4>2 DEF CatalogInv, CatalogTrue, KeyTrue
        <3> QED
            BY <3>2, <3>3
    <2>2. ASSUME ReopenSources PROVE CatalogInv'
        <3> DEFINE ss == [i \in DOMAIN sources |-> [sources[i] EXCEPT !.kind = RedactCredentials(@)]]
        <3>1. sources' = ss /\ keys' = keys /\ catalog' = catalog
            BY <2>2 DEF ReopenSources
        <3>2. ASSUME NEW i \in DOMAIN sources
              PROVE  [sources[i] EXCEPT !.kind = RedactCredentials(@)] \in Source
            <4> DEFINE s == sources[i]
            <4>1. s \in Source /\ s.kind \in SourceKind
                BY <2>0 DEF Source
            <4>2. RedactCredentials(s.kind) \in SourceKind
                BY <4>1, RedactedKind
            <4> QED
                BY <4>1, <4>2 DEF Source
        <3>3. ss \in [1..Len(sources) -> Source]
            BY <2>0, <3>2
        <3> HIDE DEF ss
        <3>4. sources' \in Seq(Source)
            BY <2>0, <3>1, <3>3
        <3> QED
            BY <3>1, <3>4 DEF CatalogInv, CatalogTrue, KeyTrue
    <2>3. ASSUME NEW i \in DOMAIN sources, NEW bytes \in Nat, KeyRemote(i, bytes) PROVE CatalogInv'
        <3> DEFINE new == [kind |-> sources[i].kind, bytes |-> bytes,
                           key |-> InvalidationKey(sources[i].kind, bytes)]
        <3>1. sources' = sources /\ catalog' = catalog /\ keys' = keys \cup {new}
            BY <2>3 DEF KeyRemote
        <3>2. sources[i].kind \in SourceKind /\ ValidateRemote(sources[i].kind) = "ok"
            BY <2>0, <2>3 DEF Source, KeyRemote
        <3>3. KeyTrue(new)
            BY <3>2, RemoteKinds DEF KeyTrue
        <3> HIDE DEF new
        <3>4. \A k \in keys' : KeyTrue(k)
            BY <3>1, <3>3 DEF CatalogInv
        <3> QED
            BY <3>1, <3>4 DEF CatalogInv, CatalogTrue, KeyTrue
    <2>4. ASSUME NEW schema \in Seq(Field), NEW sidecar \in Seq(ColumnMetadata),
                 DocumentSchema(schema, sidecar)
          PROVE  CatalogInv'
        <3>1. /\ sources' = sources /\ keys' = keys
              /\ catalog' = [schema |-> schema, sidecar |-> sidecar, of |-> EnrichSchema(schema, sidecar)]
            BY <2>4 DEF DocumentSchema
        <3>2. CatalogTells(schema, sidecar, EnrichSchema(schema, sidecar))
            BY EnrichedTells
        <3>3. CatalogTrue'
            BY <3>1, <3>2 DEF CatalogTrue
        <3> QED
            BY <3>1, <3>3 DEF CatalogInv, KeyTrue
    <2>5. CASE UNCHANGED catalogVars
        BY <2>5 DEF catalogVars, CatalogInv, CatalogTrue, KeyTrue
    <2> QED
        BY <2>1, <2>2, <2>3, <2>4, <2>5 DEF CatalogNext
<1> QED
    BY <1>1, <1>2, PTL DEF Cataloguing

\* A saved source asks what the source asks: redaction touches the user part
\* of a DSN only, which no need, origin or plan shows.
LEMMA SavedAsks ==
    ASSUME CatalogInv
    PROVE  SavedAsksTheSame
<1> SUFFICES ASSUME NEW i \in DOMAIN sources
             PROVE  LET saved == [sources[i] EXCEPT !.kind = RedactCredentials(@)]
                    IN  /\ RequiredCapability(saved) = RequiredCapability(sources[i])
                        /\ ManifestTarget(saved) = ManifestTarget(sources[i])
                        /\ AttachPlan(saved) = AttachPlan(sources[i])
    BY DEF SavedAsksTheSame
<1> DEFINE s == sources[i]
           saved == [s EXCEPT !.kind = RedactCredentials(@)]
           k == s.kind
           r == RedactCredentials(k)
<1>1. s \in Source /\ k \in SourceKind
    <2>1. s \in Source
        BY LenProperties DEF CatalogInv
    <2> QED
        BY <2>1 DEF Source
<1>2. saved.kind = r /\ saved.id = s.id
    BY <1>1 DEF Source
<1>3. CASE k.kind # "dbAttach"
    <2>1. r = k
        BY <1>3 DEF RedactCredentials
    <2>2. saved = s
        BY <1>1, <2>1 DEF Source
    <2> QED
        BY <2>2
<1>4. CASE k.kind = "dbAttach"
    <2> DEFINE d == k.dsn
               e == RedactDsn(d)
    <2>1. k \in [kind : {"dbAttach"}, engine : {"sqlite", "postgres", "mysql"},
                 dsn : Locator \cup {NoLocator}, target : Locator \cup {NoLocator},
                 ref : STRING \cup {NoRef}]
        BY <1>1, <1>4 DEF SourceKind
    <2>2. r = [k EXCEPT !.dsn = e]
        BY <1>4 DEF RedactCredentials
    <2>3. /\ r.kind = "dbAttach" /\ r.engine = k.engine /\ r.target = k.target /\ r.ref = k.ref
          /\ r.dsn = e
        BY <2>1, <2>2
    <2>4. d \in Locator \cup {NoLocator}
        BY <2>1
    <2>5. OriginOf(e) = OriginOf(d) /\ RedactDsn(e) = e
        <3>1. CASE d = NoLocator \/ d.scheme = NoScheme
            BY <3>1 DEF RedactDsn
        <3>2. CASE d # NoLocator /\ d.scheme # NoScheme
            <4>1. d \in Locator /\ e = [d EXCEPT !.user = FALSE]
                BY <2>4, <3>2 DEF RedactDsn
            <4> HIDE DEF d, e
            <4>2. e \in Locator /\ e.scheme = d.scheme /\ e.host = d.host /\ e.user = FALSE
                BY <4>1 DEF Locator
            <4>3. e # NoLocator
                BY <4>2, CatalogAssumption
            <4>4. OriginOf(e) = OriginOf(d)
                BY <3>2, <4>2, <4>3 DEF OriginOf
            <4>5. [e EXCEPT !.user = FALSE] = e
                BY <4>2 DEF Locator
            <4>6. RedactDsn(e) = e
                BY <3>2, <4>2, <4>3, <4>5 DEF RedactDsn
            <4> QED
                BY <4>4, <4>6 DEF d, e
        <3> QED
            BY <3>1, <3>2
    <2> HIDE DEF e, r, k
    <2>6. RequiredCapability(saved) = RequiredCapability(s)
        BY <1>2, <1>4, <2>3, <2>5 DEF RequiredCapability, k, d
    <2>7. ManifestTarget(saved) = ManifestTarget(s)
        BY <1>2, <1>4, <2>3, <2>5 DEF ManifestTarget, k, d, e
    <2>8. AttachPlan(saved) = AttachPlan(s)
        BY <1>2, <1>4, <2>3 DEF AttachPlan, k
    <2> QED
        BY <2>6, <2>7, <2>8
<1> QED
    BY <1>3, <1>4

\* A redacted DSN has no user part, if it has a scheme to know it by.
LEMMA RedactedDsn ==
    ASSUME NEW dsn \in Locator \cup {NoLocator}
    PROVE  LET red == RedactDsn(dsn)
           IN  red # NoLocator /\ red.scheme # NoScheme => ~ red.user
<1>1. CASE dsn = NoLocator \/ dsn.scheme = NoScheme
    BY <1>1 DEF RedactDsn
<1>2. CASE dsn # NoLocator /\ dsn.scheme # NoScheme
    <2>1. dsn \in Locator /\ RedactDsn(dsn) = [dsn EXCEPT !.user = FALSE]
        BY <1>2 DEF RedactDsn
    <2>2. RedactDsn(dsn).user = FALSE
        BY <2>1 DEF Locator
    <2> QED
        BY <2>2
<1> QED
    BY <1>1, <1>2

\* A saved database source shows no user, nor does its line of the manifest.
LEMMA SavedClean ==
    ASSUME CatalogInv
    PROVE  SavedWithoutUser
<1> DEFINE Clean(dsn) == dsn # NoLocator /\ dsn.scheme # NoScheme => ~ dsn.user
<1> SUFFICES ASSUME NEW i \in DOMAIN sources, sources[i].kind.kind = "dbAttach"
             PROVE  /\ Clean(RedactCredentials(sources[i].kind).dsn)
                    /\ sources[i].kind.target = NoLocator => Clean(ManifestTarget(sources[i])[2])
    BY DEF SavedWithoutUser
<1> DEFINE k == sources[i].kind
           e == RedactDsn(k.dsn)
<1>1. k \in SourceKind /\ k.kind = "dbAttach"
    <2>1. sources[i] \in Source
        BY LenProperties DEF CatalogInv
    <2> QED
        BY <2>1 DEF Source
<1>2. k \in [kind : {"dbAttach"}, engine : {"sqlite", "postgres", "mysql"},
             dsn : Locator \cup {NoLocator}, target : Locator \cup {NoLocator},
             ref : STRING \cup {NoRef}]
    BY <1>1 DEF SourceKind
<1>3. Clean(e)
    BY <1>2, RedactedDsn
<1>4. RedactCredentials(k).dsn = e
    BY <1>1, <1>2 DEF RedactCredentials
<1>5. k.target = NoLocator => ManifestTarget(sources[i])[2] = e
    BY <1>1 DEF ManifestTarget
<1> HIDE DEF e, k
<1> QED
    BY <1>3, <1>4, <1>5 DEF k

\* A key is told from every other: it is the stream of the request and bytes.
LEMMA KeysToldApart ==
    ASSUME CatalogInv
    PROVE  KeysTell
<1> SUFFICES ASSUME NEW k \in keys, NEW l \in keys
             PROVE  k.key = l.key <=> /\ k.bytes = l.bytes
                                      /\ k.kind.url = l.kind.url /\ k.kind.format = l.kind.format
                                      /\ k.kind.params = l.kind.params
    BY DEF KeysTell
<1>1. /\ k.kind \in RemoteKind /\ k.key = InvalidationKey(k.kind, k.bytes)
      /\ l.kind \in RemoteKind /\ l.key = InvalidationKey(l.kind, l.bytes)
    BY DEF CatalogInv, KeyTrue
<1> QED
    BY <1>1, KeyTells

\* What the drift says of a name is what its columns and its entries say.
LEMMA DriftIsTold ==
    ASSUME CatalogInv
    PROVE  DriftTold
<1> SUFFICES ASSUME catalog # NoDoc PROVE DriftTold
    BY DEF DriftTold
<1> DEFINE schema == catalog.schema
           sidecar == catalog.sidecar
           of == catalog.of
           live == {schema[i].name : i \in DOMAIN schema}
           told(n) == {d \in Lists!ToSet(of.drift) : d[2] = n}
           TypeOK(n) == \A i \in DOMAIN schema :
                            schema[i].name = n => EntryOf(sidecar, n).type \in {NoDoc, schema[i].type}
           Agree(n) == n \in live /\ HasEntry(sidecar, n) /\ TypeOK(n)
<1>1. CatalogTells(schema, sidecar, of)
    BY DEF CatalogInv, CatalogTrue
<1>2. \A i \in DOMAIN schema : of.columns[i].name = schema[i].name /\ of.columns[i].type = schema[i].type
    BY <1>1 DEF CatalogTells
<1>3. \A d : d \in Lists!ToSet(of.drift)
                 <=> \/ \E i \in DOMAIN schema : d \in Lists!ToSet(Drift(sidecar, schema[i]))
                     \/ \E j \in DOMAIN sidecar : d \in Lists!ToSet(Absent(schema, sidecar[j]))
    BY <1>1 DEF CatalogTells
<1> HIDE DEF schema, sidecar, of
\* Each part is empty or says one thing, of its own name.
<1>4. ASSUME NEW i \in DOMAIN schema
      PROVE  LET n == schema[i].name
             IN  /\ \A d \in Lists!ToSet(Drift(sidecar, schema[i])) : d[2] = n
                 /\ Lists!ToSet(Drift(sidecar, schema[i])) = {}
                      <=> HasEntry(sidecar, n) /\ EntryOf(sidecar, n).type \in {NoDoc, schema[i].type}
    <2> DEFINE n == schema[i].name
               m == EntryOf(sidecar, n).type
    <2>1. CASE ~ HasEntry(sidecar, n)
        <3>1. Drift(sidecar, schema[i]) = << << "UndocumentedColumn", n >> >>
            BY <2>1 DEF Drift
        <3>2. Lists!ToSet(Drift(sidecar, schema[i])) = {<< "UndocumentedColumn", n >>}
            BY <3>1 DEF Lists!ToSet
        <3>3. << "UndocumentedColumn", n >>[2] = n
            OBVIOUS
        <3> HIDE DEF n
        <3>4. /\ \A d \in Lists!ToSet(Drift(sidecar, schema[i])) : d[2] = n
              /\ Lists!ToSet(Drift(sidecar, schema[i])) # {}
            BY <3>2, <3>3
        <3> QED
            BY <2>1, <3>4 DEF n
    <2>2. CASE HasEntry(sidecar, n) /\ m \notin {NoDoc, schema[i].type}
        <3>1. Drift(sidecar, schema[i]) = << << "TypeMismatch", n >> >>
            BY <2>2 DEF Drift
        <3>2. Lists!ToSet(Drift(sidecar, schema[i])) = {<< "TypeMismatch", n >>}
            BY <3>1 DEF Lists!ToSet
        <3>3. << "TypeMismatch", n >>[2] = n
            OBVIOUS
        <3> HIDE DEF n
        <3>4. /\ \A d \in Lists!ToSet(Drift(sidecar, schema[i])) : d[2] = n
              /\ Lists!ToSet(Drift(sidecar, schema[i])) # {}
            BY <3>2, <3>3
        <3> QED
            BY <2>2, <3>4 DEF n
    <2>3. CASE HasEntry(sidecar, n) /\ m \in {NoDoc, schema[i].type}
        <3>1. Drift(sidecar, schema[i]) = << >>
            BY <2>3 DEF Drift
        <3>2. Lists!ToSet(Drift(sidecar, schema[i])) = {}
            BY <3>1 DEF Lists!ToSet
        <3> QED
            BY <2>3, <3>2
    <2> QED
        BY <2>1, <2>2, <2>3
<1>5. ASSUME NEW j \in DOMAIN sidecar
      PROVE  LET n == sidecar[j].name
             IN  /\ \A d \in Lists!ToSet(Absent(schema, sidecar[j])) : d[2] = n
                 /\ Lists!ToSet(Absent(schema, sidecar[j])) = {} <=> n \in live
    <2> DEFINE n == sidecar[j].name
    <2>0. n \in live <=> ~ \A i \in DOMAIN schema : schema[i].name # n
        OBVIOUS
    <2>1. CASE n \notin live
        <3>1. Absent(schema, sidecar[j]) = << << "MissingColumn", n >> >>
            BY <2>0, <2>1 DEF Absent
        <3>2. Lists!ToSet(Absent(schema, sidecar[j])) = {<< "MissingColumn", n >>}
            BY <3>1 DEF Lists!ToSet
        <3>3. << "MissingColumn", n >>[2] = n
            OBVIOUS
        <3> HIDE DEF n
        <3>4. /\ \A d \in Lists!ToSet(Absent(schema, sidecar[j])) : d[2] = n
              /\ Lists!ToSet(Absent(schema, sidecar[j])) # {}
            BY <3>2, <3>3
        <3> QED
            BY <2>1, <3>4 DEF n
    <2>2. CASE n \in live
        <3>1. Absent(schema, sidecar[j]) = << >>
            BY <2>0, <2>2 DEF Absent
        <3>2. Lists!ToSet(Absent(schema, sidecar[j])) = {}
            BY <3>1 DEF Lists!ToSet
        <3> QED
            BY <2>2, <3>2
    <2> QED
        BY <2>1, <2>2
<1>6. ASSUME NEW n \in live \cup {sidecar[j].name : j \in DOMAIN sidecar}
      PROVE  Agree(n) <=> told(n) = {}
    <2>1. ASSUME Agree(n), NEW d \in told(n) PROVE FALSE
        <3>1. d \in Lists!ToSet(of.drift) /\ d[2] = n
            BY <2>1
        <3>2. ASSUME NEW i \in DOMAIN schema, d \in Lists!ToSet(Drift(sidecar, schema[i])) PROVE FALSE
            <4>1. schema[i].name = n
                BY <1>4, <3>1, <3>2
            <4> QED
                BY <1>4, <2>1, <3>2, <4>1
        <3>3. ASSUME NEW j \in DOMAIN sidecar, d \in Lists!ToSet(Absent(schema, sidecar[j])) PROVE FALSE
            <4>1. sidecar[j].name = n
                BY <1>5, <3>1, <3>3
            <4> QED
                BY <1>5, <2>1, <3>3, <4>1
        <3> QED
            BY <1>3, <3>1, <3>2, <3>3
    <2>2. ASSUME told(n) = {} PROVE Agree(n)
        <3>1. ASSUME NEW i \in DOMAIN schema, schema[i].name = n
              PROVE  HasEntry(sidecar, n) /\ EntryOf(sidecar, n).type \in {NoDoc, schema[i].type}
            <4>1. \A d \in Lists!ToSet(Drift(sidecar, schema[i])) : d \in told(n)
                BY <1>3, <1>4, <3>1
            <4>2. Lists!ToSet(Drift(sidecar, schema[i])) = {}
                BY <2>2, <4>1
            <4> QED
                BY <1>4, <3>1, <4>2
        <3>2. ASSUME NEW j \in DOMAIN sidecar, sidecar[j].name = n
              PROVE  n \in live
            <4>1. \A d \in Lists!ToSet(Absent(schema, sidecar[j])) : d \in told(n)
                BY <1>3, <1>5, <3>2
            <4>2. Lists!ToSet(Absent(schema, sidecar[j])) = {}
                BY <2>2, <4>1
            <4> QED
                BY <1>5, <3>2, <4>2
        <3>3. n \in live
            BY <3>2
        <3> QED
            BY <3>1, <3>3
    <2> HIDE DEF Agree
    <2> QED
        BY <2>1, <2>2
<1> QED
    BY <1>2, <1>6 DEF DriftTold, schema, sidecar, of

\* No description of a source misleads the session that reads it, for any
\* sources, answers, schemas and sidecars: a saved source asks the same and
\* holds no user part of a DSN that has a scheme, a key tells the request and
\* the bytes, and the catalog's drift is the drift there is (data-sources,
\* lib.rs, remote.rs, governed.rs).
THEOREM DescriptionsTrue == Cataloguing => []SourcesSound
<1>1. CatalogInv => SourcesSound
    BY SavedAsks, SavedClean, KeysToldApart, DriftIsTold DEF SourcesSound
<1> QED
    BY <1>1, CatalogInvHolds, PTL

-----------------------------------------------------------------------------
(* Polls and timers.                                                       *)

USE EntryAssumption

-----------------------------------------------------------------------------
(* Types *)

TaskKind == {"load", "poll", "onOpen"}
Started  == [phase : {"fetching", "refreshing"}, kind : TaskKind, entry : Entry, epoch : Nat]
Answered == [phase : {"responded", "refreshing"}, kind : TaskKind, entry : Entry, epoch : Nat,
             bytes : Nat]

\* What the variables hold: an entry while the document has the source, and
\* per fetch the entry it was started with, with the bytes once it has them.
RemoteTypeOK ==
    /\ openEpoch \in Nat /\ defined \in Nat
    /\ consented \subseteq Origin
    /\ entry \in Entry \cup {NoEntry}
    /\ policy \in {"manual", "interval", "onOpen"}
    /\ pollTimer \in BOOLEAN /\ busy \in BOOLEAN
    /\ server \in [Origin -> Nat]
    /\ task \in [Task -> {Idle} \cup Started \cup Answered]

\* The polls in flight hold the scheduler: there is one only while it is busy,
\* and then it is the only one.
Polls == {t \in Task : task[t].phase # "idle" /\ task[t].kind = "poll"}
PollsHoldScheduler ==
    /\ Polls # {} => busy
    /\ \A t, u \in Polls : t = u

PollingInv == RemoteTypeOK /\ PollsHoldScheduler /\ TimersFollowPolicies

-----------------------------------------------------------------------------
\* A definition made now is an entry.
LEMMA NewEntryType ==
    ASSUME defined \in Nat, NEW o \in Origin
    PROVE  NewEntry(o) \in Entry /\ NewEntry(o) # NoEntry
<1>1. NewEntry(o) \in Entry
    BY DEF NewEntry, Entry
<1> QED
    BY <1>1

\* The steps that leave the fetches alone.
LEMMA QuietStep ==
    ASSUME PollingInv, UNCHANGED <<task, busy>>, RemoteTypeOK', TimersFollowPolicies'
    PROVE  PollingInv'
BY DEF PollingInv, PollsHoldScheduler, Polls

\* A fetch that is not a poll starts, or goes on, without disturbing the polls.
LEMMA StartStep ==
    ASSUME PollingInv, NEW t \in Task, RemoteTypeOK', TimersFollowPolicies', UNCHANGED busy,
           NEW s, task' = [task EXCEPT ![t] = s],
           s.phase # "idle" /\ s.kind = "poll" => t \in Polls
    PROVE  PollingInv'
<1>1. \A u \in Task : task'[u] = IF u = t THEN s ELSE task[u]
    BY DEF PollingInv, RemoteTypeOK
<1>2. Polls' \subseteq Polls
    BY <1>1 DEF Polls
<1> QED
    BY <1>2 DEF PollingInv, PollsHoldScheduler

\* A fetch ends: a poll leaves the scheduler with no poll in it.
LEMMA EndStep ==
    ASSUME PollingInv, NEW t \in Task, RemoteTypeOK', TimersFollowPolicies',
           task[t].phase # "idle", task' = [task EXCEPT ![t] = Idle],
           busy' = IF task[t].kind = "poll" THEN FALSE ELSE busy
    PROVE  PollingInv'
<1>1. \A u \in Task : task'[u] = IF u = t THEN Idle ELSE task[u]
    BY DEF PollingInv, RemoteTypeOK
<1>2. Polls' = Polls \ {t}
    BY <1>1 DEF Polls, Idle
<1>3. task[t].kind = "poll" => t \in Polls
    BY DEF Polls
<1> QED
    BY <1>2, <1>3 DEF PollingInv, PollsHoldScheduler

-----------------------------------------------------------------------------
\* Every step preserves the types: the user's and the server's, then the
\* fetch's, then the opening of a document.
LEMMA StepType == PollingInv /\ [RemoteNext]_remoteVars => RemoteTypeOK'
<1> SUFFICES ASSUME PollingInv, [RemoteNext]_remoteVars PROVE RemoteTypeOK'
    OBVIOUS
<1> USE DEF PollingInv
<1>1. ASSUME NEW o \in Origin, AddRemoteSource(o) PROVE RemoteTypeOK'
    BY <1>1, NewEntryType DEF AddRemoteSource, RemoteTypeOK
<1>2. ASSUME NEW o \in Origin, RequestConsent(o) \/ RevokeConsent(o) \/ ServerChanges(o)
      PROVE  RemoteTypeOK'
    BY <1>2 DEF RequestConsent, RevokeConsent, ServerChanges, RemoteTypeOK
<1>3. ASSUME NEW p \in {"manual", "interval"}, SetRefreshPolicy(p) PROVE RemoteTypeOK'
    BY <1>3 DEF SetRefreshPolicy, Wanted, RemoteTypeOK
<1>4. ASSUME NEW t \in Task, NEW k \in TaskKind, entry # NoEntry, Fetch(t, k)
      PROVE  task' \in [Task -> {Idle} \cup Started \cup Answered]
    <2>1. [phase |-> "fetching", kind |-> k, entry |-> entry, epoch |-> openEpoch] \in Started
        BY <1>4 DEF Started, RemoteTypeOK
    <2> QED
        BY <1>4, <2>1 DEF Fetch, RemoteTypeOK
<1>5. ASSUME NEW t \in Task, LoadRemoteSource(t) PROVE RemoteTypeOK'
    <2>1. CASE entry.origin \in consented
        BY <1>4, <1>5, <2>1 DEF LoadRemoteSource, TaskKind, RemoteTypeOK
    <2>2. CASE entry.origin \notin consented
        <3>1. [entry EXCEPT !.status = "inert"] \in Entry
            BY <1>5 DEF LoadRemoteSource, Entry, RemoteTypeOK
        <3> QED
            BY <1>5, <2>2, <3>1 DEF LoadRemoteSource, Wanted, RemoteTypeOK
    <2> QED
        BY <2>1, <2>2
<1>6. ASSUME NEW t \in Task, Tick(t) PROVE RemoteTypeOK'
    BY <1>4, <1>6 DEF Tick, TaskKind, Wanted, RemoteTypeOK
<1>7. ASSUME NEW t \in Task, task[t].phase # "idle"
      PROVE  /\ task[t] \in Started \cup Answered
             /\ task[t].kind \in TaskKind /\ task[t].entry \in Entry /\ task[t].epoch \in Nat
    BY <1>7 DEF RemoteTypeOK, Idle, Started, Answered
<1>8. ASSUME NEW t \in Task, Respond(t) PROVE RemoteTypeOK'
    <2>1. task[t].phase # "idle" /\ task[t].entry.origin \in Origin
        BY <1>7, <1>8 DEF Respond, Entry
    <2>2. [phase |-> "responded", kind |-> task[t].kind, entry |-> task[t].entry,
           epoch |-> task[t].epoch, bytes |-> server[task[t].entry.origin]] \in Answered
        BY <1>7, <2>1 DEF Answered, RemoteTypeOK
    <2>3. task' = [task EXCEPT ![t] = [phase |-> "responded", kind |-> task[t].kind,
              entry |-> task[t].entry, epoch |-> task[t].epoch,
              bytes |-> server[task[t].entry.origin]]]
        BY <1>8 DEF Respond, RemoteTypeOK
    <2> QED
        BY <1>8, <2>2, <2>3 DEF Respond, RemoteTypeOK
<1>9. ASSUME NEW t \in Task, task[t].phase # "idle"
      PROVE  [task EXCEPT ![t].phase = "refreshing"] \in [Task -> {Idle} \cup Started \cup Answered]
    <2>1. [task[t] EXCEPT !.phase = "refreshing"] \in Started \cup Answered
        BY <1>7, <1>9 DEF Started, Answered
    <2> QED
        BY <2>1 DEF RemoteTypeOK
<1>10. ASSUME NEW t \in Task, AfterFetch(t) PROVE pollTimer' \in BOOLEAN /\ busy' \in BOOLEAN
    BY <1>10 DEF AfterFetch, Wanted, RemoteTypeOK
<1>11. ASSUME NEW t \in Task, FetchFails(t) PROVE RemoteTypeOK'
    <2>1. entry' \in Entry \cup {NoEntry}
        BY <1>11 DEF FetchFails, IsCurrent, Entry, RemoteTypeOK
    <2>2. task' \in [Task -> {Idle} \cup Started \cup Answered] /\ pollTimer' \in BOOLEAN /\ busy' \in BOOLEAN
        BY <1>9, <1>10, <1>11 DEF FetchFails, RemoteTypeOK
    <2> QED
        BY <1>11, <2>1, <2>2 DEF FetchFails, RemoteTypeOK
<1>12. ASSUME NEW t \in Task, LoadIntoDuckDB(t) PROVE RemoteTypeOK'
    <2>1. task[t].bytes \in Nat
        BY <1>12 DEF LoadIntoDuckDB, RemoteTypeOK, Idle, Started, Answered
    <2>2. entry' \in Entry \cup {NoEntry}
        BY <1>12, <2>1 DEF LoadIntoDuckDB, IsCurrent, Entry, RemoteTypeOK
    <2>3. task' \in [Task -> {Idle} \cup Started \cup Answered] /\ pollTimer' \in BOOLEAN /\ busy' \in BOOLEAN
        BY <1>9, <1>10, <1>12 DEF LoadIntoDuckDB, RemoteTypeOK
    <2> QED
        BY <1>12, <2>2, <2>3 DEF LoadIntoDuckDB, RemoteTypeOK
<1>13. ASSUME NEW t \in Task, RefreshData(t) PROVE RemoteTypeOK'
    BY <1>10, <1>13 DEF RefreshData, RemoteTypeOK
<1>14. ASSUME NEW o \in Origin \cup {NoEntry}, NEW p \in {"interval", "onOpen"}, NEW t \in Task,
              OpenDocument(o, p, t)
       PROVE  RemoteTypeOK'
    <2>1. /\ entry' \in Entry \cup {NoEntry} /\ policy' \in {"manual", "interval", "onOpen"}
          /\ openEpoch' \in Nat /\ defined' \in Nat
          /\ o # NoEntry => entry' \in Entry
        BY <1>14, NewEntryType DEF OpenDocument, RemoteTypeOK
    <2>2. CASE policy' = "onOpen" /\ o \in consented
        <3>1. o # NoEntry
            BY <1>14, <2>2 DEF OpenDocument
        <3>2. [phase |-> "fetching", kind |-> "onOpen", entry |-> entry', epoch |-> openEpoch'] \in Started
            BY <2>1, <3>1 DEF Started, TaskKind
        <3> QED
            BY <1>14, <2>1, <2>2, <3>2 DEF OpenDocument, Wanted, RemoteTypeOK
    <2>3. CASE ~(policy' = "onOpen" /\ o \in consented)
        BY <1>14, <2>1, <2>3 DEF OpenDocument, Wanted, RemoteTypeOK
    <2> QED
        BY <2>2, <2>3
<1>15. CASE UNCHANGED remoteVars
    BY <1>15 DEF remoteVars, RemoteTypeOK
<1> QED
    BY <1>1, <1>2, <1>3, <1>5, <1>6, <1>8, <1>11, <1>12, <1>13, <1>14, <1>15 DEF RemoteNext

\* A timer is started for the document's own source and its interval policy
\* only, and what removes either stops it.
LEMMA StepTimers == PollingInv /\ [RemoteNext]_remoteVars => TimersFollowPolicies'
<1> SUFFICES ASSUME PollingInv, [RemoteNext]_remoteVars PROVE TimersFollowPolicies'
    OBVIOUS
<1> USE DEF PollingInv, TimersFollowPolicies, Wanted
<1>1. ASSUME NEW o \in Origin, AddRemoteSource(o) PROVE TimersFollowPolicies'
    BY <1>1, NewEntryType DEF AddRemoteSource, RemoteTypeOK
<1>2. ASSUME NEW s \in {"inert", "loaded", "error"}, entry # NoEntry
      PROVE  [entry EXCEPT !.status = s] # NoEntry
    BY <1>2 DEF RemoteTypeOK, Entry
<1>3. ASSUME NEW t \in Task, LoadRemoteSource(t) \/ Tick(t) \/ Respond(t) \/ RefreshData(t)
      PROVE  TimersFollowPolicies'
    BY <1>2, <1>3 DEF LoadRemoteSource, Tick, Respond, RefreshData, AfterFetch
<1>4. ASSUME NEW t \in Task, FetchFails(t) PROVE TimersFollowPolicies'
    BY <1>2, <1>4 DEF FetchFails, AfterFetch, IsCurrent
<1>5. ASSUME NEW t \in Task, LoadIntoDuckDB(t) PROVE TimersFollowPolicies'
    <2>1. task[t].bytes \in Nat
        BY <1>5 DEF LoadIntoDuckDB, RemoteTypeOK, Idle, Started, Answered
    <2>2. entry # NoEntry => entry' # NoEntry
        BY <1>5, <2>1 DEF LoadIntoDuckDB, RemoteTypeOK, Entry
    <2> QED
        BY <1>5, <2>2 DEF LoadIntoDuckDB, AfterFetch
<1>6. ASSUME NEW o \in Origin, RequestConsent(o) \/ RevokeConsent(o) \/ ServerChanges(o)
      PROVE  TimersFollowPolicies'
    BY <1>6 DEF RequestConsent, RevokeConsent, ServerChanges
<1>7. ASSUME NEW p \in {"manual", "interval"}, SetRefreshPolicy(p) PROVE TimersFollowPolicies'
    BY <1>7 DEF SetRefreshPolicy
<1>8. ASSUME NEW o \in Origin \cup {NoEntry}, NEW p \in {"interval", "onOpen"}, NEW t \in Task,
             OpenDocument(o, p, t)
      PROVE  TimersFollowPolicies'
    BY <1>8 DEF OpenDocument
<1>9. CASE UNCHANGED remoteVars
    BY <1>9 DEF remoteVars
<1> QED
    BY <1>1, <1>3, <1>4, <1>5, <1>6, <1>7, <1>8, <1>9 DEF RemoteNext

\* Every step keeps the polls in the scheduler: one step per action.
LEMMA StepPolling == PollingInv /\ [RemoteNext]_remoteVars => PollingInv'
<1> SUFFICES ASSUME PollingInv, [RemoteNext]_remoteVars PROVE PollingInv'
    OBVIOUS
<1>1. RemoteTypeOK' /\ TimersFollowPolicies'
    BY StepType, StepTimers
<1>2. ASSUME UNCHANGED <<task, busy>> PROVE PollingInv'
    BY <1>1, <1>2, QuietStep
<1>3. ASSUME NEW t \in Task, LoadRemoteSource(t) PROVE PollingInv'
    BY <1>1, <1>2, <1>3, StartStep DEF LoadRemoteSource, Fetch
<1>4. ASSUME NEW t \in Task, Tick(t) PROVE PollingInv'
    <2>1. CASE entry.origin \in consented
        <3>1. \A u \in Task : task'[u].phase # "idle" /\ task'[u].kind = "poll" => u = t \/ u \in Polls
            BY <1>4, <2>1 DEF Tick, Fetch, Polls, PollingInv, RemoteTypeOK
        <3>2. Polls = {}
            BY <1>4 DEF Tick, PollingInv, PollsHoldScheduler
        <3>3. PollsHoldScheduler'
            BY <1>4, <2>1, <3>1, <3>2 DEF Tick, Polls, PollsHoldScheduler
        <3> QED
            BY <1>1, <3>3 DEF PollingInv
    <2> QED
        BY <1>2, <1>4, <2>1 DEF Tick
<1>5. ASSUME NEW t \in Task, Respond(t) PROVE PollingInv'
    <2>1. task[t].kind = "poll" => t \in Polls
        BY <1>5 DEF Respond, Polls
    <2>2. PICK s : /\ s = [phase |-> "responded", kind |-> task[t].kind, entry |-> task[t].entry,
                           epoch |-> task[t].epoch, bytes |-> server[task[t].entry.origin]]
                   /\ task' = [task EXCEPT ![t] = s]
        BY <1>5 DEF Respond, PollingInv, RemoteTypeOK
    <2> QED
        BY <1>1, <1>5, <2>1, <2>2, StartStep DEF Respond
<1>6. ASSUME NEW t \in Task, task[t].phase # "idle", UNCHANGED busy,
             task' = [task EXCEPT ![t].phase = "refreshing"]
      PROVE  PollingInv'
    <2>1. task[t].kind = "poll" => t \in Polls
        BY <1>6 DEF Polls
    <2>2. task' = [task EXCEPT ![t] = [task[t] EXCEPT !.phase = "refreshing"]]
        BY <1>6 DEF PollingInv, RemoteTypeOK
    <2>3. [task[t] EXCEPT !.phase = "refreshing"].kind = task[t].kind
        BY <1>6 DEF PollingInv, RemoteTypeOK, Idle, Started, Answered
    <2> QED
        BY <1>1, <1>6, <2>1, <2>2, <2>3, StartStep
<1>7. ASSUME NEW t \in Task, FetchFails(t) PROVE PollingInv'
    BY <1>1, <1>6, <1>7, EndStep DEF FetchFails, AfterFetch
<1>8. ASSUME NEW t \in Task, LoadIntoDuckDB(t) PROVE PollingInv'
    BY <1>1, <1>6, <1>8, EndStep DEF LoadIntoDuckDB, AfterFetch
<1>9. ASSUME NEW t \in Task, RefreshData(t) PROVE PollingInv'
    BY <1>1, <1>9, EndStep DEF RefreshData, AfterFetch
<1>10. ASSUME NEW o \in Origin \cup {NoEntry}, NEW p \in {"interval", "onOpen"}, NEW t \in Task,
              OpenDocument(o, p, t)
       PROVE  PollingInv'
    BY <1>1, <1>2, <1>10, StartStep DEF OpenDocument
<1> QED
    BY <1>2, <1>3, <1>4, <1>5, <1>7, <1>8, <1>9, <1>10
       DEF RemoteNext, remoteVars, AddRemoteSource, RequestConsent, RevokeConsent,
           ServerChanges, SetRefreshPolicy

\* Polls in the scheduler are at most one.
LEMMA OnePoll == PollingInv => OnePollAtATime
<1> SUFFICES ASSUME PollingInv PROVE Cardinality(Polls) <= 1
    BY DEF OnePollAtATime, Polls
<1>1. CASE Polls = {}
    BY <1>1, FS_EmptySet
<1>2. CASE Polls # {}
    <2>1. PICK t : t \in Polls
        BY <1>2
    <2>2. Polls = {t}
        BY <2>1 DEF PollingInv, PollsHoldScheduler
    <2> QED
        BY <2>2, FS_Singleton
<1> QED
    BY <1>1, <1>2

\* However slow the fetches are, whatever is redefined, withdrawn or opened
\* meanwhile: one poll at a time, and no timer without its source and policy.
THEOREM PollsSound == RemoteSpec => []PollingSound
<1>1. ASSUME RemoteInit PROVE PollingInv
    <2>1. RemoteTypeOK
        BY <1>1 DEF RemoteInit, RemoteTypeOK
    <2>2. Polls = {}
        BY <1>1 DEF RemoteInit, Polls, Idle
    <2>3. TimersFollowPolicies
        BY <1>1 DEF RemoteInit, TimersFollowPolicies
    <2> QED
        BY <2>1, <2>2, <2>3 DEF PollingInv, PollsHoldScheduler
<1>2. PollingInv => PollingSound
    BY OnePoll DEF PollingInv, PollingSound
<1> QED
    BY <1>1, <1>2, StepPolling, PTL DEF RemoteSpec
=============================================================================
