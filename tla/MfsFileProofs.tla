--------------------------- MODULE MfsFileProofs ----------------------------
(***************************************************************************)
(* The chains of blocks that files are made of, for any names, handles,    *)
(* blocks and buffers: that they never share, lose or leave a block, and   *)
(* that a handle resumes from where it says it does; and what the          *)
(* commands of the terminal keep, which run on these files.                *)
(***************************************************************************)
EXTENDS Shell, TLAPS, FiniteSetTheorems, SequenceTheorems, WellFoundedInduction

(***************************************************************************)
(* Numbers                                                                 *)
(***************************************************************************)

LEMMA LowestOf ==
  ASSUME NEW S \in SUBSET Nat, S # {}
  PROVE  \E x \in S : \A y \in S : x <= y
<1> DEFINE R == OpToRel(<, Nat)
<1>1. IsWellFoundedOn(R, Nat)
  BY NatLessThanWellFounded
<1>2. PICK x \in S : \A y \in S : ~ (<<y, x>> \in R)
  <2> HIDE DEF R
  <2> QED BY <1>1, WFMin
<1>3. ASSUME NEW y \in S PROVE x <= y
  <2>1. x \in Nat /\ y \in Nat
    OBVIOUS
  <2>2. y < x => <<y, x>> \in R
    BY <2>1 DEF OpToRel
  <2> HIDE DEF R
  <2> QED BY <1>2, <2>1, <2>2
<1> QED BY <1>3

(* Induction, over a set of numbers. *)
LEMMA CountsUp ==
  ASSUME NEW P, 0 \in P, \A n \in Nat : n \in P => n + 1 \in P
  PROVE  Nat \subseteq P
<1> SUFFICES ASSUME Nat \ P # {} PROVE FALSE
  OBVIOUS
<1>1. PICK n \in Nat \ P : \A m \in Nat \ P : n <= m
  BY LowestOf
<1>2. n # 0 /\ n - 1 \in Nat
  BY <1>1
<1>3. n - 1 \in P
  BY <1>1, <1>2
<1>4. (n - 1) + 1 \in P
  BY <1>2, <1>3
<1> QED BY <1>1, <1>4

LEMMA Divides ==
  ASSUME NEW x \in Nat, NEW d \in Nat \ {0}
  PROVE  x \div d \in Nat /\ (x \div d) * d <= x /\ x < (x \div d) * d + d
<1>1. x = d * (x \div d) + (x % d) /\ x % d \in 0 .. d - 1 /\ x \div d \in Int
  OBVIOUS
<1>2. PICK q \in Int, r \in 0 .. d - 1 : q = x \div d /\ r = x % d /\ x = d * q + r
  BY <1>1
<1>3. q >= 0
  <2> SUFFICES ASSUME q <= -1 PROVE FALSE
    BY <1>2
  <2>1. d * q <= d * (-1)
    BY <1>2
  <2>2. d * (-1) = -d
    OBVIOUS
  <2> QED BY <1>2, <2>1, <2>2
<1>4. d * q = q * d
  BY <1>2
<1> QED BY <1>2, <1>3, <1>4

LEMMA Distributes ==
  ASSUME NEW a \in Int, NEW b \in Int, NEW c \in Int
  PROVE  (a + b) * c = a * c + b * c
OBVIOUS

LEMMA Multiplies ==
  ASSUME NEW a \in Nat, NEW b \in Nat
  PROVE  a * b \in Nat
OBVIOUS

LEMMA Scales ==
  ASSUME NEW a \in Int, NEW b \in Int, NEW c \in Nat, a <= b
  PROVE  a * c <= b * c
<1>1. PICK d \in Nat : b = a + d
  <2>1. b - a \in Nat /\ b = a + (b - a)
    OBVIOUS
  <2> QED BY <2>1
<1>2. b * c = a * c + d * c
  BY <1>1, Distributes
<1>3. d * c \in Nat /\ a * c \in Int
  OBVIOUS
<1>4. \A x \in Int, y \in Nat : x <= x + y
  OBVIOUS
<1> QED BY <1>2, <1>3, <1>4

LEMMA Below ==
  ASSUME NEW a \in Int, NEW b \in Int, NEW c \in Nat, a * c < b * c
  PROVE  a < b
<1> SUFFICES ASSUME b <= a PROVE FALSE
  OBVIOUS
<1>1. b * c <= a * c
  BY Scales
<1>2. a * c \in Int /\ b * c \in Int
  OBVIOUS
<1> QED BY <1>1, <1>2

(* What is left over says if it is a multiple. *)
LEMMA DividesEvenly ==
  ASSUME NEW x \in Nat, NEW d \in Nat \ {0}
  PROVE  x % d = 0 <=> (x \div d) * d = x
<1>1. x = d * (x \div d) + (x % d) /\ x % d \in 0 .. d - 1 /\ x \div d \in Int
  OBVIOUS
<1>2. PICK q \in Int, r \in 0 .. d - 1 : q = x \div d /\ r = x % d /\ x = d * q + r
  BY <1>1
<1>3. d * q = q * d
  BY <1>2
<1> QED BY <1>2, <1>3

(* A multiple, divided. *)
LEMMA DividesBack ==
  ASSUME NEW a \in Nat, NEW c \in Nat \ {0}
  PROVE  (a * c) \div c = a
<1>1. a * c \in Nat
  OBVIOUS
<1>2. PICK q \in Nat : q = (a * c) \div c /\ q * c <= a * c /\ a * c < q * c + c
  BY <1>1, Divides
<1>3. q * c + c = (q + 1) * c
  BY <1>2
<1>4. ~ (q + 1 <= a)
  BY <1>2, <1>3, Scales
<1>5. a + 1 <= q => (a + 1) * c <= q * c
  BY <1>2, Scales
<1>6. (a + 1) * c = a * c + c
  OBVIOUS
<1>7. ~ (a + 1 <= q)
  BY <1>1, <1>2, <1>5, <1>6
<1> QED BY <1>2, <1>4, <1>7

(* A number of bytes, in blocks: the last block of them is begun. *)
LEMMA RoundsUp ==
  ASSUME NEW x \in Nat \ {0}, NEW c \in Nat \ {0}
  PROVE  LET n == (x + c - 1) \div c
         IN  n \in Nat \ {0} /\ x <= n * c /\ (n - 1) * c < x
<1>1. x + c - 1 \in Nat
  OBVIOUS
<1>2. PICK n \in Nat : n = (x + c - 1) \div c /\ n * c <= x + c - 1 /\ x + c - 1 < n * c + c
  BY <1>1, Divides
<1>3. PICK m \in Nat : m = n * c
  OBVIOUS
<1>4. (n - 1) * c = m - c
  BY <1>3
<1>5. x <= m /\ m - c < x
  BY <1>2, <1>3
<1>6. n # 0
  <2>1. n = 0 => m = 0
    BY <1>3
  <2> QED BY <1>5, <2>1
<1> QED BY <1>2, <1>3, <1>4, <1>5, <1>6

(***************************************************************************)
(* The free blocks                                                         *)
(***************************************************************************)

(* In a finite set of numbers there is, for each place, a number that has it.*)
HasPlaces(F) ==
  \A i \in 1 .. Cardinality(F) : \E a \in F : Cardinality({b \in F : b <= a}) = i

LEMMA Places ==
  ASSUME NEW F \in SUBSET Nat, IsFiniteSet(F)
  PROVE  HasPlaces(F)
<1> DEFINE P == {n \in Nat : \A G \in SUBSET Nat :
                    IsFiniteSet(G) /\ Cardinality(G) = n => HasPlaces(G)}
<1>1. 0 \in P
  BY DEF HasPlaces
<1>2. ASSUME NEW n \in Nat, n \in P PROVE n + 1 \in P
  <2> SUFFICES ASSUME NEW G \in SUBSET Nat, IsFiniteSet(G), Cardinality(G) = n + 1,
                      NEW i \in 1 .. n + 1
               PROVE  \E a \in G : Cardinality({b \in G : b <= a}) = i
    BY DEF HasPlaces
  <2>1. G # {}
    BY FS_EmptySet
  <2>2. PICK m \in G : \A b \in G : m <= b
    BY <2>1, LowestOf
  <2> DEFINE H == G \ {m}
  <2>3. IsFiniteSet(H) /\ Cardinality(H) = n
    <3>1. IsFiniteSet(H) /\ Cardinality(H) = Cardinality(G) - 1
      BY FS_RemoveElement
    <3> QED BY <3>1
  <2>4. CASE i = 1
    <3>1. {b \in G : b <= m} = {m}
      <4>1. ASSUME NEW b \in G, b <= m PROVE b = m
        <5>1. b \in Nat /\ m \in Nat /\ m <= b
          BY <2>2
        <5> QED BY <4>1, <5>1
      <4>2. m <= m
        OBVIOUS
      <4> QED BY <4>1, <4>2
    <3> QED BY <2>4, <3>1, FS_Singleton
  <2>5. CASE i # 1
    <3>1. HasPlaces(H)
      BY <1>2, <2>3
    <3>2. PICK a \in H : Cardinality({b \in H : b <= a}) = i - 1
      <4>1. i - 1 \in 1 .. Cardinality(H)
        BY <2>3, <2>5
      <4> QED BY <3>1, <4>1 DEF HasPlaces
    <3> DEFINE K == {b \in H : b <= a}
    <3>3. {b \in G : b <= a} = K \cup {m} /\ m \notin K
      BY <2>2
    <3>4. IsFiniteSet(K)
      BY <2>3, FS_Subset
    <3>5. Cardinality(K \cup {m}) = Cardinality(K) + 1
      BY <3>3, <3>4, FS_AddElement
    <3>6. Cardinality({b \in G : b <= a}) = i
      BY <3>2, <3>3, <3>5
    <3> QED BY <3>6
  <2> QED BY <2>4, <2>5
<1>3. Nat \subseteq P
  <2> HIDE DEF P
  <2> QED BY <1>1, <1>2, CountsUp
<1>4. Cardinality(F) \in Nat
  BY FS_CardinalityType
<1> QED BY <1>3, <1>4

BlockSeqs == Seq(Blocks)

(* The free blocks are those that are not used, each once. *)
LEMMA FreeIs ==
  /\ Free \in BlockSeqs /\ Len(Free) \in Nat
  /\ \A i \in 1 .. Len(Free) : Free[i] \in Blocks /\ Free[i] \notin DOMAIN disk
  /\ \A i, j \in 1 .. Len(Free) : Free[i] = Free[j] => i = j
<1> DEFINE N == Cardinality(Unused)
           upTo(a) == Cardinality({b \in Unused : b <= a})
<1>1. Unused \in SUBSET Nat /\ IsFiniteSet(Unused) /\ N \in Nat
  BY FileAssumption, FS_Subset, FS_CardinalityType DEF Unused
<1>2. HasPlaces(Unused)
  BY <1>1, Places
<1>3. \A i \in 1 .. N : \E a \in Unused : upTo(a) = i
  BY <1>2 DEF HasPlaces
<1>4. \A i \in 1 .. N : Free[i] = CHOOSE a \in Unused : upTo(a) = i
  BY DEF Free
<1> HIDE DEF upTo
<1>5. \A i \in 1 .. N : Free[i] \in Unused /\ upTo(Free[i]) = i
  BY <1>3, <1>4
<1>6. DOMAIN Free = 1 .. N
  BY DEF Free
<1>7. Free \in Seq(Unused)
  <2>1. Free = [i \in 1 .. N |-> Free[i]]
    BY DEF Free
  <2> HIDE DEF N
  <2>2. Free \in [1 .. N -> Unused]
    BY <1>5, <2>1
  <2> QED BY <1>1, <2>2
<1>8. Len(Free) = N
  BY <1>1, <1>6, <1>7
<1>9. Free \in BlockSeqs
  <2>1. Unused \subseteq Blocks
    BY DEF Unused
  <2> HIDE DEF N
  <2> QED BY <1>7, <2>1 DEF BlockSeqs
<1> HIDE DEF N
<1>10. \A i \in 1 .. N : Free[i] \in Blocks /\ Free[i] \notin DOMAIN disk
  BY <1>5 DEF Unused
<1> QED BY <1>1, <1>5, <1>8, <1>9, <1>10

(***************************************************************************)
(* Chains                                                                  *)
(***************************************************************************)

(* The sequences C of blocks, one of each name, are the chains of the disk d *)
(* and the entries e: the blocks of one are linked in its order, each block  *)
(* in use is in one place of one of them, and an entry has the first.        *)
StartsAt(s, e) == IF e = NoFile THEN s = <<>> ELSE s # <<>> /\ s[1] = e.addr

Linked(s, d) ==
  \A i \in 1 .. Len(s) : /\ s[i] \in DOMAIN d
                         /\ d[s[i]].next = IF i = Len(s) THEN 0 ELSE s[i + 1]

Apart(C) ==
  \A m, n \in Name : \A i \in 1 .. Len(C[m]), j \in 1 .. Len(C[n]) :
     C[m][i] = C[n][j] => m = n /\ i = j

Covered(C, d) == \A a \in DOMAIN d : \E n \in Name : \E i \in 1 .. Len(C[n]) : a = C[n][i]

Chained(C, d, e) ==
  /\ C \in [Name -> BlockSeqs]
  /\ \A n \in Name : StartsAt(C[n], e[n]) /\ Linked(C[n], d)
  /\ Apart(C)
  /\ Covered(C, d)

LEMMA SeqSorts ==
  ASSUME NEW s \in BlockSeqs
  PROVE  /\ Len(s) \in Nat /\ DOMAIN s = 1 .. Len(s)
         /\ \A i \in 1 .. Len(s) : s[i] \in Blocks
         /\ s # <<>> <=> Len(s) >= 1
BY DEF BlockSeqs

(* The rest of a sequence: its last element, or one and the rest after it.   *)
LEMMA RestIs ==
  ASSUME NEW s \in BlockSeqs, NEW i \in 1 .. Len(s)
  PROVE  /\ SubSeq(s, i, Len(s)) \in BlockSeqs
         /\ i = Len(s) => SubSeq(s, i, Len(s)) = <<s[i]>>
         /\ i # Len(s) => SubSeq(s, i, Len(s)) = <<s[i]>> \o SubSeq(s, i + 1, Len(s))
         /\ i = 1 => SubSeq(s, i, Len(s)) = s
<1>1. s \in Seq(Blocks) /\ Len(s) \in Nat /\ i \in Nat /\ i >= 1 /\ i <= Len(s)
  BY DEF BlockSeqs
<1>2. SubSeq(s, i, Len(s)) \in BlockSeqs
  BY DEF BlockSeqs
<1>3. SubSeq(s, i, Len(s)) = <<s[i]>> \o SubSeq(s, i + 1, Len(s))
  BY <1>1, SubSeqRecursiveFirst
<1>4. i = Len(s) => SubSeq(s, i, Len(s)) = <<s[i]>>
  <2> SUFFICES ASSUME i = Len(s) PROVE SubSeq(s, i, i) = <<s[i]>>
    OBVIOUS
  <2>1. PICK t \in Seq(Blocks) : t = SubSeq(s, i, i)
    BY <1>2 DEF BlockSeqs
  <2>2. Len(t) = 1 /\ t[1] = s[i]
    BY <1>1, <2>1 DEF BlockSeqs
  <2>3. s[i] \in Blocks
    BY <1>1
  <2>4. PICK b \in Blocks : b = s[i]
    BY <2>3
  <2>5. <<b>> \in Seq(Blocks) /\ Len(<<b>>) = 1 /\ <<b>>[1] = b
    OBVIOUS
  <2>6. t = <<b>>
    BY <2>2, <2>4, <2>5, SeqEqual
  <2> QED BY <2>1, <2>4, <2>6
<1>5. i = 1 => SubSeq(s, i, Len(s)) = s
  BY <1>1, SubSeqFull
<1> QED BY <1>2, <1>3, <1>4, <1>5

Follows(f, d) ==
  f = [a \in DOMAIN d |->
         IF d[a].next = 0 THEN <<a>> ELSE <<a>> \o f[d[a].next]]

LEMMA BufsTyped == \A buf \in Bufs : buf \in Seq(Byte \cup {Blank})
<1> SUFFICES ASSUME NEW buf \in Bufs PROVE buf \in Seq(Byte \cup {Blank})
  OBVIOUS
<1>1. buf \in Seq(Byte)
  BY FileAssumption
<1> QED BY <1>1

LEMMA ZeroIsNoBlock == 0 \notin Blocks
BY FileAssumption

(* The function that ChainFrom is defined by is there. *)
LEMMA FollowsExists ==
  ASSUME NEW C, NEW d, NEW e, Chained(C, d, e)
  PROVE  \E f : Follows(f, d)
<1> DEFINE Is(a, q) == \E n \in Name : \E i \in 1 .. Len(C[n]) :
                          a = C[n][i] /\ q = SubSeq(C[n], i, Len(C[n]))
           g(a) == CHOOSE q : Is(a, q)
           f == [a \in DOMAIN d |-> g(a)]
<1>1. ASSUME NEW n \in Name, NEW i \in 1 .. Len(C[n])
      PROVE  C[n][i] \in DOMAIN d /\ f[C[n][i]] = SubSeq(C[n], i, Len(C[n]))
  <2>1. C[n][i] \in DOMAIN d
    BY DEF Chained, Linked
  <2>2. Is(C[n][i], SubSeq(C[n], i, Len(C[n])))
    OBVIOUS
  <2>3. ASSUME NEW q, Is(C[n][i], q) PROVE q = SubSeq(C[n], i, Len(C[n]))
    BY <2>3 DEF Chained, Apart
  <2> HIDE DEF Is
  <2> QED BY <2>1, <2>2, <2>3
<1>2. ASSUME NEW a \in DOMAIN d
      PROVE  f[a] = IF d[a].next = 0 THEN <<a>> ELSE <<a>> \o f[d[a].next]
  <2> HIDE DEF f
  <2>0. PICK n \in Name : \E i \in 1 .. Len(C[n]) : a = C[n][i]
    BY DEF Chained, Covered
  <2>1. PICK i \in 1 .. Len(C[n]) : a = C[n][i]
    BY <2>0
  <2>2. PICK s \in BlockSeqs : s = C[n]
    BY DEF Chained
  <2>3. d[a].next = IF i = Len(s) THEN 0 ELSE s[i + 1]
    BY <2>1, <2>2 DEF Chained, Linked
  <2>4. f[a] = SubSeq(s, i, Len(s))
    BY <1>1, <2>1, <2>2
  <2>5. CASE i = Len(s)
    BY <2>1, <2>2, <2>3, <2>4, <2>5, RestIs
  <2>6. CASE i # Len(s)
    <3>1. i + 1 \in 1 .. Len(s)
      BY <2>2, <2>6, SeqSorts
    <3>2. s[i + 1] # 0
      BY <3>1, SeqSorts, ZeroIsNoBlock
    <3>3. f[s[i + 1]] = SubSeq(s, i + 1, Len(s))
      BY <1>1, <2>2, <3>1
    <3>4. SubSeq(s, i, Len(s)) = <<s[i]>> \o SubSeq(s, i + 1, Len(s))
      BY <2>2, <2>6, RestIs
    <3> QED BY <2>1, <2>2, <2>3, <2>4, <2>6, <3>2, <3>3, <3>4
  <2> QED BY <2>5, <2>6
<1>3. Follows(f, d)
  <2>1. f = [a \in DOMAIN d |-> f[a]]
    <3> HIDE DEF g
    <3> QED OBVIOUS
  <2> HIDE DEF f
  <2> QED BY <1>2, <2>1 DEF Follows
<1> QED BY <1>3

(* LinkedBlock::next follows the chains.                                     *)
LEMMA ChainsOf ==
  ASSUME NEW C, NEW d, NEW e, Chained(C, d, e), NEW from, from = CHOOSE f : Follows(f, d)
  PROVE  \A n \in Name : \A i \in 1 .. Len(C[n]) : from[C[n][i]] = SubSeq(C[n], i, Len(C[n]))
<1>1. Follows(from, d)
  BY FollowsExists
<1> DEFINE P == {k \in Nat : \A n \in Name : \A i \in 1 .. Len(C[n]) :
                    Len(C[n]) - i = k => from[C[n][i]] = SubSeq(C[n], i, Len(C[n]))}
<1>2. ASSUME NEW n \in Name, NEW i \in 1 .. Len(C[n])
      PROVE  /\ C[n] \in BlockSeqs
             /\ from[C[n][i]] =
                  IF i = Len(C[n]) THEN <<C[n][i]>>
                  ELSE <<C[n][i]>> \o from[C[n][i + 1]]
  <2>1. PICK s \in BlockSeqs : s = C[n]
    BY DEF Chained
  <2>2. s[i] \in DOMAIN d /\ d[s[i]].next = IF i = Len(s) THEN 0 ELSE s[i + 1]
    BY <2>1 DEF Chained, Linked
  <2>3. from[s[i]] = IF d[s[i]].next = 0 THEN <<s[i]>>
                          ELSE <<s[i]>> \o from[d[s[i]].next]
    BY <1>1, <2>2 DEF Follows
  <2>4. i # Len(s) => s[i + 1] # 0
    <3>1. i # Len(s) => i + 1 \in 1 .. Len(s)
      BY <2>1, SeqSorts
    <3> QED BY <3>1, SeqSorts, ZeroIsNoBlock
  <2> QED BY <2>1, <2>2, <2>3, <2>4
<1>3. 0 \in P
  <2> SUFFICES ASSUME NEW n \in Name, NEW i \in 1 .. Len(C[n]), Len(C[n]) - i = 0
               PROVE  from[C[n][i]] = SubSeq(C[n], i, Len(C[n]))
    OBVIOUS
  <2>1. C[n] \in BlockSeqs
    BY <1>2
  <2>2. i = Len(C[n])
    BY <2>1, SeqSorts
  <2>3. SubSeq(C[n], i, Len(C[n])) = <<C[n][i]>>
    BY <2>1, <2>2, RestIs
  <2> QED BY <1>2, <2>2, <2>3
<1>4. ASSUME NEW k \in Nat, k \in P PROVE k + 1 \in P
  <2>0. k + 1 \in Nat
    OBVIOUS
  <2> SUFFICES ASSUME NEW n \in Name, NEW i \in 1 .. Len(C[n]), Len(C[n]) - i = k + 1
               PROVE  from[C[n][i]] = SubSeq(C[n], i, Len(C[n]))
    BY <2>0, Zenon
  <2>1. i # Len(C[n]) /\ i + 1 \in 1 .. Len(C[n]) /\ Len(C[n]) - (i + 1) = k
    BY <1>2, SeqSorts
  <2>2. from[C[n][i + 1]] = SubSeq(C[n], i + 1, Len(C[n]))
    BY <1>4, <2>1
  <2>3. SubSeq(C[n], i, Len(C[n])) = <<C[n][i]>> \o SubSeq(C[n], i + 1, Len(C[n]))
    BY <1>2, <2>1, RestIs
  <2>4. from[C[n][i]] = <<C[n][i]>> \o from[C[n][i + 1]]
    BY <1>2, <2>1
  <2> QED BY <2>2, <2>3, <2>4
<1>5. Nat \subseteq P
  <2> HIDE DEF P
  <2> QED BY <1>3, <1>4, CountsUp
<1> QED
  <2> SUFFICES ASSUME NEW n \in Name, NEW i \in 1 .. Len(C[n])
               PROVE  from[C[n][i]] = SubSeq(C[n], i, Len(C[n]))
    OBVIOUS
  <2>1. Len(C[n]) - i \in Nat
    BY <1>2, SeqSorts
  <2> QED BY <1>5, <2>1

LEMMA ChainsAre ==
  ASSUME NEW C, Chained(C, disk, entry)
  PROVE  \A n \in Name : \A i \in 1 .. Len(C[n]) : ChainFrom[C[n][i]] = SubSeq(C[n], i, Len(C[n]))
<1>1. ChainFrom = CHOOSE f : Follows(f, disk)
  BY Zenon DEF ChainFrom, Follows
<1> QED BY <1>1, ChainsOf

LEMMA NextChainsAre ==
  ASSUME NEW C, Chained(C, disk', entry')
  PROVE  \A n \in Name : \A i \in 1 .. Len(C[n]) : ChainFrom'[C[n][i]] = SubSeq(C[n], i, Len(C[n]))
<1>1. ChainFrom' = CHOOSE f : Follows(f, disk')
  BY Zenon DEF ChainFrom, Follows
<1> QED BY <1>1, ChainsOf

(* A file's chain, and the blocks it would grow by.                          *)
On(C, n) == C[n] \o Free

LEMMA OnIs ==
  ASSUME NEW C, Chained(C, disk, entry), NEW n \in Name
  PROVE  /\ C[n] \in BlockSeqs /\ On(C, n) \in BlockSeqs
         /\ Len(On(C, n)) = Len(C[n]) + Len(Free)
         /\ \A i \in 1 .. Len(C[n]) : On(C, n)[i] = C[n][i]
         /\ \A i \in 1 .. Len(On(C, n)) :
              i > Len(C[n]) => On(C, n)[i] = Free[i - Len(C[n])] /\ On(C, n)[i] \notin DOMAIN disk
         /\ \A i, j \in 1 .. Len(On(C, n)) : On(C, n)[i] = On(C, n)[j] => i = j
         /\ \A m \in Name \ {n}, i \in 1 .. Len(On(C, n)) : \A j \in 1 .. Len(C[m]) :
              On(C, n)[i] # C[m][j]
<1>1. PICK s \in BlockSeqs : s = C[n]
  BY DEF Chained
<1>2. PICK g : g = s \o Free
  OBVIOUS
<1>3. Len(s) \in Nat /\ Len(Free) \in Nat /\ Free \in BlockSeqs
  BY FreeIs, SeqSorts
<1>4. /\ g \in BlockSeqs /\ Len(g) = Len(s) + Len(Free)
      /\ \A i \in 1 .. Len(s) + Len(Free) : g[i] = IF i <= Len(s) THEN s[i] ELSE Free[i - Len(s)]
  BY <1>2, <1>3, ConcatProperties DEF BlockSeqs
<1>5. ASSUME NEW i \in 1 .. Len(g), i > Len(s)
      PROVE  /\ i - Len(s) \in 1 .. Len(Free)
             /\ g[i] = Free[i - Len(s)] /\ g[i] \notin DOMAIN disk
  <2>1. i - Len(s) \in 1 .. Len(Free)
    BY <1>3, <1>4, <1>5
  <2>2. g[i] = Free[i - Len(s)]
    BY <1>3, <1>4, <1>5
  <2> QED BY <2>1, <2>2, FreeIs
<1>6. \A i \in 1 .. Len(g) : i <= Len(s) => i \in 1 .. Len(s) /\ g[i] = s[i]
  BY <1>3, <1>4
<1>7. ASSUME NEW m \in Name, NEW j \in 1 .. Len(C[m]) PROVE C[m][j] \in DOMAIN disk
  BY DEF Chained, Linked
<1>8. ASSUME NEW i \in 1 .. Len(g), NEW j \in 1 .. Len(g), g[i] = g[j] PROVE i = j
  <2>1. CASE i <= Len(s) /\ j <= Len(s)
    BY <1>1, <1>6, <1>8, <2>1 DEF Chained, Apart
  <2>2. CASE i > Len(s) /\ j > Len(s)
    <3>1. PICK x \in 1 .. Len(Free), y \in 1 .. Len(Free) :
            x = i - Len(s) /\ y = j - Len(s) /\ Free[x] = Free[y]
      BY SMTT(40), <1>5, <1>8, <2>2
    <3>2. x = y
      BY <3>1, FreeIs
    <3> QED BY <1>3, <1>4, <3>1, <3>2
  <2>3. CASE i <= Len(s) /\ j > Len(s)
    BY <1>1, <1>5, <1>6, <1>7, <1>8, <2>3
  <2>4. CASE i > Len(s) /\ j <= Len(s)
    BY <1>1, <1>5, <1>6, <1>7, <1>8, <2>4
  <2>5. i \in Nat /\ j \in Nat
    BY <1>4
  <2> QED BY <1>3, <2>1, <2>2, <2>3, <2>4, <2>5
<1>9. ASSUME NEW m \in Name \ {n}, NEW i \in 1 .. Len(g), NEW j \in 1 .. Len(C[m])
      PROVE  g[i] # C[m][j]
  <2>1. CASE i <= Len(s)
    BY <1>1, <1>6, <2>1 DEF Chained, Apart
  <2>2. CASE i > Len(s)
    BY <1>5, <1>7, <2>2
  <2> QED BY <1>3, <1>4, <2>1, <2>2
<1>10. On(C, n) = g
  BY <1>1, <1>2 DEF On
<1>11. \A i \in 1 .. Len(s) : i \in 1 .. Len(g) /\ i <= Len(s)
  BY <1>3, <1>4
<1> QED BY <1>1, <1>4, <1>5, <1>6, <1>8, <1>9, <1>10, <1>11

(* What every call does to a file: its chain becomes the first q of its      *)
(* blocks and the free ones, and no other chain is touched.                  *)
Relinks(C, n, q, d, e) ==
  /\ DOMAIN d = (DOMAIN disk \ Range(C[n])) \cup {On(C, n)[i] : i \in 1 .. q}
  /\ \A i \in 1 .. q : d[On(C, n)[i]].next = IF i = q THEN 0 ELSE On(C, n)[i + 1]
  /\ \A a \in DOMAIN disk \ Range(C[n]) : d[a].next = disk[a].next
  /\ StartsAt(SubSeq(On(C, n), 1, q), e[n])
  /\ \A m \in Name \ {n} : e[m] = entry[m]

Cut(C, n, q) == [C EXCEPT ![n] = SubSeq(On(C, n), 1, q)]

LEMMA CutIs ==
  ASSUME NEW C, Chained(C, disk, entry), NEW n \in Name, NEW q \in 0 .. Len(On(C, n))
  PROVE  /\ Cut(C, n, q) \in [Name -> BlockSeqs]
         /\ Len(Cut(C, n, q)[n]) = q
         /\ \A i \in 1 .. q : Cut(C, n, q)[n][i] = On(C, n)[i] /\ i \in 1 .. Len(On(C, n))
         /\ Cut(C, n, q)[n] = SubSeq(On(C, n), 1, q)
         /\ \A m \in Name \ {n} : Cut(C, n, q)[m] = C[m]
<1>1. PICK g \in BlockSeqs : g = On(C, n)
  BY OnIs
<1>2. PICK t \in BlockSeqs : t = SubSeq(g, 1, q) /\ Len(t) = q /\ \A i \in 1 .. q : t[i] = g[i]
  <2>1. Len(g) \in Nat /\ q \in Nat /\ q <= Len(g)
    BY <1>1, SeqSorts
  <2>2. SubSeq(g, 1, q) \in BlockSeqs
    BY <1>1, <2>1 DEF BlockSeqs
  <2>3. Len(SubSeq(g, 1, q)) = q
    BY <2>1 DEF BlockSeqs
  <2>4. \A i \in 1 .. q : SubSeq(g, 1, q)[i] = g[i]
    BY <2>1 DEF BlockSeqs
  <2> QED BY <2>2, <2>3, <2>4
<1>3. C \in [Name -> BlockSeqs]
  BY DEF Chained
<1>4. Cut(C, n, q) = [C EXCEPT ![n] = t]
  BY <1>1, <1>2 DEF Cut
<1>5. \A i \in 1 .. q : i \in 1 .. Len(g)
  BY <1>1, SeqSorts
<1> QED BY <1>1, <1>2, <1>3, <1>4, <1>5

LEMMA Relinked ==
  ASSUME NEW C, Chained(C, disk, entry), NEW n \in Name, NEW q \in 0 .. Len(On(C, n)),
         NEW d, NEW e, Relinks(C, n, q, d, e)
  PROVE  Chained(Cut(C, n, q), d, e)
<1> DEFINE g == On(C, n)
<1>1. PICK D : D = Cut(C, n, q)
  OBVIOUS
<1>2. /\ D \in [Name -> BlockSeqs] /\ Len(D[n]) = q
      /\ \A i \in 1 .. q : D[n][i] = g[i] /\ i \in 1 .. Len(g)
      /\ D[n] = SubSeq(g, 1, q)
      /\ \A m \in Name \ {n} : D[m] = C[m]
  BY <1>1, CutIs
<1>3. /\ C[n] \in BlockSeqs
      /\ \A i \in 1 .. Len(C[n]) : g[i] = C[n][i]
      /\ \A i, j \in 1 .. Len(g) : g[i] = g[j] => i = j
      /\ \A m \in Name \ {n}, i \in 1 .. Len(g) : \A j \in 1 .. Len(C[m]) : g[i] # C[m][j]
  BY OnIs
<1>4. Range(C[n]) = {C[n][i] : i \in 1 .. Len(C[n])}
  BY <1>3, SeqSorts DEF Range
<1>5. ASSUME NEW m \in Name \ {n}, NEW i \in 1 .. Len(C[m])
      PROVE  C[m][i] \in DOMAIN disk \ Range(C[n])
  BY <1>4 DEF Chained, Linked, Apart
<1> HIDE DEF g
<1>6. /\ DOMAIN d = (DOMAIN disk \ Range(C[n])) \cup {g[i] : i \in 1 .. q}
      /\ \A i \in 1 .. q : d[g[i]].next = IF i = q THEN 0 ELSE g[i + 1]
      /\ \A a \in DOMAIN disk \ Range(C[n]) : d[a].next = disk[a].next
      /\ StartsAt(SubSeq(g, 1, q), e[n])
      /\ \A m \in Name \ {n} : e[m] = entry[m]
  BY DEF Relinks, g
<1>7. ASSUME NEW m \in Name PROVE StartsAt(D[m], e[m]) /\ Linked(D[m], d)
  <2>1. CASE m = n
    <3>1. StartsAt(D[n], e[n])
      BY <1>2, <1>6
    <3>2. Linked(D[n], d)
      <4> SUFFICES ASSUME NEW i \in 1 .. q
                   PROVE  /\ D[n][i] \in DOMAIN d
                          /\ d[D[n][i]].next = IF i = q THEN 0 ELSE D[n][i + 1]
        BY <1>2 DEF Linked
      <4>1. i # q => i + 1 \in 1 .. q
        OBVIOUS
      <4> QED BY <1>2, <1>6, <4>1
    <3> QED BY <2>1, <3>1, <3>2
  <2>2. CASE m # n
    <3>1. D[m] = C[m] /\ e[m] = entry[m]
      BY <1>2, <1>6, <2>2
    <3>2. StartsAt(C[m], entry[m]) /\ Linked(C[m], disk)
      BY DEF Chained
    <3>3. Linked(C[m], d)
      BY <1>5, <1>6, <2>2, <3>2 DEF Linked
    <3> QED BY <3>1, <3>2, <3>3
  <2> QED BY <2>1, <2>2
<1>8. Apart(D)
  <2> SUFFICES ASSUME NEW k \in Name, NEW m \in Name,
                      NEW i \in 1 .. Len(D[k]), NEW j \in 1 .. Len(D[m]), D[k][i] = D[m][j]
               PROVE  k = m /\ i = j
    BY DEF Apart
  <2>1. CASE k = n /\ m = n
    BY <1>2, <1>3, <2>1
  <2>2. CASE k = n /\ m # n
    BY <1>2, <1>3, <2>2
  <2>3. CASE k # n /\ m = n
    BY <1>2, <1>3, <2>3
  <2>4. CASE k # n /\ m # n
    BY <1>2, <2>4 DEF Chained, Apart
  <2> QED BY <2>1, <2>2, <2>3, <2>4
<1>9. Covered(D, d)
  <2> SUFFICES ASSUME NEW a \in DOMAIN d
               PROVE  \E m \in Name : \E i \in 1 .. Len(D[m]) : a = D[m][i]
    BY DEF Covered
  <2>1. CASE a \in DOMAIN disk \ Range(C[n])
    <3>1. PICK m \in Name : \E i \in 1 .. Len(C[m]) : a = C[m][i]
      BY <2>1 DEF Chained, Covered
    <3>2. m # n
      BY <1>4, <2>1, <3>1
    <3> QED BY <1>2, <3>1, <3>2
  <2>2. CASE \E i \in 1 .. q : a = g[i]
    <3>1. PICK i \in 1 .. q : a = g[i]
      BY <2>2
    <3>2. i \in 1 .. Len(D[n]) /\ a = D[n][i]
      BY <1>2, <3>1
    <3> QED BY <3>2
  <2> QED BY <1>6, <2>1, <2>2
<1>10. Chained(D, d, e)
  BY <1>2, <1>7, <1>8, <1>9 DEF Chained
<1> QED BY <1>1, <1>10

(***************************************************************************)
(* Handles                                                                 *)
(***************************************************************************)

Data == [1 .. Capacity -> Byte \cup {Blank}]

DiskOK(d) == \A a \in DOMAIN d : d[a] \in [next : Blocks \cup {0}, data : Data]

EntryOf == [addr : Blocks, size : Nat]

(* A handle resumes from place p of the chain s of its file, at an index that*)
(* is not past it, and the blocks from there on reach its cursor and the end *)
(* of the file by that index.                                                *)
AtPlace(s, f, p) ==
  /\ p \in 1 .. Len(s) /\ s[p] = f.resume_addr
  /\ f.resume_index <= p - 1
  /\ f.cursor <= (f.resume_index + (Len(s) - p + 1)) * Capacity
  /\ f.size <= (f.resume_index + (Len(s) - p + 1)) * Capacity

Held(s, e, f) ==
  /\ f \in File
  /\ e # NoFile /\ e.addr = f.addr /\ e.size = f.size
  /\ \E p \in 1 .. Len(s) : AtPlace(s, f, p)

(* A program has its file to itself.                                         *)
Alone(hd) ==
  \A g, h \in Handle : hd[g] # Closed /\ hd[h] # Closed /\ hd[g].name = hd[h].name => g = h

FilesHeld(C, e, hd) ==
  /\ e \in [Name -> EntryOf \cup {NoFile}]
  /\ hd \in [Handle -> File \cup {Closed}]
  /\ \A n \in Name : e[n] # NoFile => e[n].size <= Len(C[n]) * Capacity
  /\ \A h \in Handle : hd[h] # Closed => Held(C[hd[h].name], e[hd[h].name], hd[h])
  /\ Alone(hd)

FileInv ==
  /\ DiskOK(disk)
  /\ \E C : Chained(C, disk, entry) /\ FilesHeld(C, entry, handle)

(* With room for every write, the index is that of the place, and a chain is *)
(* as long as the size takes.                                                *)
InBlocks(size) == IF size = 0 THEN 1 ELSE (size + Capacity - 1) \div Capacity

ExactAt(s, f) ==
  /\ f.resume_index + 1 <= Len(s) /\ s[f.resume_index + 1] = f.resume_addr
  /\ f.cursor <= f.size

Exact(C, e, hd) ==
  /\ \A n \in Name : e[n] # NoFile => Len(C[n]) = InBlocks(e[n].size)
  /\ \A h \in Handle : hd[h] # Closed => ExactAt(C[hd[h].name], hd[h])

(* Of one handle: what a read through it rests on is ExactAt; a write at the *)
(* end of its file also rests on the length of its chain.                    *)
Truly(s, f) ==
  ExactAt(s, f) /\ (f.cursor = f.size /\ f.size # 0 => Len(s) = InBlocks(f.size))

RoomInv ==
  /\ DiskOK(disk)
  /\ \E C : Chained(C, disk, entry) /\ FilesHeld(C, entry, handle) /\ Exact(C, entry, handle)

(* Where a read or a write begins: at place p of the chain s, taken for its  *)
(* o-th block.                                                               *)
Begins(s, f, p, o) ==
  /\ o \in Nat /\ o <= p - 1
  /\ o * Capacity <= f.cursor
  /\ f.cursor <= (o + (Len(s) - p + 1)) * Capacity
  /\ f.size <= (o + (Len(s) - p + 1)) * Capacity

LEMMA ResumesAt ==
  ASSUME NEW C, Chained(C, disk, entry), FilesHeld(C, entry, handle),
         NEW h \in Handle, handle[h] # Closed
  PROVE  LET f == handle[h]
             s == C[f.name]
         IN  \E p \in 1 .. Len(s), o \in Nat :
               /\ Begins(s, f, p, o) /\ (ExactAt(s, f) => o = p - 1)
               /\ (AtPlace(s, f, p) /\ o = f.resume_index) \/ (p = 1 /\ o = 0)
               /\ Resume(f).addr = s[p] /\ Resume(f).offset = o * Capacity
               /\ ChainFrom[s[p]] = SubSeq(s, p, Len(s))
<1>1. PICK f \in File : f = handle[h]
  BY DEF FilesHeld
<1>2. f.name \in Name
  BY DEF File
<1>3. PICK s \in BlockSeqs : s = C[f.name]
  BY <1>2 DEF Chained
<1>4. /\ entry[f.name] # NoFile /\ entry[f.name].addr = f.addr
      /\ \E p \in 1 .. Len(s) : AtPlace(s, f, p)
  BY <1>1, <1>3 DEF FilesHeld, Held
<1>5. PICK p \in 1 .. Len(s) : AtPlace(s, f, p)
  BY <1>4
<1>6. PICK l \in Nat, i \in Nat, c \in Nat, z \in Nat :
        l = Len(s) /\ i = f.resume_index /\ c = f.cursor /\ z = f.size
  BY <1>3, SeqSorts DEF File
<1>7. /\ p \in 1 .. l /\ s[p] = f.resume_addr /\ i <= p - 1
      /\ c <= (i + (l - p + 1)) * Capacity /\ z <= (i + (l - p + 1)) * Capacity
  BY <1>5, <1>6 DEF AtPlace
<1>8. \A k \in 1 .. Len(s) : ChainFrom[s[k]] = SubSeq(s, k, Len(s))
  BY <1>2, <1>3, ChainsAre
<1>9. Capacity \in Nat \ {0}
  BY FileAssumption
<1>10. CASE c >= i * Capacity
  <2>1. ExactAt(s, f) => i = p - 1
    <3>1. SUFFICES ASSUME ExactAt(s, f) PROVE i = p - 1
      OBVIOUS
    <3>2. i + 1 \in 1 .. Len(s) /\ s[i + 1] = s[p]
      BY <1>6, <1>7, <3>1 DEF ExactAt
    <3>3. i + 1 = p
      BY <1>2, <1>3, <3>2 DEF Chained, Apart
    <3> QED BY <1>6, <1>7, <3>3
  <2>2. Begins(s, f, p, i)
    <3>1. i * Capacity <= c
      BY <1>6, <1>9, <1>10
    <3> QED BY <1>6, <1>7, <3>1 DEF Begins
  <2>3. Resume(f) = [addr |-> f.resume_addr, offset |-> i * Capacity]
    BY <1>6, <1>10 DEF Resume
  <2>4. Resume(f).addr = s[p] /\ Resume(f).offset = i * Capacity
    BY <1>7, <2>3
  <2>5. p \in 1 .. Len(s) /\ ChainFrom[s[p]] = SubSeq(s, p, Len(s))
        /\ AtPlace(s, f, p) /\ i = f.resume_index
    BY <1>5, <1>6, <1>7, <1>8
  <2> QED BY <1>1, <1>3, <1>6, <2>1, <2>2, <2>4, <2>5
<1>11. CASE ~ (c >= i * Capacity)
  <2>1. 1 \in 1 .. Len(s)
    BY <1>6, <1>7
  <2>2. s[1] = f.addr
    BY <1>2, <1>3, <1>4 DEF Chained, StartsAt
  <2>3. Resume(f) = [addr |-> f.addr, offset |-> 0]
    BY <1>6, <1>11 DEF Resume
  <2>4. 0 * Capacity = 0
    BY <1>9
  <2>5. i * Capacity <= l * Capacity
    <3>1. i <= l
      BY <1>6, <1>7
    <3> QED BY <1>6, <1>9, <3>1, Scales
  <2>6. (i + (l - p + 1)) * Capacity <= l * Capacity
    <3>1. i + (l - p + 1) <= l /\ i + (l - p + 1) \in Int
      BY <1>6, <1>7
    <3> QED BY <1>6, <1>9, <3>1, Scales
  <2>7. PICK x \in Nat, y \in Nat, t \in Nat :
          x = i * Capacity /\ y = l * Capacity /\ t = (i + (l - p + 1)) * Capacity
    <3>1. i + (l - p + 1) \in Nat
      BY <1>6, <1>7
    <3>2. i \in Nat /\ l \in Nat /\ Capacity \in Nat
      BY <1>6, <1>9
    <3>3. /\ i * Capacity \in Nat /\ l * Capacity \in Nat
          /\ (i + (l - p + 1)) * Capacity \in Nat
      BY <3>1, <3>2, Multiplies
    <3> QED BY <3>3
  <2>8. c <= y /\ z <= y
    BY <1>6, <1>7, <1>11, <2>5, <2>6, <2>7
  <2>9. 0 + (l - 1 + 1) = l
    BY <1>6
  <2>10. Begins(s, f, 1, 0)
    BY <1>6, <2>4, <2>7, <2>8, <2>9 DEF Begins
  <2>11. ExactAt(s, f) => 0 = 1 - 1
    OBVIOUS
  <2>12. Resume(f).addr = s[1] /\ Resume(f).offset = 0 * Capacity
    BY <2>2, <2>3, <2>4
  <2>13. ChainFrom[s[1]] = SubSeq(s, 1, Len(s)) /\ 0 \in Nat
    BY <1>8, <2>1
  <2> QED BY <1>1, <1>3, <2>1, <2>10, <2>11, <2>12, <2>13
<1> QED BY <1>10, <1>11

(* How File::write begins: with the blocks of the chain from place p on, or  *)
(* with a free block as the next one of the chain.                           *)
LEMMA WriteStartsAt ==
  ASSUME NEW C, Chained(C, disk, entry), FilesHeld(C, entry, handle),
         NEW h \in Handle, handle[h] # Closed
  PROVE  LET f == handle[h]
             s == C[f.name]
             w == WriteStart(f)
         IN  \E p \in 1 .. Len(s) + 1, o \in Nat :
               /\ Begins(s, f, p, o)
               /\ Truly(s, f) => o = p - 1
               /\ w.offset = o * Capacity
               /\ \/ w.new = 0 /\ p <= Len(s) /\ w.blocks = SubSeq(s, p, Len(s))
                  \/ /\ w.new = 1 /\ p = Len(s) + 1
                     /\ w.blocks = IF Free = <<>> THEN <<>> ELSE <<Head(Free)>>
                     /\ Last(ChainFrom[Resume(f).addr]) = s[Len(s)]
<1>1. PICK f \in File : f = handle[h]
  BY DEF FilesHeld
<1>2. f.name \in Name
  BY DEF File
<1>3. PICK s \in BlockSeqs : s = C[f.name]
  BY <1>2 DEF Chained
<1>4. PICK p \in 1 .. Len(s), o \in Nat :
        /\ Begins(s, f, p, o) /\ (ExactAt(s, f) => o = p - 1)
        /\ Resume(f).addr = s[p] /\ Resume(f).offset = o * Capacity
        /\ ChainFrom[s[p]] = SubSeq(s, p, Len(s))
  BY <1>1, <1>3, ResumesAt
<1>5. PICK l \in Nat \ {0}, c \in Nat, z \in Nat : l = Len(s) /\ c = f.cursor /\ z = f.size
  <2>1. Len(s) # 0
    BY <1>4
  <2> QED BY <1>3, <2>1, SeqSorts DEF File
<1>6. Capacity \in Nat \ {0}
  BY FileAssumption
<1>7. CASE c # z \/ z = 0
  <2>1. WriteStart(f) = [blocks |-> SubSeq(s, p, Len(s)), offset |-> o * Capacity, new |-> 0]
    BY <1>4, <1>5, <1>7 DEF WriteStart
  <2>2. p \in 1 .. Len(s) + 1 /\ p <= Len(s)
    BY <1>5
  <2>3. PICK w : w = WriteStart(f)
    OBVIOUS
  <2>4. w.offset = o * Capacity /\ w.new = 0 /\ w.blocks = SubSeq(s, p, Len(s))
    BY <2>1, <2>3
  <2>5. Truly(s, f) => o = p - 1
    BY <1>4 DEF Truly
  <2> QED BY <1>1, <1>3, <1>4, <2>2, <2>3, <2>4, <2>5
<1>8. CASE c = z /\ z # 0
  <2>1. z <= l * Capacity
    <3>1. entry[f.name] # NoFile /\ entry[f.name].size = f.size
      BY <1>1, <1>3 DEF FilesHeld, Held
    <3> QED BY <1>2, <1>3, <1>5, <3>1 DEF FilesHeld
  <2>2. PICK q \in Nat : /\ q = z \div Capacity /\ q * Capacity <= z /\ z < q * Capacity + Capacity
                         /\ (z % Capacity = 0 <=> q * Capacity = z)
    BY <1>6, Divides, DividesEvenly
  <2>3. PICK x \in Nat, y \in Nat : x = q * Capacity /\ y = l * Capacity
    BY <1>6
  <2>4. (q + 1) * Capacity = x + Capacity /\ (l + 1) * Capacity = y + Capacity
    BY <1>6, <2>3
  <2>5. l = InBlocks(z) => z <= y /\ (l - 1) * Capacity < z
    <3>1. InBlocks(z) = (z + Capacity - 1) \div Capacity
      BY <1>8 DEF InBlocks
    <3>2. PICK m \in Nat : m = (z + Capacity - 1) \div Capacity /\ (m - 1) * Capacity < z
      BY <1>6, <1>8, RoundsUp
    <3> QED BY <2>1, <2>3, <3>1, <3>2
  <2>6. CASE ~ EndsFull(f)
    <3>1. x # z /\ x < z
      BY <1>5, <2>2, <2>3, <2>6 DEF EndsFull
    <3>2. q < l
      BY <1>6, <2>1, <2>3, <3>1, Below
    <3>3. l = InBlocks(z) => q = l - 1
      <4>1. SUFFICES ASSUME l = InBlocks(z) PROVE l - 1 < q + 1
        BY <3>2
      <4>2. (l - 1) * Capacity < (q + 1) * Capacity
        <5>1. PICK t \in Int : t = (l - 1) * Capacity
          BY <1>6
        <5>2. t < z /\ z < x + Capacity
          BY <2>2, <2>3, <2>5, <4>1, <5>1
        <5>3. t < x + Capacity
          BY <1>6, <5>1, <5>2
        <5> QED BY <2>4, <5>1, <5>3
      <4> QED BY <1>6, <4>2, Below
    <3>4. Begins(s, f, l, q)
      <4>1. q + (l - l + 1) = q + 1
        OBVIOUS
      <4>2. z <= x + Capacity /\ q <= l - 1
        BY <1>6, <2>2, <2>3, <3>2
      <4>3. q * Capacity <= f.cursor
        BY <1>5, <1>8, <2>2
      <4>4. /\ f.cursor <= (q + (l - l + 1)) * Capacity
            /\ f.size <= (q + (l - l + 1)) * Capacity
        BY <1>5, <1>8, <2>4, <4>1, <4>2
      <4> QED BY <1>5, <4>2, <4>3, <4>4 DEF Begins
    <3>5. Last(SubSeq(s, p, Len(s))) = s[Len(s)]
      <4>1. Len(SubSeq(s, p, Len(s))) = Len(s) - p + 1
        BY <1>5 DEF BlockSeqs
      <4> QED BY <1>5, <4>1 DEF BlockSeqs, Last
    <3>6. SubSeq(s, l, Len(s)) = <<s[Len(s)]>>
      <4>1. Len(s) \in 1 .. Len(s)
        BY <1>5
      <4>2. SubSeq(s, Len(s), Len(s)) = <<s[Len(s)]>>
        BY <4>1, RestIs
      <4> QED BY <1>5, <4>2
    <3>7. WriteStart(f) = [blocks |-> SubSeq(s, l, Len(s)), offset |-> q * Capacity, new |-> 0]
      BY <1>4, <1>5, <1>8, <2>2, <2>6, <3>5, <3>6 DEF WriteStart
    <3>8. PICK w : w = WriteStart(f)
      OBVIOUS
    <3>9. w.offset = q * Capacity /\ w.new = 0 /\ w.blocks = SubSeq(s, l, Len(s))
      BY <3>7, <3>8
    <3>10. l \in 1 .. Len(s) + 1 /\ l <= Len(s)
      BY <1>5
    <3>11. Truly(s, f) => q = l - 1
      BY <1>5, <1>8, <3>3 DEF Truly
    <3> QED BY <1>1, <1>3, <3>4, <3>8, <3>9, <3>10, <3>11
  <2>7. CASE EndsFull(f)
    <3>1. x = z
      BY <1>5, <2>2, <2>3, <2>7 DEF EndsFull
    <3>2. q <= l
      <4>1. x < y + Capacity
        BY <1>6, <2>1, <2>3, <3>1
      <4>2. q * Capacity < (l + 1) * Capacity
        BY <2>3, <2>4, <4>1
      <4>3. q < l + 1
        BY <1>6, <4>2, Below
      <4> QED BY <4>3
    <3>3. l = InBlocks(z) => q = l
      <4>1. SUFFICES ASSUME l = InBlocks(z) PROVE l - 1 < q
        BY <3>2
      <4>2. (l - 1) * Capacity < q * Capacity
        BY <2>3, <2>5, <3>1, <4>1
      <4> QED BY <1>6, <4>2, Below
    <3>4. Begins(s, f, l + 1, q)
      <4>1. q + (l - (l + 1) + 1) = q
        OBVIOUS
      <4>2. q <= (l + 1) - 1
        BY <3>2
      <4>3. f.cursor = q * Capacity /\ f.size = q * Capacity
        BY <1>5, <1>8, <2>3, <3>1
      <4>4. q * Capacity <= q * Capacity
        BY <2>3
      <4> QED BY <1>5, <4>1, <4>2, <4>3, <4>4 DEF Begins
    <3>5. Last(ChainFrom[Resume(f).addr]) = s[Len(s)]
      <4>1. Len(SubSeq(s, p, Len(s))) = Len(s) - p + 1
        BY <1>5 DEF BlockSeqs
      <4> QED BY <1>4, <1>5, <4>1 DEF BlockSeqs, Last
    <3>6. WriteStart(f) = [blocks |-> IF Free = <<>> THEN <<>> ELSE <<Head(Free)>>,
                           offset |-> z, new |-> 1]
      BY <1>5, <1>8, <2>7 DEF WriteStart
    <3>7. PICK w : w = WriteStart(f)
      OBVIOUS
    <3>8. /\ w.offset = q * Capacity /\ w.new = 1
          /\ w.blocks = IF Free = <<>> THEN <<>> ELSE <<Head(Free)>>
      BY <2>3, <3>1, <3>6, <3>7
    <3>9. l + 1 \in 1 .. Len(s) + 1 /\ l + 1 = Len(s) + 1
      BY <1>5
    <3>10. Truly(s, f) => q = (l + 1) - 1
      BY <1>5, <1>8, <3>3 DEF Truly
    <3> QED BY <1>1, <1>3, <3>4, <3>5, <3>7, <3>8, <3>9, <3>10
  <2> QED BY <2>6, <2>7
<1> QED BY <1>5, <1>7, <1>8

(* Part of a sequence, and part of it again.                                 *)
LEMMA PartIs ==
  ASSUME NEW s \in BlockSeqs, NEW i \in Nat \ {0}, NEW j \in Nat, j <= Len(s)
  PROVE  /\ SubSeq(s, i, j) \in BlockSeqs
         /\ Len(SubSeq(s, i, j)) = IF i <= j THEN j - i + 1 ELSE 0
         /\ \A k \in 1 .. Len(SubSeq(s, i, j)) : SubSeq(s, i, j)[k] = s[i + k - 1] /\ i + k - 1 \in i .. j
<1>1. s \in Seq(Blocks) /\ Len(s) \in Nat
  BY DEF BlockSeqs
<1>2. \A k \in i .. j : s[k] \in Blocks
  BY <1>1
<1>3. SubSeq(s, i, j) \in Seq(Blocks) /\ Len(SubSeq(s, i, j)) = IF i <= j THEN j - i + 1 ELSE 0
  BY <1>2, SubSeqProperties
<1>4. ASSUME NEW k \in 1 .. Len(SubSeq(s, i, j))
      PROVE  SubSeq(s, i, j)[k] = s[i + k - 1] /\ i + k - 1 \in i .. j
  <2>1. k \in 1 .. j - i + 1
    BY <1>3
  <2>2. SubSeq(s, i, j)[k] = s[i + k - 1]
    BY <2>1
  <2> QED BY <2>1, <2>2
<1> QED BY <1>3, <1>4 DEF BlockSeqs

(* The blocks a write has, and those it may yet get, are those of the chain  *)
(* and the free ones, from where it begins.                                  *)
HasBlocks(s, p, w) ==
  \/ w.new = 0 /\ p <= Len(s) /\ w.blocks = SubSeq(s, p, Len(s))
  \/ w.new = 1 /\ p = Len(s) + 1 /\ w.blocks = IF Free = <<>> THEN <<>> ELSE <<Head(Free)>>

LEMMA BlocksToCome ==
  ASSUME NEW C, Chained(C, disk, entry), NEW n \in Name, NEW p \in 1 .. Len(C[n]) + 1,
         NEW w, HasBlocks(C[n], p, w)
  PROVE  /\ w.blocks \in BlockSeqs
         /\ w.blocks \o SubSeq(Free, w.new + 1, Len(Free))
              = SubSeq(On(C, n), p, Len(On(C, n)))
<1>1. PICK s \in BlockSeqs, g \in BlockSeqs : s = C[n] /\ g = On(C, n)
  BY OnIs
<1>2. /\ Len(g) = Len(s) + Len(Free)
      /\ \A i \in 1 .. Len(s) : g[i] = s[i]
      /\ \A i \in 1 .. Len(g) : i > Len(s) => g[i] = Free[i - Len(s)]
  BY <1>1, OnIs
<1>3. Free \in BlockSeqs /\ Len(Free) \in Nat
  BY FreeIs
<1>4. PICK l \in Nat, N \in Nat : l = Len(s) /\ N = Len(Free) /\ Len(g) = l + N /\ p \in 1 .. l + 1
  BY <1>1, <1>2, <1>3, SeqSorts
<1>5. PICK r \in BlockSeqs : /\ r = SubSeq(g, p, Len(g)) /\ Len(r) = l + N - p + 1
                             /\ \A k \in 1 .. Len(r) : r[k] = g[p + k - 1]
  <2>1. /\ SubSeq(g, p, Len(g)) \in BlockSeqs
        /\ Len(SubSeq(g, p, Len(g))) = IF p <= Len(g) THEN Len(g) - p + 1 ELSE 0
        /\ \A k \in 1 .. Len(SubSeq(g, p, Len(g))) : SubSeq(g, p, Len(g))[k] = g[p + k - 1]
    <3>1. p \in Nat \ {0} /\ Len(g) \in Nat /\ Len(g) <= Len(g)
      BY <1>4
    <3> QED BY <3>1, PartIs
  <2>2. (IF p <= Len(g) THEN Len(g) - p + 1 ELSE 0) = l + N - p + 1
    BY <1>4
  <2> QED BY <2>1, <2>2
<1>6. CASE w.new = 0 /\ p <= l /\ w.blocks = SubSeq(s, p, Len(s))
  <2>1. PICK a \in BlockSeqs : /\ a = w.blocks /\ Len(a) = l - p + 1
                               /\ \A k \in 1 .. Len(a) : a[k] = s[p + k - 1] /\ p + k - 1 \in p .. l
    <3>1. p \in Nat \ {0} /\ l <= Len(s)
      BY <1>4
    <3>2. /\ SubSeq(s, p, l) \in BlockSeqs
          /\ Len(SubSeq(s, p, l)) = IF p <= l THEN l - p + 1 ELSE 0
          /\ \A k \in 1 .. Len(SubSeq(s, p, l)) :
               SubSeq(s, p, l)[k] = s[p + k - 1] /\ p + k - 1 \in p .. l
      BY <3>1, PartIs
    <3> QED BY <1>4, <1>6, <3>2
  <2>2. SubSeq(Free, w.new + 1, Len(Free)) = Free
    BY <1>3, <1>6, SubSeqFull DEF BlockSeqs
  <2>3. PICK b \in BlockSeqs :
          /\ b = a \o Free /\ Len(b) = Len(a) + N
          /\ \A k \in 1 .. Len(a) + N : b[k] = IF k <= Len(a) THEN a[k] ELSE Free[k - Len(a)]
    <3>1. a \in Seq(Blocks) /\ Free \in Seq(Blocks)
      BY <1>3 DEF BlockSeqs
    <3>2. /\ a \o Free \in Seq(Blocks) /\ Len(a \o Free) = Len(a) + Len(Free)
          /\ \A k \in 1 .. Len(a) + Len(Free) :
               (a \o Free)[k] = IF k <= Len(a) THEN a[k] ELSE Free[k - Len(a)]
      BY <3>1, ConcatProperties
    <3> QED BY <1>4, <3>2 DEF BlockSeqs
  <2>4. Len(b) = Len(r)
    BY <1>4, <1>5, <2>1, <2>3
  <2>5. ASSUME NEW k \in 1 .. Len(b) PROVE b[k] = r[k]
    <3>1. k \in Nat /\ k >= 1 /\ k <= l - p + 1 + N /\ r[k] = g[p + k - 1]
      BY <1>4, <1>5, <2>1, <2>3, <2>4
    <3>2. CASE k <= Len(a)
      <4>1. b[k] = a[k] /\ a[k] = s[p + k - 1] /\ p + k - 1 \in 1 .. l
        BY <1>4, <2>1, <2>3, <3>1, <3>2
      <4> QED BY <1>2, <1>4, <3>1, <4>1
    <3>3. CASE k > Len(a)
      <4>0. k \in 1 .. Len(a) + N /\ ~ (k <= Len(a))
        BY <1>4, <2>1, <2>3, <3>3
      <4>1. b[k] = Free[k - Len(a)]
        BY <2>3, <4>0
      <4>2. p + k - 1 \in 1 .. Len(g) /\ p + k - 1 > Len(s) /\ (p + k - 1) - Len(s) = k - Len(a)
        BY <1>4, <2>1, <3>1, <3>3
      <4> QED BY <1>2, <3>1, <4>1, <4>2
    <3> QED BY <1>4, <2>1, <3>1, <3>2, <3>3
  <2>6. b = r
    BY <2>4, <2>5, SeqEqual DEF BlockSeqs
  <2> QED BY <1>1, <1>5, <2>1, <2>2, <2>3, <2>6
<1>7. CASE w.new = 1 /\ p = l + 1 /\ w.blocks = IF Free = <<>> THEN <<>> ELSE <<Head(Free)>>
  <2>1. r = Free
    <3>1. Len(r) = Len(Free)
      BY <1>4, <1>5, <1>7
    <3>2. ASSUME NEW k \in 1 .. Len(r) PROVE r[k] = Free[k]
      <4>1. r[k] = g[p + k - 1] /\ k \in 1 .. N
        BY <1>4, <1>5, <3>1
      <4>2. p + k - 1 \in 1 .. Len(g) /\ p + k - 1 > Len(s) /\ (p + k - 1) - Len(s) = k
        BY <1>4, <1>7, <4>1
      <4> QED BY <1>2, <4>1, <4>2
    <3> QED BY <1>3, <3>1, <3>2, SeqEqual DEF BlockSeqs
  <2>2. w.blocks \in BlockSeqs /\ w.blocks \o SubSeq(Free, 2, Len(Free)) = Free
    <3>1. CASE Free = <<>>
      <4>1. w.blocks = <<>> /\ SubSeq(Free, 2, Len(Free)) = <<>> /\ <<>> \in Seq(Blocks)
        <5>1. Len(Free) = 0
          BY <3>1
        <5> QED BY <1>7, <3>1, <5>1, SubSeqEmpty
      <4> QED BY <3>1, <4>1, ConcatEmptySeq DEF BlockSeqs
    <3>2. CASE Free # <<>>
      <4>1. 1 \in 1 .. Len(Free)
        BY <1>3, <3>2, SeqSorts
      <4>2. SubSeq(Free, 1, Len(Free)) = Free
        BY <1>3, SubSeqFull DEF BlockSeqs
      <4>3. w.blocks = <<Free[1]>> /\ Free[1] \in Blocks
        BY <1>3, <1>7, <3>2, <4>1, SeqSorts DEF BlockSeqs
      <4>4. SubSeq(Free, 1, Len(Free)) = <<Free[1]>> \o SubSeq(Free, 1 + 1, Len(Free))
        <5>1. Len(Free) \in 1 .. Len(Free)
          BY <4>1
        <5> QED BY <1>3, <4>1, <5>1, SubSeqRecursiveFirst DEF BlockSeqs
      <4>5. <<Free[1]>> \in Seq(Blocks)
        BY <4>3
      <4> QED BY <4>2, <4>3, <4>4, <4>5 DEF BlockSeqs
    <3> QED BY <3>1, <3>2
  <2>3. w.new + 1 = 2
    BY <1>7
  <2> QED BY <1>1, <1>5, <2>1, <2>2, <2>3
<1> QED BY <1>1, <1>4, <1>6, <1>7 DEF HasBlocks

LEMMA FirstOf ==
  ASSUME NEW g \in BlockSeqs, NEW p \in 1 .. Len(g), NEW k \in 1 .. Len(g) - p + 1
  PROVE  SubSeq(SubSeq(g, p, Len(g)), 1, k) = SubSeq(g, p, p + k - 1)
<1>1. g \in Seq(Blocks) /\ Len(g) \in Nat /\ <<>> \in Seq(Blocks)
  BY DEF BlockSeqs
<1>2. Len(g) \in 1 .. Len(g) /\ 1 \in 1 .. Len(g) - p + 1
  BY <1>1
<1>3. SubSeq(SubSeq(g, p, Len(g)), 1, k) = SubSeq(g, p + 1 - 1, p + k - 1)
  BY <1>1, <1>2, SubSeqOfSubSeq
<1>4. p + 1 - 1 = p
  BY <1>1
<1> QED BY <1>3, <1>4

(* The blocks of a chain that a write of k blocks frees.                     *)
Beyond(s, q) == {s[j] : j \in q + 1 .. Len(s)}

LEMMA FreedAre ==
  ASSUME NEW s \in BlockSeqs, NEW p \in 1 .. Len(s) + 1, NEW w, HasBlocks(s, p, w),
         w.blocks \in BlockSeqs, NEW k \in Nat \ {0}
  PROVE  Range(SubSeq(w.blocks, k + 1, Len(w.blocks))) = Beyond(s, p + k - 1)
<1>1. PICK b \in BlockSeqs, l \in Nat : b = w.blocks /\ l = Len(s) /\ p \in 1 .. l + 1
  BY SeqSorts
<1>2. PICK r \in BlockSeqs : /\ r = SubSeq(b, k + 1, Len(b))
                             /\ Len(r) = IF k + 1 <= Len(b) THEN Len(b) - (k + 1) + 1 ELSE 0
                             /\ \A i \in 1 .. Len(r) : r[i] = b[(k + 1) + i - 1]
  <2>1. k + 1 \in Nat \ {0} /\ Len(b) \in Nat /\ Len(b) <= Len(b)
    BY <1>1, SeqSorts
  <2>2. /\ SubSeq(b, k + 1, Len(b)) \in BlockSeqs
        /\ Len(SubSeq(b, k + 1, Len(b))) = IF k + 1 <= Len(b) THEN Len(b) - (k + 1) + 1 ELSE 0
        /\ \A i \in 1 .. Len(SubSeq(b, k + 1, Len(b))) :
             SubSeq(b, k + 1, Len(b))[i] = b[(k + 1) + i - 1]
    BY <2>1, PartIs
  <2> QED BY <2>2
<1>3. Range(r) = {r[i] : i \in 1 .. Len(r)}
  BY <1>2, SeqSorts DEF Range
<1>4. CASE w.new = 0 /\ p <= Len(s) /\ w.blocks = SubSeq(s, p, Len(s))
  <2>1. Len(b) = l - p + 1 /\ \A i \in 1 .. Len(b) : b[i] = s[p + i - 1]
    <3>1. p \in Nat \ {0} /\ l <= Len(s)
      BY <1>1
    <3>2. /\ Len(SubSeq(s, p, l)) = IF p <= l THEN l - p + 1 ELSE 0
          /\ \A i \in 1 .. Len(SubSeq(s, p, l)) : SubSeq(s, p, l)[i] = s[p + i - 1]
      BY <1>1, <3>1, PartIs
    <3> QED BY <1>1, <1>4, <3>2
  <2>2. ASSUME NEW i \in 1 .. Len(r)
        PROVE  (p + k - 1) + i \in (p + k - 1) + 1 .. l /\ r[i] = s[(p + k - 1) + i]
    <3>1. i \in Nat /\ i >= 1 /\ i <= l - p + 1 - k /\ r[i] = b[(k + 1) + i - 1]
      <4>1. i \in Nat /\ i >= 1 /\ i <= Len(r) /\ r[i] = b[(k + 1) + i - 1]
        BY SMTT(40), <1>2, SeqSorts
      <4>2. Len(r) = l - p + 1 - k
        BY <1>1, <1>2, <2>1, <4>1
      <4> QED BY <4>1, <4>2
    <3>2. (k + 1) + i - 1 \in 1 .. Len(b) /\ p + ((k + 1) + i - 1) - 1 = (p + k - 1) + i
      BY <1>1, <2>1, <3>1
    <3>3. b[(k + 1) + i - 1] = s[p + ((k + 1) + i - 1) - 1]
      BY <2>1, <3>2
    <3> QED BY <1>1, <3>1, <3>2, <3>3
  <2>3. ASSUME NEW j \in (p + k - 1) + 1 .. l
        PROVE  \E i \in 1 .. Len(r) : r[i] = s[j]
    <3>1. PICK i \in Nat : j = (p + k - 1) + i /\ i \in 1 .. Len(r)
      <4>1. j - (p + k - 1) \in 1 .. Len(r) /\ j = (p + k - 1) + (j - (p + k - 1))
        BY <1>1, <1>2, <2>1
      <4> QED BY <4>1
    <3> QED BY <2>2, <3>1
  <2>4. Range(r) \subseteq {s[j] : j \in (p + k - 1) + 1 .. l}
    BY <1>3, <2>2
  <2>5. {s[j] : j \in (p + k - 1) + 1 .. l} \subseteq Range(r)
    BY <1>3, <2>3
  <2> QED BY <1>1, <1>2, <2>4, <2>5 DEF Beyond
<1>5. CASE w.new = 1 /\ p = Len(s) + 1 /\ w.blocks = IF Free = <<>> THEN <<>> ELSE <<Head(Free)>>
  <2>1. Len(b) <= 1
    BY <1>1, <1>5
  <2>2. Len(r) = 0
    BY <1>1, <1>2, <2>1, SeqSorts
  <2>3. Range(r) = {}
    BY <1>3, <2>2
  <2>4. (p + k - 1) + 1 .. Len(s) = {}
    BY <1>1, <1>5
  <2> QED BY <1>1, <1>2, <2>3, <2>4 DEF Beyond
<1> QED BY <1>4, <1>5 DEF HasBlocks

(* A write of n's file from place p to q of its blocks: T are those written, *)
(* F those freed, `last` the one that is linked to T, and e the entries.     *)
Rewrites(C, n, p, q, T, F, last, e) ==
  /\ C[n] # <<>> /\ p <= q + 1 /\ (q >= p \/ q = Len(C[n]))
  /\ last = IF p = Len(C[n]) + 1 /\ q >= p THEN C[n][Len(C[n])] ELSE 0
  /\ F = Beyond(C[n], q) /\ T = SubSeq(On(C, n), p, q)
  /\ StartsAt(SubSeq(On(C, n), 1, q), e[n]) /\ \A m \in Name \ {n} : e[m] = entry[m]

LEMMA WrittenRelinks ==
  ASSUME NEW C, Chained(C, disk, entry), DiskOK(disk), NEW n \in Name,
         NEW p \in 1 .. Len(C[n]) + 1, NEW q \in 1 .. Len(On(C, n)),
         NEW T, NEW F, NEW last, NEW e, Rewrites(C, n, p, q, T, F, last, e),
         NEW f, NEW k, NEW offset, NEW buf
  PROVE  Relinks(C, n, q, Written(f, T, k, offset, buf, F, last), e)
<1> USE DEF Rewrites
<1>1. PICK s \in BlockSeqs, g \in BlockSeqs : s = C[n] /\ g = On(C, n)
  BY OnIs
<1>2. /\ Len(g) = Len(s) + Len(Free)
      /\ \A i \in 1 .. Len(s) : g[i] = s[i]
      /\ \A i \in 1 .. Len(g) : i > Len(s) => g[i] \notin DOMAIN disk
      /\ \A i, j \in 1 .. Len(g) : g[i] = g[j] => i = j
  BY <1>1, OnIs
<1>3. PICK l \in Nat \ {0}, N \in Nat :
        l = Len(s) /\ N = Len(g) /\ p \in 1 .. l + 1 /\ q \in 1 .. N /\ l <= N
  BY <1>1, <1>2, FreeIs, SeqSorts
<1>4. /\ Len(T) = q - p + 1
      /\ \A i \in 1 .. Len(T) : T[i] = g[p + i - 1]
      /\ Range(T) = {g[i] : i \in p .. q}
  <2>1. p \in Nat \ {0} /\ q \in Nat /\ q <= Len(g)
    BY <1>3
  <2>2. /\ T \in BlockSeqs /\ Len(T) = IF p <= q THEN q - p + 1 ELSE 0
        /\ \A i \in 1 .. Len(T) : T[i] = g[p + i - 1] /\ p + i - 1 \in p .. q
    BY <1>1, <2>1, PartIs
  <2>3. Len(T) = q - p + 1
    BY <2>1, <2>2
  <2>4. Range(T) = {T[i] : i \in 1 .. Len(T)}
    BY <2>2, SeqSorts DEF Range
  <2>5. ASSUME NEW j \in p .. q PROVE \E i \in 1 .. Len(T) : T[i] = g[j]
    <3>1. j - p + 1 \in 1 .. Len(T) /\ p + (j - p + 1) - 1 = j
      BY <2>1, <2>3
    <3>2. T[j - p + 1] = g[p + (j - p + 1) - 1]
      BY <2>2, <3>1
    <3> QED BY <3>1, <3>2
  <2>6. ASSUME NEW j \in p .. q PROVE g[j] \in Range(T)
    BY <2>4, <2>5, Zenon
  <2>7. ASSUME NEW a \in Range(T) PROVE \E j \in p .. q : a = g[j]
    <3>1. PICK i \in 1 .. Len(T) : a = T[i]
      BY <2>4
    <3> QED BY <2>2, <3>1
  <2>8. \A i \in 1 .. Len(T) : T[i] = g[p + i - 1]
    BY <2>2
  <2> QED BY <2>3, <2>6, <2>7, <2>8
<1>5. /\ Range(s) = {s[i] : i \in 1 .. l}
      /\ \A i \in 1 .. l : s[i] \in DOMAIN disk /\ disk[s[i]].next = IF i = l THEN 0 ELSE s[i + 1]
  BY <1>1, <1>3, SeqSorts DEF Range, Chained, Linked
<1>6. \A i \in 1 .. N : g[i] # 0
  BY <1>3, SeqSorts, ZeroIsNoBlock
<1>7. PICK d : d = Written(f, T, k, offset, buf, F, last)
  OBVIOUS
<1>8. DOMAIN d = (DOMAIN disk \cup Range(T)) \ F
  BY <1>7 DEF Written
<1>9. DOMAIN d = (DOMAIN disk \ Range(s)) \cup {g[i] : i \in 1 .. q}
  <2>1. F = {s[j] : j \in q + 1 .. l}
    BY <1>1, <1>3 DEF Beyond
  <2>2. ASSUME NEW a \in DOMAIN d
        PROVE  a \in (DOMAIN disk \ Range(s)) \cup {g[i] : i \in 1 .. q}
    <3>1. CASE a \in Range(s)
      <4>1. PICK j \in 1 .. l : a = s[j]
        BY <1>5, <3>1
      <4>2. j <= q
        BY <1>3, <1>8, <2>1, <4>1
      <4>3. j \in 1 .. q /\ a = g[j]
        BY <1>2, <1>3, <4>1, <4>2
      <4> QED BY <4>3
    <3>2. CASE a \in Range(T)
      <4>1. PICK j \in p .. q : a = g[j]
        BY <1>4, <3>2
      <4>2. j \in 1 .. q
        BY <1>3
      <4> QED BY <4>1, <4>2
    <3> QED BY <1>8, <3>1, <3>2
  <2>3. ASSUME NEW a \in DOMAIN disk \ Range(s) PROVE a \in DOMAIN d
    <3>1. a \notin F
      BY <1>3, <1>5, <2>1
    <3> QED BY <1>8, <3>1
  <2>4. ASSUME NEW i \in 1 .. q PROVE g[i] \in DOMAIN d
    <3>1. ASSUME NEW j \in q + 1 .. l PROVE g[i] # s[j]
      <4>1. j \in 1 .. Len(s) /\ j \in 1 .. Len(g) /\ i \in 1 .. Len(g) /\ i # j
        BY <1>3
      <4> QED BY <1>2, <4>1
    <3>2. g[i] \notin F
      BY <2>1, <3>1
    <3>3. CASE i <= l
      BY <1>2, <1>3, <1>5, <1>8, <3>2, <3>3
    <3>4. CASE i > l
      <4>1. i \in p .. q
        BY <1>3, <3>4
      <4> QED BY <1>4, <1>8, <3>2, <4>1
    <3> QED BY <1>3, <3>3, <3>4
  <2> QED BY <2>2, <2>3, <2>4
<1>10. ASSUME NEW i \in p .. q PROVE g[i] # last
  <2>1. CASE last = 0
    BY <1>3, <1>6, <2>1
  <2>2. CASE last # 0
    <3>1. p = l + 1 /\ last = s[l]
      BY <1>1, <1>3, <2>2
    <3>2. l \in 1 .. Len(g) /\ i \in 1 .. Len(g) /\ i # l /\ last = g[l]
      BY SMTT(40), <1>2, <1>3, <3>1
    <3> QED BY <1>2, <3>2
  <2> QED BY <2>1, <2>2
<1>11. ASSUME NEW a \in DOMAIN d
       PROVE  d[a].next =
                IF a = last THEN T[1]
                ELSE IF a \notin Range(T) THEN IF a \in DOMAIN disk THEN disk[a].next ELSE 0
                ELSE LET i == CHOOSE j \in 1 .. Len(T) : T[j] = a
                     IN  IF i = Len(T) THEN 0 ELSE T[i + 1]
  <2> DEFINE old == IF a \in DOMAIN disk THEN disk[a] ELSE Zeroed
             i == CHOOSE j \in 1 .. Len(T) : T[j] = a
             at(c) == offset + (i - 1) * Capacity + c - 1 - f.cursor
             data == [c \in 1 .. Capacity |->
                        IF i <= k /\ at(c) \in 0 .. Len(buf) - 1 THEN buf[at(c) + 1] ELSE old.data[c]]
  <2>1. d[a] = IF a = last THEN [old EXCEPT !.next = T[1]]
               ELSE IF a \notin Range(T) THEN old
               ELSE [next |-> IF i = Len(T) THEN 0 ELSE T[i + 1], data |-> data]
    BY <1>7, <1>8, Zenon DEF Written
  <2>2. old \in [next : Blocks \cup {0}, data : Data] \/ old = Zeroed
    BY DEF DiskOK
  <2>3. [old EXCEPT !.next = T[1]].next = T[1]
    BY <2>2 DEF Zeroed
  <2>4. old.next = IF a \in DOMAIN disk THEN disk[a].next ELSE 0
    BY DEF Zeroed
  <2> HIDE DEF old, data, i
  <2>5. [next |-> IF i = Len(T) THEN 0 ELSE T[i + 1], data |-> data].next
          = IF i = Len(T) THEN 0 ELSE T[i + 1]
    OBVIOUS
  <2> QED BY <2>1, <2>3, <2>4, <2>5 DEF i
<1>12. ASSUME NEW i \in 1 .. q
       PROVE  d[g[i]].next = IF i = q THEN 0 ELSE g[i + 1]
  <2>1. g[i] \in DOMAIN d
    BY <1>9
  <2>2. CASE i >= p
    <3>1. i \in p .. q /\ g[i] # last /\ g[i] \in Range(T)
      BY <1>3, <1>4, <1>10, <2>2
    <3>2. (CHOOSE j \in 1 .. Len(T) : T[j] = g[i]) = i - p + 1
      <4>1. i - p + 1 \in 1 .. Len(T) /\ T[i - p + 1] = g[i]
        <5>1. i - p + 1 \in 1 .. Len(T) /\ p + (i - p + 1) - 1 = i
          BY <1>3, <1>4, <3>1
        <5> QED BY <1>4, <5>1
      <4>2. ASSUME NEW j \in 1 .. Len(T), T[j] = g[i] PROVE j = i - p + 1
        <5>1. p + j - 1 \in 1 .. Len(g) /\ i \in 1 .. Len(g) /\ g[p + j - 1] = g[i]
          <6>1. g[p + j - 1] = g[i]
            BY <1>4, <4>2
          <6>2. j \in Nat /\ j >= 1 /\ j <= q - p + 1
            BY <1>3, <1>4
          <6> QED BY <1>3, <3>1, <6>1, <6>2
        <5>2. p + j - 1 = i
          BY <1>2, <5>1
        <5> QED BY <1>3, <5>2
      <4> QED BY <4>1, <4>2
    <3>3. PICK x \in 1 .. Len(T) : x = i - p + 1 /\ x = CHOOSE j \in 1 .. Len(T) : T[j] = g[i]
      <4>1. i - p + 1 \in 1 .. Len(T)
        BY <1>3, <1>4, <3>1
      <4> QED BY <3>2, <4>1
    <3>4. d[g[i]].next = IF x = Len(T) THEN 0 ELSE T[x + 1]
      <4>1. d[g[i]].next = LET z == CHOOSE j \in 1 .. Len(T) : T[j] = g[i]
                           IN  IF z = Len(T) THEN 0 ELSE T[z + 1]
        BY <1>11, <2>1, <3>1
      <4> QED BY <3>3, <4>1
    <3>5. (x = Len(T)) = (i = q)
      BY <1>3, <1>4, <3>3
    <3>6. i # q => T[x + 1] = g[i + 1]
      <4>1. i # q => x + 1 \in 1 .. Len(T) /\ p + (x + 1) - 1 = i + 1
        <5>1. PICK t \in Nat : t = Len(T) /\ t = q - p + 1 /\ x \in 1 .. t /\ x = i - p + 1
          BY <1>3, <1>4, <3>3
        <5> QED BY <1>3, <3>1, <5>1
      <4> QED BY <1>4, <4>1
    <3> QED BY <3>4, <3>5, <3>6
  <2>3. CASE i < p
    <3>1. i \in 1 .. l /\ g[i] = s[i] /\ s[i] \in DOMAIN disk
          /\ disk[s[i]].next = IF i = l THEN 0 ELSE s[i + 1]
      <4>1. i \in 1 .. l
        BY <1>3, <2>3
      <4> QED BY <1>2, <1>3, <1>5, <4>1
    <3>2. g[i] \notin Range(T)
      <4>1. ASSUME NEW j \in p .. q PROVE g[i] # g[j]
        <5>1. i \in 1 .. Len(g) /\ j \in 1 .. Len(g) /\ i # j
          BY <1>3, <2>3
        <5> QED BY <1>2, <5>1
      <4> QED BY <1>4, <4>1
    <3>3. CASE g[i] = last
      <4>1. last # 0 /\ p = l + 1 /\ q >= p /\ last = s[l]
        BY <1>1, <1>3, <1>6, <3>3
      <4>2. i = l
        <5>1. i \in 1 .. Len(g) /\ l \in 1 .. Len(g) /\ g[i] = g[l]
          BY <1>2, <1>3, <3>3, <4>1
        <5> QED BY <1>2, <5>1
      <4>3. T[1] = g[i + 1] /\ i # q
        <5>1. 1 \in 1 .. Len(T) /\ p + 1 - 1 = i + 1
          BY <1>3, <1>4, <4>1, <4>2
        <5>2. T[1] = g[p + 1 - 1]
          BY <1>4, <5>1
        <5> QED BY <1>3, <4>1, <4>2, <5>1, <5>2
      <4> QED BY <1>11, <2>1, <3>3, <4>3
    <3>4. CASE g[i] # last
      <4>1. d[g[i]].next = IF i = l THEN 0 ELSE s[i + 1]
        BY <1>11, <2>1, <3>1, <3>2, <3>4
      <4>2. CASE i = l
        <5>1. p = l + 1 /\ q = l
          <6>1. p = l + 1
            BY <1>3, <2>3, <4>2
          <6>2. ~ (q >= p)
            BY <1>1, <1>3, <3>1, <3>4, <4>2, <6>1
          <6> QED BY <1>1, <1>3, <6>1, <6>2
        <5> QED BY <4>1, <4>2, <5>1
      <4>3. CASE i # l
        <5>1. i # q /\ s[i + 1] = g[i + 1]
          <6>1. i + 1 \in 1 .. l /\ i # q
            BY <1>1, <1>3, <2>3, <3>1, <4>3
          <6> QED BY <1>2, <1>3, <6>1
        <5> QED BY <4>1, <4>3, <5>1
      <4> QED BY <4>2, <4>3
    <3> QED BY <3>3, <3>4
  <2> QED BY <1>3, <2>2, <2>3
<1>13. ASSUME NEW a \in DOMAIN disk \ Range(s) PROVE d[a].next = disk[a].next
  <2>1. a \in DOMAIN d
    BY <1>9
  <2>2. ASSUME NEW i \in p .. q PROVE a # g[i]
    <3>1. CASE i <= l
      BY <1>2, <1>3, <1>5, <3>1
    <3>2. CASE i > l
      BY <1>2, <1>3, <3>2
    <3> QED BY <1>3, <3>1, <3>2
  <2>3. a \notin Range(T)
    BY <1>4, <2>2
  <2>4. a # last
    <3>1. CASE last = 0
      <4>1. \E m \in Name : \E j \in 1 .. Len(C[m]) : a = C[m][j]
        BY DEF Chained, Covered
      <4>2. a \in Blocks
        BY <4>1, SeqSorts DEF Chained
      <4> QED BY <3>1, <4>2, ZeroIsNoBlock
    <3>2. CASE last # 0
      <4>1. last = s[l]
        BY <1>1, <1>3, <3>2
      <4> QED BY <1>3, <1>5, <4>1
    <3> QED BY <3>1, <3>2
  <2> QED BY <1>11, <2>1, <2>3, <2>4
<1>14. StartsAt(SubSeq(g, 1, q), e[n]) /\ \A m \in Name \ {n} : e[m] = entry[m]
  BY <1>1
<1>15. Relinks(C, n, q, d, e)
  BY <1>1, <1>9, <1>12, <1>13, <1>14 DEF Relinks
<1> QED BY <1>7, <1>15

LEMMA RoundsTo ==
  ASSUME NEW x \in Nat \ {0}, NEW c \in Nat \ {0}, NEW m \in Nat, x <= m * c, (m - 1) * c < x
  PROVE  (x + c - 1) \div c = m
<1>1. PICK n \in Nat : n = (x + c - 1) \div c /\ x <= n * c /\ (n - 1) * c < x
  BY RoundsUp
<1>2. (m - 1) * c < n * c /\ (n - 1) * c < m * c
  <2>1. PICK a \in Int, b \in Int, u \in Int, v \in Int :
          a = (m - 1) * c /\ b = n * c /\ u = (n - 1) * c /\ v = m * c
    BY <1>1
  <2> QED BY <1>1, <2>1
<1>3. m - 1 < n /\ n - 1 < m
  BY <1>1, <1>2, Below
<1> QED BY <1>1, <1>3

(* A handle that resumes from a place: its file is no larger than its chain. *)
LEMMA PlaceFits ==
  ASSUME NEW s \in BlockSeqs, NEW f \in File, NEW p \in 1 .. Len(s), AtPlace(s, f, p)
  PROVE  f.size <= Len(s) * Capacity /\ f.cursor <= Len(s) * Capacity
<1>1. PICK l \in Nat, i \in Nat, c \in Nat, z \in Nat :
        l = Len(s) /\ i = f.resume_index /\ c = f.cursor /\ z = f.size
  BY SeqSorts DEF File
<1>2. /\ p \in 1 .. l /\ i <= p - 1
      /\ c <= (i + (l - p + 1)) * Capacity /\ z <= (i + (l - p + 1)) * Capacity
  BY <1>1 DEF AtPlace
<1>3. i + (l - p + 1) <= l /\ i + (l - p + 1) \in Nat
  BY <1>1, <1>2
<1>4. Capacity \in Nat \ {0}
  BY FileAssumption
<1>5. (i + (l - p + 1)) * Capacity <= l * Capacity
  BY <1>1, <1>3, <1>4, Scales
<1>6. PICK x \in Nat, y \in Nat : x = (i + (l - p + 1)) * Capacity /\ y = l * Capacity
  <2>1. i + (l - p + 1) \in Nat /\ l \in Nat /\ Capacity \in Nat
    BY <1>1, <1>3, <1>4
  <2>2. (i + (l - p + 1)) * Capacity \in Nat /\ l * Capacity \in Nat
    BY <2>1, Multiplies
  <2> QED BY <2>2
<1> QED BY <1>1, <1>2, <1>5, <1>6

LEMMA WrittenTyped ==
  ASSUME DiskOK(disk), NEW T \in BlockSeqs, NEW k \in Nat, NEW offset \in Int,
         NEW buf \in Seq(Byte \cup {Blank}), NEW F, NEW last, last \in DOMAIN disk => T # <<>>,
         NEW f \in File
  PROVE  DiskOK(Written(f, T, k, offset, buf, F, last))
<1>1. PICK d : d = Written(f, T, k, offset, buf, F, last)
  OBVIOUS
<1>2. DOMAIN d = (DOMAIN disk \cup Range(T)) \ F
  BY <1>1 DEF Written
<1> DEFINE Rec == [next : Blocks \cup {0}, data : Data]
<1>3. Capacity \in Nat \ {0}
  BY FileAssumption
<1>4. Zeroed \in Rec
  <2>1. [i \in 1 .. Capacity |-> Blank] \in Data
    BY DEF Data
  <2> HIDE DEF Data
  <2> QED BY <2>1 DEF Zeroed
<1>5. Len(T) \in Nat /\ \A i \in 1 .. Len(T) : T[i] \in Blocks
  BY SeqSorts
<1>6. Range(T) = {T[i] : i \in 1 .. Len(T)}
  BY SeqSorts DEF Range
<1>7. ASSUME NEW a \in DOMAIN d PROVE d[a] \in Rec
  <2> DEFINE old == IF a \in DOMAIN disk THEN disk[a] ELSE Zeroed
             i == CHOOSE j \in 1 .. Len(T) : T[j] = a
             at(c) == offset + (i - 1) * Capacity + c - 1 - f.cursor
             cell(c) == IF i <= k /\ at(c) \in 0 .. Len(buf) - 1 THEN buf[at(c) + 1] ELSE old.data[c]
             data == [c \in 1 .. Capacity |-> cell(c)]
  <2>1. d[a] = IF a = last THEN [old EXCEPT !.next = T[1]]
               ELSE IF a \notin Range(T) THEN old
               ELSE [next |-> IF i = Len(T) THEN 0 ELSE T[i + 1], data |-> data]
    BY <1>1, <1>2, Zenon DEF Written
  <2>2. old \in Rec
    <3> HIDE DEF Rec
    <3> QED BY <1>4 DEF DiskOK, Rec
  <2>3. CASE a = last
    <3>1. T # <<>> \/ a \in Range(T)
      BY <1>2, <2>3
    <3>2. T[1] \in Blocks
      <4>1. Len(T) >= 1
        <5>1. T # <<>> => Len(T) >= 1
          BY SeqSorts
        <5>2. a \in Range(T) => Len(T) >= 1
          BY <1>5, <1>6
        <5> QED BY <3>1, <5>1, <5>2
      <4> QED BY <1>5, <4>1
    <3>3. PICK o \in Rec : o = old
      BY <2>2
    <3>4. [o EXCEPT !.next = T[1]] \in Rec
      <4> HIDE DEF Data
      <4> QED BY <3>2, <3>3
    <3> QED BY <2>1, <2>3, <3>3, <3>4
  <2>4. CASE a # last /\ a \in Range(T)
    <3>1. i \in 1 .. Len(T)
      BY <1>6, <2>4
    <3>2. ASSUME NEW c \in 1 .. Capacity PROVE cell(c) \in Byte \cup {Blank}
      <4>1. old.data \in Data
        BY <2>2
      <4>2. old.data[c] \in Byte \cup {Blank}
        BY <4>1 DEF Data
      <4>3. PICK x : x = at(c)
        OBVIOUS
      <4>4. x \in 0 .. Len(buf) - 1 => buf[x + 1] \in Byte \cup {Blank}
        OBVIOUS
      <4>5. cell(c) = IF i <= k /\ x \in 0 .. Len(buf) - 1 THEN buf[x + 1] ELSE old.data[c]
        BY <4>3
      <4> HIDE DEF cell, old, i, at
      <4> QED BY <4>2, <4>4, <4>5
    <3>3. data \in Data
      <4> HIDE DEF cell
      <4> QED BY <3>2 DEF Data
    <3>4. (IF i = Len(T) THEN 0 ELSE T[i + 1]) \in Blocks \cup {0}
      <4> HIDE DEF i
      <4>1. i # Len(T) => i + 1 \in 1 .. Len(T)
        BY <1>5, <3>1
      <4> QED BY <1>5, <4>1
    <3> HIDE DEF data, i, old, Data
    <3>5. [next |-> IF i = Len(T) THEN 0 ELSE T[i + 1], data |-> data] \in Rec
      BY <3>3, <3>4
    <3> QED BY <2>1, <2>4, <3>5
  <2>5. CASE a # last /\ a \notin Range(T)
    <3>1. d[a] = old
      BY <2>1, <2>5
    <3> HIDE DEF old, Rec
    <3> QED BY <2>2, <3>1
  <2> QED BY <2>3, <2>4, <2>5
<1>8. DiskOK(d)
  <2> HIDE DEF Rec
  <2> QED BY <1>7 DEF DiskOK, Rec
<1> QED BY <1>1, <1>8

(* A call through handle h changes that handle, its file's entry and chain,  *)
(* and nothing else.                                                         *)
Others(C, D, e, hd, h, n) ==
  /\ D \in [Name -> BlockSeqs]
  /\ \A m \in Name \ {n} : D[m] = C[m] /\ e[m] = entry[m]
  /\ e \in [Name -> EntryOf \cup {NoFile}]
  /\ hd \in [Handle -> File \cup {Closed}]
  /\ \A g \in Handle \ {h} : hd[g] = handle[g]

NotElsewhere(h, n) == \A g \in Handle \ {h} : handle[g] # Closed => handle[g].name # n

LEMMA ClosedIsNoFile == Closed \notin File /\ NoFile \notin EntryOf
BY FileAssumption DEF EntryOf

LEMMA HeldChange ==
  ASSUME NEW C, FilesHeld(C, entry, handle), NEW h \in Handle,
         NEW n \in Name, NotElsewhere(h, n), NEW D, NEW e, NEW hd, Others(C, D, e, hd, h, n),
         NEW f \in File, hd[h] = f, f.name = n, Held(D[n], e[n], f)
  PROVE  /\ FilesHeld(D, e, hd)
         /\ /\ Exact(C, entry, handle)
            /\ Len(D[n]) = InBlocks(f.size) /\ ExactAt(D[n], f)
            => Exact(D, e, hd)
<1>1. n \in Name
  OBVIOUS
<1>2. \A g \in Handle \ {h} : handle[g] # Closed => handle[g].name \in Name \ {n}
  <2>1. \A g \in Handle \ {h} : handle[g] # Closed => handle[g].name # n
    BY DEF NotElsewhere
  <2>2. \A g \in Handle : handle[g] # Closed => handle[g] \in File
    BY DEF FilesHeld
  <2> QED BY <2>1, <2>2 DEF File
<1>3. e[n] # NoFile /\ e[n].size = f.size
  BY DEF Held
<1>4. f.size <= Len(D[n]) * Capacity
  <2>1. D[n] \in BlockSeqs
    BY <1>1 DEF Others
  <2>2. PICK p \in 1 .. Len(D[n]) : AtPlace(D[n], f, p)
    BY DEF Held
  <2> QED BY <2>1, <2>2, PlaceFits
<1>5. FilesHeld(D, e, hd)
  <2>1. ASSUME NEW m \in Name, e[m] # NoFile PROVE e[m].size <= Len(D[m]) * Capacity
    <3>1. CASE m = n
      BY <1>3, <1>4, <3>1
    <3>2. CASE m # n
      BY <2>1, <3>2 DEF FilesHeld, Others
    <3> QED BY <3>1, <3>2
  <2>2. ASSUME NEW g \in Handle, hd[g] # Closed
        PROVE  Held(D[hd[g].name], e[hd[g].name], hd[g])
    <3>1. CASE g = h
      BY <3>1
    <3>2. CASE g # h
      <4>1. hd[g] = handle[g] /\ handle[g].name \in Name \ {n}
        BY <1>2, <2>2, <3>2 DEF Others
      <4>2. D[handle[g].name] = C[handle[g].name] /\ e[handle[g].name] = entry[handle[g].name]
        BY <4>1 DEF Others
      <4>3. Held(C[handle[g].name], entry[handle[g].name], handle[g])
        BY <2>2, <4>1 DEF FilesHeld
      <4> QED BY <4>1, <4>2, <4>3
    <3> QED BY <3>1, <3>2
  <2>3. Alone(hd)
    <3>1. \A g \in Handle \ {h} : hd[g] # Closed => hd[g].name # n /\ handle[g] = hd[g]
      BY <1>2 DEF Others
    <3> QED BY <3>1 DEF FilesHeld, Alone
  <2> QED BY <2>1, <2>2, <2>3 DEF FilesHeld, Others
<1>6. ASSUME Exact(C, entry, handle), Len(D[n]) = InBlocks(f.size), ExactAt(D[n], f)
      PROVE  Exact(D, e, hd)
  <2>1. ASSUME NEW m \in Name, e[m] # NoFile PROVE Len(D[m]) = InBlocks(e[m].size)
    <3>1. CASE m = n
      BY <1>3, <1>6, <3>1
    <3>2. CASE m # n
      BY <1>6, <2>1, <3>2 DEF Exact, Others
    <3> QED BY <3>1, <3>2
  <2>2. ASSUME NEW g \in Handle, hd[g] # Closed PROVE ExactAt(D[hd[g].name], hd[g])
    <3>1. CASE g = h
      BY <1>6, <3>1
    <3>2. CASE g # h
      <4>1. hd[g] = handle[g] /\ handle[g].name \in Name \ {n}
        BY <1>2, <2>2, <3>2 DEF Others
      <4>2. D[handle[g].name] = C[handle[g].name]
        BY <4>1 DEF Others
      <4>3. ExactAt(C[handle[g].name], handle[g])
        BY <1>6, <2>2, <4>1 DEF Exact
      <4> QED BY <4>1, <4>2, <4>3
    <3> QED BY <3>1, <3>2
  <2> QED BY <2>1, <2>2 DEF Exact
<1> QED BY <1>5, <1>6

(***************************************************************************)
(* The calls                                                               *)
(***************************************************************************)

Sound(C) == Chained(C, disk, entry) /\ FilesHeld(C, entry, handle) /\ DiskOK(disk)

(* What holds still holds; `exactly`, and that the index of a handle is that *)
(* of its place, and a chain no longer than its file.                        *)
Keeps(C, D) == Chained(D, disk', entry') /\ FilesHeld(D, entry', handle') /\ DiskOK(disk')
Exactly(C, D) == Exact(C, entry, handle) => Exact(D, entry', handle')

LEMMA OpenHandle ==
  ASSUME NEW C, Sound(C), NEW h \in Handle, handle[h] # Closed
  PROVE  LET f == handle[h]
         IN  /\ f \in File /\ f.name \in Name /\ C[f.name] \in BlockSeqs
             /\ entry[f.name] \in EntryOf /\ entry[f.name] # NoFile
             /\ entry[f.name].addr = f.addr /\ entry[f.name].size = f.size
             /\ \E p \in 1 .. Len(C[f.name]) : AtPlace(C[f.name], f, p)
             /\ NotElsewhere(h, f.name)
<1>1. PICK f \in File : f = handle[h]
  BY DEF Sound, FilesHeld
<1>2. f.name \in Name
  BY DEF File
<1>3. Held(C[f.name], entry[f.name], f)
  BY <1>1 DEF Sound, FilesHeld
<1>4. C[f.name] \in BlockSeqs
  BY <1>2 DEF Sound, Chained
<1>5. entry[f.name] \in EntryOf /\ entry[f.name] # NoFile
  BY <1>2, <1>3 DEF Sound, FilesHeld, Held
<1>6. NotElsewhere(h, f.name)
  BY <1>1 DEF Sound, FilesHeld, Alone, NotElsewhere
<1>7. /\ entry[f.name].addr = f.addr /\ entry[f.name].size = f.size
      /\ \E p \in 1 .. Len(C[f.name]) : AtPlace(C[f.name], f, p)
  BY <1>3 DEF Held
<1> QED BY <1>1, <1>2, <1>4, <1>5, <1>6, <1>7

LEMMA NotOpenElsewhere ==
  ASSUME NEW n \in Name, n \notin OpenNames, NEW h \in Handle
  PROVE  NotElsewhere(h, n)
BY DEF OpenNames, NotElsewhere

(* A handle h of n changed, and n's entry.                                   *)
LEMMA HandleSet ==
  ASSUME NEW C, Sound(C), NEW h \in Handle, NEW f \in File,
         handle' = [handle EXCEPT ![h] = f]
  PROVE  /\ handle' \in [Handle -> File \cup {Closed}] /\ handle'[h] = f
         /\ \A g \in Handle \ {h} : handle'[g] = handle[g]
BY DEF Sound, FilesHeld

LEMMA OpenKeeps ==
  ASSUME NEW C, Sound(C), NEW h \in Handle, NEW n \in Name, NEW append \in BOOLEAN,
         Open(h, n, append)
  PROVE  Keeps(C, C) /\ Exactly(C, C)
<1>1. /\ handle[h] = Closed /\ entry[n] # NoFile /\ n \notin OpenNames
      /\ disk' = disk /\ entry' = entry
  BY DEF Open
<1>2. PICK e \in EntryOf : e = entry[n] /\ e # NoFile
  BY <1>1 DEF Sound, FilesHeld
<1>3. PICK at \in Nat : at = (IF append THEN e.size ELSE 0) /\ at <= e.size
  BY <1>2 DEF EntryOf
<1>4. PICK f : f = FileOf(n, e, at)
  OBVIOUS
<1>5. /\ f \in File /\ f.name = n /\ f.addr = e.addr /\ f.size = e.size
      /\ f.cursor = at /\ f.resume_index = 0 /\ f.resume_addr = e.addr
  BY <1>2, <1>3, <1>4 DEF FileOf, File, EntryOf
<1>6. handle' = [handle EXCEPT ![h] = f]
  BY <1>2, <1>3, <1>4 DEF Open
<1>7. PICK s \in BlockSeqs : s = C[n] /\ Len(s) \in Nat /\ Len(s) >= 1 /\ s[1] = e.addr
  <2>1. C[n] \in BlockSeqs /\ StartsAt(C[n], entry[n])
    BY DEF Sound, Chained
  <2> QED BY <1>1, <1>2, <2>1, SeqSorts DEF StartsAt
<1>8. e.size <= Len(s) * Capacity
  BY <1>1, <1>2, <1>7 DEF Sound, FilesHeld
<1>9. AtPlace(s, f, 1)
  <2>1. 0 + (Len(s) - 1 + 1) = Len(s)
    BY <1>7
  <2>2. PICK y \in Nat : y = Len(s) * Capacity
    BY <1>7, FileAssumption
  <2>3. at <= y
    <3>1. PICK z \in Nat : z = e.size
      BY DEF EntryOf
    <3> QED BY <1>3, <1>8, <2>2, <3>1
  <2> QED BY <1>3, <1>5, <1>7, <1>8, <2>1, <2>2, <2>3 DEF AtPlace
<1>10. Held(s, e, f)
  BY <1>1, <1>2, <1>5, <1>7, <1>9 DEF Held
<1>11. Others(C, C, entry, handle', h, n)
  BY <1>5, <1>6, HandleSet DEF Others, Sound, Chained, FilesHeld
<1>12. NotElsewhere(h, n)
  BY <1>1, NotOpenElsewhere
<1>13. ExactAt(s, f)
  BY <1>3, <1>5, <1>7 DEF ExactAt
<1>14. Exact(C, entry, handle) => Len(s) = InBlocks(f.size)
  BY <1>1, <1>2, <1>5, <1>7 DEF Exact
<1>15. handle'[h] = f /\ FilesHeld(C, entry, handle)
  BY <1>5, <1>6, HandleSet DEF Sound
<1>16. FilesHeld(C, entry, handle') /\ (Exact(C, entry, handle) => Exact(C, entry, handle'))
  BY <1>2, <1>5, <1>7, <1>10, <1>11, <1>12, <1>13, <1>14, <1>15, HeldChange
<1> QED BY <1>1, <1>16 DEF Keeps, Exactly, Sound

LEMMA SeekKeeps ==
  ASSUME NEW C, Sound(C), NEW h \in Handle, NEW at \in Nat, Seek(h, at)
  PROVE  Keeps(C, C) /\ Exactly(C, C)
<1>1. handle[h] # Closed /\ disk' = disk /\ entry' = entry /\ at <= handle[h].size
  BY DEF Seek
<1>2. PICK f \in File : /\ f = handle[h] /\ f.name \in Name /\ C[f.name] \in BlockSeqs
                        /\ entry[f.name] # NoFile
                        /\ entry[f.name].addr = f.addr /\ entry[f.name].size = f.size
                        /\ \E p \in 1 .. Len(C[f.name]) : AtPlace(C[f.name], f, p)
                        /\ NotElsewhere(h, f.name)
  BY <1>1, OpenHandle
<1>3. PICK f2 : f2 = [f EXCEPT !.cursor = at]
  OBVIOUS
<1>4. /\ f2 \in File /\ f2.name = f.name /\ f2.addr = f.addr /\ f2.size = f.size
      /\ f2.cursor = at /\ f2.resume_index = f.resume_index /\ f2.resume_addr = f.resume_addr
  BY <1>3 DEF File
<1>5. handle' = [handle EXCEPT ![h] = f2]
  BY <1>2, <1>3 DEF Seek
<1>0. PICK s \in BlockSeqs : s = C[f.name]
  BY <1>2
<1>6. PICK p \in 1 .. Len(s) : s = C[f.name] /\ AtPlace(s, f, p)
  BY <1>0, <1>2
<1>7. AtPlace(s, f2, p)
  <2>1. PICK y \in Int : y = (f.resume_index + (Len(s) - p + 1)) * Capacity
    BY FileAssumption, SeqSorts DEF File
  <2>2. PICK z \in Nat : z = f.size
    BY DEF File
  <2>3. at <= y
    BY <1>1, <1>2, <1>6, <2>1, <2>2 DEF AtPlace
  <2> QED BY <1>4, <1>6, <2>1, <2>3 DEF AtPlace
<1>8. Held(s, entry[f.name], f2)
  BY <1>2, <1>4, <1>6, <1>7 DEF Held
<1>9. Others(C, C, entry, handle', h, f.name)
  BY <1>4, <1>5, HandleSet DEF Others, Sound, Chained, FilesHeld
<1>10. Exact(C, entry, handle) => ExactAt(s, f2) /\ Len(s) = InBlocks(f2.size)
  <2>1. Exact(C, entry, handle) => ExactAt(s, f) /\ Len(s) = InBlocks(f.size)
    BY <1>1, <1>2, <1>6 DEF Exact
  <2> QED BY <1>1, <1>2, <1>4, <2>1 DEF ExactAt
<1>11. handle'[h] = f2 /\ FilesHeld(C, entry, handle)
  BY <1>4, <1>5, HandleSet DEF Sound
<1>12. FilesHeld(C, entry, handle') /\ (Exact(C, entry, handle) => Exact(C, entry, handle'))
  BY <1>2, <1>4, <1>6, <1>8, <1>9, <1>10, <1>11, HeldChange
<1> QED BY <1>1, <1>12 DEF Keeps, Exactly, Sound

LEMMA CloseKeeps ==
  ASSUME NEW C, Sound(C), NEW h \in Handle, Close(h)
  PROVE  Keeps(C, C) /\ Exactly(C, C)
<1>1. disk' = disk /\ entry' = entry /\ handle' = [handle EXCEPT ![h] = Closed]
  BY DEF Close
<1>2. handle' \in [Handle -> File \cup {Closed}]
  BY <1>1 DEF Sound, FilesHeld
<1>3. \A g \in Handle : handle'[g] # Closed => handle[g] # Closed /\ handle'[g] = handle[g]
  BY <1>1 DEF Sound, FilesHeld
<1>4. FilesHeld(C, entry, handle')
  BY <1>2, <1>3 DEF Sound, FilesHeld, Alone
<1>5. Exact(C, entry, handle) => Exact(C, entry, handle')
  BY <1>3 DEF Exact
<1> QED BY <1>1, <1>4, <1>5 DEF Keeps, Exactly, Sound

(* A handle with a new place in the same chain.                              *)
LEMMA HandleMoves ==
  ASSUME NEW C, Sound(C), NEW h \in Handle, handle[h] # Closed,
         NEW f, f = handle[h], NEW f2 \in File,
         f2.name = f.name, f2.addr = f.addr, f2.size = f.size,
         handle' = [handle EXCEPT ![h] = f2], disk' = disk, entry' = entry,
         \E p \in 1 .. Len(C[f.name]) : AtPlace(C[f.name], f2, p),
         ExactAt(C[f.name], f) => ExactAt(C[f.name], f2)
  PROVE  Keeps(C, C) /\ Exactly(C, C)
<1>1. /\ f \in File /\ f.name \in Name /\ C[f.name] \in BlockSeqs
      /\ entry[f.name] # NoFile
      /\ entry[f.name].addr = f.addr /\ entry[f.name].size = f.size
      /\ NotElsewhere(h, f.name)
  BY OpenHandle
<1>2. Held(C[f.name], entry[f.name], f2)
  BY <1>1 DEF Held
<1>3. Others(C, C, entry, handle', h, f.name)
  BY HandleSet DEF Others, Sound, Chained, FilesHeld
<1>4. Exact(C, entry, handle) => ExactAt(C[f.name], f2) /\ Len(C[f.name]) = InBlocks(f2.size)
  BY <1>1 DEF Exact
<1>5. handle'[h] = f2 /\ FilesHeld(C, entry, handle)
  BY HandleSet DEF Sound
<1>6. FilesHeld(C, entry, handle') /\ (Exact(C, entry, handle) => Exact(C, entry, handle'))
  BY ZenonT(40), <1>1, <1>2, <1>3, <1>4, <1>5, HeldChange
<1> QED BY <1>6 DEF Keeps, Exactly, Sound

LEMMA PlacesDiffer ==
  ASSUME NEW C, Sound(C), NEW n \in Name, NEW i \in 1 .. Len(C[n]), NEW j \in 1 .. Len(C[n]),
         C[n][i] = C[n][j]
  PROVE  i = j
BY DEF Sound, Chained, Apart

Lowest(S) == CHOOSE a \in S : \A b \in S : a <= b

(* Where a read through f ends.                                              *)
ReadEnd(f, bytes) ==
  Lowest({f.cursor + bytes, Resume(f).offset + Len(ChainFrom[Resume(f).addr]) * Capacity}
           \cup (IF f.cursor <= f.size THEN {f.size} ELSE {}))

(* It is before the end of the chain, and resumes from its last block.       *)
LEMMA ReadMoves ==
  ASSUME NEW C, Sound(C), NEW h \in Handle, NEW bytes \in Nat, Read(h, bytes)
  PROVE  /\ Keeps(C, C) /\ Exactly(C, C)
         /\ \E f2 \in File : /\ f2.name = handle[h].name
                             /\ f2.cursor = ReadEnd(handle[h], bytes)
                             /\ handle' = [handle EXCEPT ![h] = f2]
                             /\ ExactAt(C[f2.name], handle[h]) => ExactAt(C[f2.name], f2)
<1>1. handle[h] # Closed /\ disk' = disk /\ entry' = entry
  BY DEF Read
<1>2. PICK f \in File : /\ f = handle[h] /\ f.name \in Name /\ C[f.name] \in BlockSeqs
                        /\ \E p \in 1 .. Len(C[f.name]) : AtPlace(C[f.name], f, p)
  BY <1>1, OpenHandle
<1>3. PICK s \in BlockSeqs : s = C[f.name]
  BY <1>2
<1>4. PICK p \in 1 .. Len(s), o \in Nat :
        /\ Begins(s, f, p, o) /\ (ExactAt(s, f) => o = p - 1)
        /\ (AtPlace(s, f, p) /\ o = f.resume_index) \/ (p = 1 /\ o = 0)
        /\ Resume(f).addr = s[p] /\ Resume(f).offset = o * Capacity
        /\ ChainFrom[s[p]] = SubSeq(s, p, Len(s))
  BY <1>1, <1>2, <1>3, ResumesAt DEF Sound
<1>5. PICK l \in Nat \ {0}, c \in Nat, z \in Nat, i \in Nat :
        l = Len(s) /\ c = f.cursor /\ z = f.size /\ i = f.resume_index /\ p \in 1 .. l
  <2>1. Len(s) # 0
    BY <1>4
  <2> QED BY <1>3, <2>1, SeqSorts DEF File
<1>6. Capacity \in Nat \ {0}
  BY FileAssumption
<1>7. PICK m \in Nat : m = l - p + 1 /\ m >= 1 /\ p + m = l + 1
  <2>1. l - p + 1 \in Nat /\ l - p + 1 >= 1 /\ p + (l - p + 1) = l + 1
    BY <1>5
  <2> QED BY <2>1
<1>18. PICK chain \in BlockSeqs :
         /\ chain = ChainFrom[Resume(f).addr] /\ Len(chain) = m
         /\ \A k \in 1 .. m : chain[k] = s[p + k - 1]
  <2>1. p \in Nat \ {0} /\ l \in Nat /\ l <= Len(s) /\ p <= l
    BY <1>5
  <2>2. /\ SubSeq(s, p, l) \in BlockSeqs /\ Len(SubSeq(s, p, l)) = IF p <= l THEN l - p + 1 ELSE 0
        /\ \A k \in 1 .. Len(SubSeq(s, p, l)) : SubSeq(s, p, l)[k] = s[p + k - 1]
    BY <2>1, PartIs
  <2>3. ChainFrom[Resume(f).addr] = SubSeq(s, p, l)
    BY <1>4, <1>5
  <2>4. Len(SubSeq(s, p, l)) = m
    BY <1>7, <2>1, <2>2
  <2> QED BY <2>2, <2>3, <2>4
<1>8. PICK x \in Nat, y \in Nat, r \in Nat :
        /\ x = o * Capacity /\ y = m * Capacity /\ r = (o + m) * Capacity /\ r = x + y
  BY <1>6, Distributes
<1>9. x <= c /\ c <= r /\ z <= r /\ o <= p - 1
  <2>1. Len(s) - p + 1 = m
    BY <1>5, <1>7
  <2> QED BY <1>4, <1>5, <1>8, <2>1 DEF Begins
<1>10. PICK L \in SUBSET Nat : L = {c + bytes, r} \cup (IF c <= z THEN {z} ELSE {})
  <2>1. c + bytes \in Nat
    BY <1>5
  <2> QED BY <1>5, <1>8, <2>1
<1>11. PICK e \in Nat : /\ e = CHOOSE a \in L : \A b \in L : a <= b
                       /\ c <= e /\ e <= r /\ (c <= z => e <= z)
  <2>1. PICK e \in L : e = (CHOOSE a \in L : \A b \in L : a <= b) /\ \A b \in L : e <= b
    <3>1. L # {}
      BY <1>10
    <3> QED BY <3>1, LowestOf
  <2>2. c <= c + bytes
    BY <1>5
  <2>3. c <= e
    <3>1. e = c + bytes \/ e = r \/ (c <= z /\ e = z)
      BY <1>10, <2>1
    <3> QED BY <1>9, <2>2, <3>1
  <2>4. e <= r /\ (c <= z => e <= z)
    BY <1>10, <2>1
  <2> QED BY <2>1, <2>3, <2>4
<1>12. PICK t \in Nat, u \in Nat :
         t = (e - x) \div Capacity /\ u = t * Capacity /\ u <= e - x /\ e - x < u + Capacity
  <2>1. e - x \in Nat
    BY <1>9, <1>11
  <2>2. PICK t \in Nat : /\ t = (e - x) \div Capacity /\ t * Capacity <= e - x
                         /\ e - x < t * Capacity + Capacity
    BY <1>6, <2>1, Divides
  <2>3. t * Capacity \in Nat
    BY <1>6
  <2> QED BY <2>2, <2>3
<1>13. PICK k \in 1 .. m : k = IF t + 1 <= m THEN t + 1 ELSE m
  <2>1. t + 1 \in Nat /\ t + 1 >= 1
    OBVIOUS
  <2>2. (IF t + 1 <= m THEN t + 1 ELSE m) \in 1 .. m
    BY <1>7, <2>1
  <2> QED BY <2>2
<1>14. PICK f2 : f2 = [IF k = 1 THEN f ELSE set_resume(f, chain[k], x + (k - 1) * Capacity)
                       EXCEPT !.cursor = e]
  OBVIOUS
<1>15. handle' = [handle EXCEPT ![h] = f2]
  <2>1. L = {f.cursor + bytes, Resume(f).offset + Len(chain) * Capacity}
              \cup (IF f.cursor <= f.size THEN {f.size} ELSE {})
    <3>1. Resume(f).offset + Len(chain) * Capacity = r
      BY <1>4, <1>8, <1>18
    <3> QED BY <1>5, <1>10, <3>1
  <2>2. (e - Resume(f).offset) \div Capacity + 1 = t + 1
    BY <1>4, <1>8, <1>12
  <2>3. handle' = [handle EXCEPT ![h] =
          LET g      == handle[h]
              start  == Resume(g)
              blocks == ChainFrom[start.addr]
              limits == {g.cursor + bytes, start.offset + Len(blocks) * Capacity}
                          \cup (IF g.cursor <= g.size THEN {g.size} ELSE {})
              end    == Lowest(limits)
              last   == (end - start.offset) \div Capacity + 1
              kk     == IF last <= Len(blocks) THEN last ELSE Len(blocks)
          IN  [IF kk = 1 THEN g
               ELSE set_resume(g, blocks[kk], start.offset + (kk - 1) * Capacity)
               EXCEPT !.cursor = end]]
    BY Zenon DEF Read, Lowest
  <2>6. Lowest(L) = e
    BY SMTT(40), <1>11 DEF Lowest
  <2>4. handle' = [handle EXCEPT ![h] =
          LET last == (e - Resume(f).offset) \div Capacity + 1
              kk   == IF last <= Len(chain) THEN last ELSE Len(chain)
          IN  [IF kk = 1 THEN f
               ELSE set_resume(f, chain[kk], Resume(f).offset + (kk - 1) * Capacity)
               EXCEPT !.cursor = e]]
    BY ZenonT(40), <1>2, <1>18, <2>1, <2>3, <2>6
  <2>5. Resume(f).offset + (k - 1) * Capacity = x + (k - 1) * Capacity
    BY <1>4, <1>8
  <2> QED BY <1>13, <1>14, <1>18, <2>2, <2>4, <2>5
<1>19. e = ReadEnd(f, bytes)
  <2>1. Resume(f).offset + Len(ChainFrom[Resume(f).addr]) * Capacity = r
    BY <1>4, <1>8, <1>18
  <2>2. {f.cursor + bytes, Resume(f).offset + Len(ChainFrom[Resume(f).addr]) * Capacity}
           \cup (IF f.cursor <= f.size THEN {f.size} ELSE {}) = L
    BY <1>5, <1>10, <2>1
  <2>3. Lowest(L) = e
    BY SMTT(40), <1>11 DEF Lowest
  <2> QED BY <2>2, <2>3 DEF ReadEnd
<1>16. CASE k = 1
  <2>1. /\ f2 \in File /\ f2.name = f.name /\ f2.addr = f.addr /\ f2.size = f.size
        /\ f2.cursor = e /\ f2.resume_index = f.resume_index /\ f2.resume_addr = f.resume_addr
    BY <1>14, <1>16 DEF File
  <2>2. PICK p0 \in 1 .. Len(s) : AtPlace(s, f, p0)
    BY <1>2, <1>3
  <2>3. PICK r0 \in Nat : r0 = (i + (l - p0 + 1)) * Capacity /\ Capacity <= r0
    <3>1. i + (l - p0 + 1) \in Nat /\ 1 <= i + (l - p0 + 1)
      BY <1>5
    <3>2. 1 * Capacity <= (i + (l - p0 + 1)) * Capacity
      BY <1>6, <3>1, Scales
    <3> QED BY <1>6, <3>1, <3>2
  <2>4. e <= r0
    <3>1. CASE AtPlace(s, f, p) /\ o = f.resume_index
      <4>1. s[p] = s[p0]
        BY <2>2, <3>1 DEF AtPlace
      <4>2. p = p0
        BY <1>2, <1>3, <4>1, PlacesDiffer
      <4>3. o = i /\ l - p0 + 1 = m
        BY <1>5, <1>7, <3>1, <4>2
      <4>4. r0 = r
        BY <1>8, <2>3, <4>3
      <4> QED BY <1>11, <4>4
    <3>2. CASE p = 1 /\ o = 0
      <4>1. x = 0
        BY <1>6, <1>8, <3>2
      <4>2. CASE t + 1 <= m
        <5>1. t = 0
          BY <1>12, <1>13, <1>16, <4>2
        <5>2. u = 0
          BY <1>6, <1>12, <5>1
        <5>3. e < Capacity
          BY <1>6, <1>11, <1>12, <4>1, <5>2
        <5> QED BY <1>6, <1>11, <2>3, <5>3
      <4>3. CASE ~ (t + 1 <= m)
        <5>1. m = 1
          BY <1>13, <1>16, <4>3
        <5>2. r = Capacity
          BY <1>6, <1>8, <3>2, <5>1
        <5> QED BY <1>6, <1>11, <2>3, <5>2
      <4> QED BY <4>2, <4>3
    <3> QED BY <1>4, <3>1, <3>2
  <2>5. AtPlace(s, f2, p0)
    BY <1>5, <2>1, <2>2, <2>3, <2>4 DEF AtPlace
  <2>6. ExactAt(s, f) => ExactAt(s, f2)
    BY <1>5, <1>11, <2>1 DEF ExactAt
  <2>7. Keeps(C, C) /\ Exactly(C, C)
    BY <1>1, <1>2, <1>3, <1>15, <2>1, <2>5, <2>6, HandleMoves
  <2> QED BY <1>2, <1>3, <1>15, <1>19, <2>1, <2>6, <2>7
<1>17. CASE k # 1
  <2>1. (x + (k - 1) * Capacity) \div Capacity = o + (k - 1)
    <3>1. o + (k - 1) \in Nat /\ k - 1 \in Nat
      BY <1>13, <1>17
    <3>2. (o + (k - 1)) * Capacity = x + (k - 1) * Capacity
      BY <1>6, <1>8, <3>1, Distributes
    <3> QED BY <1>6, <3>1, <3>2, DividesBack
  <2>2. PICK a \in Blocks, j \in Nat : a = chain[k] /\ a = s[p + k - 1] /\ j = o + (k - 1)
    <3>1. chain[k] \in Blocks /\ chain[k] = s[p + k - 1]
      BY <1>13, <1>18, SeqSorts
    <3>2. o + (k - 1) \in Nat
      OBVIOUS
    <3> QED BY <3>1, <3>2
  <2>3. f2 = [[f EXCEPT !.resume_index = j, !.resume_addr = a] EXCEPT !.cursor = e]
    BY <1>14, <1>17, <2>1, <2>2 DEF set_resume
  <2>4. /\ f2 \in File /\ f2.name = f.name /\ f2.addr = f.addr /\ f2.size = f.size
        /\ f2.cursor = e /\ f2.resume_index = j /\ f2.resume_addr = a
    BY <2>3 DEF File
  <2>5. PICK p2 \in 1 .. Len(s) : p2 = p + k - 1
    <3>1. p + k - 1 \in 1 .. l
      BY <1>5, <1>7
    <3> QED BY <1>5, <3>1
  <2>6. j <= p2 - 1 /\ j + (Len(s) - p2 + 1) = o + m
    <3>1. \A a1, a2, a3, a4, a5 \in Nat :
            a1 + a2 = a3 + 1 /\ a4 <= a1 - 1
            => a4 + (a5 - 1) <= (a1 + a5 - 1) - 1 /\ (a4 + (a5 - 1)) + (a3 - (a1 + a5 - 1) + 1) = a4 + a2
      OBVIOUS
    <3>2. p \in Nat /\ m \in Nat /\ l \in Nat /\ k \in Nat /\ o \in Nat
      BY <1>5
    <3> QED BY <1>5, <1>7, <1>9, <2>2, <2>5, <3>1, <3>2
  <2>7. AtPlace(s, f2, p2)
    BY <1>5, <1>8, <1>9, <1>11, <2>2, <2>4, <2>5, <2>6 DEF AtPlace
  <2>8. ExactAt(s, f) => ExactAt(s, f2)
    <3>1. ExactAt(s, f) => j + 1 = p2 /\ c <= z
      <4>1. SUFFICES ASSUME ExactAt(s, f) PROVE j + 1 = p2 /\ c <= z
        OBVIOUS
      <4>2. o = p - 1 /\ p \in Nat /\ k \in Nat
        BY <1>4, <1>5, <4>1
      <4>3. j + 1 = p2
        BY <2>2, <2>5, <4>2
      <4> QED BY <1>5, <4>1, <4>3 DEF ExactAt
    <3>2. ExactAt(s, f) => s[j + 1] = a /\ j + 1 <= Len(s)
      BY <2>2, <2>5, <3>1
    <3> QED BY <1>5, <1>11, <2>4, <3>1, <3>2 DEF ExactAt
  <2>9. Keeps(C, C) /\ Exactly(C, C)
    BY <1>1, <1>2, <1>3, <1>15, <2>4, <2>7, <2>8, HandleMoves
  <2> QED BY <1>2, <1>3, <1>15, <1>19, <2>4, <2>8, <2>9
<1> QED BY SMTT(40), <1>16, <1>17

LEMMA ReadKeeps ==
  ASSUME NEW C, Sound(C), NEW h \in Handle, NEW bytes \in Nat, Read(h, bytes)
  PROVE  Keeps(C, C) /\ Exactly(C, C)
BY ReadMoves

(* A call through h that makes n's chain the first q blocks it may have.     *)
LEMMA FileChanges ==
  ASSUME NEW C, Sound(C), NEW h \in Handle, NEW n \in Name, NotElsewhere(h, n),
         NEW q \in 1 .. Len(On(C, n)), Relinks(C, n, q, disk', entry'), DiskOK(disk'),
         entry' \in [Name -> EntryOf \cup {NoFile}],
         NEW f \in File, f.name = n, handle' = [handle EXCEPT ![h] = f],
         entry'[n] # NoFile, entry'[n].addr = f.addr, entry'[n].size = f.size,
         NEW t, t = Cut(C, n, q)[n], \E p \in 1 .. Len(t) : AtPlace(t, f, p)
  PROVE  /\ Keeps(C, Cut(C, n, q))
         /\ ExactAt(t, f) /\ q = InBlocks(f.size) => Exactly(C, Cut(C, n, q))
<1>1. PICK D : D = Cut(C, n, q)
  OBVIOUS
<1>2. q \in 0 .. Len(On(C, n)) /\ Chained(C, disk, entry)
  BY DEF Sound
<1>3. Chained(D, disk', entry')
  BY <1>1, <1>2, Relinked
<1>4. Len(D[n]) = q /\ D \in [Name -> BlockSeqs] /\ \A m \in Name \ {n} : D[m] = C[m]
  BY <1>1, <1>2, CutIs
<1>5. Held(D[n], entry'[n], f)
  BY <1>1 DEF Held
<1>6. /\ handle' \in [Handle -> File \cup {Closed}] /\ handle'[h] = f
      /\ \A g \in Handle \ {h} : handle'[g] = handle[g]
  BY HandleSet
<1>7. Others(C, D, entry', handle', h, n)
  <2>1. \A m \in Name \ {n} : entry'[m] = entry[m]
    BY DEF Relinks
  <2> QED BY <1>4, <1>6, <2>1 DEF Others
<1>8. FilesHeld(C, entry, handle)
  BY DEF Sound
<1>9. /\ FilesHeld(D, entry', handle')
      /\ /\ Exact(C, entry, handle)
         /\ Len(D[n]) = InBlocks(f.size) /\ ExactAt(D[n], f)
         => Exact(D, entry', handle')
  BY <1>5, <1>6, <1>7, <1>8, HeldChange
<1>10. Keeps(C, D)
  BY <1>3, <1>9 DEF Keeps
<1>11. ExactAt(t, f) /\ q = InBlocks(f.size) => Exactly(C, D)
  BY <1>1, <1>4, <1>9 DEF Exactly
<1> QED BY <1>1, <1>10, <1>11

(* A file that begins: its chain is the first free block.                    *)
Starts(n, a, e) ==
  /\ entry[n] = NoFile /\ Free # <<>> /\ a = Head(Free) /\ e = [addr |-> a, size |-> 0]
  /\ disk' = [b \in DOMAIN disk \cup {a} |-> IF b = a THEN Zeroed ELSE disk[b]]
  /\ entry' = [entry EXCEPT ![n] = e]

Started(C, n, a, e) ==
  /\ a \in Blocks /\ a \notin DOMAIN disk /\ e \in EntryOf /\ e # NoFile
  /\ 1 \in 1 .. Len(On(C, n)) /\ Relinks(C, n, 1, disk', entry') /\ DiskOK(disk')
  /\ entry' \in [Name -> EntryOf \cup {NoFile}] /\ entry'[n] = e
  /\ \A m \in Name \ {n} : entry'[m] = entry[m]
  /\ \E t \in BlockSeqs : t = Cut(C, n, 1)[n] /\ Len(t) = 1 /\ t[1] = a

LEMMA EntryBegins ==
  ASSUME NEW C, Sound(C), NEW n \in Name, NEW a, NEW e, Starts(n, a, e)
  PROVE  Started(C, n, a, e)
<1>1. /\ entry[n] = NoFile /\ Free # <<>> /\ a = Head(Free) /\ e = [addr |-> a, size |-> 0]
      /\ disk' = [b \in DOMAIN disk \cup {a} |-> IF b = a THEN Zeroed ELSE disk[b]]
      /\ entry' = [entry EXCEPT ![n] = e]
  BY DEF Starts
<1>2. /\ a \in Blocks /\ a = Free[1] /\ a \notin DOMAIN disk /\ 1 \in 1 .. Len(Free)
  <2>1. 1 \in 1 .. Len(Free) /\ Free \in Seq(Blocks)
    BY <1>1, FreeIs, SeqSorts DEF BlockSeqs
  <2> QED BY <1>1, <2>1, FreeIs
<1>4. e \in EntryOf /\ e.addr = a /\ e.size = 0 /\ e # NoFile
  BY <1>1, <1>2, ClosedIsNoFile DEF EntryOf
<1>8. Chained(C, disk, entry) /\ FilesHeld(C, entry, handle) /\ DiskOK(disk)
  BY DEF Sound
<1>9. C[n] = <<>>
  BY <1>1, <1>8 DEF Chained, StartsAt
<1>11. PICK g \in BlockSeqs : g = On(C, n) /\ Len(g) = Len(Free) /\ 1 \in 1 .. Len(g) /\ g[1] = a
  <2>1. Len(C[n]) = 0
    BY <1>9
  <2>2. /\ On(C, n) \in BlockSeqs /\ Len(On(C, n)) = Len(C[n]) + Len(Free)
        /\ \A i \in 1 .. Len(On(C, n)) : i > Len(C[n]) => On(C, n)[i] = Free[i - Len(C[n])]
    BY <1>8, OnIs
  <2>3. Len(On(C, n)) = Len(Free)
    BY <2>1, <2>2, FreeIs
  <2>4. On(C, n)[1] = Free[1 - 0]
    BY <1>2, <2>1, <2>2, <2>3
  <2> QED BY <1>2, <2>2, <2>3, <2>4
<1>12. PICK t \in BlockSeqs : /\ t = Cut(C, n, 1)[n] /\ t = SubSeq(g, 1, 1)
                              /\ Len(t) = 1 /\ t[1] = a
  <2>1. /\ Cut(C, n, 1) \in [Name -> BlockSeqs] /\ Len(Cut(C, n, 1)[n]) = 1
        /\ \A i \in 1 .. 1 : Cut(C, n, 1)[n][i] = On(C, n)[i]
        /\ Cut(C, n, 1)[n] = SubSeq(On(C, n), 1, 1)
    <3>1. PICK q \in 0 .. Len(On(C, n)) : q = 1
      BY <1>11
    <3>2. /\ Cut(C, n, q) \in [Name -> BlockSeqs] /\ Len(Cut(C, n, q)[n]) = q
          /\ \A i \in 1 .. q : Cut(C, n, q)[n][i] = On(C, n)[i]
          /\ Cut(C, n, q)[n] = SubSeq(On(C, n), 1, q)
      BY <1>8, CutIs
    <3> QED BY <3>1, <3>2
  <2>2. Cut(C, n, 1)[n][1] = On(C, n)[1]
    BY <2>1
  <2> QED BY <1>11, <2>1, <2>2
<1>13. entry' \in [Name -> EntryOf \cup {NoFile}] /\ entry'[n] = e
       /\ \A m \in Name \ {n} : entry'[m] = entry[m]
  BY <1>1, <1>4, <1>8 DEF FilesHeld
<1>14. Relinks(C, n, 1, disk', entry')
  <2>1. Range(C[n]) = {}
    BY <1>9 DEF Range
  <2>2. DOMAIN disk' = DOMAIN disk \cup {a}
    BY <1>1
  <2>3. {On(C, n)[i] : i \in 1 .. 1} = {a}
    BY <1>11
  <2>4. disk'[a].next = 0
    BY <1>1 DEF Zeroed
  <2>5. \A b \in DOMAIN disk : disk'[b] = disk[b]
    BY <1>1, <1>2
  <2>6. StartsAt(SubSeq(On(C, n), 1, 1), entry'[n])
    <3>1. t # <<>> /\ t[1] = e.addr
      BY <1>4, <1>12
    <3> QED BY <1>4, <1>11, <1>12, <1>13, <3>1 DEF StartsAt
  <2>7. \A i \in 1 .. 1 : disk'[On(C, n)[i]].next = IF i = 1 THEN 0 ELSE On(C, n)[i + 1]
    BY <1>11, <2>4
  <2> QED BY <1>13, <2>1, <2>2, <2>3, <2>5, <2>6, <2>7 DEF Relinks
<1>15. DiskOK(disk')
  <2>1. Zeroed \in [next : Blocks \cup {0}, data : Data]
    <3>1. [i \in 1 .. Capacity |-> Blank] \in Data
      BY DEF Data
    <3> HIDE DEF Data
    <3> QED BY <3>1 DEF Zeroed
  <2> QED BY <1>1, <1>8, <2>1 DEF DiskOK
<1> QED BY <1>2, <1>4, <1>11, <1>12, <1>13, <1>14, <1>15 DEF Started

LEMMA CreateKeeps ==
  ASSUME NEW C, Sound(C), NEW h \in Handle, NEW n \in Name, Create(h, n)
  PROVE  Keeps(C, Cut(C, n, 1)) /\ Exactly(C, Cut(C, n, 1))
<1>1. handle[h] = Closed /\ entry[n] = NoFile /\ Free # <<>>
  BY DEF Create
<1>2. PICK a, e, f : /\ a = Head(Free) /\ e = [addr |-> a, size |-> 0] /\ f = FileOf(n, e, 0)
                     /\ disk' = [b \in DOMAIN disk \cup {a} |-> IF b = a THEN Zeroed ELSE disk[b]]
                     /\ entry' = [entry EXCEPT ![n] = e] /\ handle' = [handle EXCEPT ![h] = f]
  BY DEF Create
<1>3. /\ a \in Blocks /\ e \in EntryOf /\ e # NoFile
      /\ 1 \in 1 .. Len(On(C, n)) /\ Relinks(C, n, 1, disk', entry') /\ DiskOK(disk')
      /\ entry' \in [Name -> EntryOf \cup {NoFile}] /\ entry'[n] = e
      /\ \E t \in BlockSeqs : t = Cut(C, n, 1)[n] /\ Len(t) = 1 /\ t[1] = a
  <2>1. Starts(n, a, e)
    BY <1>1, <1>2 DEF Starts
  <2>2. Started(C, n, a, e)
    BY <2>1, EntryBegins
  <2> QED BY <2>2 DEF Started
<1>4. PICK t \in BlockSeqs : t = Cut(C, n, 1)[n] /\ Len(t) = 1 /\ t[1] = a
  BY <1>3
<1>5. e.addr = a /\ e.size = 0
  BY <1>2
<1>6. /\ f \in File /\ f.name = n /\ f.addr = a /\ f.size = 0 /\ f.cursor = 0
      /\ f.resume_index = 0 /\ f.resume_addr = a
  BY <1>2, <1>3, <1>5 DEF FileOf, File
<1>10. NotElsewhere(h, n)
  <2>1. \A g \in Handle : handle[g] # Closed => entry[handle[g].name] # NoFile
    BY DEF Sound, FilesHeld, Held
  <2> QED BY <1>1, <2>1 DEF NotElsewhere
<1>16. AtPlace(t, f, 1)
  <2>1. 0 <= (0 + (Len(t) - 1 + 1)) * Capacity
    BY <1>4, FileAssumption
  <2>2. 1 \in 1 .. Len(t) /\ t[1] = f.resume_addr /\ f.resume_index <= 1 - 1
    BY <1>4, <1>6
  <2>3. /\ f.cursor <= (f.resume_index + (Len(t) - 1 + 1)) * Capacity
        /\ f.size <= (f.resume_index + (Len(t) - 1 + 1)) * Capacity
    BY <1>6, <2>1
  <2> QED BY <2>2, <2>3 DEF AtPlace
<1>17. ExactAt(t, f) /\ 1 = InBlocks(f.size)
  BY <1>4, <1>6 DEF ExactAt, InBlocks
<1>19. \E p \in 1 .. Len(t) : AtPlace(t, f, p)
  BY <1>4, <1>16
<1>20. /\ Keeps(C, Cut(C, n, 1))
       /\ ExactAt(t, f) /\ 1 = InBlocks(f.size) => Exactly(C, Cut(C, n, 1))
  BY ZenonT(40), <1>2, <1>3, <1>4, <1>5, <1>6, <1>10, <1>19, FileChanges
<1> QED BY <1>17, <1>20

(* A file that ends.                                                         *)
LEMMA DeleteKeeps ==
  ASSUME NEW C, Sound(C), NEW n \in Name, Delete(n)
  PROVE  Keeps(C, Cut(C, n, 0)) /\ Exactly(C, Cut(C, n, 0))
<1>1. entry[n] # NoFile /\ n \notin OpenNames /\ handle' = handle
  BY DEF Delete
<1>2. Chained(C, disk, entry) /\ FilesHeld(C, entry, handle) /\ DiskOK(disk)
  BY DEF Sound
<1>3. PICK s \in BlockSeqs : s = C[n] /\ Len(s) \in Nat /\ 1 \in 1 .. Len(s) /\ s[1] = entry[n].addr
  <2>1. C[n] \in BlockSeqs /\ StartsAt(C[n], entry[n])
    BY <1>2 DEF Chained
  <2> QED BY <1>1, <2>1, SeqSorts DEF StartsAt
<1>4. ChainFrom[entry[n].addr] = s
  <2>1. ChainFrom[s[1]] = SubSeq(s, 1, Len(s))
    BY <1>2, <1>3, ChainsAre
  <2> QED BY <1>3, <2>1, RestIs
<1>5. /\ disk' = [a \in DOMAIN disk \ Range(C[n]) |-> disk[a]]
      /\ entry' = [entry EXCEPT ![n] = NoFile]
  BY <1>3, <1>4 DEF Delete
<1>6. entry' \in [Name -> EntryOf \cup {NoFile}] /\ entry'[n] = NoFile
      /\ \A m \in Name \ {n} : entry'[m] = entry[m]
  BY <1>2, <1>5 DEF FilesHeld
<1>7. PICK D : D = Cut(C, n, 0)
  OBVIOUS
<1>8. On(C, n) \in BlockSeqs /\ 0 \in 0 .. Len(On(C, n))
  BY <1>2, OnIs, SeqSorts
<1>9. /\ D \in [Name -> BlockSeqs] /\ D[n] = SubSeq(On(C, n), 1, 0)
      /\ \A m \in Name \ {n} : D[m] = C[m]
  BY <1>2, <1>7, <1>8, CutIs
<1>10. SubSeq(On(C, n), 1, 0) = <<>>
  BY SubSeqEmpty
<1>11. Relinks(C, n, 0, disk', entry')
  BY <1>5, <1>6, <1>10 DEF Relinks, StartsAt
<1>12. Chained(D, disk', entry')
  BY <1>2, <1>7, <1>8, <1>11, Relinked
<1>13. \A h \in Handle : handle[h] # Closed => handle[h].name \in Name \ {n}
  <2>1. \A h \in Handle : handle[h] # Closed => handle[h] \in File /\ handle[h].name # n
    BY <1>1, <1>2 DEF OpenNames, FilesHeld
  <2> QED BY <2>1 DEF File
<1>14. FilesHeld(D, entry', handle')
  <2>1. \A m \in Name : entry'[m] # NoFile => entry'[m].size <= Len(D[m]) * Capacity
    BY <1>2, <1>6, <1>9 DEF FilesHeld
  <2>2. ASSUME NEW h \in Handle, handle[h] # Closed
        PROVE  Held(D[handle[h].name], entry'[handle[h].name], handle[h])
    <3>1. D[handle[h].name] = C[handle[h].name] /\ entry'[handle[h].name] = entry[handle[h].name]
      BY <1>6, <1>9, <1>13, <2>2
    <3>2. Held(C[handle[h].name], entry[handle[h].name], handle[h])
      BY <1>2, <2>2 DEF FilesHeld
    <3> QED BY <3>1, <3>2
  <2> QED BY <1>1, <1>2, <1>6, <2>1, <2>2 DEF FilesHeld
<1>15. DiskOK(disk')
  BY <1>2, <1>5 DEF DiskOK
<1>16. Exact(C, entry, handle) => Exact(D, entry', handle')
  <2>1. SUFFICES ASSUME Exact(C, entry, handle) PROVE Exact(D, entry', handle')
    OBVIOUS
  <2>2. \A m \in Name : entry'[m] # NoFile => Len(D[m]) = InBlocks(entry'[m].size)
    BY <1>6, <1>9, <2>1 DEF Exact
  <2>3. ASSUME NEW h \in Handle, handle[h] # Closed PROVE ExactAt(D[handle[h].name], handle[h])
    BY <1>9, <1>13, <2>1, <2>3 DEF Exact
  <2> QED BY <1>1, <2>2, <2>3 DEF Exact
<1> QED BY <1>7, <1>12, <1>14, <1>15, <1>16 DEF Keeps, Exactly

(* A handle f resumes from one of the first q blocks of g, which reach its   *)
(* cursor and the end of its file; `truly`, from the one its index says.     *)
ResumesIn(g, q, f) ==
  \E x \in 1 .. q : /\ g[x] = f.resume_addr /\ f.resume_index <= x - 1
                    /\ f.cursor <= (f.resume_index + (q - x + 1)) * Capacity
                    /\ f.size <= (f.resume_index + (q - x + 1)) * Capacity

ResumesTruly(g, q, f) ==
  /\ q = InBlocks(f.size) /\ f.cursor <= f.size
  /\ f.resume_index + 1 <= q /\ g[f.resume_index + 1] = f.resume_addr

(* A write through f puts its bytes in the blocks of g from place p to q.    *)
WritesIn(C, f, g, p, q) ==
  /\ p <= q + 1 /\ (q >= p \/ q = Len(C[f.name]))
  /\ \E k \in Nat, offset \in Int, buf \in Seq(Byte \cup {Blank}) :
       disk' = Written(f, SubSeq(g, p, q), k, offset, buf, Beyond(C[f.name], q),
                       IF p = Len(C[f.name]) + 1 /\ q >= p THEN C[f.name][Len(C[f.name])] ELSE 0)

(* The handle f becomes f2, and the size of its file that of f2.             *)
Updates(h, f, f2) ==
  /\ f2.name = f.name /\ f2.addr = f.addr
  /\ handle' = [handle EXCEPT ![h] = f2]
  /\ entry' = [entry EXCEPT ![f.name].size = f2.size]

(* A call through h that writes: the chain of its file becomes the first q   *)
(* blocks of it and the free ones, and h resumes from one of them.           *)
LEMMA WriteChanges ==
  ASSUME NEW C, Sound(C), NEW h \in Handle, handle[h] # Closed, NEW f, f = handle[h],
         NEW n, n = f.name,
         NEW p \in 1 .. Len(C[n]) + 1, NEW q \in 1 .. Len(On(C, n)),
         WritesIn(C, f, On(C, n), p, q),
         NEW f2 \in File, Updates(h, f, f2), ResumesIn(On(C, n), q, f2)
  PROVE  /\ Keeps(C, Cut(C, n, q))
         /\ ResumesTruly(On(C, n), q, f2) => Exactly(C, Cut(C, n, q))
<1>1. /\ f \in File /\ n \in Name /\ C[n] \in BlockSeqs
      /\ entry[n] \in EntryOf /\ entry[n] # NoFile /\ entry[n].addr = f.addr
      /\ \E x \in 1 .. Len(C[n]) : AtPlace(C[n], f, x)
      /\ NotElsewhere(h, n)
  BY OpenHandle
<1>2. Chained(C, disk, entry) /\ FilesHeld(C, entry, handle) /\ DiskOK(disk)
  BY DEF Sound
<1>3. C[n] # <<>> /\ 1 \in 1 .. Len(C[n]) /\ Len(C[n]) \in Nat
  BY <1>1, SeqSorts
<1>4. PICK g \in BlockSeqs :
        /\ g = On(C, n) /\ Len(g) \in Nat /\ g[1] = C[n][1]
        /\ \A i \in 1 .. Len(g) : g[i] \in Blocks
  <2>1. On(C, n) \in BlockSeqs /\ \A i \in 1 .. Len(C[n]) : On(C, n)[i] = C[n][i]
    BY <1>1, <1>2, OnIs
  <2> QED BY <1>3, <2>1, SeqSorts
<1>5. PICK t \in BlockSeqs : /\ t = Cut(C, n, q)[n] /\ t = SubSeq(g, 1, q) /\ Len(t) = q
                             /\ \A i \in 1 .. q : t[i] = g[i]
  <2>1. PICK r \in 0 .. Len(On(C, n)) : r = q
    BY <1>4
  <2>2. /\ Cut(C, n, r) \in [Name -> BlockSeqs] /\ Len(Cut(C, n, r)[n]) = r
        /\ \A i \in 1 .. r : Cut(C, n, r)[n][i] = On(C, n)[i]
        /\ Cut(C, n, r)[n] = SubSeq(On(C, n), 1, r)
    BY <1>1, <1>2, CutIs
  <2> QED BY ZenonT(40), <1>1, <1>4, <2>1, <2>2
<1>6. /\ entry' \in [Name -> EntryOf \cup {NoFile}] /\ entry'[n] \in EntryOf
      /\ entry'[n].addr = f.addr /\ entry'[n].size = f2.size
      /\ \A m \in Name \ {n} : entry'[m] = entry[m]
  <2>1. PICK z \in Nat : z = f2.size
    BY DEF File
  <2>2. PICK e \in EntryOf : e = [entry[n] EXCEPT !.size = z] /\ e.addr = f.addr /\ e.size = z
    <3>1. PICK r \in EntryOf : r = entry[n] /\ r.addr = f.addr
      BY <1>1
    <3>2. [r EXCEPT !.size = z] \in EntryOf /\ [r EXCEPT !.size = z].size = z
          /\ [r EXCEPT !.size = z].addr = f.addr
      BY <3>1 DEF EntryOf
    <3> QED BY <3>1, <3>2
  <2>3. entry \in [Name -> EntryOf \cup {NoFile}]
    BY <1>2 DEF FilesHeld
  <2>4. entry' = [entry EXCEPT ![n] = e]
    BY <2>1, <2>2 DEF Updates
  <2> QED BY <1>1, <2>1, <2>2, <2>3, <2>4
<1>7. entry'[n] # NoFile
  BY <1>6, ClosedIsNoFile
<1>8. StartsAt(SubSeq(On(C, n), 1, q), entry'[n])
  <2>1. t # <<>> /\ t[1] = C[n][1]
    <3>1. Len(t) >= 1 /\ t[1] = g[1]
      BY <1>5
    <3> QED BY <1>4, <1>5, <3>1, SeqSorts
  <2>2. C[n][1] = f.addr
    BY <1>1, <1>2 DEF Chained, StartsAt
  <2> QED BY SMTT(40), <1>4, <1>5, <1>6, <1>7, <2>1, <2>2 DEF StartsAt
<1>9a. PICK F, T, last :
        /\ F = Beyond(C[n], q) /\ T = SubSeq(On(C, n), p, q)
        /\ last = IF p = Len(C[n]) + 1 /\ q >= p THEN C[n][Len(C[n])] ELSE 0
  OBVIOUS
<1>9b. PICK k \in Nat, offset \in Int, buf \in Seq(Byte \cup {Blank}) :
        disk' = Written(f, T, k, offset, buf, F, last)
  BY <1>9a DEF WritesIn
<1>9. /\ disk' = Written(f, T, k, offset, buf, F, last)
      /\ F = Beyond(C[n], q) /\ T = SubSeq(On(C, n), p, q)
      /\ last = IF p = Len(C[n]) + 1 /\ q >= p THEN C[n][Len(C[n])] ELSE 0
      /\ p <= q + 1 /\ (q >= p \/ q = Len(C[n]))
  BY <1>9a, <1>9b DEF WritesIn
<1>10. PICK e : e = entry'
  OBVIOUS
<1>11. Relinks(C, n, q, Written(f, T, k, offset, buf, F, last), e)
  <2>1. StartsAt(SubSeq(On(C, n), 1, q), e[n]) /\ \A m \in Name \ {n} : e[m] = entry[m]
    BY <1>6, <1>8, <1>10
  <2>2. n \in Name /\ C[n] # <<>>
    BY <1>1, <1>3
  <2>3. Rewrites(C, n, p, q, T, F, last, e)
    BY <1>9, <2>1, <2>2 DEF Rewrites
  <2> QED BY <1>2, <2>2, <2>3, WrittenRelinks
<1>12. Relinks(C, n, q, disk', entry')
  BY <1>9, <1>10, <1>11
<1>13. DiskOK(disk')
  <2>1. p \in Nat \ {0} /\ q \in Nat /\ q <= Len(g)
    BY <1>3, <1>4
  <2>2. T \in BlockSeqs /\ Len(T) = IF p <= q THEN q - p + 1 ELSE 0
    BY <1>4, <1>9, <2>1, PartIs
  <2>3. 0 \notin DOMAIN disk
    <3>1. \A m \in Name : \A i \in 1 .. Len(C[m]) : C[m][i] \in Blocks
      BY <1>2, SeqSorts DEF Chained
    <3>2. \A a \in DOMAIN disk : \E m \in Name : \E i \in 1 .. Len(C[m]) : a = C[m][i]
      BY <1>2 DEF Chained, Covered
    <3> QED BY <3>1, <3>2, ZeroIsNoBlock
  <2>4. last \in DOMAIN disk => T # <<>>
    <3>1. last \in DOMAIN disk => Len(T) >= 1
      BY <1>9, <2>1, <2>2, <2>3
    <3> QED BY <2>2, <3>1, SeqSorts
  <2>5. DiskOK(Written(f, T, k, offset, buf, F, last))
    BY <1>1, <1>2, <2>2, <2>4, WrittenTyped
  <2> QED BY <1>9, <2>5
<1>14. \E x \in 1 .. Len(t) : AtPlace(t, f2, x)
  <2>1. PICK x \in 1 .. q : /\ g[x] = f2.resume_addr /\ f2.resume_index <= x - 1
                            /\ f2.cursor <= (f2.resume_index + (q - x + 1)) * Capacity
                            /\ f2.size <= (f2.resume_index + (q - x + 1)) * Capacity
    BY <1>4 DEF ResumesIn
  <2>2. AtPlace(t, f2, x)
    BY <1>5, <2>1 DEF AtPlace
  <2> QED BY <1>5, <2>2
<1>15. /\ Keeps(C, Cut(C, n, q))
       /\ ExactAt(t, f2) /\ q = InBlocks(f2.size) => Exactly(C, Cut(C, n, q))
  <2>1. /\ f2.name = n /\ entry'[n].addr = f2.addr /\ entry'[n].size = f2.size
        /\ handle' = [handle EXCEPT ![h] = f2]
    BY <1>6 DEF Updates
  <2> QED BY <1>1, <1>5, <1>6, <1>7, <1>12, <1>13, <1>14, <2>1, FileChanges
<1>16. ASSUME ResumesTruly(On(C, n), q, f2) PROVE ExactAt(t, f2) /\ q = InBlocks(f2.size)
  <2>1. PICK i \in Nat : i = f2.resume_index
    BY DEF File
  <2>2. /\ i + 1 <= q /\ g[i + 1] = f2.resume_addr
        /\ f2.cursor <= f2.size /\ q = InBlocks(f2.size)
    BY <1>4, <1>16, <2>1 DEF ResumesTruly
  <2>3. i + 1 \in 1 .. q
    BY <2>2
  <2>4. t[i + 1] = f2.resume_addr /\ i + 1 <= Len(t)
    BY <1>5, <2>2, <2>3
  <2> QED BY <2>1, <2>2, <2>4 DEF ExactAt
<1> QED BY <1>15, <1>16

(* Where a write of h begins, with what it takes for its file.               *)
LEMMA WriteBegins ==
  ASSUME NEW C, Sound(C), NEW h \in Handle, handle[h] # Closed, NEW f, f = handle[h],
         NEW s, s = C[f.name], NEW w, w = WriteStart(f)
  PROVE  \E p \in 1 .. Len(s) + 1, o \in Nat :
           /\ Begins(s, f, p, o)
           /\ Truly(s, f) => o = p - 1
           /\ w.offset = o * Capacity
           /\ HasBlocks(s, p, w) /\ w.new \in {0, 1}
           /\ p = Len(s) + 1 <=> w.new = 1
           /\ w.new = 1 => Last(ChainFrom[Resume(f).addr]) = s[Len(s)]
<1>1. /\ f \in File /\ f.name \in Name /\ s \in BlockSeqs
      /\ entry[f.name] # NoFile /\ entry[f.name].size = f.size
  BY OpenHandle
<1>2. PICK p \in 1 .. Len(s) + 1, o \in Nat :
        /\ Begins(s, f, p, o)
        /\ Truly(s, f) => o = p - 1
        /\ w.offset = o * Capacity
        /\ \/ w.new = 0 /\ p <= Len(s) /\ w.blocks = SubSeq(s, p, Len(s))
           \/ /\ w.new = 1 /\ p = Len(s) + 1
              /\ w.blocks = IF Free = <<>> THEN <<>> ELSE <<Head(Free)>>
              /\ Last(ChainFrom[Resume(f).addr]) = s[Len(s)]
  BY WriteStartsAt DEF Sound
<1>4. /\ HasBlocks(s, p, w) /\ w.new \in {0, 1}
      /\ w.new = 1 => Last(ChainFrom[Resume(f).addr]) = s[Len(s)]
  BY <1>2 DEF HasBlocks
<1>5. p = Len(s) + 1 <=> w.new = 1
  BY <1>1, <1>2, SeqSorts
<1> QED BY <1>2, <1>4, <1>5

(* With room for every write, every handle is so.                            *)
LEMMA ExactIsTrue ==
  ASSUME NEW C, Sound(C), Exact(C, entry, handle), NEW h \in Handle, handle[h] # Closed
  PROVE  Truly(C[handle[h].name], handle[h])
<1>1. /\ handle[h].name \in Name /\ entry[handle[h].name] # NoFile
      /\ entry[handle[h].name].size = handle[h].size
  BY OpenHandle
<1> QED BY <1>1 DEF Exact, Truly

(* The bytes of a write go to the blocks from place p to q, which it takes   *)
(* for its file's from the o-th on, and in which they all find room.         *)
PutsDown(C, f, buf, p, q, o) ==
  /\ Begins(C[f.name], f, p, o) /\ p <= q
  /\ disk' = Written(f, SubSeq(On(C, f.name), p, q), q - p + 1, o * Capacity, buf,
                     Beyond(C[f.name], q),
                     IF p = Len(C[f.name]) + 1 THEN C[f.name][Len(C[f.name])] ELSE 0)
  /\ f.cursor + Len(buf) <= (o + (q - p + 1)) * Capacity

EndsAt(f2, end) == f2.cursor = end /\ f2.size = end

LEMMA WritePuts ==
  ASSUME NEW C, Sound(C), NEW h \in Handle, NEW buf \in Seq(Byte \cup {Blank}), Write(h, buf),
         NEW f, f = handle[h], NEW n, n = f.name
  PROVE  \E p \in 1 .. Len(C[n]) + 1, q \in 1 .. Len(On(C, n)), o \in Nat :
           /\ Keeps(C, Cut(C, n, q)) /\ Exactly(C, Cut(C, n, q))
           /\ Truly(C[n], f) => o = p - 1
           /\ PutsDown(C, f, buf, p, q, o)
           /\ \E f2 \in File : /\ Updates(h, f, f2) /\ EndsAt(f2, f.cursor + Len(buf))
                               /\ Truly(C[n], f) => ResumesTruly(On(C, n), q, f2)
<1>1. handle[h] # Closed
  BY DEF Write
<1>2. f \in File /\ n \in Name /\ f = handle[h] /\ n = f.name /\ C[n] \in BlockSeqs
  BY <1>1, OpenHandle
<1>3. PICK s \in BlockSeqs, g \in BlockSeqs : s = C[n] /\ g = On(C, n) /\ Len(g) \in Nat /\ Len(s) \in Nat
  BY <1>2, OnIs, SeqSorts DEF Sound
<1>4. PICK w : w = WriteStart(f)
  OBVIOUS
<1>5. PICK p \in 1 .. Len(s) + 1, o \in Nat :
        /\ Begins(s, f, p, o)
        /\ Truly(s, f) => o = p - 1
        /\ w.offset = o * Capacity
        /\ HasBlocks(s, p, w) /\ w.new \in {0, 1}
        /\ p = Len(s) + 1 <=> w.new = 1
        /\ w.new = 1 => Last(ChainFrom[Resume(f).addr]) = s[Len(s)]
  BY SMTT(40), <1>1, <1>2, <1>3, <1>4, WriteBegins
<1>6. PICK need, T :
        /\ need = ((f.cursor + Len(buf)) - w.offset + Capacity - 1) \div Capacity
        /\ T = SubSeq(w.blocks \o SubSeq(Free, w.new + 1, Len(Free)), 1, need)
        /\ Len(buf) > 0 /\ w.blocks # <<>>
        /\ need <= Len(w.blocks \o SubSeq(Free, w.new + 1, Len(Free)))
        /\ disk' = Written(f, T, need, w.offset, buf,
                           Range(SubSeq(w.blocks, need + 1, Len(w.blocks))),
                           IF w.new = 1 THEN Last(ChainFrom[Resume(f).addr]) ELSE 0)
        /\ handle' = [handle EXCEPT ![h] =
             [set_resume(f, Last(T), w.offset + (need - 1) * Capacity)
              EXCEPT !.cursor = f.cursor + Len(buf), !.size = f.cursor + Len(buf)]]
        /\ entry' = [entry EXCEPT ![f.name].size = f.cursor + Len(buf)]
  BY <1>2, <1>4, Zenon DEF Write
<1>7. PICK c \in Nat, end \in Nat \ {0}, x \in Nat :
        c = f.cursor /\ end = c + Len(buf) /\ x = o * Capacity /\ x < end
  <2>0. Len(buf) \in Nat /\ Len(buf) > 0 /\ f.cursor \in Nat
    <3>1. f.cursor \in Nat
      BY <1>2 DEF File
    <3>2. Len(buf) > 0
      BY <1>6
    <3> QED BY <3>1, <3>2
  <2>1. PICK c \in Nat, b \in Nat \ {0} : c = f.cursor /\ b = Len(buf)
    BY <2>0
  <2>2. PICK x \in Nat : x = o * Capacity
    BY FileAssumption
  <2>3. x <= c
    BY <1>5, <2>1, <2>2 DEF Begins
  <2>4. c + b \in Nat \ {0} /\ x < c + b
    BY <2>1, <2>2, <2>3
  <2> QED BY <2>1, <2>2, <2>4
<1>8. Capacity \in Nat \ {0}
  BY FileAssumption
<1>9. need \in Nat \ {0} /\ end - x <= need * Capacity /\ (need - 1) * Capacity < end - x
  <2>1. PICK v \in Nat \ {0} : v = end - x
    <3>1. end - x \in Nat \ {0}
      BY SMTT(40), <1>7
    <3> QED BY <3>1
  <2>2. need = (v + Capacity - 1) \div Capacity
    BY <1>5, <1>6, <1>7, <2>1
  <2> QED BY <1>8, <2>1, <2>2, RoundsUp
<1>10. /\ w.blocks \in BlockSeqs
       /\ w.blocks \o SubSeq(Free, w.new + 1, Len(Free)) = SubSeq(g, p, Len(g))
  BY <1>2, <1>3, <1>5, BlocksToCome DEF Sound
<1>11. Len(SubSeq(g, p, Len(g))) = IF p <= Len(g) THEN Len(g) - p + 1 ELSE 0
  <2>1. p \in Nat \ {0} /\ Len(g) <= Len(g)
    BY <1>3
  <2> QED BY <1>3, <2>1, PartIs
<1>12. PICK q \in 1 .. Len(g) : q = p + need - 1 /\ q >= p /\ p \in 1 .. Len(g) /\ need \in 1 .. Len(g) - p + 1
  <2>1. need <= IF p <= Len(g) THEN Len(g) - p + 1 ELSE 0
    BY <1>6, <1>10, <1>11
  <2>2. p \in 1 .. Len(g) /\ need \in 1 .. Len(g) - p + 1
    BY <1>3, <1>9, <2>1
  <2>3. p + need - 1 \in 1 .. Len(g) /\ p + need - 1 >= p
    BY <1>3, <1>9, <2>2
  <2> QED BY <2>2, <2>3
<1>13. T = SubSeq(g, p, q)
  <2>1. SubSeq(SubSeq(g, p, Len(g)), 1, need) = SubSeq(g, p, p + need - 1)
    BY <1>12, FirstOf
  <2> QED BY <1>6, <1>10, <1>12, <2>1
<1>14. T \in BlockSeqs /\ Last(T) = g[q] /\ g[q] \in Blocks
  <2>1. p \in Nat \ {0} /\ q \in Nat /\ q <= Len(g) /\ p <= q /\ q - p + 1 = need
    BY <1>9, <1>12
  <2>2. /\ T \in BlockSeqs /\ Len(T) = IF p <= q THEN q - p + 1 ELSE 0
        /\ \A k \in 1 .. Len(T) : T[k] = g[p + k - 1]
    BY <1>13, <2>1, PartIs
  <2>3. Len(T) = need /\ T[need] = g[p + need - 1]
    BY <1>9, <2>1, <2>2
  <2>4. Last(T) = T[Len(T)]
    BY DEF Last
  <2> QED BY <1>3, <1>12, <2>2, <2>3, <2>4, SeqSorts
<1>15. Range(SubSeq(w.blocks, need + 1, Len(w.blocks))) = Beyond(s, q)
  <2>1. Range(SubSeq(w.blocks, need + 1, Len(w.blocks))) = Beyond(s, p + need - 1)
    BY <1>5, <1>9, <1>10, FreedAre
  <2> QED BY <1>12, <2>1
<1>16. WritesIn(C, f, g, p, q)
  <2>1. PICK last : last = IF p = Len(s) + 1 /\ q >= p THEN s[Len(s)] ELSE 0
    OBVIOUS
  <2>2. last = IF w.new = 1 THEN Last(ChainFrom[Resume(f).addr]) ELSE 0
    BY <1>5, <1>12, <2>1
  <2>3. PICK y \in Int : y = w.offset
    BY <1>5, <1>7
  <2>4. disk' = Written(f, SubSeq(g, p, q), need, y, buf, Beyond(s, q), last)
    BY <1>6, <1>13, <1>15, <2>2, <2>3
  <2>5. p <= q + 1
    BY <1>12
  <2>6. need \in Nat
    BY <1>9
  <2> QED BY <1>2, <1>3, <1>12, <2>1, <2>4, <2>5, <2>6 DEF WritesIn
<1>17. PICK i \in Nat : i = o + need - 1 /\ i = (x + (need - 1) * Capacity) \div Capacity
  <2>1. PICK k \in Nat : k = need - 1
    <3>1. need - 1 \in Nat
      BY <1>9
    <3> QED BY <3>1
  <2>2. (o + k) * Capacity = x + k * Capacity
    BY <1>7, <1>8, <2>1, Distributes
  <2>4. o + k = o + need - 1 /\ o + k \in Nat
    BY <1>9, <2>1
  <2>3. ((o + k) * Capacity) \div Capacity = o + k
    BY <1>8, <2>4, DividesBack
  <2> QED BY <2>1, <2>2, <2>3, <2>4
<1>18. PICK f2 \in File : /\ f2.name = f.name /\ f2.addr = f.addr
                          /\ f2.cursor = end /\ f2.size = end
                          /\ f2.resume_index = i /\ f2.resume_addr = g[q]
                          /\ handle' = [handle EXCEPT ![h] = f2]
  <2>1. PICK f2 : f2 = [[f EXCEPT !.resume_index = i, !.resume_addr = g[q]]
                        EXCEPT !.cursor = end, !.size = end]
    OBVIOUS
  <2>2. handle' = [handle EXCEPT ![h] = f2]
    BY <1>5, <1>6, <1>7, <1>14, <1>17, <2>1 DEF set_resume
  <2>3. /\ f2 \in File /\ f2.name = f.name /\ f2.addr = f.addr
        /\ f2.cursor = end /\ f2.size = end
        /\ f2.resume_index = i /\ f2.resume_addr = g[q]
    BY <1>2, <1>14, <2>1 DEF File
  <2> QED BY <2>2, <2>3
<1>19. Updates(h, f, f2)
  BY <1>6, <1>7, <1>18 DEF Updates
<1>20. PICK u \in Nat, v \in Int :
         /\ u = need * Capacity /\ v = (need - 1) * Capacity
         /\ (o + need) * Capacity = x + u /\ (o + need - 1) * Capacity = x + v
  <2>1. need * Capacity \in Nat /\ (need - 1) * Capacity \in Int
    BY <1>8, <1>9
  <2>2. (o + need) * Capacity = o * Capacity + need * Capacity
    BY <1>8, <1>9, Distributes
  <2>3. (o + (need - 1)) * Capacity = o * Capacity + (need - 1) * Capacity
    <3>1. need - 1 \in Int
      BY <1>9
    <3> QED BY <1>8, <3>1, Distributes
  <2>4. o + (need - 1) = o + need - 1
    BY <1>9
  <2> QED BY <1>7, <2>1, <2>2, <2>3, <2>4
<1>21. ResumesIn(g, q, f2)
  <2>1. i <= q - 1 /\ i + (q - q + 1) = o + need
    <3>1. o <= p - 1
      BY <1>5 DEF Begins
    <3>2. q = p + need - 1 /\ i = o + need - 1
      BY <1>12, <1>17, Zenon
    <3>3. need \in Nat /\ p \in Int
      BY <1>9
    <3> QED BY <3>1, <3>2, <3>3
  <2>2. end <= (i + (q - q + 1)) * Capacity
    <3>1. (i + (q - q + 1)) * Capacity = x + u
      BY <1>20, <2>1
    <3>2. end - x <= u
      BY <1>9, <1>20
    <3>3. end <= x + u
      BY <3>2
    <3> QED BY <3>1, <3>3
  <2>3. q \in 1 .. q
    BY <1>12
  <2> QED BY <1>18, <2>1, <2>2, <2>3 DEF ResumesIn
<1>22. Truly(s, f) => ResumesTruly(g, q, f2)
  <2> SUFFICES ASSUME Truly(s, f) PROVE ResumesTruly(g, q, f2)
    OBVIOUS
  <2>1. i + 1 = q /\ q = o + need /\ q - 1 = o + need - 1
    <3>1. o = p - 1
      BY <1>5, Zenon
    <3>2. q = p + need - 1 /\ i = o + need - 1
      BY <1>12, <1>17, Zenon
    <3>3. need \in Nat /\ p \in Int
      BY <1>9
    <3> QED BY <3>1, <3>2, <3>3
  <2>2. end <= q * Capacity /\ (q - 1) * Capacity < end
    <3>1. q * Capacity = x + u /\ (q - 1) * Capacity = x + v
      BY <1>20, <2>1
    <3>2. end - x <= u /\ v < end - x
      BY <1>9, <1>20
    <3>3. end <= x + u /\ x + v < end
      BY <3>2
    <3> QED BY <3>1, <3>3
  <2>3. q \in Nat
    BY <1>12
  <2>4. (end + Capacity - 1) \div Capacity = q
    BY <1>8, <2>2, <2>3, RoundsTo
  <2>5. InBlocks(f2.size) = q
    BY <1>18, <2>4 DEF InBlocks
  <2> QED BY <1>12, <1>18, <2>1, <2>5 DEF ResumesTruly
<1>23. /\ Keeps(C, Cut(C, n, q))
       /\ ResumesTruly(On(C, n), q, f2) => Exactly(C, Cut(C, n, q))
  BY <1>1, <1>2, <1>3, <1>12, <1>16, <1>18, <1>19, <1>21, WriteChanges
<1>24. Exactly(C, Cut(C, n, q))
  <2>1. Exact(C, entry, handle) => Truly(s, f)
    BY <1>1, <1>2, <1>3, ExactIsTrue
  <2> QED BY <1>3, <1>22, <1>23, <2>1 DEF Exactly
<1>25. PutsDown(C, f, buf, p, q, o)
  <2>1. need = q - p + 1 /\ w.offset = o * Capacity
    BY SMTT(40), <1>5, <1>9, <1>12
  <2>2. disk' = Written(f, SubSeq(On(C, n), p, q), q - p + 1, o * Capacity, buf, Beyond(C[n], q),
                        IF p = Len(C[n]) + 1 THEN C[n][Len(C[n])] ELSE 0)
    BY <1>3, <1>5, <1>6, <1>13, <1>15, <2>1
  <2>3. f.cursor + Len(buf) <= (o + (q - p + 1)) * Capacity
    <3>1. (o + (q - p + 1)) * Capacity = x + u
      BY <1>20, <2>1
    <3>2. end - x <= u
      BY <1>9, <1>20
    <3>3. end <= x + u
      BY <3>2
    <3> QED BY <1>7, <3>1, <3>3
  <2> QED BY <1>2, <1>3, <1>5, <1>12, <2>2, <2>3 DEF PutsDown
<1>26. EndsAt(f2, f.cursor + Len(buf))
  BY <1>7, <1>18 DEF EndsAt
<1> QED BY <1>3, <1>5, <1>19, <1>22, <1>23, <1>24, <1>25, <1>26

LEMMA WriteKeeps ==
  ASSUME NEW C, Sound(C), NEW h \in Handle, NEW buf \in Seq(Byte \cup {Blank}), Write(h, buf)
  PROVE  \E D : Keeps(C, D) /\ Exactly(C, D)
BY WritePuts

(* Nothing of a chain is beyond a place that is not before its end.          *)
LEMMA NoneBeyond ==
  ASSUME NEW s \in BlockSeqs, NEW q \in Nat, Len(s) <= q
  PROVE  Beyond(s, q) = {}
<1>1. q + 1 .. Len(s) = {}
  BY SeqSorts
<1> QED BY <1>1 DEF Beyond

(* The disk fills up: the chain has all the free blocks.                     *)
LEMMA WriteDiskFullPuts ==
  ASSUME NEW C, Sound(C), NEW h \in Handle, NEW buf \in Seq(Byte \cup {Blank}), WriteDiskFull(h, buf),
         NEW f0, f0 = handle[h], NEW n0, n0 = f0.name
  PROVE  \/ UNCHANGED <<disk, entry, handle>>
         \/ \E p \in 1 .. Len(C[n0]) + 1, q \in 1 .. Len(On(C, n0)) :
               /\ Keeps(C, Cut(C, n0, q)) /\ WritesIn(C, f0, On(C, n0), p, q)
               /\ \E f2 \in File : f2.name = n0 /\ handle' = [handle EXCEPT ![h] = f2]
<1>1. handle[h] # Closed /\ entry' = entry
  BY DEF WriteDiskFull
<1>2. PICK f \in File, n \in Name : /\ f = handle[h] /\ n = f.name /\ C[n] \in BlockSeqs
                                    /\ entry[n] \in EntryOf /\ entry[n].size = f.size
  BY <1>1, OpenHandle
<1>3. PICK s \in BlockSeqs, g \in BlockSeqs :
        /\ s = C[n] /\ g = On(C, n) /\ Len(g) \in Nat /\ Len(s) \in Nat /\ Len(s) <= Len(g)
  <2>1. C[n] \in BlockSeqs /\ On(C, n) \in BlockSeqs /\ Len(On(C, n)) = Len(C[n]) + Len(Free)
    BY <1>2, OnIs DEF Sound
  <2>2. Len(Free) \in Nat /\ Len(C[n]) \in Nat
    BY <2>1, FreeIs, SeqSorts
  <2> QED BY <2>1, <2>2
<1>4. PICK w : w = WriteStart(f)
  OBVIOUS
<1>5. PICK p \in 1 .. Len(s) + 1, o \in Nat :
        /\ Begins(s, f, p, o)
        /\ Truly(s, f) => o = p - 1
        /\ w.offset = o * Capacity
        /\ HasBlocks(s, p, w) /\ w.new \in {0, 1}
        /\ p = Len(s) + 1 <=> w.new = 1
        /\ w.new = 1 => Last(ChainFrom[Resume(f).addr]) = s[Len(s)]
  <2>1. f = handle[h] /\ s = C[f.name]
    BY <1>2, <1>3
  <2> QED BY <1>1, <1>4, <2>1, WriteBegins
<1>6. PICK T :
        /\ T = w.blocks \o SubSeq(Free, w.new + 1, Len(Free))
        /\ IF w.blocks = <<>> THEN UNCHANGED <<disk, handle>>
           ELSE /\ disk' = Written(f, T, Len(T) - 1, w.offset, buf, {},
                             IF w.new = 1 THEN Last(ChainFrom[Resume(f).addr]) ELSE 0)
                /\ handle' = [handle EXCEPT ![h] =
                     [set_resume(f, Last(T), w.offset + (Len(T) - 1) * Capacity)
                      EXCEPT !.cursor = w.offset + Len(T) * Capacity]]
  BY <1>2, <1>4, Zenon DEF WriteDiskFull
<1>7. CASE w.blocks = <<>>
  <2>1. disk' = disk /\ handle' = handle
    BY <1>6, <1>7
  <2> QED BY <1>1, <2>1
<1>8. CASE w.blocks # <<>>
  <2>1. /\ w.blocks \in BlockSeqs
        /\ w.blocks \o SubSeq(Free, w.new + 1, Len(Free)) = SubSeq(g, p, Len(g))
    BY <1>2, <1>3, <1>5, BlocksToCome DEF Sound
  <2>2. p <= Len(g)
    <3>1. CASE w.new = 0
      <4>1. p <= Len(s)
        BY <1>5, <3>1 DEF HasBlocks
      <4> QED BY <1>3, <4>1
    <3>2. CASE w.new = 1
      <4>1. Free # <<>> /\ p = Len(s) + 1
        BY <1>5, <1>8, <3>2 DEF HasBlocks
      <4>2. Len(g) = Len(s) + Len(Free) /\ Len(Free) >= 1 /\ Len(Free) \in Nat
        BY <1>2, <1>3, <4>1, OnIs, FreeIs, SeqSorts DEF Sound
      <4> QED BY <1>3, <4>1, <4>2
    <3> QED BY <1>5, <3>1, <3>2
  <2>3. PICK q \in 1 .. Len(g), m \in Nat \ {0} :
          q = Len(g) /\ m = q - p + 1 /\ p + m = q + 1 /\ q >= p /\ Len(s) <= q
    <3>1. Len(g) \in 1 .. Len(g) /\ Len(g) - p + 1 \in Nat \ {0} /\ p + (Len(g) - p + 1) = Len(g) + 1
      BY <1>3, <2>2
    <3> QED BY <1>3, <2>2, <3>1
  <2>4. /\ T = SubSeq(g, p, q) /\ Len(T) = m /\ Last(T) = g[q] /\ g[q] \in Blocks
    <3>1. p \in Nat \ {0} /\ q \in Nat /\ q <= Len(g) /\ p <= q
      BY <2>2, <2>3
    <3>2. T = SubSeq(g, p, q)
      BY <1>6, <2>1, <2>3
    <3>3. /\ T \in BlockSeqs /\ Len(T) = IF p <= q THEN q - p + 1 ELSE 0
          /\ \A k \in 1 .. Len(T) : T[k] = g[p + k - 1]
      BY <3>1, <3>2, PartIs
    <3>4. Len(T) = m /\ m \in 1 .. m /\ p + m - 1 = q
      BY <2>3, <3>1, <3>3
    <3>5. T[m] = g[q]
      BY <3>3, <3>4
    <3>6. Last(T) = T[Len(T)]
      BY DEF Last
    <3> QED BY <2>3, <3>2, <3>4, <3>5, <3>6, SeqSorts
  <2>5. Capacity \in Nat \ {0}
    BY FileAssumption
  <2>6. PICK x \in Nat, y \in Nat : x = o * Capacity /\ y = (o + m) * Capacity /\ y = x + m * Capacity
    <3>1. o * Capacity \in Nat /\ (o + m) * Capacity \in Nat
      BY <2>5
    <3>2. (o + m) * Capacity = o * Capacity + m * Capacity
      BY <2>5, Distributes
    <3> QED BY <3>1, <3>2
  <2>7. WritesIn(C, f, g, p, q)
    <3>1. PICK last : last = IF p = Len(s) + 1 /\ q >= p THEN s[Len(s)] ELSE 0
      OBVIOUS
    <3>2. last = IF w.new = 1 THEN Last(ChainFrom[Resume(f).addr]) ELSE 0
      BY <1>5, <2>3, <3>1
    <3>3. PICK z \in Int : z = w.offset
      BY <1>5, <2>6
    <3>4. Beyond(s, q) = {}
      BY <2>3, NoneBeyond
    <3>5. PICK k \in Nat : k = m - 1
      <4>1. m - 1 \in Nat
        OBVIOUS
      <4> QED BY <4>1
    <3>6. disk' = Written(f, T, k, z, buf, {}, last)
      BY <1>6, <1>8, <2>4, <3>2, <3>3, <3>5
    <3>7. disk' = Written(f, SubSeq(g, p, q), k, z, buf, Beyond(s, q), last)
      BY <2>4, <3>4, <3>6
    <3>8. p <= q + 1
      BY <2>3
    <3> QED BY <1>2, <1>3, <2>3, <3>1, <3>7, <3>8 DEF WritesIn
  <2>8. PICK i \in Nat : i = o + m - 1 /\ i = (x + (m - 1) * Capacity) \div Capacity
    <3>1. PICK k \in Nat : k = m - 1
      <4>1. m - 1 \in Nat
        OBVIOUS
      <4> QED BY <4>1
    <3>2. (o + k) * Capacity = x + k * Capacity
      BY <2>5, <2>6, Distributes
    <3>3. o + k = o + m - 1 /\ o + k \in Nat
      BY <3>1
    <3>4. ((o + k) * Capacity) \div Capacity = o + k
      BY <2>5, <3>3, DividesBack
    <3> QED BY <3>1, <3>2, <3>3, <3>4
  <2>9. PICK f2 \in File : /\ f2.name = f.name /\ f2.addr = f.addr
                           /\ f2.cursor = y /\ f2.size = f.size
                           /\ f2.resume_index = i /\ f2.resume_addr = g[q]
                           /\ handle' = [handle EXCEPT ![h] = f2]
    <3>1. PICK f2 : f2 = [[f EXCEPT !.resume_index = i, !.resume_addr = g[q]] EXCEPT !.cursor = y]
      OBVIOUS
    <3>2. w.offset + Len(T) * Capacity = y /\ w.offset + (Len(T) - 1) * Capacity = x + (m - 1) * Capacity
      BY <1>5, <2>4, <2>6
    <3>3. handle' = [handle EXCEPT ![h] = f2]
      BY <1>6, <1>8, <2>4, <2>8, <3>1, <3>2 DEF set_resume
    <3>4. /\ f2 \in File /\ f2.name = f.name /\ f2.addr = f.addr
          /\ f2.cursor = y /\ f2.size = f.size
          /\ f2.resume_index = i /\ f2.resume_addr = g[q]
      BY <2>4, <3>1 DEF File
    <3> QED BY <3>3, <3>4
  <2>10. Updates(h, f, f2)
    <3>1. PICK e \in EntryOf : e = entry[n] /\ e.size = f2.size
      BY <1>2, <2>9
    <3>2. [e EXCEPT !.size = f2.size] = e
      BY <3>1 DEF EntryOf
    <3>3. entry \in [Name -> EntryOf \cup {NoFile}]
      BY DEF Sound, FilesHeld
    <3>4. [entry EXCEPT ![n] = e] = entry
      BY <3>1, <3>3
    <3>5. entry' = [entry EXCEPT ![n].size = f2.size]
      BY <1>1, <3>1, <3>2, <3>4
    <3> QED BY <1>2, <2>9, <3>5 DEF Updates
  <2>11. ResumesIn(g, q, f2)
    <3>1. i <= q - 1 /\ i + (q - q + 1) = o + m
      <4>1. o <= p - 1
        BY <1>5 DEF Begins
      <4> QED BY <2>3, <2>8, <4>1
    <3>2. (i + (q - q + 1)) * Capacity = y
      BY <2>6, <3>1
    <3>3. f.size <= y
      <4>1. PICK t \in Nat, r \in Nat, z \in Nat :
              t = o + (Len(s) - p + 1) /\ r = t * Capacity /\ z = f.size
        <5>1. o + (Len(s) - p + 1) \in Nat
          BY <1>3
        <5>2. (o + (Len(s) - p + 1)) * Capacity \in Nat
          BY <2>5, <5>1
        <5> QED BY <5>1, <5>2 DEF File
      <4>2. z <= r
        BY <1>5, <4>1 DEF Begins
      <4>3. t <= o + m
        BY <1>3, <2>3, <4>1
      <4>4. t * Capacity <= (o + m) * Capacity
        BY <2>5, <4>3, Scales
      <4>5. r <= y
        BY <2>6, <4>1, <4>4
      <4> QED BY <4>1, <4>2, <4>5
    <3>4. q \in 1 .. q /\ y <= y
      BY <2>3
    <3> QED BY <2>9, <3>1, <3>2, <3>3, <3>4 DEF ResumesIn
  <2>12. Keeps(C, Cut(C, n, q))
    BY <1>1, <1>2, <1>3, <2>3, <2>7, <2>9, <2>10, <2>11, WriteChanges
  <2> QED BY <1>2, <1>3, <1>5, <2>3, <2>7, <2>9, <2>12
<1> QED BY <1>7, <1>8

LEMMA WriteDiskFullKeeps ==
  ASSUME NEW C, Sound(C), NEW h \in Handle, NEW buf \in Seq(Byte \cup {Blank}), WriteDiskFull(h, buf)
  PROVE  \E D : Keeps(C, D)
<1>1. CASE UNCHANGED <<disk, entry, handle>>
  BY <1>1 DEF Keeps, Sound
<1>2. CASE ~ UNCHANGED <<disk, entry, handle>>
  BY <1>2, WriteDiskFullPuts
<1> QED BY <1>1, <1>2

(* A write of nothing: the chain stays, or gets the next block.              *)
LEMMA WriteNothingKeeps ==
  ASSUME NEW C, Sound(C), NEW h \in Handle, WriteNothing(h)
  PROVE  \E D : Keeps(C, D)
<1>1. handle[h] # Closed
  BY DEF WriteNothing
<1>2. PICK f \in File, n \in Name : /\ f = handle[h] /\ n = f.name /\ C[n] \in BlockSeqs
                                    /\ \E x \in 1 .. Len(C[n]) : AtPlace(C[n], f, x)
  BY <1>1, OpenHandle
<1>3. PICK s \in BlockSeqs, g \in BlockSeqs :
        /\ s = C[n] /\ g = On(C, n) /\ Len(g) = Len(s) + Len(Free)
        /\ Len(g) \in Nat /\ Len(s) \in Nat /\ Len(Free) \in Nat
        /\ \A i \in 1 .. Len(s) : g[i] = s[i]
        /\ \A i \in 1 .. Len(g) : i > Len(s) => g[i] = Free[i - Len(s)]
  <2>1. /\ C[n] \in BlockSeqs /\ On(C, n) \in BlockSeqs /\ Len(On(C, n)) = Len(C[n]) + Len(Free)
        /\ \A i \in 1 .. Len(C[n]) : On(C, n)[i] = C[n][i]
        /\ \A i \in 1 .. Len(On(C, n)) : i > Len(C[n]) => On(C, n)[i] = Free[i - Len(C[n])]
    BY SMTT(40), <1>2, OnIs DEF Sound
  <2>2. Len(Free) \in Nat /\ Len(C[n]) \in Nat /\ Len(On(C, n)) \in Nat
    BY <2>1, FreeIs, SeqSorts
  <2> QED BY <2>1, <2>2
<1>4. PICK w : w = WriteStart(f)
  OBVIOUS
<1>5. PICK p \in 1 .. Len(s) + 1, o \in Nat :
        /\ Begins(s, f, p, o)
        /\ Truly(s, f) => o = p - 1
        /\ w.offset = o * Capacity
        /\ HasBlocks(s, p, w) /\ w.new \in {0, 1}
        /\ p = Len(s) + 1 <=> w.new = 1
        /\ w.new = 1 => Last(ChainFrom[Resume(f).addr]) = s[Len(s)]
  <2>1. f = handle[h] /\ s = C[f.name]
    BY <1>2, <1>3
  <2> QED BY <1>1, <1>4, <2>1, WriteBegins
<1>6. PICK T, last :
        /\ T = IF w.new = 1 THEN w.blocks ELSE <<>>
        /\ last = IF w.new = 1 THEN Last(ChainFrom[Resume(f).addr]) ELSE 0
        /\ w.blocks # <<>>
        /\ disk' = Written(f, T, 0, w.offset, <<>>, {}, last)
        /\ handle' = [handle EXCEPT ![h].size = f.cursor]
        /\ entry' = [entry EXCEPT ![f.name].size = f.cursor]
  BY <1>2, <1>4, Zenon DEF WriteNothing
<1>7. Capacity \in Nat \ {0}
  BY FileAssumption
<1>8. PICK x \in 1 .. Len(s), l \in Nat, i \in Nat, c \in Nat :
        /\ l = Len(s) /\ i = f.resume_index /\ c = f.cursor /\ x <= l /\ l >= 1
        /\ s[x] = f.resume_addr /\ i <= x - 1
        /\ c <= (i + (l - x + 1)) * Capacity
  <2>1. PICK x \in 1 .. Len(s) : AtPlace(s, f, x)
    BY <1>2, <1>3
  <2>2. PICK l \in Nat, i \in Nat, c \in Nat :
          l = Len(s) /\ i = f.resume_index /\ c = f.cursor
    BY <1>3 DEF File
  <2>3. x <= l /\ l >= 1
    BY <2>2
  <2>4. /\ s[x] = f.resume_addr /\ i <= x - 1
        /\ c <= (i + (l - x + 1)) * Capacity
    BY <2>1, <2>2 DEF AtPlace
  <2> QED BY <2>2, <2>3, <2>4
<1>9. PICK f2 \in File : /\ f2.name = f.name /\ f2.addr = f.addr
                         /\ f2.cursor = c /\ f2.size = c
                         /\ f2.resume_index = i /\ f2.resume_addr = f.resume_addr
                         /\ handle' = [handle EXCEPT ![h] = f2]
  <2>1. PICK f2 : f2 = [f EXCEPT !.size = c]
    OBVIOUS
  <2>2. handle' = [handle EXCEPT ![h] = f2]
    BY <1>2, <1>6, <1>8, <2>1
  <2>3. /\ f2 \in File /\ f2.name = f.name /\ f2.addr = f.addr
        /\ f2.cursor = c /\ f2.size = c
        /\ f2.resume_index = i /\ f2.resume_addr = f.resume_addr
    BY <1>8, <2>1 DEF File
  <2> QED BY <2>2, <2>3
<1>10. Updates(h, f, f2)
  BY <1>6, <1>8, <1>9 DEF Updates
<1>11. PICK q \in 1 .. Len(g) :
         /\ q = (IF w.new = 1 THEN l + 1 ELSE l) /\ l <= q
         /\ T = SubSeq(g, l + 1, q)
         /\ last = IF q >= l + 1 THEN s[l] ELSE 0
  <2>1. CASE w.new = 1
    <3>1. Free # <<>> /\ T = <<Head(Free)>> /\ last = s[l]
      BY <1>5, <1>6, <1>8, <2>1 DEF HasBlocks
    <3>2. Len(Free) >= 1 /\ 1 \in 1 .. Len(Free) /\ T = <<Free[1]>>
      BY <3>1, FreeIs, SeqSorts DEF BlockSeqs
    <3>3. l + 1 \in 1 .. Len(g) /\ l + 1 > Len(s) /\ (l + 1) - Len(s) = 1
      BY <1>3, <1>8, <3>2
    <3>4. g[l + 1] = Free[1]
      BY <1>3, <3>3
    <3>5. PICK j \in 1 .. Len(g) : j = l + 1
      BY <3>3
    <3>6. j \in Nat \ {0} /\ j \in Nat /\ j <= Len(g) /\ j - j + 1 = 1 /\ j + 1 - 1 = j
      BY <1>3
    <3>7. /\ SubSeq(g, j, j) \in BlockSeqs
          /\ Len(SubSeq(g, j, j)) = IF j <= j THEN j - j + 1 ELSE 0
          /\ \A k \in 1 .. Len(SubSeq(g, j, j)) : SubSeq(g, j, j)[k] = g[j + k - 1]
      BY <3>6, PartIs
    <3>8. Len(SubSeq(g, j, j)) = 1 /\ SubSeq(g, j, j)[1] = Free[1]
      BY <3>4, <3>5, <3>6, <3>7
    <3>9. SubSeq(g, j, j) = <<Free[1]>>
      <4>1. PICK r \in BlockSeqs, u \in BlockSeqs :
              r = SubSeq(g, j, j) /\ u = <<Free[1]>> /\ Len(u) = 1 /\ u[1] = Free[1]
        <5>1. Free[1] \in Blocks
          BY <3>2, FreeIs
        <5>2. <<Free[1]>> \in BlockSeqs /\ Len(<<Free[1]>>) = 1 /\ <<Free[1]>>[1] = Free[1]
          BY <5>1 DEF BlockSeqs
        <5> QED BY <3>7, <5>2
      <4>2. Len(r) = Len(u) /\ \A k \in 1 .. Len(r) : r[k] = u[k]
        BY <3>8, <4>1
      <4>3. r = u
        BY <4>2, SeqEqual DEF BlockSeqs
      <4> QED BY <4>1, <4>3
    <3>10. T = SubSeq(g, l + 1, j) /\ l <= j /\ j >= l + 1
      <4>1. T = SubSeq(g, j, j)
        BY <3>2, <3>9
      <4>2. l <= l + 1 /\ l + 1 >= l + 1
        OBVIOUS
      <4> QED BY <3>5, <4>1, <4>2
    <3> QED BY <2>1, <3>1, <3>5, <3>10
  <2>2. CASE w.new # 1
    <3>1. T = <<>> /\ last = 0
      BY <1>6, <2>2
    <3>2. SubSeq(g, l + 1, l) = <<>>
      BY <1>8, SubSeqEmpty
    <3>3. l \in 1 .. Len(g) /\ ~ (l >= l + 1)
      BY SMTT(40), <1>3, <1>8
    <3> QED BY <2>2, <3>1, <3>2, <3>3
  <2> QED BY <2>1, <2>2
<1>12. WritesIn(C, f, g, l + 1, q)
  <2>1. Beyond(s, q) = {}
    BY <1>8, <1>11, NoneBeyond
  <2>2. PICK y \in Int : y = w.offset
    <3>1. o * Capacity \in Int
      BY <1>7
    <3> QED BY <1>5, <3>1
  <2>3. disk' = Written(f, SubSeq(g, l + 1, q), 0, y, <<>>, Beyond(s, q), last)
    BY <1>6, <1>11, <2>1, <2>2
  <2>4. last = IF l + 1 = Len(s) + 1 /\ q >= l + 1 THEN s[Len(s)] ELSE 0
    BY <1>8, <1>11
  <2>5. l + 1 <= q + 1 /\ (q >= l + 1 \/ q = Len(s))
    BY <1>8, <1>11
  <2>6. <<>> \in Seq(Byte \cup {Blank}) /\ 0 \in Nat
    OBVIOUS
  <2> QED BY <1>2, <1>3, <2>2, <2>3, <2>4, <2>5, <2>6 DEF WritesIn
<1>13. ResumesIn(g, q, f2)
  <2>0. x \in 1 .. l /\ l <= q /\ s[x] = f.resume_addr /\ g[x] = s[x]
    BY <1>3, <1>8, <1>11
  <2>1. x \in 1 .. q /\ g[x] = f.resume_addr
    BY <2>0
  <2>2. PICK a \in Nat, b \in Nat : a = i + (l - x + 1) /\ b = i + (q - x + 1) /\ a <= b
    <3>1. i + (l - x + 1) \in Nat /\ i + (q - x + 1) \in Nat /\ i + (l - x + 1) <= i + (q - x + 1)
      BY SMTT(40), <2>0
    <3> QED BY <3>1
  <2>3. a * Capacity <= b * Capacity
    BY <1>7, <2>2, Scales
  <2>4. PICK u \in Nat, v \in Nat : u = a * Capacity /\ v = b * Capacity
    BY <1>7
  <2>5. c <= v
    BY SMTT(40), <1>8, <2>2, <2>3, <2>4
  <2>6. c <= (i + (q - x + 1)) * Capacity
    BY <2>2, <2>4, <2>5
  <2> QED BY <1>8, <1>9, <2>1, <2>6 DEF ResumesIn
<1>14. PICK p1 \in 1 .. Len(s) + 1 : p1 = l + 1
  BY <1>8
<1>15. WritesIn(C, f, g, p1, q)
  BY <1>12, <1>14
<1>16. Keeps(C, Cut(C, n, q))
  BY <1>1, <1>2, <1>3, <1>9, <1>10, <1>13, <1>15, WriteChanges
<1> QED BY <1>16

(***************************************************************************)
(* The theorems                                                            *)
(***************************************************************************)

LEMMA OrdinaryKeeps ==
  ASSUME NEW C, Sound(C), Ordinary
  PROVE  \E D : Keeps(C, D) /\ Exactly(C, D)
<1>1. ASSUME NEW h \in Handle, NEW n \in Name, Create(h, n)
      PROVE  \E D : Keeps(C, D) /\ Exactly(C, D)
  BY <1>1, CreateKeeps
<1>2. ASSUME NEW h \in Handle, NEW n \in Name, NEW append \in BOOLEAN, Open(h, n, append)
      PROVE  \E D : Keeps(C, D) /\ Exactly(C, D)
  BY <1>2, OpenKeeps
<1>3. ASSUME NEW h \in Handle, NEW at \in 0 .. MaxSize, Seek(h, at)
      PROVE  \E D : Keeps(C, D) /\ Exactly(C, D)
  <2>1. at \in Nat
    BY FileAssumption
  <2> QED BY <1>3, <2>1, SeekKeeps
<1>4. ASSUME NEW h \in Handle, NEW buf \in Bufs, Read(h, Len(buf))
      PROVE  \E D : Keeps(C, D) /\ Exactly(C, D)
  <2>1. buf \in Seq(Byte \cup {Blank})
    BY BufsTyped
  <2>2. Len(buf) \in Nat
    BY <2>1
  <2> QED BY <1>4, <2>2, ReadKeeps
<1>5. ASSUME NEW h \in Handle, NEW buf \in Bufs, Write(h, buf)
      PROVE  \E D : Keeps(C, D) /\ Exactly(C, D)
  <2>1. buf \in Seq(Byte \cup {Blank})
    BY BufsTyped
  <2> QED BY <1>5, <2>1, WriteKeeps
<1>6. ASSUME NEW h \in Handle, Close(h)
      PROVE  \E D : Keeps(C, D) /\ Exactly(C, D)
  BY <1>6, CloseKeeps
<1>7. ASSUME NEW n \in Name, Delete(n)
      PROVE  \E D : Keeps(C, D) /\ Exactly(C, D)
  BY <1>7, DeleteKeeps
<1> QED BY <1>1, <1>2, <1>3, <1>4, <1>5, <1>6, <1>7 DEF Ordinary

LEMMA StuttersKeeps ==
  ASSUME NEW C, Sound(C), UNCHANGED vars
  PROVE  Keeps(C, C) /\ Exactly(C, C)
<1>1. disk' = disk /\ entry' = entry /\ handle' = handle
  BY DEF vars
<1> QED BY <1>1 DEF Keeps, Exactly, Sound

LEMMA InitRoom == Init => RoomInv
<1> SUFFICES ASSUME Init PROVE RoomInv
  OBVIOUS
<1>1. /\ disk = [a \in {} |-> 0] /\ entry = [n \in Name |-> NoFile]
      /\ handle = [h \in Handle |-> Closed]
  BY DEF Init
<1>2. DOMAIN disk = {}
  BY <1>1
<1>3. PICK C \in [Name -> BlockSeqs] : \A n \in Name : C[n] = <<>>
  <2>1. <<>> \in BlockSeqs
    BY DEF BlockSeqs
  <2>2. [n \in Name |-> <<>>] \in [Name -> BlockSeqs]
    BY <2>1
  <2> QED BY <2>2
<1>4. \A n \in Name : entry[n] = NoFile /\ Len(C[n]) = 0
  BY <1>1, <1>3
<1>5. Chained(C, disk, entry)
  BY <1>2, <1>3, <1>4 DEF Chained, StartsAt, Linked, Apart, Covered
<1>6. FilesHeld(C, entry, handle)
  BY <1>1, <1>4 DEF FilesHeld, Alone
<1>7. Exact(C, entry, handle)
  BY <1>1, <1>4 DEF Exact
<1> QED BY <1>2, <1>5, <1>6, <1>7 DEF RoomInv, DiskOK

LEMMA FileStep == FileInv /\ [Next]_vars => FileInv'
<1> SUFFICES ASSUME FileInv, [Next]_vars PROVE FileInv'
  OBVIOUS
<1>1. PICK C : Sound(C)
  BY DEF FileInv, Sound
<1>2. \E D : Keeps(C, D)
  <2>1. CASE Ordinary
    BY <1>1, <2>1, OrdinaryKeeps
  <2>2. ASSUME NEW h \in Handle, WriteNothing(h) PROVE \E D : Keeps(C, D)
    BY <1>1, <2>2, WriteNothingKeeps
  <2>3. ASSUME NEW h \in Handle, NEW buf \in Bufs, WriteDiskFull(h, buf)
        PROVE  \E D : Keeps(C, D)
    <3>1. buf \in Seq(Byte \cup {Blank})
      BY BufsTyped
    <3> QED BY <1>1, <2>3, <3>1, WriteDiskFullKeeps
  <2>4. CASE UNCHANGED vars
    BY <1>1, <2>4, StuttersKeeps
  <2> QED BY <2>1, <2>2, <2>3, <2>4 DEF Next
<1> QED BY <1>2 DEF FileInv, Keeps

LEMMA RoomStep == RoomInv /\ [Ordinary]_vars => RoomInv'
<1> SUFFICES ASSUME RoomInv, [Ordinary]_vars PROVE RoomInv'
  OBVIOUS
<1>1. PICK C : Sound(C) /\ Exact(C, entry, handle)
  BY DEF RoomInv, Sound
<1>2. \E D : Keeps(C, D) /\ Exactly(C, D)
  <2>1. CASE Ordinary
    BY <1>1, <2>1, OrdinaryKeeps
  <2>2. CASE UNCHANGED vars
    BY <1>1, <2>2, StuttersKeeps
  <2> QED BY <2>1, <2>2
<1>3. PICK D : Keeps(C, D) /\ Exact(D, entry', handle')
  BY <1>1, <1>2 DEF Exactly
<1> QED BY <1>3 DEF RoomInv, Keeps

(* The chain of a file, as its blocks are read.                              *)
LEMMA ChainIs ==
  ASSUME NEW C, Chained(C, disk, entry), NEW n \in Name, entry[n] # NoFile
  PROVE  /\ C[n] \in BlockSeqs /\ ChainOf(n) = C[n] /\ 1 \in 1 .. Len(C[n])
<1>1. PICK s \in BlockSeqs : s = C[n] /\ s # <<>> /\ s[1] = entry[n].addr
  BY DEF Chained, StartsAt
<1>2. 1 \in 1 .. Len(s)
  BY <1>1, SeqSorts
<1>3. ChainFrom[s[1]] = SubSeq(s, 1, Len(s))
  BY <1>1, <1>2, ChainsAre
<1>4. SubSeq(s, 1, Len(s)) = s
  BY <1>2, RestIs
<1> QED BY <1>1, <1>2, <1>3, <1>4 DEF ChainOf

LEMMA Hold == FileInv => ChainsHold
<1> SUFFICES ASSUME FileInv PROVE ChainsHold
  OBVIOUS
<1>1. PICK C : Chained(C, disk, entry) /\ FilesHeld(C, entry, handle)
  BY DEF FileInv
<1>2. \A n \in Names : n \in Name /\ ChainOf(n) = C[n] /\ C[n] \in BlockSeqs
  BY <1>1, ChainIs DEF Names
<1>3. \A n \in Names : Range(ChainOf(n)) = {C[n][i] : i \in 1 .. Len(C[n])}
  BY <1>2, SeqSorts DEF Range
<1>4. ChainsPartition
  <2>1. ASSUME NEW a \in DOMAIN disk PROVE a \in UNION {Range(ChainOf(n)) : n \in Names}
    <3>1. PICK n \in Name : \E i \in 1 .. Len(C[n]) : a = C[n][i]
      BY <1>1 DEF Chained, Covered
    <3>2. n \in Names
      BY <1>1, <3>1 DEF Chained, StartsAt, Names
    <3>3. a \in Range(ChainOf(n))
      BY <1>3, <3>1, <3>2
    <3> QED BY <3>2, <3>3
  <2>2. ASSUME NEW a \in UNION {Range(ChainOf(n)) : n \in Names} PROVE a \in DOMAIN disk
    <3>1. PICK n \in Names : a \in Range(ChainOf(n))
      OBVIOUS
    <3>2. PICK i \in 1 .. Len(C[n]) : a = C[n][i]
      BY <1>3, <3>1
    <3> QED BY <1>1, <1>2, <3>2 DEF Chained, Linked
  <2>3. ASSUME NEW n \in Names PROVE IsInjective(ChainOf(n))
    <3>1. DOMAIN C[n] = 1 .. Len(C[n])
      BY <1>2, SeqSorts
    <3>2. \A i, j \in 1 .. Len(C[n]) : C[n][i] = C[n][j] => i = j
      BY <1>1, <1>2 DEF Chained, Apart
    <3> QED BY <1>2, <3>1, <3>2 DEF IsInjective
  <2>4. ASSUME NEW m \in Names, NEW n \in Names, m # n
        PROVE  Range(ChainOf(m)) \cap Range(ChainOf(n)) = {}
    <3>1. \A i \in 1 .. Len(C[m]), j \in 1 .. Len(C[n]) : C[m][i] # C[n][j]
      BY <1>1, <1>2, <2>4 DEF Chained, Apart
    <3> QED BY <1>3, <3>1
  <2>5. DOMAIN disk = UNION {Range(ChainOf(n)) : n \in Names}
    BY <2>1, <2>2
  <2> QED BY <2>3, <2>4, <2>5 DEF ChainsPartition
<1>5. ASSUME NEW h \in Handle, handle[h] # Closed
      PROVE  /\ handle[h] \in File /\ handle[h].name \in Names
             /\ Held(C[handle[h].name], entry[handle[h].name], handle[h])
  <2>1. handle[h] \in File /\ Held(C[handle[h].name], entry[handle[h].name], handle[h])
    BY <1>1, <1>5 DEF FilesHeld
  <2>2. handle[h].name \in Name
    BY <2>1 DEF File
  <2> QED BY <2>1, <2>2 DEF Held, Names
<1>6. ResumeInChain
  <2> SUFFICES ASSUME NEW h \in Handle, handle[h] # Closed
               PROVE  handle[h].resume_addr \in Range(ChainOf(handle[h].name))
    BY DEF ResumeInChain
  <2>1. \E x \in 1 .. Len(C[handle[h].name]) : C[handle[h].name][x] = handle[h].resume_addr
    BY <1>5 DEF Held, AtPlace
  <2> QED BY <1>3, <1>5, <2>1
<1>7. HandleAgrees
  <2> SUFFICES ASSUME NEW h \in Handle, handle[h] # Closed
               PROVE  LET f == handle[h]
                      IN  entry[f.name] # NoFile /\ entry[f.name] = [addr |-> f.addr, size |-> f.size]
    BY DEF HandleAgrees
  <2>1. PICK f \in File, n \in Name : f = handle[h] /\ n = f.name
    BY <1>5 DEF Names
  <2>2. entry[n] # NoFile /\ entry[n].addr = f.addr /\ entry[n].size = f.size
    BY <1>5, <2>1 DEF Held
  <2>3. PICK e \in EntryOf : e = entry[n]
    BY <1>1, <2>2 DEF FilesHeld
  <2>4. e = [addr |-> e.addr, size |-> e.size]
    BY DEF EntryOf
  <2> QED BY <2>1, <2>2, <2>3, <2>4
<1>8. ChainCoversSize
  BY <1>1, <1>2 DEF FilesHeld, ChainCoversSize, Names
<1> QED BY <1>4, <1>6, <1>7, <1>8 DEF ChainsHold

LEMMA HoldExactly == RoomInv => ResumeIsThere /\ ChainFitsSize
<1> SUFFICES ASSUME RoomInv PROVE ResumeIsThere /\ ChainFitsSize
  OBVIOUS
<1>1. PICK C : /\ Chained(C, disk, entry) /\ FilesHeld(C, entry, handle)
               /\ Exact(C, entry, handle)
  BY DEF RoomInv
<1>2. \A n \in Names : n \in Name /\ ChainOf(n) = C[n]
  BY <1>1, ChainIs DEF Names
<1>3. ASSUME NEW h \in Handle, handle[h] # Closed
      PROVE  handle[h].name \in Names /\ ExactAt(C[handle[h].name], handle[h])
  <2>1. handle[h] \in File /\ entry[handle[h].name] # NoFile
    BY <1>1, <1>3 DEF FilesHeld, Held
  <2>2. handle[h].name \in Name
    BY <2>1 DEF File
  <2> QED BY <1>1, <1>3, <2>1, <2>2 DEF Exact, Names
<1>4. ResumeIsThere
  BY <1>2, <1>3 DEF ExactAt, ResumeIsThere
<1>5. ChainFitsSize
  BY <1>1, <1>2 DEF Exact, InBlocks, ChainFitsSize, Names
<1> QED BY <1>4, <1>5

(* On any disk, full or not, and whatever is written, every block in use is  *)
(* in one place of one chain, every handle resumes from a block of its       *)
(* file's chain and agrees with the directory, and no file is larger than    *)
(* its chain (File::write, File::delete, File::set_resume).                  *)
THEOREM AlwaysChains == Spec => []ChainsHold
<1>1. Init => FileInv
  BY InitRoom DEF RoomInv, FileInv
<1> QED BY <1>1, FileStep, Hold, PTL DEF Spec

(* As long as the disk has room and nothing empty is written, a handle       *)
(* resumes from the block its index says, and a chain is no longer than its  *)
(* file: what File::resume and an appending File::write rest on.             *)
THEOREM ResumesWhereItSays == RoomSpec => [](ResumeIsThere /\ ChainFitsSize)
<1> QED BY InitRoom, RoomStep, HoldExactly, PTL DEF RoomSpec

(***************************************************************************)
(* The bytes of files                                                      *)
(***************************************************************************)

(* The i-th byte of the chain s on the disk d, the first z of them, and what *)
(* a reader of file n gets.                                                  *)
Cell(d, s, i) == d[s[(i - 1) \div Capacity + 1]].data[((i - 1) % Capacity) + 1]

Bytes(d, s, z) == [i \in 1 .. z |-> Cell(d, s, i)]

Shown(C, d, e, n) == IF e[n] = NoFile THEN NoFile ELSE Bytes(d, C[n], e[n].size)

ByteSeqs == Seq(Byte \cup {Blank})

LEMMA ContentIs ==
  ASSUME NEW C, Chained(C, disk, entry), NEW n \in Name
  PROVE  Content(n) = Shown(C, disk, entry, n)
<1>1. entry[n] # NoFile => ChainOf(n) = C[n]
  BY ChainIs
<1>2. entry[n] # NoFile => Content(n) = Bytes(disk, C[n], entry[n].size)
  BY <1>1 DEF Content, Bytes, Cell
<1> QED BY <1>2 DEF Shown, Content

LEMMA NextContentIs ==
  ASSUME NEW C, Chained(C, disk', entry'), NEW n \in Name
  PROVE  Content(n)' = Shown(C, disk', entry', n)
<1>1. entry'[n] # NoFile => ChainOf(n)' = C[n]
  <2> SUFFICES ASSUME entry'[n] # NoFile PROVE ChainOf(n)' = C[n]
    OBVIOUS
  <2>1. PICK s \in BlockSeqs : s = C[n] /\ s # <<>> /\ s[1] = entry'[n].addr
    BY DEF Chained, StartsAt
  <2>2. 1 \in 1 .. Len(s)
    BY <2>1, SeqSorts
  <2>3. ChainFrom'[s[1]] = SubSeq(s, 1, Len(s))
    BY <2>1, <2>2, NextChainsAre
  <2>4. SubSeq(s, 1, Len(s)) = s
    BY <2>2, RestIs
  <2> QED BY <2>1, <2>3, <2>4 DEF ChainOf
<1>2. entry'[n] # NoFile => Content(n)' = Bytes(disk', C[n], entry'[n].size)
  BY <1>1 DEF Content, Bytes, Cell
<1> QED BY <1>2 DEF Shown, Content

(* The block and the place in it of a byte.                                  *)
LEMMA CellPlace ==
  ASSUME NEW i \in Nat \ {0}
  PROVE  /\ (i - 1) \div Capacity + 1 \in Nat \ {0}
         /\ ((i - 1) % Capacity) + 1 \in 1 .. Capacity
         /\ ((i - 1) \div Capacity) * Capacity + ((i - 1) % Capacity) = i - 1
         /\ \A m \in Nat : i <= m * Capacity => (i - 1) \div Capacity + 1 <= m
         /\ \A m \in Nat : m * Capacity < i => m < (i - 1) \div Capacity + 1
<1>1. Capacity \in Nat \ {0}
  BY FileAssumption
<1>2. PICK x \in Nat : x = i - 1
  <2>1. i - 1 \in Nat
    OBVIOUS
  <2> QED BY <2>1
<1>3. PICK b \in Nat, r \in 0 .. Capacity - 1 :
        b = x \div Capacity /\ r = x % Capacity /\ b * Capacity + r = x
  <2>1. x \div Capacity \in Nat
    BY <1>1, Divides
  <2>2. x = Capacity * (x \div Capacity) + (x % Capacity) /\ x % Capacity \in 0 .. Capacity - 1
    BY <1>1
  <2>3. Capacity * (x \div Capacity) = (x \div Capacity) * Capacity
    BY <1>1, <2>1
  <2>4. (x \div Capacity) * Capacity + (x % Capacity) = x
    BY <2>2, <2>3
  <2> QED BY <2>1, <2>2, <2>4
<1>4. ASSUME NEW m \in Nat, i <= m * Capacity PROVE b + 1 <= m
  <2>1. PICK y \in Nat, z \in Nat : y = b * Capacity /\ z = m * Capacity
    BY <1>1
  <2>2. b * Capacity < m * Capacity
    BY <1>2, <1>3, <1>4, <2>1
  <2>3. b < m
    BY <1>1, <2>2, Below
  <2> QED BY <2>3
<1>5. ASSUME NEW m \in Nat, m * Capacity < i PROVE m < b + 1
  <2>1. PICK y \in Nat, z \in Nat : y = b * Capacity /\ z = m * Capacity
    BY <1>1
  <2>2. (b + 1) * Capacity = y + Capacity
    BY <1>1, <2>1
  <2>3. m * Capacity < (b + 1) * Capacity
    BY <1>1, <1>2, <1>3, <1>5, <2>1, <2>2
  <2>4. b + 1 \in Nat
    OBVIOUS
  <2>5. m < b + 1
    BY <1>1, <2>3, <2>4, Below
  <2> QED BY <2>5
<1>6. r + 1 \in 1 .. Capacity
  BY <1>1
<1> QED BY <1>2, <1>3, <1>4, <1>5, <1>6

(* The bytes of a file are a sequence, as long as its size.                  *)
LEMMA BytesAre ==
  ASSUME NEW C, NEW d, NEW e, Chained(C, d, e), DiskOK(d), NEW n \in Name,
         NEW z \in Nat, z <= Len(C[n]) * Capacity
  PROVE  /\ Bytes(d, C[n], z) \in ByteSeqs /\ Len(Bytes(d, C[n], z)) = z
         /\ \A i \in 1 .. z : Bytes(d, C[n], z)[i] = Cell(d, C[n], i)
         /\ Bytes(d, C[n], z) # NoFile
<1>1. PICK s \in BlockSeqs : s = C[n] /\ Len(s) \in Nat
  BY SeqSorts DEF Chained
<1>2. ASSUME NEW i \in 1 .. z PROVE Cell(d, s, i) \in Byte \cup {Blank}
  <2>0. i \in Nat \ {0} /\ i <= Len(s) * Capacity
    <3>1. PICK y \in Int : y = Len(s) * Capacity
      BY <1>1, FileAssumption
    <3> QED BY <1>1, <3>1
  <2>1. PICK b \in Nat \ {0}, c \in 1 .. Capacity :
          b = (i - 1) \div Capacity + 1 /\ c = ((i - 1) % Capacity) + 1 /\ b <= Len(s)
    BY <1>1, <2>0, CellPlace
  <2>2. b \in 1 .. Len(s)
    BY <1>1, <2>1
  <2>3. d[s[b]] \in [next : Blocks \cup {0}, data : Data]
    BY <1>1, <2>2 DEF Chained, Linked, DiskOK
  <2>4. d[s[b]].data \in Data
    BY <2>3
  <2>5. d[s[b]].data[c] \in Byte \cup {Blank}
    BY <2>4 DEF Data
  <2> QED BY <2>1, <2>5 DEF Cell
<1>3. PICK t : t = Bytes(d, s, z) /\ t = [i \in 1 .. z |-> Cell(d, s, i)]
  BY DEF Bytes
<1>4. t \in [1 .. z -> Byte \cup {Blank}]
  BY <1>2, <1>3
<1>5. t \in Seq(Byte \cup {Blank}) /\ Len(t) = z
  BY <1>4
<1>6. \A i \in 1 .. z : t[i] = Cell(d, s, i)
  BY <1>3
<1>7. t # NoFile
  BY <1>5, FileAssumption
<1> QED BY <1>1, <1>3, <1>5, <1>6, <1>7 DEF ByteSeqs

(* The bytes of a file whose blocks keep their data.                         *)
LEMMA SameBytes ==
  ASSUME NEW C, NEW d, NEW d2, NEW n \in Name, C[n] \in BlockSeqs,
         NEW z \in Nat, z <= Len(C[n]) * Capacity,
         \A i \in 1 .. Len(C[n]) : d2[C[n][i]].data = d[C[n][i]].data
  PROVE  Bytes(d2, C[n], z) = Bytes(d, C[n], z)
<1>1. PICK s \in BlockSeqs : s = C[n] /\ Len(s) \in Nat
  BY SeqSorts
<1>2. ASSUME NEW i \in 1 .. z PROVE Cell(d2, s, i) = Cell(d, s, i)
  <2>0. i \in Nat \ {0} /\ i <= Len(s) * Capacity
    <3>1. PICK y \in Int : y = Len(s) * Capacity
      BY <1>1, FileAssumption
    <3> QED BY <1>1, <3>1
  <2>1. PICK b \in Nat \ {0} : b = (i - 1) \div Capacity + 1 /\ b <= Len(s)
    BY <1>1, <2>0, CellPlace
  <2>2. b \in 1 .. Len(s)
    BY <1>1, <2>1
  <2>3. d2[s[b]].data = d[s[b]].data
    BY <1>1, <2>2
  <2> QED BY <2>1, <2>3 DEF Cell
<1> QED BY <1>1, <1>2 DEF Bytes


LEMMA Reads ==
  ASSUME NEW C, Sound(C), NEW n \in Name
  PROVE  /\ entry[n] = NoFile => Content(n) = NoFile
         /\ entry[n] # NoFile =>
              /\ Content(n) = Bytes(disk, C[n], entry[n].size) /\ entry[n].size \in Nat
              /\ Content(n) \in ByteSeqs /\ Len(Content(n)) = entry[n].size
              /\ \A i \in 1 .. entry[n].size : Content(n)[i] = Cell(disk, C[n], i)
              /\ Content(n) # NoFile
<1>1. Content(n) = Shown(C, disk, entry, n)
  BY ContentIs DEF Sound
<1>2. ASSUME entry[n] # NoFile
      PROVE  entry[n].size \in Nat /\ entry[n].size <= Len(C[n]) * Capacity
  BY <1>2 DEF Sound, FilesHeld, EntryOf
<1>3. ASSUME entry[n] # NoFile
      PROVE  /\ Bytes(disk, C[n], entry[n].size) \in ByteSeqs
             /\ Len(Bytes(disk, C[n], entry[n].size)) = entry[n].size
             /\ \A i \in 1 .. entry[n].size : Bytes(disk, C[n], entry[n].size)[i] = Cell(disk, C[n], i)
             /\ Bytes(disk, C[n], entry[n].size) # NoFile
  BY <1>2, <1>3, BytesAre DEF Sound
<1> QED BY <1>1, <1>2, <1>3 DEF Shown

LEMMA NextReads ==
  ASSUME NEW C, NEW D, Keeps(C, D), NEW n \in Name
  PROVE  /\ entry'[n] = NoFile => Content(n)' = NoFile
         /\ entry'[n] # NoFile =>
              /\ Content(n)' = Bytes(disk', D[n], entry'[n].size) /\ entry'[n].size \in Nat
              /\ Content(n)' \in ByteSeqs /\ Len(Content(n)') = entry'[n].size
              /\ \A i \in 1 .. entry'[n].size : Content(n)'[i] = Cell(disk', D[n], i)
              /\ Content(n)' # NoFile
<1>1. Content(n)' = Shown(D, disk', entry', n)
  BY NextContentIs DEF Keeps
<1>2. ASSUME entry'[n] # NoFile
      PROVE  entry'[n].size \in Nat /\ entry'[n].size <= Len(D[n]) * Capacity
  BY <1>2 DEF Keeps, FilesHeld, EntryOf
<1>3. ASSUME entry'[n] # NoFile
      PROVE  /\ Bytes(disk', D[n], entry'[n].size) \in ByteSeqs
             /\ Len(Bytes(disk', D[n], entry'[n].size)) = entry'[n].size
             /\ \A i \in 1 .. entry'[n].size : Bytes(disk', D[n], entry'[n].size)[i] = Cell(disk', D[n], i)
             /\ Bytes(disk', D[n], entry'[n].size) # NoFile
  BY <1>2, <1>3, BytesAre DEF Keeps
<1> QED BY <1>1, <1>2, <1>3 DEF Shown

LEMMA SameContent ==
  ASSUME NEW C, Sound(C), NEW D, Keeps(C, D), NEW n \in Name, D[n] = C[n], entry'[n] = entry[n],
         \A i \in 1 .. Len(C[n]) : disk'[C[n][i]].data = disk[C[n][i]].data
  PROVE  Content(n)' = Content(n)
<1>1. CASE entry[n] = NoFile
  BY <1>1, Reads, NextReads
<1>2. CASE entry[n] # NoFile
  <2>1. C[n] \in BlockSeqs
    BY DEF Sound, Chained
  <2>2. entry[n].size \in Nat /\ entry[n].size <= Len(C[n]) * Capacity
    BY <1>2 DEF Sound, FilesHeld, EntryOf
  <2>3. Bytes(disk', C[n], entry[n].size) = Bytes(disk, C[n], entry[n].size)
    BY ZenonT(40), <2>1, <2>2, SameBytes
  <2> QED BY <1>2, <2>3, Reads, NextReads
<1> QED BY <1>1, <1>2

(***************************************************************************)
(* Steps of the store                                                      *)
(***************************************************************************)

Contents == [n \in Name |-> Content(n)]

PositionOf(f) == IF f = Closed THEN Closed ELSE [name |-> f.name, at |-> f.cursor]

Positions == [h \in Handle |-> PositionOf(handle[h])]

SizesFit == \A n \in Name : entry[n] # NoFile => entry[n].size <= MaxSize

(* A handle that is open is in the store at a place of its file.             *)
LEMMA OpenShows ==
  ASSUME NEW C, Sound(C), NEW h \in Handle, handle[h] # Closed, NEW f, f = handle[h]
  PROVE  /\ f \in File /\ f.name \in Name /\ entry[f.name] # NoFile /\ entry[f.name].size = f.size
         /\ C[f.name] \in BlockSeqs
         /\ Positions[h] = [name |-> f.name, at |-> f.cursor] /\ Positions[h] # Closed
         /\ Contents[f.name] = Content(f.name) /\ Len(Content(f.name)) = f.size
         /\ f.size \in Nat /\ f.cursor \in Nat
         /\ Exact(C, entry, handle) => f.cursor <= f.size
<1>1. /\ f \in File /\ f.name \in Name /\ C[f.name] \in BlockSeqs
      /\ entry[f.name] # NoFile /\ entry[f.name].size = f.size
  BY OpenHandle
<1>2. f.size \in Nat /\ f.cursor \in Nat
  BY <1>1 DEF File
<1>3. Positions[h] = [name |-> f.name, at |-> f.cursor]
  BY DEF Positions, PositionOf
<1>4. [name |-> f.name, at |-> f.cursor] \in [name : Name, at : Nat]
  BY <1>1, <1>2
<1>5. Positions[h] # Closed
  BY <1>3, <1>4, FileAssumption
<1>6. Contents[f.name] = Content(f.name)
  BY <1>1 DEF Contents
<1>7. Len(Content(f.name)) = f.size
  BY <1>1, Reads
<1>8. Exact(C, entry, handle) => f.cursor <= f.size
  BY DEF Exact, ExactAt
<1> QED BY <1>1, <1>2, <1>3, <1>5, <1>6, <1>7, <1>8

(* A handle that moves.                                                      *)
LEMMA PositionsMove ==
  ASSUME NEW C, Sound(C), NEW h \in Handle, NEW f \in File \cup {Closed},
         handle' = [handle EXCEPT ![h] = f]
  PROVE  Positions' = [Positions EXCEPT ![h] = PositionOf(f)]
<1>1. handle \in [Handle -> File \cup {Closed}]
  BY DEF Sound, FilesHeld
<1> QED BY <1>1 DEF Positions

LEMMA ContentsStay ==
  ASSUME NEW C, Sound(C), Keeps(C, C), disk' = disk, entry' = entry
  PROVE  Contents' = Contents
<1>1. ASSUME NEW n \in Name PROVE Content(n)' = Content(n)
  BY SameContent
<1> QED BY <1>1 DEF Contents

LEMMA CloseCloses ==
  ASSUME NEW C, Sound(C), NEW h \in Handle, Close(h)
  PROVE  Store!Close(h)
<1>1. handle[h] # Closed /\ handle' = [handle EXCEPT ![h] = Closed] /\ disk' = disk
      /\ entry' = entry /\ answer' = <<>>
  BY DEF Close
<1>2. Positions[h] # Closed
  BY <1>1, OpenShows
<1>3. Positions' = [Positions EXCEPT ![h] = Closed]
  BY <1>1, PositionsMove DEF PositionOf
<1>4. Contents' = Contents
  BY <1>1, CloseKeeps, ContentsStay
<1> QED BY <1>1, <1>2, <1>3, <1>4 DEF Store!Close, Contents, Positions, PositionOf

LEMMA SeekSeeks ==
  ASSUME NEW C, Sound(C), NEW h \in Handle, NEW at \in Nat, Seek(h, at)
  PROVE  Store!Seek(h, at)
<1>1. PICK f : f = handle[h] /\ handle[h] # Closed /\ at <= f.size
               /\ handle' = [handle EXCEPT ![h].cursor = at] /\ disk' = disk
               /\ entry' = entry /\ answer' = <<>>
  BY DEF Seek
<1>2. PICK g : g = [f EXCEPT !.cursor = at]
  OBVIOUS
<1>3. f \in File
  BY <1>1, OpenShows
<1>4. g \in File /\ g.name = f.name /\ g.cursor = at
  BY <1>2, <1>3 DEF File
<1>5. handle' = [handle EXCEPT ![h] = g]
  BY <1>1, <1>2
<1>6. Positions' = [Positions EXCEPT ![h] = PositionOf(g)]
  BY <1>4, <1>5, PositionsMove
<1>7. Positions[h] = [name |-> f.name, at |-> f.cursor] /\ Positions[h] # Closed
      /\ Contents[f.name] = Content(f.name) /\ Len(Content(f.name)) = f.size /\ f.size \in Nat
  BY <1>1, OpenShows
<1>8. PositionOf(g) = [name |-> f.name, at |-> at]
  BY <1>4, FileAssumption DEF PositionOf
<1>9. [Positions[h] EXCEPT !.at = at] = [name |-> f.name, at |-> at]
  BY <1>7
<1>10. Positions' = [Positions EXCEPT ![h].at = at]
  BY <1>6, <1>8, <1>9
<1>11. at \in 0 .. Len(Contents[Positions[h].name])
  BY <1>1, <1>7
<1>12. Contents' = Contents
  BY <1>1, SeekKeeps, ContentsStay
<1> QED BY <1>1, <1>7, <1>10, <1>11, <1>12 DEF Store!Seek, Contents, Positions, PositionOf

LEMMA OpenOpens ==
  ASSUME NEW C, Sound(C), SizesFit, NEW h \in Handle, NEW n \in Name, NEW append \in BOOLEAN,
         Open(h, n, append)
  PROVE  \E at \in 0 .. MaxSize : Store!Open(h, n, at)
<1>1. PICK z \in Nat : z = entry[n].size /\ z <= MaxSize /\ entry[n] # NoFile
  <2>1. entry[n] # NoFile
    BY DEF Open
  <2>2. entry[n].size \in Nat
    BY <2>1, Reads
  <2> QED BY <2>1, <2>2 DEF SizesFit
<1>2. PICK at \in Nat : at = IF append THEN z ELSE 0
  BY <1>1
<1>3. /\ handle[h] = Closed /\ handle' = [handle EXCEPT ![h] = FileOf(n, entry[n], at)]
      /\ disk' = disk /\ entry' = entry /\ answer' = <<>>
  BY <1>1, <1>2 DEF Open
<1>4. PICK f : f = FileOf(n, entry[n], at)
  OBVIOUS
<1>5. f \in File /\ f.name = n /\ f.cursor = at
  <2>1. entry[n] \in EntryOf
    BY <1>1 DEF Sound, FilesHeld
  <2> QED BY <1>2, <1>4, <2>1 DEF FileOf, File, EntryOf
<1>6. Positions' = [Positions EXCEPT ![h] = [name |-> n, at |-> at]]
  <2>1. PositionOf(f) = [name |-> n, at |-> at]
    BY <1>5, FileAssumption DEF PositionOf
  <2> QED BY <1>3, <1>4, <1>5, <2>1, PositionsMove
<1>7. Positions[h] = Closed
  BY <1>3 DEF Positions, PositionOf
<1>8. Contents' = Contents
  BY <1>3, OpenKeeps, ContentsStay
<1>9. Contents[n] # NoFile /\ Len(Contents[n]) = z
  BY <1>1, Reads DEF Contents
<1>10. Contents' = [Contents EXCEPT ![n] = IF @ = NoFile THEN <<>> ELSE @]
  BY <1>8, <1>9 DEF Contents
<1>11. at \in {0, Len(Contents'[n])} /\ at \in 0 .. MaxSize
  BY <1>1, <1>2, <1>8, <1>9, FileAssumption
<1>12. Store!Open(h, n, at)
  BY <1>3, <1>6, <1>7, <1>10, <1>11 DEF Store!Open, Contents, Positions, PositionOf
<1> QED BY <1>11, <1>12

(* The data of the blocks after a write: that of others is what it was.      *)
LEMMA OtherData ==
  ASSUME DiskOK(disk), NEW f, NEW T, NEW k, NEW offset, NEW buf, NEW F, NEW last,
         NEW d, d = Written(f, T, k, offset, buf, F, last),
         NEW a \in DOMAIN disk, a \notin F, a \notin Range(T)
  PROVE  a \in DOMAIN d /\ d[a].data = disk[a].data
<1>1. a \in (DOMAIN disk \cup Range(T)) \ F
  OBVIOUS
<1>2. d[a] = IF a = last THEN [disk[a] EXCEPT !.next = T[1]] ELSE disk[a]
  BY <1>1, Zenon DEF Written
<1>3. disk[a] \in [next : Blocks \cup {0}, data : Data]
  BY DEF DiskOK
<1>4. PICK r \in [next : Blocks \cup {0}, data : Data] : r = disk[a]
  BY <1>3
<1>5. [r EXCEPT !.next = T[1]].data = r.data
  BY <1>4
<1>6. a \in DOMAIN d
  BY <1>1 DEF Written
<1> QED BY <1>2, <1>4, <1>5, <1>6

(* The byte of the disk d after a write that is the c-th of a, its i-th      *)
(* block, has the place x of the buffer fall on it.                          *)
FallsOn(x, d, a, c, f, T, k, offset, buf, F, last, i) ==
  /\ d = Written(f, T, k, offset, buf, F, last)
  /\ i \in 1 .. Len(T) /\ (\A j \in 1 .. Len(T) : T[j] = T[i] => j = i) /\ i <= k
  /\ a = T[i] /\ a \in Range(T) /\ a \notin F /\ a # last
  /\ c \in 1 .. Capacity /\ x = offset + (i - 1) * Capacity + c - 1 - f.cursor

LEMMA OwnData ==
  ASSUME NEW f, NEW T, NEW k, NEW offset, NEW buf, NEW F, NEW last, NEW i,
         NEW d, NEW a, NEW c, NEW x, FallsOn(x, d, a, c, f, T, k, offset, buf, F, last, i)
  PROVE  /\ x \in 0 .. Len(buf) - 1 => d[a].data[c] = buf[x + 1]
         /\ x \notin 0 .. Len(buf) - 1 /\ a \in DOMAIN disk => d[a].data[c] = disk[a].data[c]
<1> DEFINE old == IF a \in DOMAIN disk THEN disk[a] ELSE Zeroed
           m == CHOOSE j \in 1 .. Len(T) : T[j] = a
           at(b) == offset + (m - 1) * Capacity + b - 1 - f.cursor
           cell(b) == IF m <= k /\ at(b) \in 0 .. Len(buf) - 1 THEN buf[at(b) + 1] ELSE old.data[b]
           data == [b \in 1 .. Capacity |-> cell(b)]
<1>0. /\ i \in 1 .. Len(T) /\ (\A j \in 1 .. Len(T) : T[j] = T[i] => j = i) /\ i <= k
      /\ a = T[i] /\ a \in Range(T) /\ a \notin F /\ a # last
      /\ d = Written(f, T, k, offset, buf, F, last)
      /\ c \in 1 .. Capacity /\ x = offset + (i - 1) * Capacity + c - 1 - f.cursor
  BY DEF FallsOn
<1>1. a \in (DOMAIN disk \cup Range(T)) \ F
  BY <1>0
<1>2. d[a] = IF a = last THEN [old EXCEPT !.next = T[1]]
             ELSE IF a \notin Range(T) THEN old
             ELSE [next |-> IF m = Len(T) THEN 0 ELSE T[m + 1], data |-> data]
  BY <1>0, <1>1, Zenon DEF Written
<1>3. m = i
  BY <1>0, Zenon
<1>4. d[a].data[c] = cell(c)
  <2>1. d[a].data = data
    <3> HIDE DEF data, old, m
    <3> QED BY <1>0, <1>2
  <2> HIDE DEF cell
  <2> QED BY <1>0, <2>1
<1>5. at(c) = x
  <2> HIDE DEF m
  <2> QED BY <1>0, <1>3
<1>6. cell(c) = IF x \in 0 .. Len(buf) - 1 THEN buf[x + 1] ELSE old.data[c]
  <2> HIDE DEF m, old, at
  <2> QED BY <1>0, <1>3, <1>5
<1>7. a \in DOMAIN disk => old.data[c] = disk[a].data[c]
  OBVIOUS
<1> HIDE DEF cell, old
<1> QED BY <1>4, <1>6, <1>7

LEMMA ContentsChange ==
  ASSUME NEW n \in Name, NEW x, Content(n)' = x,
         \A m \in Name \ {n} : Content(m)' = Content(m)
  PROVE  Contents' = [Contents EXCEPT ![n] = x]
<1>1. ASSUME NEW m \in Name PROVE Contents'[m] = [Contents EXCEPT ![n] = x][m]
  BY DEF Contents
<1> QED BY <1>1 DEF Contents

LEMMA DeleteDeletes ==
  ASSUME NEW C, Sound(C), SizesFit, NEW n \in Name, Delete(n)
  PROVE  Store!Delete(n) /\ SizesFit'
<1>1. entry[n] # NoFile /\ handle' = handle /\ answer' = <<>>
      /\ disk' = [a \in DOMAIN disk \ Range(ChainFrom[entry[n].addr]) |-> disk[a]]
      /\ entry' = [entry EXCEPT ![n] = NoFile]
  BY DEF Delete
<1>2. PICK D : D = Cut(C, n, 0)
  OBVIOUS
<1>3. Keeps(C, D)
  BY <1>2, DeleteKeeps
<1>4. entry \in [Name -> EntryOf \cup {NoFile}] /\ C[n] \in BlockSeqs /\ Chained(C, disk, entry)
  BY DEF Sound, FilesHeld, Chained
<1>5. entry'[n] = NoFile /\ \A m \in Name \ {n} : entry'[m] = entry[m]
  BY <1>1, <1>4
<1>6. \A m \in Name \ {n} : D[m] = C[m]
  <2>1. 0 \in 0 .. Len(On(C, n))
    BY <1>4, OnIs, SeqSorts
  <2> QED BY <1>2, <1>4, <2>1, CutIs
<1>7. ASSUME NEW m \in Name \ {n} PROVE Content(m)' = Content(m)
  <2>1. Chained(D, disk', entry')
    BY <1>3 DEF Keeps
  <2>2. \A i \in 1 .. Len(C[m]) : C[m][i] \in DOMAIN disk'
    BY <1>6, <2>1 DEF Chained, Linked
  <2>3. \A i \in 1 .. Len(C[m]) : disk'[C[m][i]].data = disk[C[m][i]].data
    BY <1>1, <2>2
  <2> QED BY <1>3, <1>5, <1>6, <2>3, SameContent
<1>8. Content(n)' = NoFile /\ Content(n) # NoFile
  BY <1>1, <1>3, <1>5, Reads, NextReads
<1>9. Contents' = [Contents EXCEPT ![n] = NoFile]
  BY <1>7, <1>8, ContentsChange
<1>10. Contents[n] # NoFile
  BY <1>8 DEF Contents
<1>11. Positions' = Positions
  BY <1>1 DEF Positions
<1>12. Store!Delete(n)
  BY <1>1, <1>9, <1>10, <1>11 DEF Store!Delete, Contents, Positions, PositionOf
<1> QED BY <1>5, <1>12 DEF SizesFit

LEMMA CreateCreates ==
  ASSUME NEW C, Sound(C), SizesFit, NEW h \in Handle, NEW n \in Name, Create(h, n)
  PROVE  Store!Open(h, n, 0) /\ SizesFit'
<1>1. PICK a, e, f :
        /\ a = Head(Free) /\ e = [addr |-> a, size |-> 0] /\ f = FileOf(n, e, 0)
        /\ disk' = [b \in DOMAIN disk \cup {a} |-> IF b = a THEN Zeroed ELSE disk[b]]
        /\ entry' = [entry EXCEPT ![n] = e]
        /\ handle' = [handle EXCEPT ![h] = f]
        /\ handle[h] = Closed /\ entry[n] = NoFile /\ Free # <<>> /\ answer' = <<>>
  BY DEF Create
<1>2. PICK D : D = Cut(C, n, 1) /\ Keeps(C, D)
  BY CreateKeeps
<1>3. entry \in [Name -> EntryOf \cup {NoFile}] /\ C[n] \in BlockSeqs /\ Chained(C, disk, entry)
  BY DEF Sound, FilesHeld, Chained
<1>4. a \in Blocks /\ a \notin DOMAIN disk /\ a = Free[1] /\ 1 \in 1 .. Len(Free)
  <2>1. 1 \in 1 .. Len(Free) /\ Free \in Seq(Blocks)
    BY <1>1, FreeIs, SeqSorts DEF BlockSeqs
  <2> QED BY <1>1, <2>1, FreeIs
<1>5. e \in EntryOf /\ e # NoFile /\ e.size = 0
  BY <1>1, <1>4, ClosedIsNoFile DEF EntryOf
<1>6. entry'[n] = e /\ \A m \in Name \ {n} : entry'[m] = entry[m]
  BY <1>1, <1>3
<1>7. f \in File /\ f.name = n /\ f.cursor = 0
  BY <1>1, <1>5 DEF FileOf, File, EntryOf
<1>8. \A m \in Name \ {n} : D[m] = C[m]
  <2>1. PICK q : q = 1
    OBVIOUS
  <2>2. q \in 0 .. Len(On(C, n))
    <3>1. On(C, n) \in BlockSeqs /\ Len(On(C, n)) = Len(C[n]) + Len(Free)
      BY <1>3, OnIs
    <3>2. Len(C[n]) \in Nat /\ Len(Free) \in Nat /\ Len(Free) >= 1
      BY <1>3, <1>4, SeqSorts, FreeIs
    <3> QED BY <2>1, <3>1, <3>2
  <2> QED BY <1>2, <1>3, <2>1, <2>2, CutIs
<1>9. ASSUME NEW m \in Name \ {n} PROVE Content(m)' = Content(m)
  <2>1. \A i \in 1 .. Len(C[m]) : C[m][i] \in DOMAIN disk
    BY <1>3 DEF Chained, Linked
  <2>2. \A i \in 1 .. Len(C[m]) : disk'[C[m][i]].data = disk[C[m][i]].data
    BY <1>1, <1>4, <2>1
  <2> QED BY <1>2, <1>6, <1>8, <2>2, SameContent
<1>10. Content(n)' = <<>> /\ Content(n) = NoFile
  <2>1. Content(n)' \in ByteSeqs /\ Len(Content(n)') = 0
    BY <1>2, <1>5, <1>6, NextReads
  <2> QED BY <1>1, <2>1, Reads DEF ByteSeqs
<1>11. Contents' = [Contents EXCEPT ![n] = IF @ = NoFile THEN <<>> ELSE @]
  BY <1>9, <1>10 DEF Contents
<1>12. Positions' = [Positions EXCEPT ![h] = [name |-> n, at |-> 0]]
  <2>1. PositionOf(f) = [name |-> n, at |-> 0]
    BY <1>7, FileAssumption DEF PositionOf
  <2>2. handle' = [handle EXCEPT ![h] = f] /\ f \in File \cup {Closed}
    BY <1>1, <1>7
  <2> QED BY <2>1, <2>2, PositionsMove
<1>13. Positions[h] = Closed
  BY <1>1 DEF Positions, PositionOf
<1>14. Store!Open(h, n, 0)
  BY <1>1, <1>11, <1>12, <1>13 DEF Store!Open, Contents, Positions, PositionOf
<1>15. SizesFit'
  BY <1>5, <1>6, FileAssumption DEF SizesFit
<1> QED BY <1>14, <1>15

(* A file in its blocks.                                                     *)
Fits(f, s) == f.cursor <= f.size /\ f.size <= Len(s) * Capacity /\ s # <<>>

LEMMA Shifts ==
  ASSUME NEW u \in Int, NEW v \in Int, NEW e \in Int, NEW j \in Int, NEW c \in Int,
         u + v + (e - 1) = j - 1
  PROVE  j - 1 - c = u + v + e - 1 - c
OBVIOUS

LEMMA Within ==
  ASSUME NEW j \in Int, NEW c \in Int, NEW b \in Int, c < j, j <= c + b
  PROVE  j - 1 - c \in 0 .. b - 1 /\ (j - 1 - c) + 1 = j - c
OBVIOUS

(* What a byte of its file is after a write, on a disk with room: one that   *)
(* was there before the cursor, or one of the buffer.                        *)
LEMMA ByteWritten ==
  ASSUME NEW C, Sound(C), NEW f \in File, NEW n \in Name, n = f.name, NEW buf \in Seq(Byte \cup {Blank}),
         NEW p \in 1 .. Len(C[n]) + 1, NEW q \in 1 .. Len(On(C, n)),
         PutsDown(C, f, buf, p, q, p - 1), Fits(f, C[n]),
         NEW j \in Nat \ {0}, j <= f.cursor + Len(buf)
  PROVE  Cell(disk', Cut(C, n, q)[n], j) =
           IF j <= f.cursor THEN Cell(disk, C[n], j) ELSE buf[j - f.cursor]
<1>1. PICK s \in BlockSeqs, g \in BlockSeqs :
        /\ s = C[n] /\ g = On(C, n) /\ Len(s) \in Nat /\ Len(g) \in Nat
        /\ \A i \in 1 .. Len(s) : g[i] = s[i] /\ s[i] \in DOMAIN disk
        /\ \A i, k \in 1 .. Len(g) : g[i] = g[k] => i = k
        /\ Len(s) >= 1 /\ Len(s) <= Len(g) /\ \A i \in 1 .. Len(g) : g[i] # 0
  <2>1. Chained(C, disk, entry) /\ C[n] \in BlockSeqs
    BY DEF Sound, Chained
  <2>2. /\ On(C, n) \in BlockSeqs /\ Len(On(C, n)) = Len(C[n]) + Len(Free)
        /\ \A i \in 1 .. Len(C[n]) : On(C, n)[i] = C[n][i]
        /\ \A i, k \in 1 .. Len(On(C, n)) : On(C, n)[i] = On(C, n)[k] => i = k
    BY <2>1, OnIs
  <2>3. Len(C[n]) \in Nat /\ Len(On(C, n)) \in Nat /\ Len(Free) \in Nat
    BY <2>1, <2>2, SeqSorts, FreeIs
  <2>4. \A i \in 1 .. Len(C[n]) : C[n][i] \in DOMAIN disk
    BY <2>1 DEF Chained, Linked
  <2>5. \A i \in 1 .. Len(On(C, n)) : On(C, n)[i] # 0
    BY <2>2, SeqSorts, ZeroIsNoBlock
  <2>6. PICK s \in BlockSeqs, g \in BlockSeqs : s = C[n] /\ g = On(C, n)
    BY <2>1, <2>2
  <2>7. Len(s) \in Nat /\ Len(g) \in Nat /\ Len(s) <= Len(g) /\ Len(s) >= 1
    BY <2>2, <2>3, <2>6, SeqSorts DEF Fits
  <2> QED BY <2>2, <2>4, <2>5, <2>6, <2>7
<1>1a. p \in Nat /\ q \in Nat /\ p >= 1 /\ p <= Len(s) + 1 /\ q >= 1 /\ q <= Len(g)
  BY <1>1
<1>2. PICK c \in Nat, b \in Nat, z \in Nat :
        c = f.cursor /\ b = Len(buf) /\ z = f.size /\ c <= z
  <2>1. f.cursor \in Nat /\ f.size \in Nat
    BY DEF File
  <2>2. Len(buf) \in Nat
    OBVIOUS
  <2>3. f.cursor <= f.size
    BY DEF Fits
  <2> QED BY <2>1, <2>2, <2>3
<1>2a. z <= Len(s) * Capacity
  BY <1>1, <1>2 DEF Fits
<1>3. Capacity \in Nat \ {0}
  BY FileAssumption
<1>4. PICK o, T, last :
        /\ o \in Nat
        /\ o = p - 1 /\ o * Capacity <= c /\ p <= q
        /\ T = SubSeq(g, p, q)
        /\ last = IF p = Len(s) + 1 THEN s[Len(s)] ELSE 0
        /\ disk' = Written(f, T, q - p + 1, o * Capacity, buf, Beyond(s, q), last)
        /\ c + b <= (o + (q - p + 1)) * Capacity
  <2>1. p - 1 \in Nat
    BY <1>1
  <2> QED BY <1>1, <1>2, <2>1 DEF PutsDown, Begins
<1>4a. p <= q /\ o \in Nat
  BY <1>4
<1>5. j \in Nat \ {0} /\ j <= c + b
  BY <1>2
<1>6. PICK k \in Nat \ {0}, e \in 1 .. Capacity :
        /\ k = (j - 1) \div Capacity + 1 /\ e = ((j - 1) % Capacity) + 1
        /\ (k - 1) * Capacity + (e - 1) = j - 1
        /\ \A m \in Nat : j <= m * Capacity => k <= m
        /\ \A m \in Nat : m * Capacity < j => m < k
  <2>1. PICK k \in Nat \ {0}, e \in 1 .. Capacity :
          k = (j - 1) \div Capacity + 1 /\ e = ((j - 1) % Capacity) + 1
    BY <1>5, CellPlace
  <2>2. (j - 1) \div Capacity = k - 1 /\ (j - 1) % Capacity = e - 1
    <3>1. PICK y \in Nat : y = j - 1
      <4>1. j - 1 \in Nat
        BY <1>5
      <4> QED BY <4>1
    <3>2. y \div Capacity \in Nat /\ y % Capacity \in 0 .. Capacity - 1
      <4>1. y % Capacity \in 0 .. Capacity - 1
        BY <1>3
      <4> QED BY <1>3, <4>1, Divides
    <3>3. PICK v \in Nat, w \in Nat : v = y \div Capacity /\ w = y % Capacity
      BY <1>3, <3>2
    <3>4. k = v + 1 /\ e = w + 1
      BY <2>1, <3>1, <3>3
    <3>5. v = k - 1 /\ w = e - 1
      BY SMTT(40), <3>4
    <3> QED BY <3>1, <3>3, <3>5
  <2>3. /\ ((j - 1) \div Capacity) * Capacity + ((j - 1) % Capacity) = j - 1
        /\ \A m \in Nat : j <= m * Capacity => (j - 1) \div Capacity + 1 <= m
        /\ \A m \in Nat : m * Capacity < j => m < (j - 1) \div Capacity + 1
    BY <1>5, CellPlace
  <2>4. (k - 1) * Capacity + (e - 1) = j - 1
    BY <2>2, <2>3
  <2>5. /\ \A m \in Nat : j <= m * Capacity => k <= m
        /\ \A m \in Nat : m * Capacity < j => m < k
    BY <2>1, <2>3
  <2> QED BY <2>1, <2>4, <2>5
<1>7. k <= q
  <2>1. o + (q - p + 1) = q /\ q \in Nat
    BY <1>1, <1>4
  <2>2. PICK y \in Int : y = q * Capacity /\ c + b <= y
    BY <1>3, <1>4, <2>1
  <2>3. j <= q * Capacity
    BY <1>2, <1>5, <2>2
  <2> QED BY <1>6, <2>1, <2>3
<1>8. j <= c => k <= Len(s)
  <2> SUFFICES ASSUME j <= c PROVE k <= Len(s)
    OBVIOUS
  <2>1. PICK y \in Int : y = Len(s) * Capacity /\ z <= y
    BY <1>1, <1>2a, <1>3
  <2>2. j <= Len(s) * Capacity
    BY <1>2, <1>5, <2>1
  <2> QED BY <1>1, <1>6, <2>2
<1>9. c < j => p <= k
  <2> SUFFICES ASSUME c < j PROVE p <= k
    OBVIOUS
  <2>1. PICK y \in Int : y = o * Capacity /\ y <= c
    BY <1>3, <1>4
  <2>2. o * Capacity < j
    BY <1>2, <1>5, <2>1
  <2>3. o < k
    BY <1>4a, <1>6, <2>2
  <2> QED BY <1>1a, <1>4, <2>3
<1>10. PICK a : a = g[k] /\ k \in 1 .. Len(g) /\ a \notin Beyond(s, q)
  <2>1. k \in 1 .. Len(g) /\ q <= Len(g)
    BY SMTT(40), <1>1, <1>6, <1>7
  <2>2. ASSUME NEW i \in q + 1 .. Len(s) PROVE s[i] # g[k]
    <3>1. i \in 1 .. Len(s) /\ i \in 1 .. Len(g) /\ i # k
      BY <1>1, <1>7, <2>1
    <3> QED BY <1>1, <2>1, <3>1
  <2> QED BY <2>1, <2>2 DEF Beyond
<1>11. Cell(disk', Cut(C, n, q)[n], j) = disk'[a].data[e]
  <2>1. q \in 0 .. Len(On(C, n))
    BY <1>1
  <2>2. \A i \in 1 .. q : Cut(C, n, q)[n][i] = On(C, n)[i]
    BY <2>1, CutIs DEF Sound
  <2>3. k \in 1 .. q
    BY <1>6, <1>7
  <2>4. Cut(C, n, q)[n][k] = a
    BY <1>1, <1>10, <2>2, <2>3
  <2> QED BY <1>6, <2>4 DEF Cell
<1>12. k <= Len(s) => a \in DOMAIN disk /\ Cell(disk, C[n], j) = disk[a].data[e]
  <2> SUFFICES ASSUME k <= Len(s) PROVE a \in DOMAIN disk /\ Cell(disk, C[n], j) = disk[a].data[e]
    OBVIOUS
  <2>1. k \in 1 .. Len(s)
    BY <1>1, <1>6
  <2>2. s[k] = a /\ a \in DOMAIN disk
    BY <1>1, <1>10, <2>1
  <2> QED BY <1>1, <1>6, <2>2 DEF Cell
<1>13. /\ T \in BlockSeqs /\ Len(T) = q - p + 1
       /\ \A i \in 1 .. Len(T) : T[i] = g[p + i - 1] /\ p + i - 1 \in p .. q
       /\ Range(T) = {T[i] : i \in 1 .. Len(T)}
  <2>1. p \in Nat \ {0} /\ q \in Nat /\ q <= Len(g) /\ p <= q /\ T = SubSeq(g, p, q)
    BY <1>1a, <1>4
  <2>2. /\ T \in BlockSeqs /\ Len(T) = IF p <= q THEN q - p + 1 ELSE 0
        /\ \A i \in 1 .. Len(T) : T[i] = g[p + i - 1] /\ p + i - 1 \in p .. q
    BY <2>1, PartIs
  <2>3. Range(T) = {T[i] : i \in 1 .. Len(T)}
    BY <2>2, SeqSorts DEF Range
  <2> QED BY <2>1, <2>2, <2>3
<1>14. CASE k < p
  <2>1. j <= c /\ k <= Len(s)
    BY <1>2, <1>5, <1>8, <1>9, <1>14
  <2>2. a \in DOMAIN disk /\ Cell(disk, C[n], j) = disk[a].data[e]
    BY <1>12, <2>1
  <2>3. a \notin Range(T)
    <3>1. ASSUME NEW i \in 1 .. Len(T) PROVE T[i] # a
      <4>1. p + i - 1 \in 1 .. Len(g) /\ p + i - 1 # k
        BY SMTT(40), <1>1, <1>13, <1>14
      <4> QED BY <1>1, <1>10, <1>13, <4>1
    <3> QED BY <1>13, <3>1
  <2>4. DiskOK(disk)
    BY DEF Sound
  <2>5. disk'[a].data = disk[a].data
    BY SMTT(40), <1>4, <1>10, <2>2, <2>3, <2>4, OtherData
  <2> QED BY <1>2, <1>11, <2>1, <2>2, <2>5
<1>15. CASE p <= k
  <2>1. PICK i \in 1 .. Len(T) : i = k - p + 1 /\ T[i] = a
    <3>1. k - p + 1 \in 1 .. Len(T) /\ p + (k - p + 1) - 1 = k
      BY <1>1a, <1>7, <1>13, <1>15
    <3> QED BY <1>10, <1>13, <3>1
  <2>2. \A m \in 1 .. Len(T) : T[m] = T[i] => m = i
    <3> SUFFICES ASSUME NEW m \in 1 .. Len(T), T[m] = T[i] PROVE m = i
      OBVIOUS
    <3>1. p + m - 1 \in 1 .. Len(g) /\ p + i - 1 \in 1 .. Len(g)
      <4>1. p + m - 1 \in p .. q /\ p + i - 1 \in p .. q
        BY <1>13
      <4> QED BY <1>1a, <4>1
    <3>2. g[p + m - 1] = g[p + i - 1]
      BY <1>13
    <3>3. p + m - 1 = p + i - 1
      BY <1>1, <3>1, <3>2
    <3> QED BY <1>1, <1>13, <3>3
  <2>3. a \in Range(T)
    BY <1>13, <2>1
  <2>4. a # last
    <3>1. CASE p = Len(s) + 1
      <4>1. Len(s) \in 1 .. Len(s) /\ Len(s) \in 1 .. Len(g) /\ Len(s) # k
        BY <1>1, <1>15, <3>1
      <4>2. last = g[Len(s)]
        BY <1>1, <1>4, <3>1, <4>1
      <4> QED BY <1>1, <1>10, <4>1, <4>2
    <3>2. CASE p # Len(s) + 1
      BY <1>1, <1>4, <1>10, <3>2
    <3> QED BY <3>1, <3>2
  <2>5. i <= q - p + 1
    BY <1>13
  <2>6a. PICK x \in Int : x = j - 1 - c
    <3>1. j - 1 - c \in Int
      BY <1>5
    <3> QED BY <3>1
  <2>6. x = o * Capacity + (i - 1) * Capacity + e - 1 - f.cursor
    <3>1. i - 1 \in Nat /\ o + (i - 1) = k - 1
      BY <1>1, <1>4, <2>1
    <3>2. (o + (i - 1)) * Capacity = o * Capacity + (i - 1) * Capacity
      BY <1>3, <1>4, <3>1, Distributes
    <3>3. PICK u \in Int, v \in Int : u = o * Capacity /\ v = (i - 1) * Capacity
      BY <1>3, <1>4, <3>1
    <3>4. (k - 1) * Capacity = u + v
      BY <3>1, <3>2, <3>3
    <3>5. u + v + (e - 1) = j - 1
      BY <1>6, <3>4
    <3>6. PICK y \in Int : y = j - 1 - c
      BY <1>2, <1>5
    <3>7. e \in Int /\ f.cursor \in Int /\ f.cursor = c
      BY SMTT(40), <1>2, <1>6
    <3>8. y = u + v + e - 1 - f.cursor
      <4>1. j \in Int /\ c \in Int
        BY <1>5
      <4>2. j - 1 - c = u + v + e - 1 - c
        BY <3>5, <3>7, <4>1, Shifts
      <4> QED BY <3>6, <3>7, <4>2
    <3> QED BY <2>6a, <3>3, <3>6, <3>8
  <2>7. /\ x \in 0 .. Len(buf) - 1 => disk'[a].data[e] = buf[x + 1]
        /\ x \notin 0 .. Len(buf) - 1 /\ a \in DOMAIN disk => disk'[a].data[e] = disk[a].data[e]
    <3>1. FallsOn(x, disk', a, e, f, T, q - p + 1, o * Capacity, buf, Beyond(s, q), last, i)
      BY <1>4, <1>10, <2>1, <2>2, <2>3, <2>4, <2>5, <2>6 DEF FallsOn
    <3> QED BY SMTT(40), <3>1, OwnData
  <2>8. CASE j <= c
    <3>1. x \notin 0 .. Len(buf) - 1 /\ k <= Len(s)
      BY SMTT(40), <1>2, <1>5, <1>8, <2>6a, <2>8
    <3> QED BY <1>2, <1>11, <1>12, <2>7, <2>8, <3>1
  <2>9. CASE c < j
    <3>1. x \in 0 .. Len(buf) - 1 /\ x + 1 = j - c
      <4>1. j \in Int /\ c \in Int /\ b \in Int
        BY <1>5
      <4>2. j - 1 - c \in 0 .. b - 1 /\ (j - 1 - c) + 1 = j - c
        BY <1>5, <2>9, <4>1, Within
      <4> QED BY <1>2, <2>6a, <4>2
    <3>2. ~(j <= f.cursor) /\ j - f.cursor = x + 1
      BY <1>2, <1>5, <2>9, <3>1
    <3> QED BY <1>11, <2>7, <3>1, <3>2
  <2> QED BY <1>2, <1>5, <2>8, <2>9
<1> QED BY <1>1, <1>6, <1>14, <1>15

(* A write leaves the bytes of every other file.                             *)
Overwrites(C, D, n, p, q, f, T, k, x, buf, F, last) ==
  /\ D = Cut(C, n, q) /\ Keeps(C, D)
  /\ \A m \in Name \ {n} : entry'[m] = entry[m]
  /\ T = SubSeq(On(C, n), p, q)
  /\ disk' = Written(f, T, k, x, buf, F, last)

LEMMA OthersStay ==
  ASSUME NEW C, Sound(C), NEW n \in Name, NEW p \in 1 .. Len(C[n]) + 1,
         NEW q \in 1 .. Len(On(C, n)), NEW D, NEW f, NEW T, NEW F, NEW last, NEW k, NEW x, NEW buf,
         Overwrites(C, D, n, p, q, f, T, k, x, buf, F, last)
  PROVE  \A m \in Name \ {n} : Content(m)' = Content(m) /\ D[m] = C[m]
<1> SUFFICES ASSUME NEW m \in Name \ {n} PROVE Content(m)' = Content(m) /\ D[m] = C[m]
  OBVIOUS
<1> USE DEF Overwrites
<1>1. Chained(C, disk, entry) /\ DiskOK(disk) /\ C[n] \in BlockSeqs
  BY DEF Sound, Chained
<1>2. Chained(D, disk', entry')
  BY DEF Keeps
<1>3. \A l \in Name \ {n} : D[l] = C[l]
  <2>1. On(C, n) \in BlockSeqs
    BY <1>1, OnIs
  <2>2. q \in 0 .. Len(On(C, n))
    BY <2>1, SeqSorts
  <2> QED BY <1>1, <2>2, CutIs
<1>4. ASSUME NEW i \in 1 .. Len(C[m]) PROVE disk'[C[m][i]].data = disk[C[m][i]].data
  <2>1. C[m][i] \in DOMAIN disk
    BY <1>1 DEF Chained, Linked
  <2>2. C[m][i] \in DOMAIN disk'
    BY <1>3, <1>2 DEF Chained, Linked
  <2>3. C[m][i] \notin F
    BY <2>2 DEF Written
  <2>4. C[m][i] \notin Range(T)
    <3>1. On(C, n) \in BlockSeqs /\ \A l \in 1 .. Len(On(C, n)) : On(C, n)[l] # C[m][i]
      BY <1>1, OnIs
    <3>2. p \in Nat \ {0} /\ q \in Nat /\ q <= Len(On(C, n))
      BY <1>1, <3>1, SeqSorts
    <3>3. /\ T \in BlockSeqs
          /\ \A l \in 1 .. Len(T) : T[l] = On(C, n)[p + l - 1] /\ p + l - 1 \in p .. q
      <4>1. PICK g \in BlockSeqs : g = On(C, n)
        BY <3>1
      <4>2. T = SubSeq(g, p, q) /\ q <= Len(g)
        BY <3>2, <4>1
      <4>3. /\ T \in BlockSeqs
            /\ \A l \in 1 .. Len(T) : T[l] = g[p + l - 1] /\ p + l - 1 \in p .. q
        <5>1. p \in Nat \ {0} /\ q \in Nat /\ q <= Len(g)
          BY <3>2, <4>1
        <5>2. /\ SubSeq(g, p, q) \in BlockSeqs
              /\ \A l \in 1 .. Len(SubSeq(g, p, q)) :
                   SubSeq(g, p, q)[l] = g[p + l - 1] /\ p + l - 1 \in p .. q
          BY <5>1, PartIs
        <5> QED BY <4>2, <5>2
      <4> QED BY <4>1, <4>3
    <3>4. ASSUME NEW l \in 1 .. Len(T) PROVE T[l] # C[m][i]
      <4>1. p + l - 1 \in p .. q
        BY <3>3
      <4>2. p + l - 1 \in 1 .. Len(On(C, n))
        BY <3>2, <4>1
      <4> QED BY <3>1, <3>3, <4>2
    <3>5. Range(T) = {T[l] : l \in 1 .. Len(T)}
      BY <3>3, SeqSorts DEF Range
    <3> QED BY <3>4, <3>5
  <2> QED BY <1>1, <2>1, <2>3, <2>4, OtherData
<1> QED BY <1>3, <1>4, SameContent

LEMMA WriteDiskFullLeaves ==
  ASSUME NEW C, Sound(C), NEW h \in Handle, NEW buf \in Seq(Byte \cup {Blank}),
         WriteDiskFull(h, buf), NEW f, f = handle[h]
  PROVE  \E D : /\ Keeps(C, D)
                /\ \A m \in Name \ {f.name} : Content(m)' = Content(m)
                /\ \/ handle' = handle
                   \/ \E f2 \in File : f2.name = f.name /\ handle' = [handle EXCEPT ![h] = f2]
<1>1. entry' = entry /\ handle[h] # Closed
  BY DEF WriteDiskFull
<1>2. f.name \in Name
  BY <1>1, OpenHandle
<1>3. CASE UNCHANGED <<disk, entry, handle>>
  <2>1. Keeps(C, C)
    BY <1>3 DEF Keeps, Sound
  <2>2. ASSUME NEW m \in Name \ {f.name} PROVE Content(m)' = Content(m)
    BY <1>3, <2>1, SameContent
  <2> QED BY <1>3, <2>1, <2>2
<1>4. CASE ~ UNCHANGED <<disk, entry, handle>>
  <2>1. PICK n \in Name : n = f.name
    BY <1>2
  <2>2. PICK p \in 1 .. Len(C[n]) + 1, q \in 1 .. Len(On(C, n)) :
          /\ Keeps(C, Cut(C, n, q)) /\ WritesIn(C, f, On(C, n), p, q)
          /\ \E f2 \in File : f2.name = n /\ handle' = [handle EXCEPT ![h] = f2]
    BY <1>4, <2>1, WriteDiskFullPuts
  <2>3. PICK D : D = Cut(C, n, q) /\ Keeps(C, D)
    BY <2>2
  <2>4. PICK T, F, last :
          /\ T = SubSeq(On(C, n), p, q) /\ F = Beyond(C[n], q)
          /\ last = IF p = Len(C[n]) + 1 /\ q >= p THEN C[n][Len(C[n])] ELSE 0
    OBVIOUS
  <2>5. PICK k \in Nat, x \in Int, b \in Seq(Byte \cup {Blank}) :
          disk' = Written(f, T, k, x, b, F, last)
    BY <2>1, <2>2, <2>4 DEF WritesIn
  <2>6. \A m \in Name \ {n} : Content(m)' = Content(m)
    <3>1. Overwrites(C, D, n, p, q, f, T, k, x, b, F, last)
      BY <1>1, <2>3, <2>4, <2>5 DEF Overwrites
    <3> QED BY ZenonT(60), <2>1, <3>1, OthersStay
  <2> QED BY <2>1, <2>2, <2>3, <2>6
<1> QED BY <1>3, <1>4

(* A write through a handle that is where it says puts the bytes in its file *)
(* after those before the cursor, and ends it there.                         *)
Puts(C, D, h, f, n, buf, f2) ==
  /\ Keeps(C, D) /\ \A m \in Name \ {n} : Content(m)' = Content(m) /\ D[m] = C[m]
  /\ Content(n)' = SubSeq(Content(n), 1, f.cursor) \o buf
  /\ entry'[n] # NoFile /\ entry'[n].size = f.cursor + Len(buf)
  /\ \A m \in Name \ {n} : entry'[m] = entry[m]
  /\ handle' = [handle EXCEPT ![h] = f2] /\ f2.name = n
  /\ EndsAt(f2, f.cursor + Len(buf)) /\ Truly(D[n], f2)

LEMMA WriteShows ==
  ASSUME NEW C, Sound(C), NEW h \in Handle, NEW buf \in Seq(Byte \cup {Blank}), Write(h, buf),
         NEW f, f = handle[h], NEW n, n = f.name, Truly(C[n], f)
  PROVE  \E D : \E f2 \in File : Puts(C, D, h, f, n, buf, f2)
<1>2. handle[h] # Closed /\ f.cursor + Len(buf) <= MaxSize
  BY DEF Write
<1>3. /\ f \in File /\ n \in Name /\ entry[n] # NoFile /\ entry[n].size = f.size
      /\ C[n] \in BlockSeqs /\ f.cursor <= f.size
  BY <1>2, OpenShows DEF Truly, ExactAt
<1>4. PICK p \in 1 .. Len(C[n]) + 1, q \in 1 .. Len(On(C, n)), o \in Nat :
        /\ Keeps(C, Cut(C, n, q)) /\ o = p - 1
        /\ PutsDown(C, f, buf, p, q, o)
        /\ \E f2 \in File : /\ Updates(h, f, f2) /\ EndsAt(f2, f.cursor + Len(buf))
                            /\ ResumesTruly(On(C, n), q, f2)
  BY ZenonT(40), WritePuts
<1>5. PICK f2 \in File : /\ Updates(h, f, f2) /\ EndsAt(f2, f.cursor + Len(buf))
                         /\ ResumesTruly(On(C, n), q, f2)
  BY <1>4
<1>6. PICK D : D = Cut(C, n, q) /\ Keeps(C, D)
  BY <1>4
<1>7. PICK c \in Nat, b \in Nat : c = f.cursor /\ b = Len(buf)
  <2>1. f.cursor \in Nat /\ Len(buf) \in Nat
    BY <1>3 DEF File
  <2> QED BY <2>1
<1>8. entry'[n] # NoFile /\ entry'[n].size = c + b /\ \A m \in Name \ {n} : entry'[m] = entry[m]
  <2>1. PICK e \in EntryOf : e = entry[n]
    BY <1>3 DEF Sound, FilesHeld
  <2>2. entry \in [Name -> EntryOf \cup {NoFile}]
    BY DEF Sound, FilesHeld
  <2>3. PICK e2 : e2 = [e EXCEPT !.size = c + b]
    OBVIOUS
  <2>4. c + b \in Nat
    OBVIOUS
  <2>5. e2 \in EntryOf /\ e2.size = c + b
    BY <2>1, <2>3, <2>4 DEF EntryOf
  <2>6. entry' = [entry EXCEPT ![n] = e2]
    BY <1>5, <1>7, <2>1, <2>3 DEF Updates, EndsAt
  <2> QED BY <1>3, <2>2, <2>5, <2>6, ClosedIsNoFile
<1>9. \A m \in Name \ {n} : Content(m)' = Content(m) /\ D[m] = C[m]
  <2>1. PICK T, F, last, k, x :
          /\ T = SubSeq(On(C, n), p, q)
          /\ disk' = Written(f, T, k, x, buf, F, last)
    BY <1>4 DEF PutsDown
  <2>2. Overwrites(C, D, n, p, q, f, T, k, x, buf, F, last)
    BY <1>6, <1>8, <2>1 DEF Overwrites
  <2> QED BY <1>3, <2>2, OthersStay
<1>10. PICK s \in BlockSeqs : s = D[n] /\ Len(s) = q /\ \A i \in 1 .. q : s[i] = On(C, n)[i]
  <2>1. On(C, n) \in BlockSeqs
    BY <1>3, OnIs DEF Sound
  <2>2. q \in 0 .. Len(On(C, n))
    BY <2>1, SeqSorts
  <2> QED BY <1>3, <1>6, <2>2, CutIs DEF Sound
<1>11. Content(n)' = SubSeq(Content(n), 1, c) \o buf
  <2>1. /\ Content(n)' \in ByteSeqs /\ Len(Content(n)') = c + b
        /\ \A j \in 1 .. c + b : Content(n)'[j] = Cell(disk', D[n], j)
    BY <1>3, <1>6, <1>8, NextReads
  <2>2. PICK z \in Nat : z = f.size /\ c <= z
    BY <1>3, <1>7 DEF File
  <2>3. /\ Content(n) \in ByteSeqs /\ Len(Content(n)) = z
        /\ \A j \in 1 .. z : Content(n)[j] = Cell(disk, C[n], j)
    BY <1>3, <2>2, Reads
  <2>4. PICK old, new : old = Content(n) /\ new = Content(n)'
    OBVIOUS
  <2>5. old \in Seq(Byte \cup {Blank}) /\ Len(old) = z /\ new \in Seq(Byte \cup {Blank}) /\ Len(new) = c + b
    BY <2>1, <2>3, <2>4 DEF ByteSeqs
  <2>6. Fits(f, C[n])
    <3>1. entry[n].size <= Len(C[n]) * Capacity
      BY <1>3 DEF Sound, FilesHeld
    <3>2. C[n] # <<>>
      BY <1>3 DEF Sound, Chained, StartsAt
    <3> QED BY <1>3, <3>1, <3>2 DEF Fits
  <2>7. ASSUME NEW j \in 1 .. c + b
        PROVE  new[j] = IF j <= c THEN old[j] ELSE buf[j - c]
    <3>1. j \in Nat \ {0} /\ j <= f.cursor + Len(buf)
      BY <1>7
    <3>2. PutsDown(C, f, buf, p, q, p - 1)
      BY <1>4
    <3>3. Cell(disk', Cut(C, n, q)[n], j) =
            IF j <= f.cursor THEN Cell(disk, C[n], j) ELSE buf[j - f.cursor]
      BY SMTT(40), <1>3, <2>6, <3>1, <3>2, ByteWritten
    <3>4. j <= c => j \in 1 .. z
      BY <2>2
    <3> QED BY <1>6, <1>7, <2>1, <2>3, <2>4, <3>3, <3>4
  <2>8. PICK t : t = SubSeq(old, 1, c)
    OBVIOUS
  <2>9. t \in Seq(Byte \cup {Blank}) /\ Len(t) = c /\ \A j \in 1 .. c : t[j] = old[j]
    BY <2>2, <2>5, <2>8
  <2>10. new = t \o buf
    <3>1. t \o buf \in Seq(Byte \cup {Blank}) /\ Len(t \o buf) = c + b
      <4>1. buf \in Seq(Byte \cup {Blank})
        OBVIOUS
      <4>2. t \o buf \in Seq(Byte \cup {Blank}) /\ Len(t \o buf) = Len(t) + Len(buf)
        BY <2>9, <4>1, ConcatProperties
      <4> QED BY <1>7, <2>9, <4>2
    <3>2. ASSUME NEW j \in 1 .. c + b PROVE new[j] = (t \o buf)[j]
      <4>1. (t \o buf)[j] = IF j <= c THEN t[j] ELSE buf[j - c]
        <5>1. /\ t \in Seq(Byte \cup {Blank}) /\ buf \in Seq(Byte \cup {Blank})
              /\ Len(t) = c /\ Len(buf) = b
          BY <1>7, <2>9
        <5> QED BY <5>1
      <4> QED BY <2>7, <2>9, <4>1
    <3> QED BY <2>5, <3>1, <3>2, SeqEqual
  <2> QED BY <2>4, <2>8, <2>10
<1>12. Truly(s, f2)
  <2>1. PICK i \in Nat : i = f2.resume_index
    BY DEF File
  <2>2. /\ i + 1 <= q /\ On(C, n)[i + 1] = f2.resume_addr
        /\ f2.cursor <= f2.size /\ q = InBlocks(f2.size)
    BY <1>5, <2>1 DEF ResumesTruly
  <2>3. s[i + 1] = f2.resume_addr
    <3>1. i + 1 \in 1 .. q
      BY <2>2
    <3> QED BY <1>10, <2>2, <3>1
  <2> QED BY <1>10, <2>1, <2>2, <2>3 DEF Truly, ExactAt
<1>13. handle' = [handle EXCEPT ![h] = f2] /\ f2.name = n
  BY <1>5 DEF Updates
<1>14. Content(n)' = SubSeq(Content(n), 1, f.cursor) \o buf
  BY <1>7, <1>11
<1>15. Puts(C, D, h, f, n, buf, f2)
  BY <1>5, <1>6, <1>7, <1>8, <1>9, <1>10, <1>12, <1>13, <1>14 DEF Puts
<1> QED BY <1>15

LEMMA WriteWrites ==
  ASSUME NEW C, Sound(C), Exact(C, entry, handle), SizesFit, NEW h \in Handle,
         NEW buf \in Seq(Byte \cup {Blank}), Write(h, buf)
  PROVE  Store!Write(h, buf) /\ SizesFit'
<1>1. PICK f, n : f = handle[h] /\ n = f.name
  OBVIOUS
<1>2. handle[h] # Closed /\ answer' = <<>> /\ f.cursor + Len(buf) <= MaxSize
  BY <1>1 DEF Write
<1>3. /\ f \in File /\ n \in Name
      /\ Positions[h] = [name |-> n, at |-> f.cursor] /\ Positions[h] # Closed
      /\ Contents[n] = Content(n)
  BY <1>1, <1>2, OpenShows
<1>4. Truly(C[n], f)
  BY <1>1, <1>2, ExactIsTrue
<1>5. PICK D : \E f2 \in File : Puts(C, D, h, f, n, buf, f2)
  BY <1>1, <1>4, WriteShows
<1>6. PICK f2 \in File :
        /\ \A m \in Name \ {n} : Content(m)' = Content(m)
        /\ Content(n)' = SubSeq(Content(n), 1, f.cursor) \o buf
        /\ entry'[n].size = f.cursor + Len(buf)
        /\ \A m \in Name \ {n} : entry'[m] = entry[m]
        /\ handle' = [handle EXCEPT ![h] = f2] /\ f2.name = n
        /\ EndsAt(f2, f.cursor + Len(buf))
  BY <1>5 DEF Puts
<1>7. PICK c \in Nat, b \in Nat : c = f.cursor /\ b = Len(buf) /\ c + b <= MaxSize
  <2>1. f.cursor \in Nat /\ Len(buf) \in Nat
    BY <1>3 DEF File
  <2> QED BY <1>2, <2>1
<1>12. Contents' = [Contents EXCEPT ![n] = SubSeq(@, 1, c) \o buf]
  <2>1. Content(n)' = SubSeq(Content(n), 1, c) \o buf /\ \A m \in Name \ {n} : Content(m)' = Content(m)
    BY <1>6, <1>7
  <2> QED BY <1>3, <2>1, ContentsChange
<1>13. Positions' = [Positions EXCEPT ![h].at = c + b]
  <2>1. handle' = [handle EXCEPT ![h] = f2] /\ f2.name = n /\ f2.cursor = c + b
    BY <1>1, <1>6, <1>7 DEF EndsAt
  <2>2. PositionOf(f2) = [name |-> n, at |-> c + b]
    BY <2>1, FileAssumption DEF PositionOf
  <2>3. Positions' = [Positions EXCEPT ![h] = PositionOf(f2)]
    BY <2>1, PositionsMove
  <2>4. [Positions[h] EXCEPT !.at = c + b] = [name |-> n, at |-> c + b]
    BY <1>3
  <2> QED BY <2>2, <2>3, <2>4
<1>14. Positions[h].name = n /\ Positions[h].at = c /\ b = Len(buf)
  BY <1>3, <1>7
<1>15. Store!Write(h, buf)
  BY <1>2, <1>3, <1>12, <1>13, <1>14 DEF Store!Write, Contents, Positions, PositionOf
<1>16. SizesFit'
  BY <1>6, <1>7 DEF SizesFit
<1> QED BY <1>15, <1>16

LEMMA DividesLess ==
  ASSUME NEW v \in Nat, NEW a \in Nat, NEW d \in Nat \ {0}, a * d <= v
  PROVE  v - a * d \in Nat /\ (v - a * d) \div d = v \div d - a /\ a <= v \div d
<1>1. PICK x \in Nat : x = a * d /\ x <= v
  BY Scales
<1>2. PICK w \in Nat : w = v - x
  <2>1. v - x \in Nat
    BY <1>1
  <2> QED BY <2>1
<1>3. PICK k \in Nat, y \in Nat : k = w \div d /\ y = k * d /\ y <= w /\ w < y + d
  <2>1. PICK k \in Nat : k = w \div d /\ k * d <= w /\ w < k * d + d
    BY Divides
  <2>2. k * d \in Nat
    OBVIOUS
  <2> QED BY <2>1, <2>2
<1>4. PICK q \in Nat, z \in Nat : q = v \div d /\ z = q * d /\ z <= v /\ v < z + d
  <2>1. PICK q \in Nat : q = v \div d /\ q * d <= v /\ v < q * d + d
    BY Divides
  <2>2. q * d \in Nat
    OBVIOUS
  <2> QED BY <2>1, <2>2
<1>5. (k + a) * d = y + x
  BY <1>1, <1>3, Distributes
<1>6. k + a < q + 1
  <2>1. (q + 1) * d = z + d
    BY <1>4, Distributes
  <2>2. (k + a) * d < (q + 1) * d
    BY <1>1, <1>2, <1>3, <1>4, <1>5, <2>1
  <2>3. k + a \in Int /\ q + 1 \in Int /\ d \in Nat
    OBVIOUS
  <2> QED BY <2>2, <2>3, Below
<1>7. q < k + a + 1
  <2>1. (k + a + 1) * d = y + x + d
    <3>1. (k + a + 1) * d = (k + a) * d + 1 * d
      BY Distributes
    <3> QED BY <1>5, <3>1
  <2>2. q * d < (k + a + 1) * d
    BY <1>1, <1>2, <1>3, <1>4, <2>1
  <2>3. k + a + 1 \in Int /\ q \in Int /\ d \in Nat
    OBVIOUS
  <2> QED BY <2>2, <2>3, Below
<1>8. k = q - a /\ a <= q
  BY <1>6, <1>7
<1> QED BY <1>1, <1>2, <1>3, <1>4, <1>8

(* A read through a handle that is where it says ends where the bytes asked  *)
(* for do, or the file.                                                      *)
LEMMA ReadEnds ==
  ASSUME NEW C, Sound(C), NEW h \in Handle, handle[h] # Closed,
         NEW f, f = handle[h], ExactAt(C[f.name], f), NEW bytes \in Nat
  PROVE  ReadEnd(f, bytes) = IF bytes <= f.size - f.cursor THEN f.cursor + bytes ELSE f.size
<1>1. /\ f \in File /\ f.name \in Name /\ C[f.name] \in BlockSeqs /\ f.cursor <= f.size
  BY OpenShows DEF ExactAt
<1>2. PICK s \in BlockSeqs : s = C[f.name]
  BY <1>1
<1>3. PICK p \in 1 .. Len(s), o \in Nat :
        /\ Begins(s, f, p, o)
        /\ Resume(f).addr = s[p] /\ Resume(f).offset = o * Capacity
        /\ ChainFrom[s[p]] = SubSeq(s, p, Len(s))
  BY <1>2, ResumesAt DEF Sound
<1>4. PICK c \in Nat, z \in Nat : c = f.cursor /\ z = f.size /\ c <= z
  BY <1>1 DEF File
<1>5. PICK r \in Int : r = Resume(f).offset + Len(ChainFrom[Resume(f).addr]) * Capacity /\ z <= r
  <2>1. PICK l \in Nat : l = Len(s) /\ p \in 1 .. l
    BY <1>3, SeqSorts
  <2>2. PICK m \in Nat : m = l - p + 1
    <3>1. l - p + 1 \in Nat
      BY <2>1
    <3> QED BY <3>1
  <2>3. Len(SubSeq(s, p, l)) = m
    <3>1. p \in Nat \ {0} /\ l \in Nat /\ l <= Len(s) /\ p <= l
      BY <2>1
    <3>2. Len(SubSeq(s, p, l)) = IF p <= l THEN l - p + 1 ELSE 0
      BY <3>1, PartIs
    <3> QED BY <2>2, <3>1, <3>2
  <2>4. (o + m) * Capacity = o * Capacity + m * Capacity
    BY FileAssumption, Distributes
  <2>5. (o + m) * Capacity \in Int
    BY FileAssumption
  <2>6. f.size <= (o + m) * Capacity
    BY <1>3, <2>1, <2>2 DEF Begins
  <2> QED BY <1>3, <1>4, <2>1, <2>3, <2>4, <2>5, <2>6
<1>6. PICK x \in Nat : x = c + bytes
  OBVIOUS
<1>7. {f.cursor + bytes, Resume(f).offset + Len(ChainFrom[Resume(f).addr]) * Capacity}
        \cup (IF f.cursor <= f.size THEN {f.size} ELSE {}) = {x, r, z}
  BY <1>4, <1>5, <1>6
<1>8. ReadEnd(f, bytes) = Lowest({x, r, z})
  BY <1>7 DEF ReadEnd
<1>9. Lowest({x, r, z}) = IF x <= z THEN x ELSE z
  <2>1. PICK y \in Nat : y = IF x <= z THEN x ELSE z
    OBVIOUS
  <2>2. y \in {x, r, z} /\ \A a \in {x, r, z} : y <= a
    BY <1>5, <2>1
  <2>3. \A b \in {x, r, z} : (\A a \in {x, r, z} : b <= a) => b = y
    <3> SUFFICES ASSUME NEW b \in {x, r, z}, \A a \in {x, r, z} : b <= a PROVE b = y
      OBVIOUS
    <3>1. b \in Int /\ y \in Int /\ b <= y /\ y <= b
      BY <2>2
    <3> QED BY <3>1
  <2>4. Lowest({x, r, z}) = y
    BY <2>2, <2>3 DEF Lowest
  <2> QED BY <2>1, <2>4
<1>10. x <= z <=> bytes <= z - c
  BY <1>4, <1>6
<1> QED BY <1>4, <1>6, <1>8, <1>9, <1>10

(* What it returns is the bytes of the file from the cursor to there.        *)
LEMMA AnswerIs ==
  ASSUME NEW C, Sound(C), NEW h \in Handle, handle[h] # Closed,
         NEW f, f = handle[h], ExactAt(C[f.name], f), NEW bytes \in Nat, Read(h, bytes)
  PROVE  answer' = SubSeq(Content(f.name), f.cursor + 1, ReadEnd(f, bytes))
<1>1. /\ f \in File /\ f.name \in Name /\ C[f.name] \in BlockSeqs
      /\ entry[f.name] # NoFile /\ entry[f.name].size = f.size /\ f.cursor <= f.size
  BY OpenShows DEF ExactAt
<1>2. PICK s \in BlockSeqs : s = C[f.name]
  BY <1>1
<1>3. PICK p \in 1 .. Len(s), o \in Nat :
        /\ Begins(s, f, p, o) /\ (ExactAt(s, f) => o = p - 1)
        /\ Resume(f).addr = s[p] /\ Resume(f).offset = o * Capacity
        /\ ChainFrom[s[p]] = SubSeq(s, p, Len(s))
  BY <1>2, ResumesAt DEF Sound
<1>4. o = p - 1
  <2>1. ExactAt(s, f)
    BY <1>2
  <2> QED BY <1>3, <2>1
<1>5. PICK c \in Nat, z \in Nat : c = f.cursor /\ z = f.size /\ c <= z
  BY <1>1 DEF File
<1>6. PICK e \in Nat : e = ReadEnd(f, bytes) /\ c <= e /\ e <= z
  <2>1. PICK e : e = ReadEnd(f, bytes) /\ e = IF bytes <= z - c THEN c + bytes ELSE z
    BY <1>5, ReadEnds
  <2>2. e \in Nat /\ c <= e /\ e <= z
    BY SMTT(40), <1>5, <2>1
  <2> QED BY <2>1, <2>2
<1>7. PICK l \in Nat : l = Len(s) /\ p \in 1 .. l /\ z <= l * Capacity
  <2>1. Len(s) \in Nat
    BY SeqSorts
  <2>2. entry[f.name].size <= Len(C[f.name]) * Capacity
    BY <1>1 DEF Sound, FilesHeld
  <2> QED BY <1>1, <1>2, <1>3, <1>5, <2>1, <2>2
<1>8. PICK chain \in BlockSeqs :
        /\ chain = ChainFrom[Resume(f).addr]
        /\ \A k \in 1 .. l - p + 1 : chain[k] = s[p + k - 1]
  <2>1. p \in Nat \ {0} /\ l <= Len(s) /\ p <= l
    BY <1>7
  <2>2. /\ SubSeq(s, p, l) \in BlockSeqs /\ Len(SubSeq(s, p, l)) = IF p <= l THEN l - p + 1 ELSE 0
        /\ \A k \in 1 .. Len(SubSeq(s, p, l)) : SubSeq(s, p, l)[k] = s[p + k - 1]
    BY <2>1, PartIs
  <2>3. ChainFrom[Resume(f).addr] = SubSeq(s, p, l)
    BY <1>3, <1>7
  <2>4. Len(SubSeq(s, p, l)) = l - p + 1
    BY <2>1, <2>2
  <2> QED BY <2>2, <2>3, <2>4
<1>9. PICK x \in Nat : x = o * Capacity /\ x <= c
  <2>1. o * Capacity \in Nat
    BY FileAssumption
  <2> QED BY <1>3, <1>5, <2>1 DEF Begins
<1>10. ASSUME NEW i \in 1 .. e - c
       PROVE  disk[chain[((c + i - 1) - x) \div Capacity + 1]].data[((c + i - 1) % Capacity) + 1]
                = Cell(disk, s, c + i)
  <2>1. c + i \in Nat \ {0} /\ c + i <= l * Capacity
    <3>1. PICK y \in Int : y = l * Capacity
      BY FileAssumption
    <3> QED BY SMTT(40), <1>5, <1>6, <1>7, <3>1
  <2>2. PICK v \in Nat : v = c + i - 1 /\ x <= v
    <3>1. c + i - 1 \in Nat /\ x <= c + i - 1
      BY <1>9
    <3> QED BY <3>1
  <2>3. PICK b \in Nat : b = v \div Capacity /\ b + 1 <= l /\ (v - x) \div Capacity = b - o /\ o <= b
    <3>1. v \div Capacity + 1 <= l
      BY <2>1, <2>2, CellPlace
    <3>2. (v - x) \div Capacity = v \div Capacity - o /\ o <= v \div Capacity
      <4>1. Capacity \in Nat \ {0} /\ o * Capacity <= v
        BY <1>9, <2>2, FileAssumption
      <4> QED BY <1>9, <4>1, DividesLess
    <3>3. v \div Capacity \in Nat
      BY FileAssumption, Divides
    <3> QED BY <3>1, <3>2, <3>3
  <2>4. b - o + 1 \in 1 .. l - p + 1 /\ p + (b - o + 1) - 1 = b + 1
    BY <1>4, <1>7, <2>3
  <2>5. chain[b - o + 1] = s[b + 1]
    BY <1>8, <2>4
  <2>6. Cell(disk, s, c + i) = disk[s[b + 1]].data[(v % Capacity) + 1]
    BY <2>2, <2>3 DEF Cell
  <2> QED BY <2>2, <2>3, <2>5, <2>6
<1>11. answer' = [i \in 1 .. e - c |->
         disk[chain[((c + i - 1) - x) \div Capacity + 1]].data[((c + i - 1) % Capacity) + 1]]
  <2>1. answer' = LET g      == handle[h]
                      start  == Resume(g)
                      blocks == ChainFrom[start.addr]
                      limits == {g.cursor + bytes, start.offset + Len(blocks) * Capacity}
                                  \cup (IF g.cursor <= g.size THEN {g.size} ELSE {})
                      end    == Lowest(limits)
                  IN  [i \in 1 .. end - g.cursor |->
                         disk[blocks[((g.cursor + i - 1) - start.offset) \div Capacity + 1]]
                           .data[((g.cursor + i - 1) % Capacity) + 1]]
    BY Zenon DEF Read, Lowest
  <2>2. answer' = [i \in 1 .. ReadEnd(f, bytes) - f.cursor |->
                     disk[ChainFrom[Resume(f).addr]
                            [((f.cursor + i - 1) - Resume(f).offset) \div Capacity + 1]]
                       .data[((f.cursor + i - 1) % Capacity) + 1]]
    BY Zenon, <2>1 DEF ReadEnd
  <2> QED BY Zenon, <1>3, <1>5, <1>6, <1>8, <1>9, <2>2
<1>12. answer' = [i \in 1 .. e - c |-> Cell(disk, s, c + i)]
  BY <1>10, <1>11
<1>13. PICK t \in ByteSeqs : /\ t = Content(f.name) /\ Len(t) = z
                            /\ \A i \in 1 .. z : t[i] = Cell(disk, s, i)
  BY <1>1, <1>2, <1>5, Reads
<1>14. \A i \in 1 .. e - c : c + i \in 1 .. z
  BY <1>6
<1>15. ASSUME NEW i \in 1 .. z PROVE t[i] \in Byte \cup {Blank}
  BY <1>13, <1>15 DEF ByteSeqs
<1>16. PICK u : u = answer' /\ u = [i \in 1 .. e - c |-> t[c + i]]
  <2>1. [i \in 1 .. e - c |-> Cell(disk, s, c + i)] = [i \in 1 .. e - c |-> t[c + i]]
    BY <1>13, <1>14
  <2> QED BY <1>12, <2>1
<1>17. u \in Seq(Byte \cup {Blank}) /\ Len(u) = e - c
  <2>1. u \in [1 .. e - c -> Byte \cup {Blank}]
    BY <1>14, <1>15, <1>16
  <2>2. e - c \in Nat
    BY <1>6
  <2> QED BY <2>1, <2>2
<1>18. /\ SubSeq(t, c + 1, e) \in Seq(Byte \cup {Blank}) /\ Len(SubSeq(t, c + 1, e)) = e - c
       /\ \A i \in 1 .. e - c : SubSeq(t, c + 1, e)[i] = t[c + i]
  <2>1. \A i \in c + 1 .. e : t[i] \in Byte \cup {Blank}
    BY <1>6, <1>15
  <2>2. c + 1 \in Int /\ e \in Int
    OBVIOUS
  <2>3. /\ SubSeq(t, c + 1, e) \in Seq(Byte \cup {Blank})
        /\ Len(SubSeq(t, c + 1, e)) = IF c + 1 <= e THEN e - (c + 1) + 1 ELSE 0
        /\ \A i \in 1 .. e - (c + 1) + 1 : SubSeq(t, c + 1, e)[i] = t[(c + 1) + i - 1]
    BY <2>1, <2>2, SubSeqProperties
  <2>4. e - (c + 1) + 1 = e - c /\ (IF c + 1 <= e THEN e - (c + 1) + 1 ELSE 0) = e - c
    BY <1>6
  <2>5. \A i \in 1 .. e - c : (c + 1) + i - 1 = c + i
    OBVIOUS
  <2> QED BY <2>3, <2>4, <2>5
<1>19. u = SubSeq(t, c + 1, e)
  <2>1. \A i \in 1 .. Len(u) : u[i] = SubSeq(t, c + 1, e)[i]
    BY <1>16, <1>17, <1>18
  <2> QED BY <1>17, <1>18, <2>1, SeqEqual
<1> QED BY <1>5, <1>6, <1>13, <1>16, <1>19

LEMMA ReadReads ==
  ASSUME NEW C, Sound(C), Exact(C, entry, handle), SizesFit, NEW h \in Handle,
         NEW bytes \in Nat, Read(h, bytes)
  PROVE  \E at \in 0 .. MaxSize : Store!Read(h, at)
<1>1. PICK f : f = handle[h] /\ handle[h] # Closed /\ disk' = disk /\ entry' = entry
  BY DEF Read
<1>2. /\ f \in File /\ f.name \in Name /\ entry[f.name] # NoFile /\ entry[f.name].size = f.size
      /\ Positions[h] = [name |-> f.name, at |-> f.cursor] /\ Positions[h] # Closed
      /\ Contents[f.name] = Content(f.name) /\ Len(Content(f.name)) = f.size
      /\ f.cursor <= f.size
  BY <1>1, OpenShows
<1>2a. ExactAt(C[f.name], f)
  BY <1>1 DEF Exact
<1>3. PICK c \in Nat, z \in Nat : c = f.cursor /\ z = f.size /\ c <= z /\ z <= MaxSize
  BY <1>2 DEF File, SizesFit
<1>4. PICK at \in Nat : /\ at = (IF bytes <= z - c THEN bytes ELSE z - c)
                       /\ at <= z - c /\ at \in 0 .. MaxSize
                       /\ ReadEnd(f, bytes) = c + at
  <2>1. ReadEnd(f, bytes) = IF bytes <= z - c THEN c + bytes ELSE z
    BY <1>1, <1>2a, <1>3, ReadEnds
  <2>2. PICK at \in Nat : at = IF bytes <= z - c THEN bytes ELSE z - c
    <3>1. z - c \in Nat
      BY <1>3
    <3> QED BY <3>1
  <2> QED BY <1>3, <2>1, <2>2, FileAssumption
<1>5. answer' = SubSeq(Content(f.name), c + 1, c + at)
  BY <1>1, <1>2a, <1>3, <1>4, AnswerIs
<1>6. PICK g \in File : /\ g.name = f.name /\ g.cursor = c + at
                        /\ handle' = [handle EXCEPT ![h] = g]
  BY <1>1, <1>4, ReadMoves
<1>7. Positions' = [Positions EXCEPT ![h] = PositionOf(g)]
  BY <1>6, PositionsMove
<1>8. PositionOf(g) = [name |-> f.name, at |-> c + at]
  BY <1>6, FileAssumption DEF PositionOf
<1>9. [Positions[h] EXCEPT !.at = c + at] = [name |-> f.name, at |-> c + at]
  BY <1>2
<1>10. Positions' = [Positions EXCEPT ![h].at = c + at]
  BY <1>7, <1>8, <1>9
<1>11. Contents' = Contents
  <2>1. Keeps(C, C)
    BY ReadMoves
  <2> QED BY <1>1, <2>1, ContentsStay
<1>12. Store!Read(h, at)
  <2>1. Contents[Positions[h].name] = Content(f.name) /\ Positions[h].at = c
        /\ Len(Contents[Positions[h].name]) - Positions[h].at = z - c
    BY <1>2, <1>3
  <2>2. LET cc   == Contents[Positions[h].name]
            a    == Positions[h].at
            left == Len(cc) - a
            n    == IF at <= left THEN at ELSE left
        IN  /\ answer' = SubSeq(cc, a + 1, a + n)
            /\ Positions' = [Positions EXCEPT ![h].at = a + n]
    BY <1>4, <1>5, <1>10, <2>1
  <2> QED BY <1>2, <1>11, <2>2 DEF Store!Read, Contents, Positions, PositionOf
<1> QED BY SMTT(40), <1>4, <1>12


(* The store and the chains, together: no file is larger than any may be.    *)
RefInv == RoomInv /\ SizesFit

LEMMA StoreStarts == Init => RefInv /\ Store!Init
<1> SUFFICES ASSUME Init PROVE RefInv /\ Store!Init
  OBVIOUS
<1>1. /\ \A n \in Name : entry[n] = NoFile
      /\ \A h \in Handle : handle[h] = Closed
      /\ answer = <<>>
  BY DEF Init
<1>2. RefInv
  BY <1>1, InitRoom DEF RefInv, SizesFit
<1>3. \A n \in Name : Content(n) = NoFile
  BY <1>1 DEF Content
<1>4. Contents = [n \in Name |-> NoFile]
  BY <1>3 DEF Contents
<1>5. Positions = [h \in Handle |-> Closed]
  BY <1>1 DEF Positions, PositionOf
<1> QED BY <1>1, <1>2, <1>4, <1>5 DEF Store!Init, Contents, Positions, PositionOf

(* A call on a disk with room is one of the store's.                         *)
LEMMA OrdinaryStores ==
  ASSUME NEW C, Sound(C), Exact(C, entry, handle), SizesFit, Ordinary
  PROVE  Store!Next /\ SizesFit'
<1>1. ASSUME NEW h \in Handle, NEW n \in Name, Create(h, n) PROVE Store!Next /\ SizesFit'
  <2>1. Store!Open(h, n, 0) /\ SizesFit'
    BY <1>1, CreateCreates
  <2>2. 0 \in 0 .. MaxSize
    BY FileAssumption
  <2> QED BY <2>1, <2>2 DEF Store!Next
<1>2. ASSUME NEW h \in Handle, NEW n \in Name, NEW append \in BOOLEAN, Open(h, n, append)
      PROVE  Store!Next /\ SizesFit'
  <2>1. \E at \in 0 .. MaxSize : Store!Open(h, n, at)
    BY <1>2, OpenOpens
  <2>2. SizesFit'
    BY <1>2 DEF Open, SizesFit
  <2> QED BY <2>1, <2>2 DEF Store!Next
<1>3. ASSUME NEW h \in Handle, NEW at \in 0 .. MaxSize, Seek(h, at) PROVE Store!Next /\ SizesFit'
  <2>1. at \in Nat
    BY FileAssumption
  <2>2. Store!Seek(h, at)
    BY <1>3, <2>1, SeekSeeks
  <2>3. SizesFit'
    BY <1>3 DEF Seek, SizesFit
  <2> QED BY <2>2, <2>3 DEF Store!Next
<1>4. ASSUME NEW h \in Handle, NEW buf \in Bufs, Read(h, Len(buf)) PROVE Store!Next /\ SizesFit'
  <2>1. buf \in Seq(Byte \cup {Blank})
    BY BufsTyped
  <2>2. Len(buf) \in Nat
    BY <2>1
  <2>3. \E at \in 0 .. MaxSize : Store!Read(h, at)
    BY SMTT(40), <1>4, <2>2, ReadReads
  <2>4. SizesFit'
    BY <1>4 DEF Read, SizesFit
  <2> QED BY <2>3, <2>4 DEF Store!Next
<1>5. ASSUME NEW h \in Handle, NEW buf \in Bufs, Write(h, buf) PROVE Store!Next /\ SizesFit'
  <2>1. buf \in Seq(Byte \cup {Blank})
    BY BufsTyped
  <2>2. Store!Write(h, buf) /\ SizesFit'
    BY <1>5, <2>1, WriteWrites
  <2> QED BY <2>2 DEF Store!Next
<1>6. ASSUME NEW h \in Handle, Close(h) PROVE Store!Next /\ SizesFit'
  <2>1. Store!Close(h)
    BY <1>6, CloseCloses
  <2>2. SizesFit'
    BY <1>6 DEF Close, SizesFit
  <2> QED BY <2>1, <2>2 DEF Store!Next
<1>7. ASSUME NEW n \in Name, Delete(n) PROVE Store!Next /\ SizesFit'
  <2>1. Store!Delete(n) /\ SizesFit'
    BY <1>7, DeleteDeletes
  <2> QED BY <2>1 DEF Store!Next
<1> QED BY <1>1, <1>2, <1>3, <1>4, <1>5, <1>6, <1>7 DEF Ordinary

LEMMA StoreStep == RefInv /\ [Ordinary]_vars => RefInv' /\ [Store!Next]_(Store!vars)
<1> SUFFICES ASSUME RefInv, [Ordinary]_vars PROVE RefInv' /\ [Store!Next]_(Store!vars)
  OBVIOUS
<1>1. PICK C : Sound(C) /\ Exact(C, entry, handle)
  BY DEF RefInv, RoomInv, Sound
<1>2. RoomInv'
  BY RoomStep DEF RefInv
<1>3. CASE Ordinary
  <2>1. Store!Next /\ SizesFit'
    BY <1>1, <1>3, OrdinaryStores DEF RefInv
  <2> QED BY <1>2, <2>1 DEF RefInv
<1>4. CASE UNCHANGED vars
  <2>1. disk' = disk /\ entry' = entry /\ handle' = handle /\ answer' = answer
    BY <1>4 DEF vars
  <2>2. Contents' = Contents
    BY <1>1, <1>4, <2>1, StuttersKeeps, ContentsStay
  <2>3. Positions' = Positions
    BY <2>1 DEF Positions
  <2>4. UNCHANGED Store!vars
    BY <2>1, <2>2, <2>3 DEF Store!vars, Contents, Positions, PositionOf
  <2>5. SizesFit'
    BY <2>1 DEF RefInv, SizesFit
  <2> QED BY <1>2, <2>4, <2>5 DEF RefInv
<1> QED BY <1>3, <1>4

(* While the disk has room for what is written, and nothing empty is, the    *)
(* chains of blocks are the byte sequences a program takes its files for:    *)
(* whatever the seeks, truncating writes, appends and deletions before it, a *)
(* read returns what the writes left (File::read, File::write).              *)
THEOREM StoresBytes == RoomSpec => ImplementsFileStore
<1> QED BY StoreStarts, StoreStep, PTL DEF RoomSpec, ImplementsFileStore, Store!Spec

(* What a read returns are bytes of the chain, wherever it ends.             *)
LEMMA AnswerTyped ==
  ASSUME NEW C, Sound(C), NEW h \in Handle, NEW bytes \in Nat, Read(h, bytes)
  PROVE  answer' \in Seq(Byte \cup {Blank})
<1>1. PICK f \in File : /\ handle[h] # Closed /\ f = handle[h] /\ f.name \in Name
                        /\ C[f.name] \in BlockSeqs
  <2>1. handle[h] # Closed
    BY DEF Read
  <2> QED BY SMTT(40), <2>1, OpenHandle
<1>2. PICK s \in BlockSeqs : s = C[f.name]
  BY <1>1
<1>3. PICK p \in 1 .. Len(s), o \in Nat :
        /\ Begins(s, f, p, o)
        /\ Resume(f).addr = s[p] /\ Resume(f).offset = o * Capacity
        /\ ChainFrom[s[p]] = SubSeq(s, p, Len(s))
  BY <1>1, <1>2, ResumesAt DEF Sound
<1>4. PICK c \in Nat, z \in Nat : c = f.cursor /\ z = f.size
  BY DEF File
<1>5. PICK l \in Nat, m \in Nat : l = Len(s) /\ p \in 1 .. l /\ m = l - p + 1
  <2>1. PICK l \in Nat : l = Len(s) /\ p \in 1 .. l
    BY <1>3, SeqSorts
  <2>2. l - p + 1 \in Nat
    BY <2>1
  <2> QED BY <2>1, <2>2
<1>6. PICK chain \in BlockSeqs :
        /\ chain = ChainFrom[Resume(f).addr] /\ Len(chain) = m
        /\ \A k \in 1 .. m : chain[k] = s[p + k - 1]
  <2>1. p \in Nat \ {0} /\ l <= Len(s) /\ p <= l
    BY <1>5
  <2>2. /\ SubSeq(s, p, l) \in BlockSeqs /\ Len(SubSeq(s, p, l)) = IF p <= l THEN l - p + 1 ELSE 0
        /\ \A k \in 1 .. Len(SubSeq(s, p, l)) : SubSeq(s, p, l)[k] = s[p + k - 1]
    BY <2>1, PartIs
  <2>3. ChainFrom[Resume(f).addr] = SubSeq(s, p, l)
    BY <1>3, <1>5
  <2>4. Len(SubSeq(s, p, l)) = m
    BY <1>5, <2>1, <2>2
  <2> QED BY <2>2, <2>3, <2>4
<1>12. PICK x \in Nat, y \in Nat : x = o * Capacity /\ y = m * Capacity
  BY FileAssumption
<1>7. PICK r \in Nat : r = x + y /\ x <= c /\ c <= r
  <2>2. (o + m) * Capacity = x + y
    BY <1>12, FileAssumption, Distributes
  <2>3. x <= c /\ c <= (o + m) * Capacity
    BY <1>3, <1>4, <1>5, <1>12 DEF Begins
  <2>4. x + y \in Nat
    OBVIOUS
  <2> QED BY <2>2, <2>3, <2>4
<1>8. PICK e \in Nat : e = ReadEnd(f, bytes) /\ c <= e /\ e <= r
  <2>1. PICK L \in SUBSET Nat : L = {c + bytes, r} \cup (IF c <= z THEN {z} ELSE {})
    <3>1. {c + bytes, r} \cup (IF c <= z THEN {z} ELSE {}) \in SUBSET Nat
      OBVIOUS
    <3> QED BY <3>1
  <2>2. PICK e \in L : e = Lowest(L) /\ \A b \in L : e <= b
    <3>1. L # {}
      BY <2>1
    <3> QED BY <3>1, LowestOf DEF Lowest
  <2>3. c <= e
    <3>1. e = c + bytes \/ e = r \/ (c <= z /\ e = z)
      BY <2>1
    <3>2. c <= c + bytes
      OBVIOUS
    <3> QED BY <1>7, <3>1, <3>2
  <2>4. e <= r /\ e \in Nat
    BY <2>1, <2>2
  <2>5. {f.cursor + bytes, Resume(f).offset + Len(ChainFrom[Resume(f).addr]) * Capacity}
           \cup (IF f.cursor <= f.size THEN {f.size} ELSE {}) = L
    <3>1. Resume(f).offset + Len(ChainFrom[Resume(f).addr]) * Capacity = r
      BY <1>3, <1>6, <1>7, <1>12
    <3> QED BY <1>4, <2>1, <3>1
  <2>6. e = ReadEnd(f, bytes)
    BY <2>2, <2>5 DEF ReadEnd
  <2> QED BY <2>3, <2>4, <2>6
<1>9. ASSUME NEW i \in 1 .. e - c
      PROVE  disk[chain[((c + i - 1) - x) \div Capacity + 1]].data[((c + i - 1) % Capacity) + 1]
               \in Byte \cup {Blank}
  <2>1. PICK j \in Nat \ {0} : j = c + i - x /\ j <= y /\ j - 1 = (c + i - 1) - x
    <3>1. c + i - x \in Nat \ {0} /\ c + i - x <= y /\ (c + i - x) - 1 = (c + i - 1) - x
      BY <1>7, <1>8
    <3> QED BY <3>1
  <2>2. PICK b \in Nat \ {0} : b = (j - 1) \div Capacity + 1 /\ b <= m
    <3>1. j <= m * Capacity
      BY <1>12, <2>1
    <3> QED BY <3>1, CellPlace
  <2>3. PICK q \in 1 .. Capacity : q = ((c + i - 1) % Capacity) + 1
    <3>1. c + i \in Nat \ {0} /\ (c + i) - 1 = c + i - 1
      OBVIOUS
    <3> QED BY <3>1, CellPlace
  <2>4. chain[b] = s[p + b - 1] /\ p + b - 1 \in 1 .. Len(s)
    <3>1. b \in 1 .. m
      BY <2>2
    <3>2. chain[b] = s[p + b - 1]
      BY <1>6, <3>1
    <3>3. p + b - 1 \in 1 .. l
      BY <1>5, <3>1
    <3> QED BY <1>5, <3>2, <3>3
  <2>5. disk[chain[b]] \in [next : Blocks \cup {0}, data : Data]
    BY <1>1, <1>2, <2>4 DEF Sound, Chained, Linked, DiskOK
  <2>6. disk[chain[b]].data[q] \in Byte \cup {Blank}
    BY <2>5 DEF Data
  <2> QED BY <2>1, <2>2, <2>3, <2>6
<1>10. answer' = [i \in 1 .. e - c |->
         disk[chain[((c + i - 1) - x) \div Capacity + 1]].data[((c + i - 1) % Capacity) + 1]]
  <2>1. answer' = LET g      == handle[h]
                      start  == Resume(g)
                      blocks == ChainFrom[start.addr]
                      limits == {g.cursor + bytes, start.offset + Len(blocks) * Capacity}
                                  \cup (IF g.cursor <= g.size THEN {g.size} ELSE {})
                      end    == Lowest(limits)
                  IN  [i \in 1 .. end - g.cursor |->
                         disk[blocks[((g.cursor + i - 1) - start.offset) \div Capacity + 1]]
                           .data[((g.cursor + i - 1) % Capacity) + 1]]
    BY Zenon DEF Read, Lowest
  <2>2. answer' = [i \in 1 .. ReadEnd(f, bytes) - f.cursor |->
                     disk[ChainFrom[Resume(f).addr]
                            [((f.cursor + i - 1) - Resume(f).offset) \div Capacity + 1]]
                       .data[((f.cursor + i - 1) % Capacity) + 1]]
    BY Zenon, <1>1, <2>1 DEF ReadEnd
  <2> QED BY Zenon, <1>3, <1>4, <1>6, <1>12, <1>8, <2>2
<1>11. answer' \in [1 .. e - c -> Byte \cup {Blank}]
  BY <1>9, <1>10
<1>13. e - c \in Nat
  BY <1>8
<1> QED BY <1>11, <1>13

(* The chains say where the blocks are; the other types are of the answer.   *)
TypeInv == FileInv /\ answer \in Seq(Byte \cup {Blank})

LEMMA TypeStep == TypeInv /\ [Next]_vars => TypeInv'
<1> SUFFICES ASSUME TypeInv, [Next]_vars PROVE answer' \in Seq(Byte \cup {Blank})
  BY FileStep DEF TypeInv
<1>1. PICK C : Sound(C)
  BY DEF TypeInv, FileInv, Sound
<1>2. <<>> \in Seq(Byte \cup {Blank})
  OBVIOUS
<1>3. ASSUME NEW h \in Handle, NEW buf \in Bufs, Read(h, Len(buf))
      PROVE  answer' \in Seq(Byte \cup {Blank})
  <2>1. buf \in Seq(Byte \cup {Blank})
    BY BufsTyped
  <2>2. Len(buf) \in Nat
    BY <2>1
  <2> QED BY <1>1, <1>3, <2>2, AnswerTyped
<1>4. CASE answer' = <<>>
  BY <1>2, <1>4
<1>5. CASE UNCHANGED vars
  BY SMTT(40), <1>5 DEF vars, TypeInv
<1>6. Next => answer' = <<>> \/ \E h \in Handle, buf \in Bufs : Read(h, Len(buf))
  BY DEF Next, Ordinary, Create, Open, Seek, Write, Close, Delete, WriteNothing, WriteDiskFull
<1> QED BY <1>3, <1>4, <1>5, <1>6

LEMMA TypesHold == TypeInv => TypeOK
<1> SUFFICES ASSUME TypeInv PROVE TypeOK
  OBVIOUS
<1>1. PICK C : Sound(C)
  BY DEF TypeInv, FileInv, Sound
<1>2. DOMAIN disk \subseteq Blocks
  <2> SUFFICES ASSUME NEW a \in DOMAIN disk PROVE a \in Blocks
    OBVIOUS
  <2>1. PICK n \in Name : C[n] \in BlockSeqs /\ \E i \in 1 .. Len(C[n]) : C[n][i] = a
    BY <1>1 DEF Sound, Chained, Covered
  <2> QED BY <2>1, SeqSorts
<1>3. \A a \in DOMAIN disk : disk[a] \in Block
  BY <1>1 DEF Sound, DiskOK, Data, Block
<1>4. \A n \in Name : entry[n] # NoFile => entry[n] \in [addr : Blocks, size : Nat]
  BY <1>1 DEF Sound, FilesHeld, EntryOf
<1>5. \A h \in Handle : handle[h] # Closed => handle[h] \in File
  BY <1>1 DEF Sound, FilesHeld
<1> QED BY <1>2, <1>3, <1>4, <1>5 DEF TypeInv, TypeOK

(* Blocks, entries and handles are what they should be on any disk, full or  *)
(* not, and a read only returns bytes that are in a block (File::read).      *)
THEOREM TypeCorrect == Spec => []TypeOK
<1>1. Init => TypeInv
  <2>1. Init => answer = <<>>
    BY DEF Init
  <2>2. RoomInv => FileInv
    BY DEF RoomInv, FileInv
  <2> QED BY <2>1, <2>2, InitRoom DEF TypeInv
<1> QED BY <1>1, TypeStep, TypesHold, PTL DEF Spec

(***************************************************************************)
(* The terminal's commands                                                 *)
(***************************************************************************)

(* What the commands on paths rest on: a command that is running is about   *)
(* files, and no directory is among what it writes or deletes.              *)
AboutFiles ==
  job # Idle =>
    /\ {"src", "dst", "stage"} \subseteq DOMAIN job
    /\ job.src \in Name /\ kind[job.src] = "file"
    /\ job.dst \in Name /\ kind[job.dst] = "file" /\ IsDir(Parent[job.dst])
    /\ handle[Out] # Closed => "name" \in DOMAIN handle[Out] /\ handle[Out].name = job.dst

TreeInv ==
  /\ DOMAIN entry = Name /\ DOMAIN handle = Handle /\ DOMAIN kind = Name
  /\ kind = [p \in Name |-> kind[p]] /\ handle = [h \in Handle |-> handle[h]]
  /\ TreeHolds /\ AboutFiles

LEMMA ParentIs ==
  ASSUME NEW p \in Name
  PROVE  Parent[p] \in Name \cup {Root} /\ Root \notin Name
BY ShellAssumption

(* A new entry, of a path without one, is in a directory, and was none.     *)
LEMMA NewEntryTree ==
  ASSUME DOMAIN entry = Name, DOMAIN kind = Name, TreeHolds, NEW p \in Name, NEW k, NewEntry(p, k)
  PROVE  /\ DOMAIN entry' = Name /\ DOMAIN kind' = Name
         /\ \A q \in Name \cup {Root} : IsDir(q) => IsDir(q)'
         /\ kind' = [kind EXCEPT ![p] = k] /\ kind'[p] = k
         /\ IsDir(Parent[p])'
         /\ \A q \in Name : entry'[q] # NoFile => IsDir(Parent[q])'
<1>1. PICK e : entry' = [entry EXCEPT ![p] = e]
  BY DEF NewEntry
<1>2. kind' = [kind EXCEPT ![p] = k] /\ entry[p] = NoFile /\ IsDir(Parent[p])
  BY DEF NewEntry
<1>3. \A q \in Name \ {p} : entry'[q] = entry[q] /\ kind'[q] = kind[q]
  BY <1>1, <1>2
<1>4. ASSUME NEW q \in Name \cup {Root}, IsDir(q) PROVE IsDir(q)'
  BY <1>2, <1>3, <1>4 DEF IsDir
<1>5. IsDir(Parent[p])'
  BY <1>2, <1>4, ParentIs
<1>6. ASSUME NEW q \in Name, entry'[q] # NoFile PROVE IsDir(Parent[q])'
  <2>1. CASE q = p
    BY <1>5, <2>1
  <2>2. CASE q # p
    <3>1. IsDir(Parent[q])
      BY <1>3, <1>6, <2>2 DEF TreeHolds
    <3> QED BY <1>4, <3>1, ParentIs
  <2> QED BY <2>1, <2>2
<1> QED BY <1>1, <1>2, <1>4, <1>5, <1>6

(* What changes the entry of a file leaves the directories.                 *)
LEMMA FileTree ==
  ASSUME DOMAIN entry = Name, TreeHolds, NEW p \in Name, kind[p] = "file",
         NEW e, entry' = [entry EXCEPT ![p] = e], kind' = kind, cwd' = cwd,
         e # NoFile => IsDir(Parent[p])
  PROVE  /\ DOMAIN entry' = Name /\ TreeHolds'
         /\ \A q \in Name \cup {Root} : IsDir(q) => IsDir(q)'
<1>1. \A q \in Name \ {p} : entry'[q] = entry[q]
  OBVIOUS
<1>2. ASSUME NEW q, IsDir(q) PROVE IsDir(q)'
  <2>1. q \in Name => q # p
    BY <1>2 DEF IsDir
  <2> QED BY <1>1, <1>2, <2>1 DEF IsDir
<1>3. ASSUME NEW q \in Name, entry'[q] # NoFile PROVE IsDir(Parent[q])'
  <2>1. IsDir(Parent[q])
    BY <1>1, <1>3 DEF TreeHolds
  <2> QED BY <1>2, <2>1
<1>4. IsDir(cwd)'
  <2>1. IsDir(cwd)
    BY DEF TreeHolds
  <2> QED BY <1>2, <2>1 DEF IsDir
<1> QED BY <1>2, <1>3, <1>4 DEF TreeHolds

LEMMA TreeStarts == ShellInit => TreeInv
<1> SUFFICES ASSUME ShellInit PROVE TreeInv
  OBVIOUS
<1>1. IsDir(cwd)
  BY ShellAssumption DEF ShellInit, IsDir
<1> QED BY <1>1 DEF ShellInit, Init, TreeInv, TreeHolds, AboutFiles

(* The destination of a command, open.                                      *)
LEMMA OpenOutTree ==
  ASSUME TreeInv, NEW p \in Name, NEW opened, DOMAIN opened = Handle,
         OpenOut(p, opened), cwd' = cwd,
         NEW q \in Name, kind'[q] = "file",
         {"src", "dst", "stage"} \subseteq DOMAIN job', job'.src = q, job'.dst = p
  PROVE  TreeInv'
<1>1. PICK f : f = FileOf(p, entry'[p], 0) /\ handle' = [opened EXCEPT ![Out] = f]
  BY DEF OpenOut
<1>2. f.name = p /\ "name" \in DOMAIN f
  BY <1>1 DEF FileOf
<1>3. /\ DOMAIN handle' = Handle /\ handle' = [h \in Handle |-> handle'[h]] /\ handle'[Out] = f
  BY <1>1, ShellAssumption
<1>4. CASE IsFile(p) /\ UNCHANGED <<disk, entry, kind>>
  <2>1. IsDir(Parent[p]) /\ kind[p] = "file" /\ entry' = entry /\ kind' = kind
    BY <1>4 DEF IsFile, TreeInv, TreeHolds
  <2>2. TreeHolds' /\ IsDir(Parent[p])'
    BY <2>1 DEF TreeInv, TreeHolds, IsDir
  <2> QED BY <1>2, <1>3, <2>1, <2>2 DEF TreeInv, AboutFiles
<1>5. CASE NewEntry(p, "file")
  <2>1. /\ DOMAIN entry' = Name /\ DOMAIN kind' = Name
        /\ \A a \in Name \cup {Root} : IsDir(a) => IsDir(a)'
        /\ kind' = [kind EXCEPT ![p] = "file"] /\ kind'[p] = "file"
        /\ IsDir(Parent[p])'
        /\ \A a \in Name : entry'[a] # NoFile => IsDir(Parent[a])'
    BY <1>5, NewEntryTree DEF TreeInv
  <2>2. kind' = [a \in Name |-> kind'[a]]
    BY <2>1 DEF TreeInv
  <2>3. IsDir(cwd)'
    <3>1. IsDir(cwd)
      BY DEF TreeInv, TreeHolds
    <3>2. cwd \in Name \cup {Root} \/ cwd \notin Name
      OBVIOUS
    <3>3. CASE cwd \in Name
      <4>1. \A a \in Name : a = cwd => IsDir(a)'
        BY <2>1, <3>1
      <4> QED BY <3>3, <4>1 DEF IsDir
    <3>4. CASE cwd \notin Name
      BY <3>4 DEF IsDir
    <3> QED BY <3>3, <3>4
  <2> QED BY <1>2, <1>3, <2>1, <2>2, <2>3 DEF TreeInv, TreeHolds, AboutFiles
<1> QED BY <1>4, <1>5 DEF OpenOut

(* An entry made or deleted when no command is running.                     *)
LEMMA EntryTree ==
  ASSUME TreeInv, job = Idle, UNCHANGED <<handle, cwd, job>>, NEW p \in Name,
         (\E k \in {"file", "dir"} : NewEntry(p, k)) \/ (IsFile(p) /\ Delete(p) /\ UNCHANGED kind)
  PROVE  TreeInv'
<1>1. AboutFiles' /\ DOMAIN handle' = Handle /\ handle' = [h \in Handle |-> handle'[h]]
  BY DEF AboutFiles, TreeInv
<1>2. CASE \E k \in {"file", "dir"} : NewEntry(p, k)
  <2>1. PICK k : NewEntry(p, k)
    BY <1>2
  <2>2. /\ DOMAIN entry' = Name /\ DOMAIN kind' = Name
        /\ \A a \in Name \cup {Root} : IsDir(a) => IsDir(a)'
        /\ kind' = [kind EXCEPT ![p] = k]
        /\ \A a \in Name : entry'[a] # NoFile => IsDir(Parent[a])'
    BY <2>1, NewEntryTree DEF TreeInv
  <2>3. kind' = [a \in Name |-> kind'[a]]
    BY <2>2 DEF TreeInv
  <2>4. IsDir(cwd)'
    <3>1. IsDir(cwd)
      BY DEF TreeInv, TreeHolds
    <3>2. \A a \in Name : a = cwd => IsDir(a)'
      BY <2>2, <3>1
    <3> QED BY <3>2 DEF IsDir
  <2> QED BY <1>1, <2>2, <2>3, <2>4 DEF TreeInv, TreeHolds
<1>3. CASE IsFile(p) /\ Delete(p) /\ UNCHANGED kind
  <2>1. kind[p] = "file" /\ entry' = [entry EXCEPT ![p] = NoFile] /\ kind' = kind /\ cwd' = cwd
    BY <1>3 DEF IsFile, Delete
  <2>2. DOMAIN entry' = Name /\ TreeHolds'
    BY <2>1, FileTree DEF TreeInv
  <2> QED BY <1>1, <2>1, <2>2 DEF TreeInv
<1> QED BY <1>2, <1>3

(* A command begins.                                                        *)
LEMMA CommandTree ==
  ASSUME TreeInv, job = Idle, Command
  PROVE  TreeInv'
<1>1. ASSUME NEW p \in Name, exec_touch(p) \/ exec_mkdir(p) \/ exec_rm(p) PROVE TreeInv'
  <2>1. /\ UNCHANGED <<handle, cwd, job>>
        /\ (\E k \in {"file", "dir"} : NewEntry(p, k)) \/ (IsFile(p) /\ Delete(p) /\ UNCHANGED kind)
    BY <1>1 DEF exec_touch, exec_mkdir, exec_rm, Delete
  <2> QED BY <2>1, EntryTree
<1>2. ASSUME NEW p \in Name \cup {Root}, exec_cd(p) PROVE TreeInv'
  <2>1. /\ entry' = entry /\ handle' = handle /\ kind' = kind /\ job' = job /\ cwd' = p
        /\ IsDir(p)
    BY <1>2 DEF exec_cd, vars
  <2>2. TreeHolds'
    BY <2>1 DEF TreeInv, TreeHolds, IsDir
  <2> QED BY <2>1, <2>2 DEF TreeInv, AboutFiles
<1>3. ASSUME NEW p \in Name, NEW text \in Bufs, exec_write(p, text) PROVE TreeInv'
  <2>1. OpenOut(p, handle) /\ cwd' = cwd /\ DOMAIN handle = Handle
    BY <1>3 DEF exec_write, TreeInv
  <2>2. {"src", "dst", "stage"} \subseteq DOMAIN job' /\ job'.src = p /\ job'.dst = p
    BY <1>3 DEF exec_write, Begin
  <2>3. kind'[p] = "file"
    <3>1. IsFile(p) /\ kind' = kind => kind'[p] = "file"
      BY DEF IsFile
    <3>2. NewEntry(p, "file") => kind'[p] = "file"
      BY NewEntryTree DEF TreeInv
    <3> QED BY <2>1, <3>1, <3>2 DEF OpenOut
  <2> QED BY <2>1, <2>2, <2>3, OpenOutTree
<1>4. ASSUME NEW src \in Name, NEW dst \in Name, NEW c \in {"cp", "mv"}, copy_file(c, src, dst)
      PROVE  TreeInv'
  <2>1. PICK opened : opened = [handle EXCEPT ![In] = FileOf(src, entry[src], 0)]
    OBVIOUS
  <2>2. OpenOut(dst, opened) /\ cwd' = cwd /\ DOMAIN opened = Handle
    BY <1>4, <2>1 DEF copy_file, TreeInv
  <2>3. {"src", "dst", "stage"} \subseteq DOMAIN job' /\ job'.src = src /\ job'.dst = dst
    BY <1>4 DEF copy_file, Begin
  <2>4. kind[src] = "file" /\ entry[src] # NoFile
    BY <1>4 DEF copy_file, IsFile
  <2>5. kind'[src] = "file"
    <3>1. NewEntry(dst, "file") => kind' = [kind EXCEPT ![dst] = "file"]
      BY DEF NewEntry
    <3>2. kind' = kind \/ NewEntry(dst, "file")
      BY <2>2 DEF OpenOut
    <3> QED BY <2>4, <3>1, <3>2 DEF TreeInv
  <2> QED BY <2>2, <2>3, <2>5, OpenOutTree
<1> QED BY <1>1, <1>2, <1>3, <1>4 DEF Command

(* What a running command does with its destination.                        *)
LEMMA OutTree ==
  ASSUME TreeInv, job # Idle, kind' = kind, cwd' = cwd, NEW s, job' = [job EXCEPT !.stage = s],
         Write(Out, answer) \/ WriteDiskFull(Out, answer)
  PROVE  TreeInv'
<1>1. PICK f, p : f = handle[Out] /\ p = job.dst
  OBVIOUS
<1>2. /\ handle[Out] # Closed /\ p \in Name /\ kind[p] = "file" /\ IsDir(Parent[p])
      /\ "name" \in DOMAIN f /\ f.name = p
      /\ job.src \in Name /\ kind[job.src] = "file"
  BY <1>1 DEF Write, WriteDiskFull, TreeInv, AboutFiles
<1>3. /\ {"src", "dst", "stage"} \subseteq DOMAIN job'
      /\ job'.src = job.src /\ job'.dst = p
  BY <1>1 DEF TreeInv, AboutFiles
<1>4. entry' = entry \/ \E e : entry' = [entry EXCEPT ![p] = e]
  <2>1. CASE Write(Out, answer)
    <3>1. \E e : entry' = [entry EXCEPT ![f.name] = e]
      BY <1>1, <2>1, Zenon DEF Write
    <3> QED BY <1>2, <3>1
  <2>2. CASE WriteDiskFull(Out, answer)
    BY <2>2 DEF WriteDiskFull
  <2> QED BY <2>1, <2>2
<1>6. handle' = handle \/ \E g : /\ handle' = [handle EXCEPT ![Out] = g]
                                 /\ "name" \in DOMAIN g /\ g.name = p
  <2>1. CASE Write(Out, answer)
    <3>1. \E a, o, c : handle' = [handle EXCEPT ![Out] =
                         [set_resume(handle[Out], a, o) EXCEPT !.cursor = c, !.size = c]]
      BY <2>1, Zenon DEF Write
    <3>2. PICK a, o, c, g : /\ handle' = [handle EXCEPT ![Out] = g]
                            /\ g = [set_resume(f, a, o) EXCEPT !.cursor = c, !.size = c]
      BY <1>1, <3>1
    <3>3. "name" \in DOMAIN g /\ g.name = p
      BY <1>2, <3>2 DEF set_resume
    <3> QED BY <3>2, <3>3
  <2>2. CASE WriteDiskFull(Out, answer)
    <3>1. handle' = handle \/ \E a, o, c : handle' = [handle EXCEPT ![Out] =
                                 [set_resume(handle[Out], a, o) EXCEPT !.cursor = c]]
      BY <2>2, Zenon DEF WriteDiskFull
    <3>2. CASE \E a, o, c : handle' = [handle EXCEPT ![Out] =
                                 [set_resume(handle[Out], a, o) EXCEPT !.cursor = c]]
      <4>1. PICK a, o, c, g : /\ handle' = [handle EXCEPT ![Out] = g]
                              /\ g = [set_resume(f, a, o) EXCEPT !.cursor = c]
        BY <1>1, <3>2
      <4>2. "name" \in DOMAIN g /\ g.name = p
        BY <1>2, <4>1 DEF set_resume
      <4> QED BY <4>1, <4>2
    <3> QED BY <3>1, <3>2
  <2> QED BY <2>1, <2>2
<1>7. /\ DOMAIN handle' = Handle /\ handle' = [h \in Handle |-> handle'[h]]
      /\ "name" \in DOMAIN handle'[Out] /\ handle'[Out].name = p
  BY <1>1, <1>2, <1>6, ShellAssumption DEF TreeInv
<1>8. DOMAIN entry' = Name /\ TreeHolds' /\ IsDir(Parent[p])'
  <2>1. CASE entry' = entry
    BY <1>2, <2>1 DEF TreeInv, TreeHolds, IsDir
  <2>2. CASE \E e : entry' = [entry EXCEPT ![p] = e]
    <3>1. PICK e : entry' = [entry EXCEPT ![p] = e]
      BY <2>2
    <3> QED BY <1>2, <3>1, FileTree, ParentIs DEF TreeInv
  <2> QED BY <1>4, <2>1, <2>2
<1> QED BY <1>2, <1>3, <1>7, <1>8 DEF TreeInv, AboutFiles

LEMMA RunTree ==
  ASSUME TreeInv, job # Idle, CopyRead \/ CopyWrite \/ CopyFails \/ Return \/ exec_mv_delete
  PROVE  TreeInv'
<1>1. CASE CopyRead
  <2>1. entry' = entry /\ kind' = kind /\ cwd' = cwd
    BY <1>1 DEF CopyRead, Read
  <2>2. \E s : job' = [job EXCEPT !.stage = s]
    BY <1>1 DEF CopyRead
  <2>3. \E g : handle' = [handle EXCEPT ![In] = g]
    BY <1>1, Zenon DEF CopyRead, Read
  <2>4. TreeHolds'
    BY <2>1 DEF TreeInv, TreeHolds, IsDir
  <2>5. handle'[Out] = handle[Out] /\ DOMAIN handle' = Handle /\ handle' = [h \in Handle |-> handle'[h]]
    BY <2>3, ShellAssumption DEF TreeInv
  <2>6. AboutFiles'
    BY <2>1, <2>2, <2>5 DEF TreeInv, AboutFiles, IsDir
  <2> QED BY <2>1, <2>4, <2>5, <2>6 DEF TreeInv
<1>2. CASE CopyWrite
  <2>1. PICK s : job' = [job EXCEPT !.stage = s]
    BY <1>2 DEF CopyWrite
  <2> QED BY <1>2, <2>1, OutTree DEF CopyWrite
<1>3. CASE CopyFails
  <2>1. PICK s : job' = [job EXCEPT !.stage = s]
    BY <1>3 DEF CopyFails
  <2> QED BY <1>3, <2>1, OutTree DEF CopyFails
<1>4. CASE Return
  <2>1. entry' = entry /\ kind' = kind /\ cwd' = cwd /\ handle' = [h \in Handle |-> Closed]
    BY <1>4 DEF Return
  <2>2. job' = Idle \/ job' = [job EXCEPT !.stage = "deleting"]
    BY <1>4 DEF Return
  <2>3. TreeHolds'
    BY <2>1 DEF TreeInv, TreeHolds, IsDir
  <2>4. AboutFiles'
    BY <2>1, <2>2, ShellAssumption DEF TreeInv, AboutFiles, IsDir
  <2> QED BY <2>1, <2>3, <2>4 DEF TreeInv
<1>5. CASE exec_mv_delete
  <2>1. PICK p \in Name : p = job.src /\ kind[p] = "file"
    BY DEF TreeInv, AboutFiles
  <2>2. /\ entry' = [entry EXCEPT ![p] = NoFile] /\ kind' = kind /\ cwd' = cwd /\ job' = Idle
        /\ handle' = handle
    BY <1>5, <2>1 DEF exec_mv_delete, Delete
  <2>3. DOMAIN entry' = Name /\ TreeHolds'
    BY <2>1, <2>2, FileTree DEF TreeInv
  <2> QED BY <2>2, <2>3 DEF TreeInv, AboutFiles
<1> QED BY <1>1, <1>2, <1>3, <1>4, <1>5

LEMMA TreeStep == TreeInv /\ [ShellNext]_shellVars => TreeInv'
<1> SUFFICES ASSUME TreeInv, [ShellNext]_shellVars PROVE TreeInv'
  OBVIOUS
<1>1. CASE job = Idle /\ Command
  BY <1>1, CommandTree
<1>2. CASE job # Idle /\ (CopyRead \/ CopyWrite \/ CopyFails \/ Return \/ exec_mv_delete)
  BY <1>2, RunTree
<1>3. CASE UNCHANGED shellVars
  <2>1. entry' = entry /\ handle' = handle /\ kind' = kind /\ cwd' = cwd /\ job' = job
    BY <1>3 DEF shellVars, vars
  <2> QED BY <2>1 DEF TreeInv, TreeHolds, AboutFiles, IsDir
<1> QED BY <1>1, <1>2, <1>3 DEF ShellNext

(* The directory the terminal is in is there whatever is removed or moved,  *)
(* and so is the directory of every file (terminal.rs 204-225, 228-260,     *)
(* 630-647; fs/dir.rs 190), also when a file is copied onto itself or the   *)
(* disk fills up.                                                           *)
THEOREM TreeStays == ShellSpec => []TreeHolds
<1>1. TreeInv => TreeHolds
  BY DEF TreeInv
<1> QED BY <1>1, TreeStarts, TreeStep, PTL DEF ShellSpec

(* The disk after an entry was made, or none: the other files are there, as *)
(* they were.                                                               *)
Settled(C, D, n) ==
  /\ Chained(D, disk', entry') /\ DiskOK(disk')
  /\ entry' \in [Name -> EntryOf \cup {NoFile}]
  /\ \A m \in Name : entry'[m] # NoFile => entry'[m].size <= Len(D[m]) * Capacity
  /\ \A m \in Name \ {n} : /\ D[m] = C[m] /\ entry'[m] = entry[m]
                           /\ \A i \in 1 .. Len(C[m]) : disk'[C[m][i]].data = disk[C[m][i]].data

LEMMA SameSettles ==
  ASSUME NEW C, Sound(C), NEW n, disk' = disk, entry' = entry
  PROVE  Settled(C, C, n)
<1>1. \A m \in Name \ {n} : \A i \in 1 .. Len(C[m]) : disk'[C[m][i]].data = disk[C[m][i]].data
  OBVIOUS
<1> QED BY <1>1 DEF Settled, Sound, FilesHeld

LEMMA EntrySettles ==
  ASSUME NEW C, Sound(C), NEW n \in Name, NEW k, NewEntry(n, k)
  PROVE  entry'[n] # NoFile /\ \E D : Settled(C, D, n)
<1>1. PICK a, e : Starts(n, a, e)
  BY DEF NewEntry, Starts
<1>2. Started(C, n, a, e)
  BY <1>1, EntryBegins
<1>3. /\ a \in Blocks /\ a \notin DOMAIN disk /\ e \in EntryOf /\ e # NoFile
      /\ 1 \in 1 .. Len(On(C, n)) /\ Relinks(C, n, 1, disk', entry') /\ DiskOK(disk')
      /\ entry' \in [Name -> EntryOf \cup {NoFile}] /\ entry'[n] = e
      /\ \A m \in Name \ {n} : entry'[m] = entry[m]
  BY <1>2 DEF Started
<1>4. PICK q \in 0 .. Len(On(C, n)) : q = 1
  BY <1>3
<1>5. PICK D : D = Cut(C, n, q)
  OBVIOUS
<1>6. Chained(C, disk, entry) /\ FilesHeld(C, entry, handle)
  BY DEF Sound
<1>7. Chained(D, disk', entry')
  BY <1>3, <1>4, <1>5, <1>6, Relinked
<1>8. Len(D[n]) = 1 /\ \A m \in Name \ {n} : D[m] = C[m]
  <2>1. Len(Cut(C, n, q)[n]) = q /\ \A m \in Name \ {n} : Cut(C, n, q)[m] = C[m]
    BY <1>6, CutIs
  <2> QED BY <1>4, <1>5, <2>1
<1>9. ASSUME NEW m \in Name, entry'[m] # NoFile PROVE entry'[m].size <= Len(D[m]) * Capacity
  <2>1. CASE m = n
    <3>1. entry'[m].size = 0
      BY <1>1, <1>3, <2>1 DEF Starts
    <3> QED BY <1>8, <2>1, <3>1, FileAssumption
  <2>2. CASE m # n
    BY <1>3, <1>6, <1>8, <1>9, <2>2 DEF FilesHeld
  <2> QED BY <2>1, <2>2
<1>10. ASSUME NEW m \in Name \ {n}, NEW i \in 1 .. Len(C[m])
       PROVE  disk'[C[m][i]].data = disk[C[m][i]].data
  <2>1. C[m][i] \in DOMAIN disk
    BY <1>6 DEF Chained, Linked
  <2> QED BY <1>1, <1>3, <2>1 DEF Starts
<1>11. Settled(C, D, n)
  BY <1>3, <1>7, <1>8, <1>9, <1>10 DEF Settled
<1> QED BY <1>3, <1>11

(* A handle just opened is at the first block of its file.                  *)
LEMMA FreshIsTrue ==
  ASSUME NEW D, NEW d, NEW e, Chained(D, d, e), e \in [Name -> EntryOf \cup {NoFile}],
         NEW n \in Name, e[n] # NoFile, e[n].size <= Len(D[n]) * Capacity,
         NEW f, f = FileOf(n, e[n], 0)
  PROVE  f \in File /\ f.name = n /\ f.cursor = 0 /\ Held(D[n], e[n], f) /\ Truly(D[n], f)
<1>1. PICK s \in BlockSeqs : s = D[n] /\ Len(s) \in Nat /\ Len(s) >= 1 /\ s[1] = e[n].addr
  BY SeqSorts DEF Chained, StartsAt
<1>2. e[n].addr \in Blocks /\ e[n].size \in Nat
  BY DEF EntryOf
<1>3. /\ f \in File /\ f.name = n /\ f.cursor = 0 /\ f.addr = e[n].addr /\ f.size = e[n].size
      /\ f.resume_index = 0 /\ f.resume_addr = e[n].addr
  BY <1>2 DEF FileOf, File
<1>4. AtPlace(s, f, 1)
  <2>1. PICK y \in Nat : y = Len(s) * Capacity
    BY <1>1, FileAssumption
  <2>2. 0 + (Len(s) - 1 + 1) = Len(s)
    BY <1>1
  <2>3. f.cursor <= y /\ f.size <= y
    BY <1>1, <1>3, <2>1
  <2> QED BY <1>1, <1>3, <2>1, <2>2, <2>3 DEF AtPlace
<1>5. Held(s, e[n], f)
  BY <1>1, <1>3, <1>4 DEF Held
<1>6. Truly(s, f)
  BY <1>1, <1>2, <1>3 DEF Truly, ExactAt
<1> QED BY <1>1, <1>3, <1>5, <1>6

(* The handles of a command that begins are the only ones, of files that are*)
(* not one.                                                                 *)
Fresh(h) ==
  \E n \in Name : handle'[h] = FileOf(n, entry'[n], 0) /\ entry'[n] # NoFile

LEMMA FreshKeeps ==
  ASSUME NEW C, Sound(C), NEW n, NEW D, Settled(C, D, n),
         DOMAIN handle' = Handle, handle' = [h \in Handle |-> handle'[h]],
         \A h \in Handle : handle'[h] # Closed => Fresh(h), Alone(handle')
  PROVE  /\ Keeps(C, D)
         /\ \A m \in Name \ {n} : Content(m)' = Content(m)
         /\ \A h \in Handle : handle'[h] # Closed =>
              handle'[h].cursor = 0 /\ Truly(D[handle'[h].name], handle'[h])
<1>1. ASSUME NEW h \in Handle, handle'[h] # Closed
      PROVE  /\ handle'[h] \in File /\ handle'[h].cursor = 0
             /\ Held(D[handle'[h].name], entry'[handle'[h].name], handle'[h])
             /\ Truly(D[handle'[h].name], handle'[h])
  <2>1. PICK m \in Name : handle'[h] = FileOf(m, entry'[m], 0) /\ entry'[m] # NoFile
    BY <1>1 DEF Fresh
  <2>2. PICK f : f = handle'[h]
    OBVIOUS
  <2>3. f \in File /\ f.name = m /\ f.cursor = 0 /\ Held(D[m], entry'[m], f) /\ Truly(D[m], f)
    BY <2>1, <2>2, FreshIsTrue DEF Settled
  <2> QED BY <2>2, <2>3
<1>2. handle' \in [Handle -> File \cup {Closed}]
  BY <1>1
<1>3. FilesHeld(D, entry', handle')
  BY <1>1, <1>2 DEF FilesHeld, Settled
<1>4. Keeps(C, D)
  BY <1>3 DEF Keeps, Settled
<1>5. ASSUME NEW m \in Name \ {n} PROVE Content(m)' = Content(m)
  BY <1>4, SameContent DEF Settled
<1> QED BY <1>1, <1>4, <1>5

-----------------------------------------------------------------------------
(* A copy so far: the destination has what the source has up to where the   *)
(* one handle writes, and the other reads on from there.                    *)
OutIs(C) ==
  /\ handle[Out] # Closed /\ handle[Out].name = job.dst /\ Truly(C[job.dst], handle[Out])
  /\ answer \in ByteSeqs

Copied(text, o, i) ==
  /\ o.cursor # 0 => Content(job.dst) = SubSeq(text, 1, o.cursor)
  /\ IF job.stage = "writing"
     THEN o.cursor < i.cursor /\ answer = SubSeq(text, o.cursor + 1, i.cursor)
     ELSE o.cursor = i.cursor
  /\ job.stage = "copied" => i.cursor = i.size

InIs(C) ==
  /\ job.src # job.dst
  /\ handle[In] # Closed /\ handle[In].name = job.src /\ ExactAt(C[job.src], handle[In])
  /\ Copied(Content(job.src), handle[Out], handle[In])

Keeping(C) ==
  /\ job \in Job \cup {Idle}
  /\ job = Idle \/ job.stage = "deleting" => \A h \in Handle : handle[h] = Closed
  /\ job # Idle =>
       /\ \A n \in Name \ {job.dst} : Content(n) = job.before[n]
       /\ job.command = "write" => job.stage \notin {"reading", "copied", "deleting"}
       /\ job.stage \in {"reading", "writing", "copied"} =>
            OutIs(C) /\ (job.command # "write" => InIs(C))
       /\ job.stage = "deleting" =>
            /\ job.src # job.dst
            /\ job.before[job.src] # <<>> => Content(job.dst) = job.before[job.src]

KeepInv == \E C : Sound(C) /\ Keeping(C)

LEMMA KeepStarts == ShellInit => KeepInv
<1> SUFFICES ASSUME ShellInit PROVE KeepInv
  OBVIOUS
<1>1. RoomInv /\ job = Idle /\ \A h \in Handle : handle[h] = Closed
  BY InitRoom DEF ShellInit, Init
<1>2. PICK C : Sound(C)
  BY <1>1 DEF RoomInv, Sound
<1>3. Keeping(C)
  BY <1>1 DEF Keeping
<1> QED BY <1>2, <1>3 DEF KeepInv

(* No command is running, before and after.                                 *)
LEMMA IdleKeeps ==
  ASSUME NEW C, NEW D, Keeps(C, D), job' = Idle, \A h \in Handle : handle'[h] = Closed
  PROVE  KeepInv'
<1>1. Sound(D)'
  BY DEF Keeps, Sound
<1>2. Keeping(D)'
  BY DEF Keeping
<1> QED BY <1>1, <1>2 DEF KeepInv

(* The value of job when a command begins, and when it goes on.             *)
LEMMA JobBegins ==
  ASSUME NEW C, Sound(C), NEW c \in {"write", "cp", "mv"}, NEW s \in Name, NEW d \in Name,
         NEW g \in {"reading", "writing"}, Begin(c, s, d, g)
  PROVE  /\ job' \in Job /\ job' # Idle
         /\ job'.command = c /\ job'.src = s /\ job'.dst = d /\ job'.stage = g
         /\ \A n \in Name : job'.before[n] = Content(n)
<1>1. PICK b : b = [n \in Name |-> Content(n)]
  OBVIOUS
<1>2. ASSUME NEW n \in Name PROVE Content(n) \in Seq(Byte \cup {Blank}) \cup {NoFile}
  BY Reads DEF ByteSeqs
<1>3. b \in [Name -> Seq(Byte \cup {Blank}) \cup {NoFile}]
  BY <1>1, <1>2
<1>4. job' = [command |-> c, src |-> s, dst |-> d, stage |-> g, before |-> b]
  BY <1>1 DEF Begin
<1>5. job' \in Job
  BY <1>3, <1>4 DEF Job
<1> QED BY <1>1, <1>4, <1>5, ShellAssumption

LEMMA JobGoesOn ==
  ASSUME job \in Job,
         NEW g \in {"reading", "writing", "copied", "written", "failed", "deleting"},
         job' = [job EXCEPT !.stage = g]
  PROVE  /\ job' \in Job /\ job' # Idle
         /\ job'.command = job.command /\ job'.src = job.src /\ job'.dst = job.dst
         /\ job'.stage = g /\ job'.before = job.before
<1>1. /\ job' \in Job /\ job'.command = job.command /\ job'.src = job.src /\ job'.dst = job.dst
      /\ job'.stage = g /\ job'.before = job.before
  BY DEF Job
<1> QED BY <1>1, ShellAssumption

(* A command that only makes or deletes an entry.                           *)
LEMMA EntryKeeps ==
  ASSUME NEW C, Sound(C), Keeping(C), job = Idle, UNCHANGED <<handle, job>>, NEW p \in Name,
         (\E k \in {"file", "dir"} : NewEntry(p, k)) \/ Delete(p)
  PROVE  KeepInv'
<1>1. \A h \in Handle : handle'[h] = Closed
  BY DEF Keeping
<1>2. CASE \E k \in {"file", "dir"} : NewEntry(p, k)
  <2>1. PICK D : Settled(C, D, p)
    BY <1>2, EntrySettles
  <2>2. DOMAIN handle' = Handle /\ handle' = [h \in Handle |-> handle'[h]] /\ Alone(handle')
    BY <1>1 DEF Sound, FilesHeld, Alone
  <2>3. Keeps(C, D)
    BY <1>1, <2>1, <2>2, FreshKeeps
  <2> QED BY <1>1, <2>3, IdleKeeps
<1>3. CASE Delete(p)
  <2>1. \E D : Keeps(C, D)
    BY <1>3, DeleteKeeps
  <2> QED BY <1>1, <2>1, IdleKeeps
<1> QED BY <1>2, <1>3

(* exec_write opens one file, copy_file two.                                *)
LEMMA OpenOutKeeps ==
  ASSUME NEW C, Sound(C), NEW p \in Name, NEW opened, OpenOut(p, opened),
         DOMAIN opened = Handle, opened = [h \in Handle |-> opened[h]],
         \A h \in Handle : opened[h] # Closed => h = In /\ \E n \in Name \ {p} :
            opened[h] = FileOf(n, entry[n], 0) /\ entry[n] # NoFile
  PROVE  \E D : /\ Keeps(C, D) /\ \A m \in Name \ {p} : Content(m)' = Content(m)
                /\ handle'[Out] # Closed /\ handle'[Out].name = p
                /\ \A h \in Handle : handle'[h] # Closed =>
                     handle'[h].cursor = 0 /\ Truly(D[handle'[h].name], handle'[h])
                /\ \A h \in Handle \ {Out} : handle'[h] = opened[h]
<1>1. handle' = [opened EXCEPT ![Out] = FileOf(p, entry'[p], 0)]
  BY DEF OpenOut
<1>2. PICK D : Settled(C, D, p) /\ entry'[p] # NoFile
  <2>1. CASE IsFile(p) /\ UNCHANGED <<disk, entry, kind>>
    BY <2>1, SameSettles DEF IsFile
  <2>2. CASE NewEntry(p, "file")
    BY <2>2, EntrySettles
  <2> QED BY <2>1, <2>2 DEF OpenOut
<1>3. /\ DOMAIN handle' = Handle /\ handle' = [h \in Handle |-> handle'[h]]
      /\ handle'[Out] = FileOf(p, entry'[p], 0)
      /\ \A h \in Handle \ {Out} : handle'[h] = opened[h]
  BY <1>1, ShellAssumption
<1>4. ASSUME NEW h \in Handle, handle'[h] # Closed, h # Out
      PROVE  h = In /\ \E n \in Name \ {p} : /\ handle'[h] = FileOf(n, entry'[n], 0)
                                             /\ entry'[n] # NoFile
  <2>1. handle'[h] = opened[h]
    BY <1>3, <1>4
  <2>2. h = In /\ \E n \in Name \ {p} : opened[h] = FileOf(n, entry[n], 0) /\ entry[n] # NoFile
    BY <1>4, <2>1
  <2>3. \A n \in Name \ {p} : entry'[n] = entry[n]
    BY <1>2 DEF Settled
  <2> QED BY <2>1, <2>2, <2>3
<1>5. \A h \in Handle : handle'[h] # Closed => Fresh(h)
  BY <1>2, <1>3, <1>4 DEF Fresh
<1>6. Alone(handle')
  <2>1. handle'[Out].name = p
    BY <1>3 DEF FileOf
  <2>2. ASSUME NEW h \in Handle, handle'[h] # Closed, h # Out
        PROVE  h = In /\ handle'[h].name # p
    <3>1. PICK n \in Name \ {p} : h = In /\ handle'[h] = FileOf(n, entry'[n], 0)
      BY <1>4, <2>2
    <3>2. handle'[h].name = n
      BY <3>1 DEF FileOf
    <3> QED BY <3>1, <3>2
  <2>3. \A h \in Handle : handle'[h] # Closed => h = Out \/ (h = In /\ handle'[h].name # p)
    BY <2>2
  <2> QED BY <2>1, <2>3 DEF Alone
<1>7. handle'[Out] # Closed /\ handle'[Out].name = p
  <2>1. PICK f : f = FileOf(p, entry'[p], 0)
    OBVIOUS
  <2>2. f \in File /\ f.name = p
    BY <1>2, <2>1, FreshIsTrue DEF Settled
  <2> QED BY <1>3, <2>1, <2>2, ClosedIsNoFile
<1> QED BY <1>2, <1>3, <1>5, <1>6, <1>7, FreshKeeps

LEMMA WriteCommandKeeps ==
  ASSUME NEW C, Sound(C), Keeping(C), job = Idle,
         NEW p \in Name, NEW text \in Bufs, exec_write(p, text)
  PROVE  KeepInv'
<1>1. /\ OpenOut(p, handle) /\ Begin("write", p, p, "writing") /\ answer' = text
      /\ \A h \in Handle : handle[h] = Closed
  BY DEF exec_write, Keeping
<1>2. DOMAIN handle = Handle /\ handle = [h \in Handle |-> handle[h]]
  BY DEF Sound, FilesHeld
<1>3. PICK D : /\ Keeps(C, D) /\ \A m \in Name \ {p} : Content(m)' = Content(m)
               /\ handle'[Out] # Closed /\ handle'[Out].name = p
               /\ \A h \in Handle : handle'[h] # Closed =>
                    handle'[h].cursor = 0 /\ Truly(D[handle'[h].name], handle'[h])
  BY <1>1, <1>2, OpenOutKeeps
<1>4. /\ job' \in Job /\ job' # Idle
      /\ job'.command = "write" /\ job'.src = p /\ job'.dst = p /\ job'.stage = "writing"
      /\ \A n \in Name : job'.before[n] = Content(n)
  BY <1>1, JobBegins
<1>5. OutIs(D)'
  <2>1. answer' \in ByteSeqs
    BY <1>1, BufsTyped DEF ByteSeqs
  <2> QED BY <1>3, <1>4, <2>1, ShellAssumption DEF OutIs
<1>6. Keeping(D)'
  BY <1>3, <1>4, <1>5 DEF Keeping
<1>7. Sound(D)'
  BY <1>3 DEF Keeps, Sound
<1> QED BY <1>6, <1>7 DEF KeepInv

LEMMA CopyCommandKeeps ==
  ASSUME NEW C, Sound(C), Keeping(C), job = Idle,
         NEW src \in Name, NEW dst \in Name, src # dst, NEW c \in {"cp", "mv"},
         copy_file(c, src, dst)
  PROVE  KeepInv'
<1>1. PICK opened : opened = [handle EXCEPT ![In] = FileOf(src, entry[src], 0)]
  OBVIOUS
<1>2. /\ OpenOut(dst, opened) /\ Begin(c, src, dst, "reading") /\ answer' = <<>>
      /\ entry[src] # NoFile /\ \A h \in Handle : handle[h] = Closed
  BY <1>1 DEF copy_file, Keeping, IsFile
<1>3. /\ DOMAIN opened = Handle /\ opened = [h \in Handle |-> opened[h]]
      /\ opened[In] = FileOf(src, entry[src], 0) /\ \A h \in Handle \ {In} : opened[h] = Closed
  BY <1>1, <1>2, ShellAssumption DEF Sound, FilesHeld
<1>4. \A h \in Handle : opened[h] # Closed => h = In /\ \E n \in Name \ {dst} :
         opened[h] = FileOf(n, entry[n], 0) /\ entry[n] # NoFile
  BY <1>2, <1>3
<1>5. PICK D : /\ Keeps(C, D) /\ \A m \in Name \ {dst} : Content(m)' = Content(m)
               /\ handle'[Out] # Closed /\ handle'[Out].name = dst
               /\ \A h \in Handle : handle'[h] # Closed =>
                    handle'[h].cursor = 0 /\ Truly(D[handle'[h].name], handle'[h])
               /\ \A h \in Handle \ {Out} : handle'[h] = opened[h]
  BY <1>2, <1>3, <1>4, OpenOutKeeps
<1>6. /\ job' \in Job /\ job' # Idle
      /\ job'.command = c /\ job'.src = src /\ job'.dst = dst /\ job'.stage = "reading"
      /\ \A n \in Name : job'.before[n] = Content(n)
  BY <1>2, JobBegins
<1>7. handle'[In] # Closed /\ handle'[In].name = src
  <2>1. PICK f : f = FileOf(src, entry[src], 0)
    OBVIOUS
  <2>2. f \in File /\ f.name = src
    BY <1>2, <2>1, FreshIsTrue DEF Sound, FilesHeld
  <2> QED BY <1>3, <1>5, <2>1, <2>2, ClosedIsNoFile, ShellAssumption
<1>8. OutIs(D)'
  <2>1. answer' \in ByteSeqs
    BY <1>2 DEF ByteSeqs
  <2> QED BY <1>5, <1>6, <2>1, ShellAssumption DEF OutIs
<1>9. InIs(D)'
  <2>1. /\ handle'[In].cursor = 0 /\ ExactAt(D[src], handle'[In])
        /\ handle'[Out].cursor = 0
    BY <1>5, <1>7, ShellAssumption DEF Truly
  <2>2. Copied(Content(job.src), handle[Out], handle[In])'
    BY <1>6, <2>1 DEF Copied
  <2> QED BY <1>6, <1>7, <2>1, <2>2 DEF InIs
<1>10. Keeping(D)'
  BY <1>5, <1>6, <1>8, <1>9 DEF Keeping
<1>11. Sound(D)'
  BY <1>5 DEF Keeps, Sound
<1> QED BY <1>10, <1>11 DEF KeepInv

-----------------------------------------------------------------------------
(* A piece is read: the end of the source, or bytes from there on.          *)
LEMMA PieceIs ==
  ASSUME NEW C, Sound(C), handle[In] # Closed, NEW i, i = handle[In], ExactAt(C[i.name], i),
         Read(In, Piece)
  PROVE  \E e \in Nat, i2 \in File :
           /\ i2.name = i.name /\ i2.size = i.size /\ i2.cursor = e /\ ExactAt(C[i.name], i2)
           /\ handle' = [handle EXCEPT ![In] = i2]
           /\ answer' = SubSeq(Content(i.name), i.cursor + 1, e) /\ answer' \in ByteSeqs
           /\ IF answer' = <<>> THEN e = i.cursor /\ e = i.size ELSE i.cursor < e
<1>1. /\ i \in File /\ i.name \in Name /\ entry[i.name] # NoFile /\ entry[i.name].size = i.size
      /\ C[i.name] \in BlockSeqs
      /\ Len(Content(i.name)) = i.size /\ i.size \in Nat /\ i.cursor \in Nat
      /\ i.cursor <= i.size
  BY OpenShows, ShellAssumption DEF ExactAt
<1>2. PICK c \in Nat, z \in Nat, b \in Nat \ {0} : c = i.cursor /\ z = i.size /\ b = Piece /\ c <= z
  BY <1>1, ShellAssumption
<1>3. PICK e \in Nat : e = ReadEnd(i, Piece) /\ e = IF b <= z - c THEN c + b ELSE z
  <2>1. ReadEnd(i, Piece) = IF b <= z - c THEN c + b ELSE z
    BY <1>1, <1>2, ReadEnds, ShellAssumption
  <2> QED BY <1>2, <2>1
<1>4. c <= e /\ e <= z /\ (e = c => e = z)
  BY <1>2, <1>3
<1>5. /\ Keeps(C, C)
      /\ \E f \in File : /\ f.name = i.name /\ f.cursor = e /\ handle' = [handle EXCEPT ![In] = f]
                         /\ ExactAt(C[f.name], f)
  <2>1. In \in Handle /\ Piece \in Nat
    BY ShellAssumption
  <2>2. /\ Keeps(C, C)
        /\ \E f \in File : /\ f.name = handle[In].name /\ f.cursor = ReadEnd(handle[In], Piece)
                           /\ handle' = [handle EXCEPT ![In] = f]
                           /\ ExactAt(C[f.name], handle[In]) => ExactAt(C[f.name], f)
    BY <2>1, ReadMoves
  <2> QED BY <1>3, <2>2
<1>6. PICK f \in File : /\ f.name = i.name /\ f.cursor = e /\ handle' = [handle EXCEPT ![In] = f]
                       /\ ExactAt(C[i.name], f)
  BY <1>5
<1>7. f.size = i.size
  <2>1. handle'[In] = f /\ f # Closed
    BY <1>6, ClosedIsNoFile, ShellAssumption DEF Sound, FilesHeld
  <2>2. entry'[f.name].size = f.size
    BY <1>5, <2>1, ShellAssumption DEF Keeps, FilesHeld, Held
  <2>3. entry' = entry
    BY DEF Read
  <2> QED BY <1>1, <1>6, <2>2, <2>3
<1>8. answer' = SubSeq(Content(i.name), c + 1, e)
  <2>1. In \in Handle /\ Piece \in Nat
    BY ShellAssumption
  <2> QED BY <1>2, <1>3, <2>1, AnswerIs
<1>9. PICK t \in Seq(Byte \cup {Blank}) : t = Content(i.name) /\ Len(t) = z
  BY <1>1, <1>2, Reads DEF ByteSeqs
<1>10. answer' \in Seq(Byte \cup {Blank}) /\ Len(answer') = e - c
  <2>1. \A j \in c + 1 .. e : j \in 1 .. Len(t)
    BY <1>4, <1>9
  <2>2. \A j \in c + 1 .. e : t[j] \in Byte \cup {Blank}
    BY <2>1
  <2>3. /\ SubSeq(t, c + 1, e) \in Seq(Byte \cup {Blank})
        /\ Len(SubSeq(t, c + 1, e)) = IF c + 1 <= e THEN e - (c + 1) + 1 ELSE 0
    <3>1. c + 1 \in Int /\ e \in Int
      OBVIOUS
    <3> QED BY <2>2, <3>1, SubSeqProperties
  <2> QED BY <1>4, <1>8, <1>9, <2>3
<1>11. answer' = <<>> <=> e = c
  BY <1>4, <1>10
<1>12. /\ answer' = SubSeq(Content(i.name), i.cursor + 1, e) /\ answer' \in ByteSeqs
       /\ IF answer' = <<>> THEN e = i.cursor /\ e = i.size ELSE i.cursor < e
  <2>1. answer' = SubSeq(Content(i.name), i.cursor + 1, e) /\ answer' \in ByteSeqs
    BY <1>2, <1>8, <1>10 DEF ByteSeqs
  <2>2. CASE answer' = <<>>
    <3>1. e = c
      BY <1>11, <2>2
    <3> QED BY <1>2, <1>4, <2>1, <2>2, <3>1
  <2>3. CASE answer' # <<>>
    <3>1. e # c
      BY <1>11, <2>3
    <3> QED BY <1>2, <1>4, <2>1, <2>3, <3>1
  <2> QED BY <2>2, <2>3
<1> QED BY <1>6, <1>7, <1>12

LEMMA CopyReadKeeps ==
  ASSUME NEW C, Sound(C), Keeping(C), job # Idle, CopyRead
  PROVE  KeepInv'
<1>1. /\ job \in Job /\ job.stage = "reading" /\ job.command # "write"
      /\ OutIs(C) /\ InIs(C) /\ \A n \in Name \ {job.dst} : Content(n) = job.before[n]
  BY DEF Keeping, CopyRead
<1>2. PICK src \in Name, dst \in Name, i \in {handle[In]}, o \in {handle[Out]} :
        src = job.src /\ dst = job.dst /\ src # dst
  BY <1>1 DEF Job, InIs
<1>3. /\ i # Closed /\ i.name = src /\ ExactAt(C[src], i) /\ o.cursor = i.cursor
      /\ o.cursor # 0 => Content(dst) = SubSeq(Content(src), 1, o.cursor)
  BY <1>1, <1>2 DEF InIs, Copied
<1>4. PICK e \in Nat, i2 \in File :
        /\ i2.name = src /\ i2.size = i.size /\ i2.cursor = e /\ ExactAt(C[src], i2)
        /\ handle' = [handle EXCEPT ![In] = i2]
        /\ answer' = SubSeq(Content(src), i.cursor + 1, e) /\ answer' \in ByteSeqs
        /\ IF answer' = <<>> THEN e = i.cursor /\ e = i.size ELSE i.cursor < e
  <2>1. Read(In, Piece) /\ ExactAt(C[i.name], i) /\ handle[In] # Closed
    BY <1>2, <1>3 DEF CopyRead
  <2>2. \E e \in Nat, i2 \in File :
           /\ i2.name = i.name /\ i2.size = i.size /\ i2.cursor = e /\ ExactAt(C[i.name], i2)
           /\ handle' = [handle EXCEPT ![In] = i2]
           /\ answer' = SubSeq(Content(i.name), i.cursor + 1, e) /\ answer' \in ByteSeqs
           /\ IF answer' = <<>> THEN e = i.cursor /\ e = i.size ELSE i.cursor < e
    BY <1>2, <2>1, PieceIs
  <2> QED BY <1>3, <2>2
<1>5. handle'[In] = i2 /\ i2 # Closed /\ handle'[Out] = o
  BY <1>2, <1>4, ClosedIsNoFile, ShellAssumption DEF Sound, FilesHeld
<1>6. Keeps(C, C) /\ disk' = disk /\ entry' = entry
  BY ReadMoves, ShellAssumption DEF CopyRead, Read
<1>7. \A n \in Name : Content(n)' = Content(n)
  BY <1>6, SameContent
<1>8. PICK g \in {"copied", "writing"} :
        /\ g = IF answer' = <<>> THEN "copied" ELSE "writing"
        /\ job' = [job EXCEPT !.stage = g]
  BY DEF CopyRead
<1>9. /\ job' \in Job /\ job' # Idle
      /\ job'.command = job.command /\ job'.src = src /\ job'.dst = dst
      /\ job'.stage = g /\ job'.before = job.before
  BY <1>1, <1>2, <1>8, JobGoesOn
<1>10. OutIs(C)'
  BY <1>1, <1>2, <1>4, <1>5, <1>9 DEF OutIs
<1>11. InIs(C)'
  <2>1. Copied(Content(job.src), handle[Out], handle[In])'
    BY <1>3, <1>4, <1>5, <1>7, <1>8, <1>9 DEF Copied
  <2> QED BY <1>2, <1>4, <1>5, <1>9, <2>1 DEF InIs
<1>12. Keeping(C)'
  BY <1>1, <1>2, <1>7, <1>8, <1>9, <1>10, <1>11 DEF Keeping
<1>13. Sound(C)'
  BY <1>6 DEF Keeps, Sound
<1> QED BY <1>12, <1>13 DEF KeepInv

(* What a write puts at the end of a copy that goes well.                   *)
LEMMA Joins ==
  ASSUME NEW t \in Seq(Byte \cup {Blank}), NEW u \in Seq(Byte \cup {Blank}),
         NEW a \in Nat, NEW b \in Nat, a <= b, b <= Len(t), a # 0 => u = SubSeq(t, 1, a)
  PROVE  SubSeq(u, 1, a) \o SubSeq(t, a + 1, b) = SubSeq(t, 1, b)
<1>1. SubSeq(t, 1, a) \o SubSeq(t, a + 1, b) = SubSeq(t, 1, b)
  <2>1. 1 \in 1 .. Len(t) + 1 /\ a \in 1 - 1 .. Len(t) /\ b \in a .. Len(t)
    OBVIOUS
  <2> QED BY <2>1, ConcatAdjacentSubSeq
<1>2. SubSeq(u, 1, a) = SubSeq(t, 1, a)
  <2>1. CASE a = 0
    <3>1. SubSeq(u, 1, 0) = <<>> /\ SubSeq(t, 1, 0) = <<>>
      BY SubSeqEmpty
    <3> QED BY <2>1, <3>1
  <2>2. CASE a # 0
    <3>1. u = SubSeq(t, 1, a) /\ Len(u) = a
      BY <2>2
    <3>2. SubSeq(u, 1, Len(u)) = u
      BY SubSeqFull
    <3> QED BY <3>1, <3>2
  <2> QED BY <2>1, <2>2
<1> QED BY <1>1, <1>2

LEMMA CopyWriteKeeps ==
  ASSUME NEW C, Sound(C), Keeping(C), job # Idle, CopyWrite
  PROVE  KeepInv'
<1>1. /\ job \in Job /\ job.stage = "writing" /\ Write(Out, answer)
      /\ OutIs(C) /\ (job.command # "write" => InIs(C))
      /\ \A n \in Name \ {job.dst} : Content(n) = job.before[n]
  BY DEF Keeping, CopyWrite
<1>2. PICK src \in Name, dst \in Name, i \in {handle[In]}, o \in {handle[Out]} :
        src = job.src /\ dst = job.dst
  BY <1>1 DEF Job
<1>3. /\ o # Closed /\ o.name = dst /\ Truly(C[dst], o) /\ answer \in Seq(Byte \cup {Blank})
  BY <1>1, <1>2 DEF OutIs, ByteSeqs
<1>0. In \in Handle /\ Out \in Handle
  BY ShellAssumption
<1>14. PICK D : \E o2 \in File : Puts(C, D, Out, o, dst, answer, o2)
  BY <1>0, <1>1, <1>2, <1>3, WriteShows
<1>4. PICK o2 \in File : Puts(C, D, Out, o, dst, answer, o2)
  BY <1>14
<1>5. /\ Keeps(C, D) /\ \A m \in Name \ {dst} : Content(m)' = Content(m) /\ D[m] = C[m]
      /\ Content(dst)' = SubSeq(Content(dst), 1, o.cursor) \o answer
      /\ handle' = [handle EXCEPT ![Out] = o2] /\ o2.name = dst
      /\ o2.cursor = o.cursor + Len(answer) /\ Truly(D[dst], o2)
  BY <1>4 DEF Puts, EndsAt
<1>6. handle'[Out] = o2 /\ o2 # Closed /\ handle'[In] = i
  BY <1>2, <1>5, ClosedIsNoFile, ShellAssumption DEF Sound, FilesHeld
<1>7. PICK g \in {"written", "reading"} :
        /\ g = IF job.command = "write" THEN "written" ELSE "reading"
        /\ job' = [job EXCEPT !.stage = g]
  BY DEF CopyWrite
<1>8. /\ job' \in Job /\ job' # Idle
      /\ job'.command = job.command /\ job'.src = src /\ job'.dst = dst
      /\ job'.stage = g /\ job'.before = job.before
  BY <1>1, <1>2, <1>7, JobGoesOn
<1>9. OutIs(D)'
  <2>1. answer' \in ByteSeqs
    BY <1>1 DEF Write, ByteSeqs
  <2> QED BY <1>5, <1>6, <1>8, <2>1 DEF OutIs
<1>10. ASSUME job.command # "write" PROVE InIs(D)'
  <2>1. /\ src # dst /\ i # Closed /\ i.name = src /\ ExactAt(C[src], i)
        /\ o.cursor # 0 => Content(dst) = SubSeq(Content(src), 1, o.cursor)
        /\ o.cursor < i.cursor /\ answer = SubSeq(Content(src), o.cursor + 1, i.cursor)
    BY <1>1, <1>2, <1>10 DEF InIs, Copied
  <2>2. /\ i \in File /\ entry[src] # NoFile /\ Len(Content(src)) = i.size /\ i.size \in Nat
        /\ i.cursor \in Nat /\ i.cursor <= i.size
    <3>1. handle[In] # Closed /\ i = handle[In]
      BY <1>2, <2>1
    <3>2. /\ i \in File /\ entry[i.name] # NoFile /\ Len(Content(i.name)) = i.size
          /\ i.size \in Nat /\ i.cursor \in Nat
      BY <1>0, <3>1, OpenShows
    <3> QED BY <2>1, <3>2 DEF ExactAt
  <2>3. o.cursor \in Nat /\ entry[dst] # NoFile
    <3>1. handle[Out] # Closed /\ o = handle[Out]
      BY <1>2, <1>3
    <3>2. o.cursor \in Nat /\ entry[o.name] # NoFile
      BY <1>0, <3>1, OpenShows
    <3> QED BY <1>3, <3>2
  <2>4. PICK t \in Seq(Byte \cup {Blank}), u \in Seq(Byte \cup {Blank}) :
          t = Content(src) /\ u = Content(dst)
    <3>1. Content(src) \in ByteSeqs /\ Content(dst) \in ByteSeqs
      BY <2>2, <2>3, Reads
    <3> QED BY <3>1 DEF ByteSeqs
  <2>5. PICK a \in Nat, b \in Nat : a = o.cursor /\ b = i.cursor /\ a < b /\ b <= Len(t)
    BY <2>1, <2>2, <2>3, <2>4
  <2>6. SubSeq(u, 1, a) \o SubSeq(t, a + 1, b) = SubSeq(t, 1, b)
    <3>1. a <= b /\ (a # 0 => u = SubSeq(t, 1, a))
      BY <2>1, <2>4, <2>5
    <3> QED BY ZenonT(40), <2>5, <3>1, Joins
  <2>7. o2.cursor = b
    <3>1. Len(SubSeq(t, a + 1, b)) = b - a
      <4>1. a + 1 \in Int /\ b \in Int /\ \A j \in a + 1 .. b : t[j] \in Byte \cup {Blank}
        BY <2>5
      <4>2. Len(SubSeq(t, a + 1, b)) = IF a + 1 <= b THEN b - (a + 1) + 1 ELSE 0
        BY <4>1, SubSeqProperties
      <4> QED BY <2>5, <4>2
    <3> QED BY <1>5, <2>1, <2>4, <2>5, <3>1
  <2>8. Content(dst)' = SubSeq(t, 1, b) /\ Content(src)' = t
    BY <1>5, <2>1, <2>4, <2>5, <2>6
  <2>9. Copied(Content(job.src), handle[Out], handle[In])'
    BY <1>6, <1>7, <1>8, <1>10, <2>5, <2>7, <2>8 DEF Copied
  <2>10. D[src] = C[src]
    BY <1>5, <2>1
  <2> QED BY <1>6, <1>8, <2>1, <2>9, <2>10 DEF InIs
<1>11. Keeping(D)'
  BY <1>1, <1>2, <1>5, <1>7, <1>8, <1>9, <1>10 DEF Keeping
<1>12. Sound(D)'
  BY <1>5 DEF Keeps, Sound
<1> QED BY <1>11, <1>12 DEF KeepInv

LEMMA CopyFailsKeeps ==
  ASSUME NEW C, Sound(C), Keeping(C), job # Idle, CopyFails
  PROVE  KeepInv'
<1>1. /\ job \in Job /\ job.stage = "writing" /\ WriteDiskFull(Out, answer) /\ OutIs(C)
      /\ \A n \in Name \ {job.dst} : Content(n) = job.before[n]
      /\ job' = [job EXCEPT !.stage = "failed"]
  BY DEF Keeping, CopyFails, AfterNoRoom
<1>2. PICK f : f = handle[Out] /\ f.name = job.dst /\ answer \in Seq(Byte \cup {Blank})
  BY <1>1 DEF OutIs, ByteSeqs
<1>3. PICK D : Keeps(C, D) /\ \A m \in Name \ {f.name} : Content(m)' = Content(m)
  BY <1>1, <1>2, WriteDiskFullLeaves, ShellAssumption
<1>4. /\ job' \in Job /\ job' # Idle /\ job'.dst = job.dst
      /\ job'.stage = "failed" /\ job'.before = job.before
  BY <1>1, JobGoesOn
<1>5. Keeping(D)'
  BY <1>1, <1>2, <1>3, <1>4 DEF Keeping
<1>6. Sound(D)'
  BY <1>3 DEF Keeps, Sound
<1> QED BY <1>5, <1>6 DEF KeepInv

(* At the end of its source, a copy that began is whole.                    *)
WholeCopied ==
  /\ job.src # job.dst
  /\ job.before[job.src] # <<>> => Content(job.dst) = job.before[job.src]

LEMMA CopiedWhole ==
  ASSUME NEW C, Sound(C), job \in Job, job.stage = "copied", InIs(C),
         \A n \in Name \ {job.dst} : Content(n) = job.before[n]
  PROVE  WholeCopied
<1>1. PICK src \in Name, dst \in Name, i \in {handle[In]}, o \in {handle[Out]} :
        src = job.src /\ dst = job.dst
  BY DEF Job
<1>2. /\ src # dst /\ i # Closed /\ i.name = src /\ o.cursor = i.cursor /\ i.cursor = i.size
      /\ o.cursor # 0 => Content(dst) = SubSeq(Content(src), 1, o.cursor)
  BY <1>1 DEF InIs, Copied
<1>3. /\ i \in File /\ entry[src] # NoFile /\ Len(Content(src)) = i.size
  <2>1. handle[In] # Closed /\ i = handle[In] /\ In \in Handle
    BY <1>1, <1>2, ShellAssumption
  <2>2. i \in File /\ entry[i.name] # NoFile /\ Len(Content(i.name)) = i.size
    BY <2>1, OpenShows
  <2> QED BY <1>2, <2>2
<1>4. PICK t \in Seq(Byte \cup {Blank}) : t = Content(src)
  BY <1>3, Reads DEF ByteSeqs
<1>5. t # <<>> => Content(dst) = t
  <2>1. t # <<>> => Len(t) # 0
    OBVIOUS
  <2>2. SubSeq(t, 1, Len(t)) = t
    BY SubSeqFull
  <2> QED BY <1>2, <1>3, <1>4, <2>1, <2>2
<1>6. Content(src) = job.before[src]
  BY <1>1, <1>2
<1> QED BY <1>1, <1>2, <1>4, <1>5, <1>6 DEF WholeCopied

(* The handles are gone; what is copied is all there, or mv does not go on. *)
LEMMA ReturnKeeps ==
  ASSUME NEW C, Sound(C), Keeping(C), job # Idle, Return
  PROVE  KeepInv'
<1>1. /\ job \in Job /\ \A n \in Name \ {job.dst} : Content(n) = job.before[n]
      /\ disk' = disk /\ entry' = entry /\ handle' = [h \in Handle |-> Closed]
  BY DEF Keeping, Return
<1>2. \A h \in Handle : handle'[h] = Closed
  BY <1>1
<1>4. Keeps(C, C)
  BY <1>1 DEF Sound, Keeps, FilesHeld, Alone
<1>5. \A n \in Name : Content(n)' = Content(n)
  BY <1>1, <1>4, SameContent
<1>6. Sound(C)'
  BY <1>4 DEF Keeps, Sound
<1>7. CASE job' = Idle
  BY <1>2, <1>4, <1>7, IdleKeeps
<1>8. CASE job' # Idle
  <2>1. job.command = "mv" /\ job.stage = "copied" /\ job' = [job EXCEPT !.stage = "deleting"]
    BY <1>8 DEF Return
  <2>2. /\ job' \in Job
        /\ job'.command = "mv" /\ job'.src = job.src /\ job'.dst = job.dst
        /\ job'.stage = "deleting" /\ job'.before = job.before
    BY <1>1, <2>1, JobGoesOn
  <2>3. InIs(C) /\ OutIs(C)
    BY <2>1 DEF Keeping
  <2>4. WholeCopied
    BY <1>1, <2>1, <2>3, CopiedWhole
  <2>5. PICK src \in Name, dst \in Name : src = job.src /\ dst = job.dst
    BY <1>1 DEF Job
  <2>6. /\ job'.src = src /\ job'.dst = dst /\ src # dst
        /\ \A n \in Name \ {dst} : Content(n)' = job'.before[n]
    BY <1>1, <1>5, <2>2, <2>4, <2>5 DEF WholeCopied
  <2>7. job'.before[src] # <<>> => Content(dst)' = job'.before[src]
    <3>1. job.before[src] # <<>> => Content(dst) = job.before[src]
      BY <2>4, <2>5 DEF WholeCopied
    <3> QED BY <1>5, <2>2, <2>5, <3>1
  <2>8. job' # Idle
    BY <1>8
  <2>9. Keeping(C)'
    BY <1>2, <2>2, <2>6, <2>7, <2>8 DEF Keeping
  <2> QED BY <1>6, <2>9 DEF KeepInv
<1> QED BY <1>7, <1>8

LEMMA MoveDeletes ==
  ASSUME NEW C, Sound(C), Keeping(C), job # Idle, exec_mv_delete
  PROVE  KeepInv'
<1>1. /\ job \in Job /\ Delete(job.src) /\ job' = Idle
      /\ \A h \in Handle : handle[h] = Closed
  BY DEF Keeping, exec_mv_delete
<1>2. PICK src \in Name : src = job.src
  BY <1>1 DEF Job
<1>3. PICK D : Keeps(C, D)
  BY <1>1, <1>2, DeleteKeeps
<1>4. \A h \in Handle : handle'[h] = Closed
  BY <1>1 DEF Delete
<1> QED BY <1>1, <1>3, <1>4, IdleKeeps

TwoFiles == job' = Idle \/ job'.command = "write" \/ job'.src # job'.dst

LEMMA CommandKeeps ==
  ASSUME NEW C, Sound(C), Keeping(C), job = Idle, Command, TwoFiles
  PROVE  KeepInv'
<1>1. ASSUME NEW p \in Name, exec_touch(p) \/ exec_mkdir(p) \/ exec_rm(p) PROVE KeepInv'
  <2>1. /\ UNCHANGED <<handle, job>>
        /\ (\E k \in {"file", "dir"} : NewEntry(p, k)) \/ Delete(p)
    BY <1>1 DEF exec_touch, exec_mkdir, exec_rm, Delete
  <2> QED BY <2>1, EntryKeeps
<1>2. ASSUME NEW p \in Name \cup {Root}, exec_cd(p) PROVE KeepInv'
  <2>1. UNCHANGED vars /\ job' = Idle
    BY <1>2 DEF exec_cd
  <2>2. Keeps(C, C) /\ \A h \in Handle : handle'[h] = Closed
    BY <2>1, StuttersKeeps DEF Keeping, vars
  <2> QED BY <2>1, <2>2, IdleKeeps
<1>3. ASSUME NEW p \in Name, NEW text \in Bufs, exec_write(p, text) PROVE KeepInv'
  BY <1>3, WriteCommandKeeps
<1>4. ASSUME NEW src \in Name, NEW dst \in Name, NEW c \in {"cp", "mv"}, copy_file(c, src, dst)
      PROVE  KeepInv'
  <2>1. Begin(c, src, dst, "reading")
    BY <1>4 DEF copy_file
  <2>2. job' # Idle /\ job'.command = c /\ job'.src = src /\ job'.dst = dst
    BY <2>1, JobBegins
  <2>3. src # dst
    BY <2>2 DEF TwoFiles
  <2> QED BY <1>4, <2>3, CopyCommandKeeps
<1> QED BY <1>1, <1>2, <1>3, <1>4 DEF Command

LEMMA KeepStep == KeepInv /\ [ShellNext /\ TwoFiles]_shellVars => KeepInv'
<1> SUFFICES ASSUME KeepInv, [ShellNext /\ TwoFiles]_shellVars PROVE KeepInv'
  OBVIOUS
<1>1. PICK C : Sound(C) /\ Keeping(C)
  BY DEF KeepInv
<1>2. CASE job = Idle /\ Command /\ TwoFiles
  BY <1>1, <1>2, CommandKeeps
<1>3. CASE job # Idle /\ (CopyRead \/ CopyWrite \/ CopyFails \/ Return \/ exec_mv_delete)
  BY <1>1, <1>3, CopyReadKeeps, CopyWriteKeeps, CopyFailsKeeps, ReturnKeeps, MoveDeletes
<1>4. CASE UNCHANGED shellVars
  <2>1. UNCHANGED vars /\ job' = job
    BY <1>4 DEF shellVars
  <2>2. disk' = disk /\ entry' = entry /\ handle' = handle /\ answer' = answer
    BY <2>1 DEF vars
  <2>3. Keeps(C, C)
    BY <1>1, <2>1, StuttersKeeps
  <2>4. \A n \in Name : Content(n)' = Content(n)
    BY <1>1, <2>2, <2>3, SameContent
  <2>5. Sound(C)'
    BY <2>3 DEF Keeps, Sound
  <2>6. OutIs(C) => OutIs(C)'
    BY <2>1, <2>2 DEF OutIs
  <2>7. job \in Job => (InIs(C) => InIs(C)')
    BY <2>1, <2>2, <2>4 DEF InIs, Copied, Job
  <2>8. Keeping(C)'
    <3>1. CASE job = Idle
      BY <1>1, <2>1, <2>2, <3>1 DEF Keeping
    <3>2. CASE job # Idle
      <4>1. job \in Job /\ job.src \in Name /\ job.dst \in Name
        BY <1>1, <3>2 DEF Keeping, Job
      <4> QED BY <1>1, <2>1, <2>2, <2>4, <2>6, <2>7, <3>2, <4>1 DEF Keeping
    <3> QED BY <3>1, <3>2
  <2> QED BY <2>5, <2>8 DEF KeepInv
<1> QED BY <1>2, <1>3, <1>4 DEF ShellNext

LEMMA KeepsCopies == KeepInv => CopyKeeps
<1> SUFFICES ASSUME KeepInv, job # Idle
             PROVE  /\ \A n \in Name \ {job.dst} : Content(n) = job.before[n]
                    /\ job.stage \in {"copied", "deleting"} /\ job.src # job.dst /\ job.before[job.src] # <<>>
                         => Content(job.dst) = job.before[job.src]
  BY DEF CopyKeeps
<1>1. PICK C : Sound(C) /\ Keeping(C)
  BY DEF KeepInv
<1>2. job \in Job /\ \A n \in Name \ {job.dst} : Content(n) = job.before[n]
  BY <1>1 DEF Keeping
<1>3. CASE job.stage = "copied"
  <2>1. InIs(C) /\ OutIs(C)
    BY <1>1, <1>3 DEF Keeping
  <2>2. WholeCopied
    BY <1>1, <1>2, <1>3, <2>1, CopiedWhole
  <2> QED BY <1>2, <2>2 DEF WholeCopied
<1>4. CASE job.stage = "deleting"
  BY <1>1, <1>2, <1>4 DEF Keeping
<1> QED BY <1>2, <1>3, <1>4

(* A command changes no file but its destination, though the disk fills up  *)
(* half way, and mv deletes a file only when the other, which is not the    *)
(* same, has the whole of it (terminal.rs 228-284); and the directories the *)
(* terminal and the files are in are there.                                 *)
THEOREM CopiesKeep == TwoFilesSpec => []CommandsKeep
<1>1. TreeInv /\ KeepInv => CommandsKeep
  BY KeepsCopies DEF TreeInv, CommandsKeep
<1>2. ShellInit => TreeInv /\ KeepInv
  BY TreeStarts, KeepStarts
<1>3. TreeInv /\ KeepInv /\ [ShellNext /\ TwoFiles]_shellVars => TreeInv' /\ KeepInv'
  BY TreeStep, KeepStep
<1> QED BY <1>1, <1>2, <1>3, PTL DEF TwoFilesSpec, TwoFiles

=============================================================================
