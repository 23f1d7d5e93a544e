---------------------------- MODULE MfsDirProofs ----------------------------
(***************************************************************************)
(* The blocks and the entries of a directory, for any names, any lengths   *)
(* of entries and any number of blocks: that it shares no block, and that  *)
(* it is a DirStore as long as no block is filled to its last byte.        *)
(***************************************************************************)
EXTENDS MfsDir, TLAPS, WellFoundedInduction

DirInv ==
  /\ dir \in Seq(DirBlock) /\ dir # <<>>
  /\ used \subseteq Blocks
  /\ NoBlockShared

(* Every set of numbers that is not empty has a least one. *)
LEMMA LeastOf ==
  ASSUME NEW S \in SUBSET Nat, S # {}
  PROVE  \E x \in S : \A y \in S : x <= y
<1> DEFINE R == OpToRel(<, Nat)
<1>1. IsWellFoundedOn(R, Nat)
  BY NatLessThanWellFounded
<1>2. PICK x \in S : \A y \in S : ~ (<<y, x>> \in R)
  <2> HIDE DEF R
  <2> QED BY <1>1, WFMin
<1>3. ASSUME NEW y \in S PROVE x <= y
  <2>1. x \in Nat /\ y \in Nat
    OBVIOUS
  <2>2. y < x => <<y, x>> \in R
    BY <2>1 DEF OpToRel
  <2> HIDE DEF R
  <2> QED BY <1>2, <2>1, <2>2
<1> QED BY <1>3

(* And one that stays below a number has a greatest one. *)
LEMMA GreatestOf ==
  ASSUME NEW S \in SUBSET Nat, S # {}, NEW m \in Nat, \A x \in S : x <= m
  PROVE  \E x \in S : \A y \in S : y <= x
<1> DEFINE D == {m - x : x \in S}
<1>1. D \in SUBSET Nat /\ D # {}
  <2>1. ASSUME NEW x \in S PROVE m - x \in Nat
    <3>1. x \in Nat /\ x <= m
      OBVIOUS
    <3> QED BY <3>1
  <2> QED BY <2>1
<1>2. PICK z \in D : \A y \in D : z <= y
  BY <1>1, LeastOf
<1>3. PICK x \in S : z = m - x
  OBVIOUS
<1>4. ASSUME NEW y \in S PROVE y <= x
  <2>1. z <= m - y /\ x \in Nat /\ y \in Nat
    BY <1>2
  <2> QED BY <1>3, <2>1
<1> QED BY <1>4

LEMMA BlockSorts ==
  ASSUME NEW b \in DirBlock
  PROVE  b.addr \in Blocks /\ b.slots \in Seq(Entry) /\ b.junk \in 0 .. Cap
BY DEF DirBlock

(* What is read of a block is a first part of its slots. *)
LEMMA SeenIsFirst ==
  ASSUME NEW b \in DirBlock
  PROVE  /\ Seen(b) \in Seq(Entry)
         /\ Len(Seen(b)) <= Len(b.slots)
         /\ \A i \in 1 .. Len(Seen(b)) : Seen(b)[i] = b.slots[i]
<1>1. b.slots \in Seq(Entry)
  BY BlockSorts
<1> DEFINE s == b.slots
<1> HIDE DEF s
<1>2. s \in Seq(Entry)
  BY <1>1 DEF s
<1>3. /\ Front(s) \in Seq(Entry) /\ Len(Front(s)) <= Len(s)
      /\ \A i \in 1 .. Len(Front(s)) : Front(s)[i] = s[i]
  <2>1. CASE s = <<>>
    BY <1>2, <2>1 DEF Front
  <2>2. CASE s # <<>>
    BY <1>2, <2>2 DEF Front
  <2> QED BY <2>1, <2>2
<1>4. Seen(b) = Front(s) \/ Seen(b) = s
  BY DEF Seen, s
<1> QED BY <1>2, <1>3, <1>4 DEF s

(* Where a name is found, and where a new one goes, is in the directory. *)
LEMMA PlaceIsThere ==
  ASSUME dir \in Seq(DirBlock), NEW n, Found(n)
  PROVE  /\ Place(n)[1] \in DOMAIN dir
         /\ Place(n)[2] \in 1 .. Len(dir[Place(n)[1]].slots)
<1> DEFINE at(k)    == {i \in DOMAIN Seen(dir[k]) : dir[k].slots[i].name = n}
           least(S) == CHOOSE i \in S : \A j \in S : i <= j
           holding  == {k \in DOMAIN dir : at(k) # {}}
<1>1. holding # {} /\ holding \in SUBSET Nat
  BY DEF Found
<1>2. least(holding) \in holding
  BY <1>1, LeastOf
<1>3. ASSUME NEW k \in DOMAIN dir, at(k) # {}
      PROVE  least(at(k)) \in 1 .. Len(dir[k].slots)
  <2>1. dir[k] \in DirBlock
    OBVIOUS
  <2>2. Len(Seen(dir[k])) \in Nat /\ Len(dir[k].slots) \in Nat
    BY <2>1, SeenIsFirst, BlockSorts
  <2>3. DOMAIN Seen(dir[k]) = 1 .. Len(Seen(dir[k]))
    BY <2>1, SeenIsFirst
  <2>4. at(k) \subseteq 1 .. Len(dir[k].slots)
    BY <2>1, <2>2, <2>3, SeenIsFirst
  <2>5. at(k) \in SUBSET Nat
    BY <2>2, <2>4
  <2> HIDE DEF at
  <2>6. least(at(k)) \in at(k)
    BY <1>3, <2>5, LeastOf
  <2> QED BY <2>4, <2>6
<1>4. least(holding) \in DOMAIN dir /\ at(least(holding)) # {}
  BY <1>2
<1>5. Place(n)[1] = least(holding) /\ Place(n)[2] = least(at(least(holding)))
  BY DEF Place
<1> HIDE DEF at, holding, least
<1> QED BY <1>3, <1>4, <1>5

LEMMA SpotIsThere ==
  ASSUME dir \in Seq(DirBlock), dir # <<>>, NEW n
  PROVE  Spot(n) \in 1 .. Len(dir) + 1
<1> DEFINE last == Len(dir)
           fits == {k \in 1 .. last : dir[k].junk = 0 /\ EntryLen[n] <= Room(dir[k])}
<1>1. last \in Nat /\ last >= 1
  OBVIOUS
<1>2. CASE fits # {}
  <2>1. fits \in SUBSET Nat
    OBVIOUS
  <2>2. (CHOOSE k \in fits : \A l \in fits : k <= l) \in fits
    BY <1>2, <2>1, LeastOf
  <2>3. Spot(n) = CHOOSE k \in fits : \A l \in fits : k <= l
    BY <1>2 DEF Spot
  <2> QED BY <1>1, <2>2, <2>3
<1>3. CASE fits = {}
  <2>1. Spot(n) = IF EntryLen[n] <= Room(dir[last]) THEN last ELSE last + 1
    BY <1>3 DEF Spot
  <2> QED BY <1>1, <2>1
<1> QED BY <1>2, <1>3

LEMMA NextFreeIsFree ==
  ASSUME NEW S \in SUBSET Blocks, S # {}
  PROVE  next_free_addr(S) \in S
<1>1. S \in SUBSET Nat
  BY DirAssumption
<1> QED BY <1>1, LeastOf DEF next_free_addr

(***************************************************************************)
(* What the steps do to the places                                         *)
(***************************************************************************)

LEMMA NewBlock ==
  ASSUME NEW a \in Blocks
  PROVE  /\ DirBlockAt(a) \in DirBlock
         /\ DirBlockAt(a).addr = a /\ DirBlockAt(a).slots = <<>>
<1>1. <<>> \in Seq(Entry) /\ 0 \in 0 .. Cap
  BY DirAssumption
<1> QED BY <1>1 DEF DirBlockAt, DirBlock

(* The directory grows by an empty block that was free. *)
LEMMA GrownSharesNone ==
  ASSUME NEW d \in Seq(DirBlock), NEW u, NEW a \in Blocks,
         NoneShared(d, u), a \notin u
  PROVE  /\ Append(d, DirBlockAt(a)) \in Seq(DirBlock)
         /\ NoneShared(Append(d, DirBlockAt(a)), u \cup {a})
<1> DEFINE e == Append(d, DirBlockAt(a))
           new == Len(d) + 1
<1>1. e \in Seq(DirBlock) /\ DOMAIN e = 1 .. new /\ DOMAIN d = 1 .. Len(d)
  BY NewBlock
<1>2. e[new].addr = a /\ e[new].slots = <<>> /\ Places(e, new) = {0}
  BY NewBlock DEF Places
<1>3. At(e, new, 0) = a
  BY <1>2 DEF At
<1>4. ASSUME NEW k \in DOMAIN e, k # new
      PROVE  k \in DOMAIN d /\ e[k] = d[k]
  BY <1>1, <1>4
<1>5. ASSUME NEW k \in DOMAIN e, k # new
      PROVE  Places(e, k) = Places(d, k) /\ \A i : At(e, k, i) = At(d, k, i)
  BY <1>4, <1>5 DEF Places, At
<1> HIDE DEF e, new
<1>6. ASSUME NEW k \in DOMAIN e, NEW i \in Places(e, k)
      PROVE  IF k = new THEN i = 0 /\ At(e, k, i) = a
             ELSE At(e, k, i) \in u /\ At(e, k, i) # a
  BY <1>2, <1>3, <1>4, <1>5 DEF NoneShared
<1>7. \A k \in DOMAIN e : \A i \in Places(e, k) : At(e, k, i) \in u \cup {a}
  BY <1>6
<1>8. ASSUME NEW k \in DOMAIN e, NEW l \in DOMAIN e,
             NEW i \in Places(e, k), NEW j \in Places(e, l),
             At(e, k, i) = At(e, l, j)
      PROVE  k = l /\ i = j
  <2>1. CASE k = new \/ l = new
    BY <1>6, <1>8, <2>1
  <2>2. CASE k # new /\ l # new
    BY <1>4, <1>5, <1>8, <2>2 DEF NoneShared
  <2> QED BY <2>1, <2>2
<1>9. NoneShared(e, u \cup {a})
  BY <1>7, <1>8 DEF NoneShared
<1> QED BY <1>1, <1>9 DEF e

LEMMA PutGives ==
  ASSUME NEW b \in DirBlock, NEW n \in Name, NEW a \in Blocks
  PROVE  /\ Put(b, n, a) \in DirBlock
         /\ Put(b, n, a).addr = b.addr
         /\ Put(b, n, a).slots = Append(Seen(b), [name |-> n, addr |-> a, size |-> 0])
<1> DEFINE new == [name |-> n, addr |-> a, size |-> 0]
           over == IF Seen(b) = b.slots THEN b.junk ELSE EntryLen[Last(b.slots).name]
           slots == Append(Seen(b), new)
           junk == IF over > EntryLen[n] THEN over - EntryLen[n] ELSE 0
<1>1. b.slots \in Seq(Entry) /\ b.junk \in 0 .. Cap /\ b.addr \in Blocks
  BY BlockSorts
<1>2. new \in Entry
  BY DirAssumption DEF Entry
<1>3. slots \in Seq(Entry)
  BY <1>2, SeenIsFirst
<1>4. over \in 0 .. Cap
  <2>1. CASE Seen(b) = b.slots
    BY <1>1, <2>1
  <2>2. CASE Seen(b) # b.slots
    <3>1. b.slots # <<>>
      <4>1. ASSUME b.slots = <<>> PROVE Seen(b) = <<>>
        <5>1. Len(Seen(b)) <= 0 /\ Seen(b) \in Seq(Entry)
          BY <1>1, <4>1, SeenIsFirst
        <5> QED BY <5>1
      <4> QED BY <2>2, <4>1
    <3>2. Last(b.slots) \in Entry
      BY <1>1, <3>1 DEF Last
    <3>3. Last(b.slots).name \in Name
      BY <3>2 DEF Entry
    <3>4. EntryLen[Last(b.slots).name] \in 2 .. Cap
      BY <3>3, DirAssumption
    <3>5. over = EntryLen[Last(b.slots).name]
      BY <2>2
    <3> QED BY <3>4, <3>5, DirAssumption
  <2> QED BY <2>1, <2>2
<1>5. junk \in 0 .. Cap
  <2>1. EntryLen[n] \in 2 .. Cap
    BY DirAssumption
  <2> HIDE DEF over
  <2> QED BY <1>4, <2>1, DirAssumption
<1>6. Put(b, n, a) = [b EXCEPT !.slots = slots, !.junk = junk]
  BY DEF Put
<1> HIDE DEF slots, junk
<1>7. /\ Put(b, n, a) \in DirBlock
      /\ Put(b, n, a).addr = b.addr /\ Put(b, n, a).slots = slots
  BY <1>3, <1>5, <1>6 DEF DirBlock
<1> QED BY <1>7 DEF slots

(* An entry goes into block k, over what is not read there, for a file     *)
(* whose block was free.                                                   *)
LEMMA PutSharesNone ==
  ASSUME NEW d \in Seq(DirBlock), NEW u, NEW a \in Blocks, NEW n \in Name,
         NEW k \in DOMAIN d, NoneShared(d, u), a \notin u
  PROVE  /\ [d EXCEPT ![k] = Put(d[k], n, a)] \in Seq(DirBlock)
         /\ NoneShared([d EXCEPT ![k] = Put(d[k], n, a)], u \cup {a})
<1> DEFINE b == Put(d[k], n, a)
           e == [d EXCEPT ![k] = b]
           new == Len(Seen(d[k])) + 1
<1>1. d[k] \in DirBlock
  OBVIOUS
<1>2. /\ b \in DirBlock /\ b.addr = d[k].addr
      /\ b.slots = Append(Seen(d[k]), [name |-> n, addr |-> a, size |-> 0])
  BY <1>1, PutGives
<1>3. /\ Seen(d[k]) \in Seq(Entry) /\ Len(Seen(d[k])) <= Len(d[k].slots)
      /\ Len(Seen(d[k])) \in Nat /\ Len(d[k].slots) \in Nat
      /\ \A i \in 1 .. Len(Seen(d[k])) : Seen(d[k])[i] = d[k].slots[i]
  BY <1>1, SeenIsFirst, BlockSorts
<1>4. /\ Len(b.slots) = new /\ b.slots[new].addr = a
      /\ \A i \in 1 .. new - 1 : b.slots[i] = d[k].slots[i]
  BY <1>2, <1>3
<1> HIDE DEF b
<1>5. /\ e \in Seq(DirBlock) /\ DOMAIN e = DOMAIN d /\ e[k] = b
      /\ \A l \in DOMAIN d : l # k => e[l] = d[l]
  BY <1>2
<1> HIDE DEF e
<1>6. ASSUME NEW l \in DOMAIN e, NEW i \in Places(e, l), l # k \/ i # new
      PROVE  i \in Places(d, l) /\ At(e, l, i) = At(d, l, i)
  <2>1. CASE l # k
    BY <1>5, <2>1 DEF Places, At
  <2>2. CASE l = k
    <3>1. i \in 0 .. new /\ i # new
      BY <1>4, <1>5, <1>6, <2>2 DEF Places
    <3>2. i \in 0 .. Len(d[k].slots)
      BY <1>3, <3>1
    <3>3. i # 0 => i \in 1 .. new - 1
      BY <1>3, <3>1
    <3>4. i # 0 => e[k].slots[i] = d[k].slots[i]
      BY <1>4, <1>5, <3>3
    <3> QED BY <1>2, <1>5, <2>2, <3>2, <3>4 DEF Places, At
  <2> QED BY <2>1, <2>2
<1>7. At(e, k, new) = a
  BY <1>3, <1>4, <1>5 DEF At
<1> HIDE DEF new
<1>8. ASSUME NEW l \in DOMAIN e, NEW i \in Places(e, l), l # k \/ i # new
      PROVE  At(e, l, i) \in u /\ At(e, l, i) # a
  BY <1>5, <1>6, <1>8 DEF NoneShared
<1>9. \A l \in DOMAIN e : \A i \in Places(e, l) : At(e, l, i) \in u \cup {a}
  BY <1>7, <1>8
<1>10. ASSUME NEW l \in DOMAIN e, NEW m \in DOMAIN e,
              NEW i \in Places(e, l), NEW j \in Places(e, m),
              At(e, l, i) = At(e, m, j)
       PROVE  l = m /\ i = j
  <2>1. CASE (l = k /\ i = new) \/ (m = k /\ j = new)
    BY <1>7, <1>8, <1>10, <2>1
  <2>2. CASE (l # k \/ i # new) /\ (m # k \/ j # new)
    BY <1>5, <1>6, <1>10, <2>2 DEF NoneShared
  <2> QED BY <2>1, <2>2
<1>11. NoneShared(e, u \cup {a})
  BY <1>9, <1>10 DEF NoneShared
<1> QED BY <1>5, <1>11 DEF e, b

(* Place i of block k of e is place S[k][i] of block B[k] of d, which no     *)
(* other place of e is; its block is not one that v lacks.                 *)
Embeds(e, v, d, u, B, S) ==
  /\ \A k \in DOMAIN e : \A i \in Places(e, k) :
       /\ B[k] \in DOMAIN d /\ S[k][i] \in Places(d, B[k])
       /\ At(e, k, i) = At(d, B[k], S[k][i])
       /\ At(e, k, i) \notin u \ v
  /\ \A k, l \in DOMAIN e : \A i \in Places(e, k), j \in Places(e, l) :
       B[k] = B[l] /\ S[k][i] = S[l][j] => k = l /\ i = j

LEMMA FewerPlaces ==
  ASSUME NEW d, NEW u, NoneShared(d, u),
         NEW e, NEW v, NEW B, NEW S, Embeds(e, v, d, u, B, S)
  PROVE  NoneShared(e, v)
<1> USE DEF Embeds
<1>1. ASSUME NEW k \in DOMAIN e, NEW i \in Places(e, k)
      PROVE  At(e, k, i) \in v
  BY DEF NoneShared
<1>2. ASSUME NEW k \in DOMAIN e, NEW l \in DOMAIN e,
             NEW i \in Places(e, k), NEW j \in Places(e, l),
             At(e, k, i) = At(e, l, j)
      PROVE  k = l /\ i = j
  <2>1. At(d, B[k], S[k][i]) = At(d, B[l], S[l][j])
    BY <1>2
  <2>2. B[k] = B[l] /\ S[k][i] = S[l][j]
    BY <2>1 DEF NoneShared
  <2> QED BY <2>2
<1> QED BY <1>1, <1>2 DEF NoneShared

(* A sequence without its elements from h + 1 to k. *)
LEMMA CutOut ==
  ASSUME NEW T, NEW s \in Seq(T), NEW h \in 0 .. Len(s), NEW k \in h .. Len(s)
  PROVE  LET r == SubSeq(s, 1, h) \o SubSeq(s, k + 1, Len(s))
         IN  /\ r \in Seq(T) /\ Len(r) = h + (Len(s) - k)
             /\ \A j \in 1 .. Len(r) : r[j] = s[IF j <= h THEN j ELSE j - h + k]
<1> DEFINE a == SubSeq(s, 1, h)
           b == SubSeq(s, k + 1, Len(s))
<1>1. Len(s) \in Nat /\ h \in Nat /\ k \in Nat /\ h <= k /\ k <= Len(s)
  OBVIOUS
<1>2. a \in Seq(T) /\ Len(a) = h /\ \A j \in 1 .. h : a[j] = s[j]
  BY <1>1
<1>3. b \in Seq(T) /\ Len(b) = Len(s) - k /\ \A j \in 1 .. Len(s) - k : b[j] = s[j + k]
  BY <1>1
<1> HIDE DEF a, b
<1>4. a \o b \in Seq(T) /\ Len(a \o b) = h + (Len(s) - k)
  <2>1. a \in Seq(T) /\ b \in Seq(T)
    BY <1>2, <1>3
  <2>2. a \o b \in Seq(T) /\ Len(a \o b) = Len(a) + Len(b)
    BY <2>1
  <2> QED BY <1>2, <1>3, <2>2
<1>5. ASSUME NEW j \in 1 .. h + (Len(s) - k)
      PROVE  (a \o b)[j] = s[IF j <= h THEN j ELSE j - h + k]
  <2>1. CASE j <= h
    <3>1. (a \o b)[j] = a[j]
      BY <1>1, <1>2, <1>3, <2>1
    <3> QED BY <1>1, <1>2, <2>1, <3>1
  <2>2. CASE ~(j <= h)
    <3>1. j - h \in 1 .. Len(s) - k
      BY <1>1, <2>2
    <3>2. (a \o b)[j] = b[j - h]
      BY <1>1, <1>2, <1>3, <2>2
    <3> QED BY <1>3, <2>2, <3>1, <3>2
  <2> QED BY <2>1, <2>2
<1> QED BY <1>4, <1>5 DEF a, b

LEMMA RemovedGives ==
  ASSUME NEW b \in DirBlock, NEW i \in 1 .. Len(b.slots)
  PROVE  LET left == [b EXCEPT !.slots = RemoveAt(@, i)]
         IN  /\ left \in DirBlock /\ left.addr = b.addr /\ left.junk = b.junk
             /\ left.slots = RemoveAt(b.slots, i)
             /\ Len(left.slots) = Len(b.slots) - 1
             /\ \A j \in 1 .. Len(left.slots) :
                  left.slots[j] = b.slots[IF j < i THEN j ELSE j + 1]
<1> DEFINE s == b.slots
           r == RemoveAt(s, i)
           left == [b EXCEPT !.slots = RemoveAt(@, i)]
<1>1. s \in Seq(Entry) /\ i \in 1 .. Len(s)
  BY BlockSorts
<1> HIDE DEF s
<1>2. /\ r \in Seq(Entry) /\ Len(r) = Len(s) - 1
      /\ \A j \in 1 .. Len(r) : r[j] = s[IF j < i THEN j ELSE j + 1]
  <2>1. /\ i - 1 \in 0 .. Len(s) /\ i \in i - 1 .. Len(s) /\ Len(s) \in Nat
        /\ \A j \in Nat : j <= i - 1 <=> j < i
        /\ \A j \in Nat : j - (i - 1) + i = j + 1
    BY <1>1
  <2>2. r = SubSeq(s, 1, i - 1) \o SubSeq(s, i + 1, Len(s))
    BY DEF RemoveAt
  <2>3. PICK h \in 0 .. Len(s) : h = i - 1
    BY <2>1
  <2>7. i \in h .. Len(s)
    BY <2>1, <2>3
  <2>8. LET q == SubSeq(s, 1, h) \o SubSeq(s, i + 1, Len(s))
        IN  /\ q \in Seq(Entry) /\ Len(q) = h + (Len(s) - i)
            /\ \A j \in 1 .. Len(q) : q[j] = s[IF j <= h THEN j ELSE j - h + i]
    BY <1>1, <2>7, CutOut
  <2>4. /\ r \in Seq(Entry) /\ Len(r) = h + (Len(s) - i)
        /\ \A j \in 1 .. Len(r) : r[j] = s[IF j <= h THEN j ELSE j - h + i]
    BY <2>2, <2>3, <2>8
  <2>6. Len(r) = Len(s) - 1
    BY <1>1, <2>1, <2>3, <2>4
  <2> HIDE DEF r
  <2>5. ASSUME NEW j \in 1 .. Len(r)
        PROVE  r[j] = s[IF j < i THEN j ELSE j + 1]
    <3>1. j \in Nat
      BY <2>1, <2>6
    <3> QED BY <2>1, <2>3, <2>4, <3>1
  <2> QED BY <2>4, <2>5, <2>6
<1> HIDE DEF r
<1>3. left = [b EXCEPT !.slots = r]
  BY DEF r, s
<1>4. left \in DirBlock /\ left.addr = b.addr /\ left.junk = b.junk /\ left.slots = r
  BY <1>2, <1>3 DEF DirBlock
<1> QED BY <1>2, <1>4 DEF r, s

(* An entry is taken out of block k. *)
LEMMA RemovedSharesNone ==
  ASSUME NEW d \in Seq(DirBlock), NEW u, NEW k \in DOMAIN d,
         NEW i \in 1 .. Len(d[k].slots), NoneShared(d, u)
  PROVE  LET e == [d EXCEPT ![k] = [d[k] EXCEPT !.slots = RemoveAt(@, i)]]
         IN  e \in Seq(DirBlock) /\ NoneShared(e, u \ {d[k].slots[i].addr})
<1> DEFINE left == [d[k] EXCEPT !.slots = RemoveAt(@, i)]
           e == [d EXCEPT ![k] = left]
           moved(l, j) == IF l = k /\ j >= i THEN j + 1 ELSE j
           B == [l \in Nat |-> l]
           S == [l \in Nat |-> [j \in Nat |-> moved(l, j)]]
<1>1. d[k] \in DirBlock /\ Len(d[k].slots) \in Nat /\ i \in Nat
  BY BlockSorts
<1>2. /\ left \in DirBlock /\ left.addr = d[k].addr
      /\ Len(left.slots) = Len(d[k].slots) - 1
      /\ \A j \in 1 .. Len(left.slots) :
           left.slots[j] = d[k].slots[IF j < i THEN j ELSE j + 1]
  BY <1>1, RemovedGives
<1> HIDE DEF left
<1>3. /\ e \in Seq(DirBlock) /\ DOMAIN e = DOMAIN d /\ e[k] = left
      /\ \A l \in DOMAIN d : l # k => e[l] = d[l]
  BY <1>2
<1> HIDE DEF e
<1>4. ASSUME NEW l \in DOMAIN e, NEW j \in Places(e, l)
      PROVE  /\ l \in Nat /\ j \in Nat
             /\ moved(l, j) \in Places(d, l) /\ At(e, l, j) = At(d, l, moved(l, j))
             /\ l = k => moved(l, j) # i
  <2>1. CASE l # k
    <3>1. e[l] = d[l] /\ d[l] \in DirBlock
      BY <1>3, <2>1
    <3>2. Len(d[l].slots) \in Nat
      BY <3>1, BlockSorts
    <3> QED BY <1>3, <2>1, <3>1, <3>2 DEF Places, At
  <2>2. CASE l = k
    <3>1. j \in 0 .. Len(d[k].slots) - 1
      BY <1>2, <1>3, <2>2 DEF Places
    <3>2. moved(l, j) \in 0 .. Len(d[k].slots) /\ moved(l, j) # i
      BY <1>1, <2>2, <3>1
    <3>3. CASE j = 0
      BY <1>2, <1>3, <2>2, <3>2, <3>3 DEF At, Places
    <3>4. CASE j # 0
      <4>1. j \in 1 .. Len(left.slots)
        BY <1>1, <1>2, <3>1, <3>4
      <4>2. left.slots[j] = d[k].slots[moved(l, j)]
        BY SMTT(40), <1>1, <1>2, <2>2, <3>1, <4>1
      <4>3. moved(l, j) # 0
        BY <1>1, <3>1, <3>4
      <4> QED BY <1>3, <2>2, <3>1, <3>2, <3>4, <4>2, <4>3 DEF At, Places
    <3> QED BY <1>3, <2>2, <3>1, <3>2, <3>3, <3>4
  <2> QED BY <2>1, <2>2
<1>5. \A l \in DOMAIN e : \A j \in Places(e, l) :
        B[l] = l /\ S[l][j] = moved(l, j)
  <2> HIDE DEF moved
  <2> QED BY <1>4
<1> HIDE DEF B, S
<1>6. At(d, k, i) = d[k].slots[i].addr /\ i \in Places(d, k)
  BY <1>1 DEF At, Places
<1>7. ASSUME NEW l \in DOMAIN e, NEW j \in Places(e, l)
      PROVE  At(e, l, j) # At(d, k, i)
  <2>1. PICK g \in Places(d, l) : At(e, l, j) = At(d, l, g) /\ (l = k => g # i)
    BY <1>4
  <2> QED BY <1>3, <1>6, <2>1 DEF NoneShared
<1>8. ASSUME NEW l \in DOMAIN e, NEW j \in Places(e, l), NEW h \in Places(e, l),
             moved(l, j) = moved(l, h)
      PROVE  j = h
  <2>1. j \in Nat /\ h \in Nat
    BY <1>4
  <2> QED BY <1>1, <1>8, <2>1
<1> HIDE DEF moved
<1>9. NoneShared(e, u \ {At(d, k, i)})
  <2> DEFINE v == u \ {At(d, k, i)}
  <2>1. \A l \in DOMAIN e : \A j \in Places(e, l) :
          /\ B[l] \in DOMAIN d /\ S[l][j] \in Places(d, B[l])
          /\ At(e, l, j) = At(d, B[l], S[l][j])
          /\ At(e, l, j) \notin u \ v
    BY <1>3, <1>4, <1>5, <1>7
  <2>2. \A l, h \in DOMAIN e : \A j \in Places(e, l), g \in Places(e, h) :
          B[l] = B[h] /\ S[l][j] = S[h][g] => l = h /\ j = g
    BY <1>5, <1>8
  <2> HIDE DEF v
  <2>3. Embeds(e, v, d, u, B, S)
    BY <2>1, <2>2 DEF Embeds
  <2>4. NoneShared(e, v)
    BY <2>3, FewerPlaces
  <2> QED BY <2>4 DEF v
<1> QED BY <1>3, <1>6, <1>9 DEF e, left

(* The blocks from h + 1 to k are cut out of the chain. *)
LEMMA CutSharesNone ==
  ASSUME NEW d \in Seq(DirBlock), NEW u, NEW k \in DOMAIN d, NEW h \in 0 .. k - 1,
         NEW i \in 1 .. Len(d[k].slots), NoneShared(d, u)
  PROVE  LET e == SubSeq(d, 1, h) \o SubSeq(d, k + 1, Len(d))
         IN  /\ e \in Seq(DirBlock)
             /\ NoneShared(e, u \ ({d[k].slots[i].addr} \cup {d[k].addr}))
<1> DEFINE e == SubSeq(d, 1, h) \o SubSeq(d, k + 1, Len(d))
           v == u \ ({d[k].slots[i].addr} \cup {d[k].addr})
           B == [l \in Nat |-> IF l <= h THEN l ELSE l - h + k]
           S == [l \in Nat |-> [j \in Nat |-> j]]
<1>1. /\ Len(d) \in Nat /\ k \in Nat /\ h \in Nat /\ k <= Len(d) /\ h < k
      /\ DOMAIN d = 1 .. Len(d)
  OBVIOUS
<1>2. /\ e \in Seq(DirBlock) /\ Len(e) = h + (Len(d) - k)
      /\ \A j \in 1 .. Len(e) : e[j] = d[IF j <= h THEN j ELSE j - h + k]
  <2>1. h \in 0 .. Len(d) /\ k \in h .. Len(d)
    BY <1>1
  <2> QED BY <2>1, CutOut
<1> HIDE DEF e
<1>3. DOMAIN e = 1 .. h + (Len(d) - k)
  BY <1>2
<1>4. ASSUME NEW l \in DOMAIN e
      PROVE  /\ l \in Nat /\ B[l] \in DOMAIN d /\ B[l] # k /\ e[l] = d[B[l]]
             /\ Places(e, l) = Places(d, B[l]) /\ Places(e, l) \subseteq Nat
  <2>1. l \in Nat /\ l \in 1 .. Len(e)
    BY <1>1, <1>2, <1>3
  <2>2. B[l] = IF l <= h THEN l ELSE l - h + k
    BY <2>1
  <2>3. B[l] \in 1 .. Len(d) /\ B[l] # k
    BY <1>1, <1>3, <2>1, <2>2
  <2>4. e[l] = d[B[l]]
    BY <1>2, <2>1, <2>2
  <2>5. d[B[l]] \in DirBlock
    BY <2>3
  <2>6. Len(d[B[l]].slots) \in Nat
    BY SMTT(40), <2>5, BlockSorts
  <2> HIDE DEF B
  <2> QED BY <1>1, <2>1, <2>3, <2>4, <2>6 DEF Places
<1>5. ASSUME NEW l \in DOMAIN e, NEW j \in DOMAIN e, B[l] = B[j]
      PROVE  l = j
  <2>1. l \in Nat /\ j \in Nat /\ l >= 1 /\ j >= 1
    BY <1>1, <1>3
  <2>2. /\ B[l] = IF l <= h THEN l ELSE l - h + k
        /\ B[j] = IF j <= h THEN j ELSE j - h + k
    BY <2>1
  <2> HIDE DEF B, S, v
  <2>3. (IF l <= h THEN l ELSE l - h + k) = (IF j <= h THEN j ELSE j - h + k)
    BY <1>5, <2>2
  <2> QED BY <1>1, <2>1, <2>3
<1>6. \A l \in DOMAIN e : \A j \in Places(e, l) : S[l][j] = j
  BY <1>4
<1> HIDE DEF B, S
<1>7. /\ 0 \in Places(d, k) /\ i \in Places(d, k)
      /\ At(d, k, 0) = d[k].addr /\ At(d, k, i) = d[k].slots[i].addr
  <2>1. d[k] \in DirBlock
    OBVIOUS
  <2>2. Len(d[k].slots) \in Nat /\ i # 0
    BY <2>1, BlockSorts
  <2> QED BY <2>2 DEF Places, At
<1>8. ASSUME NEW l \in DOMAIN e, NEW j \in Places(e, l)
      PROVE  At(e, l, j) = At(d, B[l], j) /\ At(e, l, j) \notin u \ v
  <2>1. At(e, l, j) = At(d, B[l], j)
    BY <1>4 DEF At
  <2>2. At(d, B[l], j) # At(d, k, 0) /\ At(d, B[l], j) # At(d, k, i)
    BY <1>4, <1>7 DEF NoneShared
  <2> QED BY <1>7, <2>1, <2>2
<1> HIDE DEF v
<1>9. Embeds(e, v, d, u, B, S)
  BY <1>4, <1>5, <1>6, <1>8 DEF Embeds
<1>10. NoneShared(e, v)
  BY <1>9, FewerPlaces
<1> QED BY <1>2, <1>10 DEF e, v

(* A size is written in an entry. *)
LEMMA UpdateSharesNone ==
  ASSUME NEW d \in Seq(DirBlock), NEW u, NEW k \in DOMAIN d,
         NEW i \in 1 .. Len(d[k].slots), NEW s \in Size, NoneShared(d, u)
  PROVE  LET e == [d EXCEPT ![k].slots[i].size = s]
         IN  e \in Seq(DirBlock) /\ NoneShared(e, u)
<1> DEFINE slots == [d[k].slots EXCEPT ![i] = [d[k].slots[i] EXCEPT !.size = s]]
           b == [d[k] EXCEPT !.slots = slots]
           e == [d EXCEPT ![k] = b]
<1>1. d[k] \in DirBlock
  OBVIOUS
<1>2. d[k].slots \in Seq(Entry)
  BY <1>1, BlockSorts
<1>3. d[k].slots[i] \in Entry
  BY <1>2
<1>4. /\ [d[k].slots[i] EXCEPT !.size = s] \in Entry
      /\ [d[k].slots[i] EXCEPT !.size = s].addr = d[k].slots[i].addr
  BY <1>3 DEF Entry
<1>5. /\ slots \in Seq(Entry) /\ Len(slots) = Len(d[k].slots)
      /\ \A j \in 1 .. Len(d[k].slots) : slots[j].addr = d[k].slots[j].addr
  BY <1>2, <1>4
<1> HIDE DEF slots
<1>6. b \in DirBlock /\ b.addr = d[k].addr /\ b.slots = slots
  BY <1>1, <1>5 DEF DirBlock
<1> HIDE DEF b
<1>7. /\ e \in Seq(DirBlock) /\ DOMAIN e = DOMAIN d /\ e[k] = b
      /\ \A l \in DOMAIN d : l # k => e[l] = d[l]
  BY <1>6
<1> HIDE DEF e
<1>8. ASSUME NEW l \in DOMAIN e
      PROVE  Places(e, l) = Places(d, l) /\ \A j \in Places(d, l) : At(e, l, j) = At(d, l, j)
  <2>1. CASE l = k
    <3>1. Len(d[k].slots) \in Nat
      BY <1>2
    <3>2. \A j \in 0 .. Len(d[k].slots) : j # 0 => j \in 1 .. Len(d[k].slots)
      BY <3>1
    <3>3. Places(e, k) = Places(d, k) /\ Places(d, k) = 0 .. Len(d[k].slots)
      BY <1>5, <1>6, <1>7 DEF Places
    <3>4. \A j \in Places(d, k) : At(e, k, j) = At(d, k, j)
      BY <1>5, <1>6, <1>7, <3>2, <3>3 DEF At
    <3> QED BY <2>1, <3>3, <3>4
  <2>2. CASE l # k
    BY <1>7, <2>2 DEF Places, At
  <2> QED BY <2>1, <2>2
<1>9. NoneShared(e, u)
  BY <1>7, <1>8 DEF NoneShared
<1>10. e = [d EXCEPT ![k].slots[i].size = s]
  BY DEF e, b, slots
<1> QED BY <1>7, <1>9, <1>10

(***************************************************************************)
(* The theorem                                                             *)
(***************************************************************************)

LEMMA DirStarts == Init => DirInv
<1> SUFFICES ASSUME Init PROVE DirInv
  OBVIOUS
<1> DEFINE a == next_free_addr(Blocks)
<1>1. a \in Blocks
  BY NextFreeIsFree, DirAssumption
<1>2. dir = <<DirBlockAt(a)>> /\ used = {a}
  BY <1>1, NewBlock DEF Init
<1> HIDE DEF a
<1>3. dir \in Seq(DirBlock) /\ dir # <<>> /\ DOMAIN dir = {1}
  BY <1>1, <1>2, NewBlock
<1>4. Places(dir, 1) = {0} /\ At(dir, 1, 0) = a
  BY <1>1, <1>2, NewBlock DEF Places, At
<1> QED BY <1>1, <1>2, <1>3, <1>4 DEF DirInv, NoBlockShared, NoneShared

LEMMA CreateKeeps ==
  ASSUME DirInv, NEW n \in Name, Create(n) PROVE DirInv'
<1> USE DEF DirInv, NoBlockShared
<1>1. Free \in SUBSET Blocks /\ Free # {} /\ Free \cap used = {}
  BY DEF Create, Free
<1>2. FirstFree \in Free
  BY <1>1, NextFreeIsFree DEF FirstFree
<1>3. Spot(n) \in 1 .. Len(dir) + 1
  BY SpotIsThere
<1>4. CASE Spot(n) > Len(dir)
  <2> DEFINE grown == Append(dir, DirBlockAt(FirstFree))
  <2>1. Free \ {FirstFree} # {}
    BY <1>2, <1>4 DEF Create
  <2>2. ThenFree \in Free \ {FirstFree}
    BY <1>1, <2>1, NextFreeIsFree DEF ThenFree
  <2>3. grown \in Seq(DirBlock) /\ NoneShared(grown, used \cup {FirstFree})
    BY <1>1, <1>2, GrownSharesNone
  <2>4. Spot(n) \in DOMAIN grown
    BY <1>3, <1>4
  <2>5. /\ dir' = [grown EXCEPT ![Spot(n)] = Put(grown[Spot(n)], n, ThenFree)]
        /\ used' = used \cup {FirstFree, ThenFree}
    BY <1>4 DEF Create
  <2> HIDE DEF grown
  <2>6. ThenFree \in Blocks /\ ThenFree \notin used \cup {FirstFree}
    BY <1>1, <2>2
  <2>7. /\ dir' \in Seq(DirBlock)
        /\ NoneShared(dir', (used \cup {FirstFree}) \cup {ThenFree})
    BY <2>3, <2>4, <2>5, <2>6, PutSharesNone
  <2>8. (used \cup {FirstFree}) \cup {ThenFree} = used'
    BY <2>5
  <2>9. dir' # <<>>
    BY <2>3, <2>4, <2>5
  <2> QED BY <1>1, <1>2, <2>5, <2>6, <2>7, <2>8, <2>9 DEF NoneShared, Places, At
<1>5. CASE ~(Spot(n) > Len(dir))
  <2>1. Spot(n) \in DOMAIN dir
    BY <1>3, <1>5
  <2>2. /\ dir' = [dir EXCEPT ![Spot(n)] = Put(dir[Spot(n)], n, FirstFree)]
        /\ used' = used \cup {FirstFree}
    BY <1>5 DEF Create
  <2>3. FirstFree \in Blocks /\ FirstFree \notin used
    BY <1>1, <1>2
  <2>4. dir' \in Seq(DirBlock) /\ NoneShared(dir', used')
    BY <2>1, <2>2, <2>3, PutSharesNone
  <2>5. dir' # <<>>
    BY <2>1, <2>2
  <2> QED BY <2>2, <2>3, <2>4, <2>5 DEF NoneShared, Places, At
<1> QED BY <1>4, <1>5

LEMMA DeleteKeeps ==
  ASSUME DirInv, NEW n \in Name, Delete(n) PROVE DirInv'
<1> USE DEF DirInv, NoBlockShared
<1> DEFINE k == Place(n)[1]
           i == Place(n)[2]
           left == [dir[k] EXCEPT !.slots = RemoveAt(@, i)]
           prev == {j \in 1 .. k - 1 : Seen(dir[j]) # <<>>}
           cut  == left.slots = <<>> /\ left.junk = 0 /\ prev # {}
           last_block == CHOOSE j \in prev : \A l \in prev : l <= j
<1>1. k \in DOMAIN dir /\ i \in 1 .. Len(dir[k].slots)
  BY PlaceIsThere DEF Delete
<1>2. CASE cut
  <2>1. last_block \in 1 .. k - 1
    <3>1. k - 1 \in Nat
      BY <1>1
    <3>2. prev \in SUBSET Nat /\ prev # {} /\ \A j \in prev : j \in 1 .. k - 1
      BY <1>2
    <3> DEFINE top == k - 1
    <3>3. \A j \in prev : j <= top
      BY <3>1, <3>2
    <3> HIDE DEF prev, k, top
    <3>4. \E j \in prev : \A l \in prev : l <= j
      BY <3>1, <3>2, <3>3, GreatestOf DEF top
    <3>5. last_block \in prev
      BY <3>4
    <3> QED BY <3>2, <3>5
  <2>2. /\ dir' = SubSeq(dir, 1, last_block) \o SubSeq(dir, k + 1, Len(dir))
        /\ used' = used \ ({dir[k].slots[i].addr} \cup {dir[k].addr})
    BY <1>2 DEF Delete
  <2> HIDE DEF last_block, k, i
  <2>3. last_block \in 0 .. k - 1
    BY <2>1
  <2>4. dir' \in Seq(DirBlock) /\ NoneShared(dir', used')
    BY <1>1, <2>2, <2>3, CutSharesNone
  <2>5. dir' # <<>>
    <3>1. last_block \in 1 .. Len(dir) /\ Len(dir) \in Nat /\ k \in 1 .. Len(dir)
      BY <1>1, <2>1
    <3>2. Len(SubSeq(dir, 1, last_block)) = last_block /\ last_block >= 1
      BY <3>1
    <3>3. SubSeq(dir, k + 1, Len(dir)) \in Seq(DirBlock)
      BY <3>1
    <3>4. SubSeq(dir, 1, last_block) \in Seq(DirBlock)
      BY <3>1
    <3> QED BY <2>2, <3>2, <3>3, <3>4
  <2> QED BY <2>2, <2>4, <2>5
<1>3. CASE ~cut
  <2>1. /\ dir' = [dir EXCEPT ![k] = left]
        /\ used' = used \ {dir[k].slots[i].addr}
    BY <1>3 DEF Delete
  <2>2. dir' \in Seq(DirBlock) /\ NoneShared(dir', used')
    BY <1>1, <2>1, RemovedSharesNone
  <2>3. dir' # <<>>
    BY <1>1, <2>1
  <2> QED BY SMTT(40), <2>1, <2>2, <2>3
<1> QED BY <1>2, <1>3

LEMMA StepKeeps == DirInv /\ [Next]_vars => DirInv'
<1> SUFFICES ASSUME DirInv, [Next]_vars PROVE DirInv'
  OBVIOUS
<1>1. ASSUME NEW n \in Name, Create(n) PROVE DirInv'
  BY <1>1, CreateKeeps
<1>2. ASSUME NEW n \in Name, CreateFails(n) PROVE DirInv'
  <2>1. CASE UNCHANGED <<dir, used>>
    BY <2>1 DEF DirInv, NoBlockShared, NoneShared, Places, At
  <2>2. CASE Free # {} /\ dir' = Append(dir, DirBlockAt(FirstFree))
             /\ used' = used \cup {FirstFree}
    <3>1. FirstFree \in Free /\ Free \subseteq Blocks \ used
      BY SMTT(40), <2>2, NextFreeIsFree DEF FirstFree, Free
    <3>2. dir' \in Seq(DirBlock) /\ NoneShared(dir', used')
      BY <2>2, <3>1, GrownSharesNone DEF DirInv, NoBlockShared
    <3>3. dir' # <<>>
      BY <2>2, <3>1, NewBlock DEF DirInv
    <3> QED BY <2>2, <3>1, <3>2, <3>3 DEF DirInv, NoBlockShared
  <2> QED BY <1>2, <2>1, <2>2 DEF CreateFails
<1>3. ASSUME NEW n \in Name, Delete(n) PROVE DirInv'
  BY <1>3, DeleteKeeps
<1>4. ASSUME NEW n \in Name, NEW s \in Size, Update(n, s) PROVE DirInv'
  <2>1. Place(n)[1] \in DOMAIN dir /\ Place(n)[2] \in 1 .. Len(dir[Place(n)[1]].slots)
    BY <1>4, PlaceIsThere DEF Update, DirInv
  <2>2. dir' = [dir EXCEPT ![Place(n)[1]].slots[Place(n)[2]].size = s] /\ used' = used
    BY <1>4 DEF Update
  <2>3. dir' \in Seq(DirBlock) /\ NoneShared(dir', used')
    BY <2>1, <2>2, UpdateSharesNone DEF DirInv, NoBlockShared
  <2>4. dir' # <<>>
    BY <2>1, <2>2 DEF DirInv
  <2> QED BY <2>2, <2>3, <2>4 DEF DirInv, NoBlockShared
<1>5. CASE UNCHANGED vars \/ \E n \in Name : DeleteFails(n)
  BY <1>5 DEF vars, DeleteFails, DirInv, NoBlockShared, NoneShared, Places, At
<1> QED BY <1>1, <1>2, <1>3, <1>4, <1>5 DEF Next

(* Whatever is created, deleted and created again, also when the disk is   *)
(* full: no block is in the directory twice, is one of its and one of a    *)
(* file in it, or is free and still pointed to (dir.rs 107-240).           *)
THEOREM NoneIsShared == Spec => []NoBlockShared
<1>1. DirInv => NoBlockShared
  BY DEF DirInv
<1> QED BY <1>1, StepKeeps, DirStarts, PTL DEF Spec

(***************************************************************************)
(* Sums                                                                    *)
(***************************************************************************)

(* Induction, over a set of numbers. *)
LEMMA Induct ==
  ASSUME NEW P, 0 \in P, \A n \in Nat : n \in P => n + 1 \in P
  PROVE  Nat \subseteq P
<1> SUFFICES ASSUME Nat \ P # {} PROVE FALSE
  OBVIOUS
<1>1. PICK n \in Nat \ P : \A m \in Nat \ P : n <= m
  BY LeastOf
<1>2. n # 0 /\ n - 1 \in Nat
  BY <1>1
<1>3. n - 1 \in P
  BY <1>1, <1>2
<1>4. (n - 1) + 1 \in P
  BY <1>2, <1>3
<1> QED BY <1>1, <1>4

IsSum(w, n, f) == f = [i \in 0 .. n |-> IF i = 0 THEN 0 ELSE f[i - 1] + w[i]]

Weights(n) == [1 .. n -> Nat]

(* The sums that SumTo is defined by are there. *)
LEMMA SumsExist ==
  ASSUME NEW N \in Nat, NEW w \in Weights(N), NEW n \in 0 .. N
  PROVE  \E f \in [0 .. n -> Nat] : IsSum(w, n, f)
<1> DEFINE P == {k \in Nat : k <= N => \E f \in [0 .. k -> Nat] : IsSum(w, k, f)}
<1>1. 0 \in P
  <2> DEFINE f == [i \in 0 .. 0 |-> 0]
  <2>1. f \in [0 .. 0 -> Nat] /\ IsSum(w, 0, f)
    BY DEF IsSum
  <2> QED BY <2>1
<1>2. ASSUME NEW k \in Nat, k \in P PROVE k + 1 \in P
  <2> SUFFICES ASSUME k + 1 <= N
               PROVE  \E f \in [0 .. k + 1 -> Nat] : IsSum(w, k + 1, f)
    OBVIOUS
  <2>1. PICK f \in [0 .. k -> Nat] : IsSum(w, k, f)
    BY <1>2
  <2> DEFINE g == [i \in 0 .. k + 1 |-> IF i = k + 1 THEN f[k] + w[k + 1] ELSE f[i]]
  <2>2. w[k + 1] \in Nat
    BY DEF Weights
  <2>3. g \in [0 .. k + 1 -> Nat]
    BY <2>2
  <2>4. ASSUME NEW i \in 0 .. k
        PROVE  f[i] = IF i = 0 THEN 0 ELSE f[i - 1] + w[i]
    BY <2>1 DEF IsSum
  <2>5. ASSUME NEW i \in 0 .. k + 1
        PROVE  g[i] = IF i = 0 THEN 0 ELSE g[i - 1] + w[i]
    <3>1. CASE i = k + 1
      BY <3>1
    <3>2. CASE i # k + 1
      <4>1. i \in 0 .. k /\ (i # 0 => i - 1 \in 0 .. k)
        BY <3>2
      <4> QED BY <2>4, <3>2, <4>1
    <3> QED BY <3>1, <3>2
  <2>6. IsSum(w, k + 1, g)
    BY <2>5 DEF IsSum
  <2> QED BY <2>3, <2>6
<1> HIDE DEF P
<1>3. Nat \subseteq P
  BY <1>1, <1>2, Induct
<1>4. n \in P /\ n <= N
  BY <1>3
<1> QED BY <1>4 DEF P

(* Two sums of weights that agree are one. *)
LEMMA SumsAgree ==
  ASSUME NEW n \in Nat, NEW m \in Nat, NEW k \in Nat, k <= n, k <= m,
         NEW v, NEW w, NEW f, NEW g, IsSum(v, n, f), IsSum(w, m, g),
         \A i \in 1 .. k : v[i] = w[i]
  PROVE  f[k] = g[k]
<1> DEFINE P == {i \in Nat : i <= k => f[i] = g[i]}
<1>1. ASSUME NEW i \in 0 .. k
      PROVE  /\ f[i] = IF i = 0 THEN 0 ELSE f[i - 1] + v[i]
             /\ g[i] = IF i = 0 THEN 0 ELSE g[i - 1] + w[i]
  <2>1. i \in 0 .. n /\ i \in 0 .. m
    OBVIOUS
  <2> QED BY <2>1 DEF IsSum
<1>2. 0 \in P
  BY <1>1
<1>3. ASSUME NEW i \in Nat, i \in P PROVE i + 1 \in P
  <2>1. ASSUME i + 1 <= k PROVE f[i + 1] = g[i + 1]
    <3>1. i + 1 \in 0 .. k /\ i + 1 # 0 /\ (i + 1) - 1 = i /\ i + 1 \in 1 .. k
      BY <2>1
    <3>2. f[i] = g[i]
      BY <1>3, <2>1
    <3>3. f[i + 1] = f[i] + v[i + 1] /\ g[i + 1] = g[i] + w[i + 1]
      BY <1>1, <3>1
    <3> QED BY <3>1, <3>2, <3>3
  <2> QED BY <2>1
<1> HIDE DEF P
<1>4. Nat \subseteq P
  BY <1>2, <1>3, Induct
<1> QED BY <1>4 DEF P

LEMMA SumIsSum ==
  ASSUME NEW N \in Nat, NEW w \in Weights(N), NEW n \in 0 .. N
  PROVE  \E f \in [0 .. n -> Nat] : IsSum(w, n, f) /\ SumTo(w, n) = f[n]
<1>1. PICK f \in [0 .. n -> Nat] : IsSum(w, n, f)
  BY SumsExist
<1> DEFINE g == CHOOSE g : IsSum(w, n, g)
<1>2. IsSum(w, n, g)
  BY <1>1
<1>3. SumTo(w, n) = g[n]
  BY Zenon DEF SumTo, IsSum
<1> HIDE DEF g
<1>4. g[n] = f[n]
  BY <1>1, <1>2, SumsAgree
<1> QED BY <1>1, <1>3, <1>4

(* What SumTo is defined to be. *)
LEMMA SumSteps ==
  ASSUME NEW N \in Nat, NEW w \in Weights(N)
  PROVE  /\ SumTo(w, 0) = 0
         /\ \A n \in 0 .. N : SumTo(w, n) \in Nat
         /\ \A n \in 1 .. N : SumTo(w, n) = SumTo(w, n - 1) + w[n]
<1>1. ASSUME NEW n \in 0 .. N PROVE SumTo(w, n) \in Nat
  BY SumIsSum
<1>2. SumTo(w, 0) = 0
  <2>1. 0 \in 0 .. N
    OBVIOUS
  <2>2. PICK f \in [0 .. 0 -> Nat] : IsSum(w, 0, f) /\ SumTo(w, 0) = f[0]
    BY <2>1, SumIsSum
  <2> QED BY <2>2 DEF IsSum
<1>3. ASSUME NEW n \in 1 .. N PROVE SumTo(w, n) = SumTo(w, n - 1) + w[n]
  <2>1. n \in 0 .. N /\ n - 1 \in 0 .. N /\ n \in Nat /\ n - 1 \in Nat /\ n # 0
    OBVIOUS
  <2>2. PICK f \in [0 .. n -> Nat] : IsSum(w, n, f) /\ SumTo(w, n) = f[n]
    BY <2>1, SumIsSum
  <2> DEFINE m == n - 1
  <2>3. PICK g \in [0 .. m -> Nat] : IsSum(w, m, g) /\ SumTo(w, m) = g[m]
    BY <2>1, SumIsSum
  <2>4. m <= n /\ m <= m /\ m \in Nat
    BY <2>1
  <2> HIDE DEF m
  <2>5. f[m] = g[m]
    BY <2>1, <2>2, <2>3, <2>4, SumsAgree
  <2>6. f[n] = f[m] + w[n]
    <3>1. n \in 0 .. n
      BY <2>1
    <3> QED BY <2>1, <2>2, <3>1 DEF IsSum, m
  <2> QED BY <2>2, <2>3, <2>5, <2>6 DEF m
<1> QED BY <1>1, <1>2, <1>3

LEMMA SumSame ==
  ASSUME NEW N \in Nat, NEW w \in Weights(N), NEW M \in Nat, NEW v \in Weights(M),
         NEW k \in Nat, k <= N, k <= M, \A i \in 1 .. k : v[i] = w[i]
  PROVE  SumTo(v, k) = SumTo(w, k)
<1>1. k \in 0 .. N /\ k \in 0 .. M
  OBVIOUS
<1>2. PICK f \in [0 .. k -> Nat] : IsSum(v, k, f) /\ SumTo(v, k) = f[k]
  BY <1>1, SumIsSum
<1>3. PICK g \in [0 .. k -> Nat] : IsSum(w, k, g) /\ SumTo(w, k) = g[k]
  BY <1>1, SumIsSum
<1>4. k <= k
  OBVIOUS
<1>5. f[k] = g[k]
  BY <1>2, <1>3, <1>4, SumsAgree
<1> QED BY <1>2, <1>3, <1>5

(* One weight is another. *)
LEMMA SumChange ==
  ASSUME NEW N \in Nat, NEW w \in Weights(N), NEW v \in Weights(N), NEW i \in 1 .. N,
         \A j \in 1 .. N : j # i => v[j] = w[j]
  PROVE  SumTo(v, N) + w[i] = SumTo(w, N) + v[i]
<1> DEFINE P == {k \in Nat : k <= N =>
                   IF k < i THEN SumTo(v, k) = SumTo(w, k)
                   ELSE SumTo(v, k) + w[i] = SumTo(w, k) + v[i]}
<1>1. \A j \in 1 .. N : v[j] \in Nat /\ w[j] \in Nat
  BY DEF Weights
<1>2. 0 \in P
  <2>1. SumTo(v, 0) = 0 /\ SumTo(w, 0) = 0
    BY SumSteps
  <2> QED BY <2>1
<1>3. ASSUME NEW k \in Nat, k \in P PROVE k + 1 \in P
  <2> SUFFICES ASSUME k + 1 <= N
               PROVE  IF k + 1 < i THEN SumTo(v, k + 1) = SumTo(w, k + 1)
                      ELSE SumTo(v, k + 1) + w[i] = SumTo(w, k + 1) + v[i]
    OBVIOUS
  <2>1. k + 1 \in 1 .. N /\ (k + 1) - 1 = k /\ k \in 0 .. N /\ k <= N
    OBVIOUS
  <2>2. /\ SumTo(v, k + 1) = SumTo(v, k) + v[k + 1]
        /\ SumTo(w, k + 1) = SumTo(w, k) + w[k + 1]
        /\ SumTo(v, k) \in Nat /\ SumTo(w, k) \in Nat
    BY <2>1, SumSteps
  <2>3. IF k < i THEN SumTo(v, k) = SumTo(w, k)
        ELSE SumTo(v, k) + w[i] = SumTo(w, k) + v[i]
    BY <1>3, <2>1
  <2>4. k + 1 # i => v[k + 1] = w[k + 1]
    BY <2>1
  <2>5. v[k + 1] \in Nat /\ w[k + 1] \in Nat /\ v[i] \in Nat /\ w[i] \in Nat
    BY <1>1, <2>1
  <2>6. CASE k + 1 = i
    BY <2>2, <2>3, <2>5, <2>6
  <2>7. CASE k + 1 # i
    BY <2>2, <2>3, <2>4, <2>5, <2>7
  <2> QED BY <2>6, <2>7
<1> HIDE DEF P
<1>4. Nat \subseteq P
  BY <1>2, <1>3, Induct
<1>5. N \in P /\ N <= N /\ ~(N < i)
  BY <1>4
<1> QED BY <1>5 DEF P

(* What weighs nothing is cut out. *)
LEMMA SumCut ==
  ASSUME NEW N \in Nat, NEW w \in Weights(N),
         NEW h \in 0 .. N, NEW k \in h .. N, \A j \in h + 1 .. k : w[j] = 0,
         NEW v \in Weights(h + (N - k)),
         \A j \in 1 .. h + (N - k) : v[j] = w[IF j <= h THEN j ELSE j - h + k]
  PROVE  SumTo(v, h + (N - k)) = SumTo(w, N)
<1> DEFINE M == h + (N - k)
           P == {j \in Nat : h + j <= k => SumTo(w, h + j) = SumTo(w, h)}
           Q == {j \in Nat : k + j <= N => SumTo(v, h + j) = SumTo(w, k + j)}
<1>1. h \in Nat /\ k \in Nat /\ h <= k /\ k <= N /\ M \in Nat /\ h <= M
  OBVIOUS
<1>2. Nat \subseteq P
  <2>1. 0 \in P
    BY <1>1
  <2>2. ASSUME NEW j \in Nat, j \in P PROVE j + 1 \in P
    <3> SUFFICES ASSUME h + (j + 1) <= k PROVE SumTo(w, h + (j + 1)) = SumTo(w, h)
      BY DEF P
    <3> DEFINE n == h + (j + 1)
    <3>1. n \in 1 .. N /\ n - 1 = h + j /\ n \in h + 1 .. k /\ h + j <= k
      BY <1>1
    <3>2. SumTo(w, n) = SumTo(w, h + j) + w[n] /\ w[n] = 0
      BY <3>1, SumSteps
    <3>3. SumTo(w, h + j) = SumTo(w, h) /\ SumTo(w, h) \in Nat
      BY <2>2, <3>1, SumSteps DEF P
    <3> HIDE DEF n
    <3>4. SumTo(w, n) = SumTo(w, h)
      BY <3>2, <3>3
    <3> QED BY <3>4 DEF n
  <2> HIDE DEF P
  <2> QED BY <2>1, <2>2, Induct
<1>3. SumTo(w, k) = SumTo(w, h)
  <2>1. k - h \in P /\ h + (k - h) <= k /\ h + (k - h) = k
    BY <1>1, <1>2
  <2> QED BY <2>1 DEF P
<1>4. SumTo(v, h) = SumTo(w, h)
  <2>1. \A j \in 1 .. h : v[j] = w[j]
    BY <1>1
  <2>2. h <= N /\ v \in Weights(M)
    BY <1>1
  <2> HIDE DEF M
  <2> QED BY <1>1, <2>1, <2>2, SumSame
<1>5. Nat \subseteq Q
  <2>1. 0 \in Q
    BY <1>1, <1>3, <1>4
  <2>2. ASSUME NEW j \in Nat, j \in Q PROVE j + 1 \in Q
    <3> SUFFICES ASSUME k + (j + 1) <= N
                 PROVE  SumTo(v, h + (j + 1)) = SumTo(w, k + (j + 1))
      BY DEF Q
    <3> DEFINE m == h + (j + 1)
               n == k + (j + 1)
    <3>1. /\ n \in 1 .. N /\ n - 1 = k + j /\ k + j <= N
          /\ m \in 1 .. M /\ m - 1 = h + j /\ ~(m <= h) /\ m - h + k = n
      BY <1>1
    <3>2. SumTo(w, n) = SumTo(w, k + j) + w[n]
      BY <3>1, SumSteps
    <3>3. v \in Weights(M)
      OBVIOUS
    <3>4. v[m] = w[n]
      BY <3>1
    <3> HIDE DEF M, m, n
    <3>5. SumTo(v, m) = SumTo(v, h + j) + v[m]
      BY <1>1, <3>1, <3>3, SumSteps
    <3>6. SumTo(v, h + j) = SumTo(w, k + j)
      BY <2>2, <3>1 DEF Q
    <3>7. SumTo(v, m) = SumTo(w, n)
      BY <3>2, <3>4, <3>5, <3>6
    <3> QED BY <3>7 DEF m, n
  <2> HIDE DEF Q
  <2> QED BY <2>1, <2>2, Induct
<1>6. N - k \in Q /\ k + (N - k) <= N /\ k + (N - k) = N
  BY <1>1, <1>5
<1> QED BY <1>6 DEF Q

LEMMA Cancels ==
  ASSUME NEW p \in Nat, NEW q \in Nat, NEW r \in Nat, NEW s \in Nat, p + r = q + (r + s)
  PROVE  p = q + s
OBVIOUS

(* The numbers of bytes of the entries of s, which Bytes sums. *)
Lens(s) == [i \in DOMAIN s |-> EntryLen[s[i].name]]

LEMMA LensAreWeights ==
  ASSUME NEW s \in Seq(Entry)
  PROVE  /\ Len(s) \in Nat /\ Lens(s) \in Weights(Len(s))
         /\ \A i \in 1 .. Len(s) : Lens(s)[i] = EntryLen[s[i].name]
         /\ Bytes(s) = SumTo(Lens(s), Len(s)) /\ Bytes(s) \in Nat
<1>1. Len(s) \in Nat /\ DOMAIN s = 1 .. Len(s)
  OBVIOUS
<1>2. ASSUME NEW i \in DOMAIN s PROVE EntryLen[s[i].name] \in Nat
  <2>1. s[i] \in Entry
    OBVIOUS
  <2>2. s[i].name \in Name
    BY <2>1 DEF Entry
  <2> QED BY <2>2, DirAssumption
<1>3. Lens(s) \in Weights(Len(s))
  BY <1>1, <1>2 DEF Lens, Weights
<1>4. Bytes(s) = SumTo(Lens(s), Len(s))
  BY DEF Bytes, Lens
<1>5. Len(s) \in 0 .. Len(s)
  BY <1>1
<1>6. SumTo(Lens(s), Len(s)) \in Nat
  BY <1>1, <1>3, <1>5, SumSteps
<1> QED BY <1>1, <1>3, <1>4, <1>6 DEF Lens

LEMMA BytesOfNone == Bytes(<<>>) = 0
<1>1. <<>> \in Seq(Entry) /\ Len(<<>>) = 0
  OBVIOUS
<1>2. Lens(<<>>) \in Weights(0) /\ Bytes(<<>>) = SumTo(Lens(<<>>), 0)
  BY <1>1, LensAreWeights
<1> QED BY <1>2, SumSteps

LEMMA BytesAppended ==
  ASSUME NEW s \in Seq(Entry), NEW e \in Entry
  PROVE  Bytes(Append(s, e)) = Bytes(s) + EntryLen[e.name]
<1> DEFINE t == Append(s, e)
           n == Len(s)
           m == Len(t)
<1>1. /\ t \in Seq(Entry) /\ n \in Nat /\ m \in Nat /\ m = n + 1 /\ t[m] = e
      /\ \A i \in 1 .. n : t[i] = s[i]
  OBVIOUS
<1> HIDE DEF t
<1>2. /\ Lens(s) \in Weights(n) /\ Lens(t) \in Weights(m)
      /\ Bytes(s) = SumTo(Lens(s), n) /\ Bytes(t) = SumTo(Lens(t), m)
      /\ \A i \in 1 .. n : Lens(s)[i] = EntryLen[s[i].name]
      /\ \A i \in 1 .. m : Lens(t)[i] = EntryLen[t[i].name]
  BY <1>1, LensAreWeights
<1> HIDE DEF n, m
<1>3. m \in 1 .. m /\ m - 1 = n /\ n <= n /\ n <= m
  BY <1>1
<1>4. SumTo(Lens(t), m) = SumTo(Lens(t), n) + Lens(t)[m]
  BY <1>1, <1>2, <1>3, SumSteps
<1>5. \A i \in 1 .. n : Lens(t)[i] = Lens(s)[i]
  BY <1>1, <1>2, <1>3
<1>6. SumTo(Lens(t), n) = SumTo(Lens(s), n)
  BY <1>1, <1>2, <1>3, <1>5, SumSame
<1> QED BY <1>1, <1>2, <1>3, <1>4, <1>6 DEF t

LEMMA BytesRemoved ==
  ASSUME NEW s \in Seq(Entry), NEW i \in 1 .. Len(s)
  PROVE  Bytes(RemoveAt(s, i)) + EntryLen[s[i].name] = Bytes(s)
<1> DEFINE r == RemoveAt(s, i)
           n == Len(s)
           w == Lens(s)
           x == [w EXCEPT ![i] = 0]
<1>1. /\ n \in Nat /\ w \in Weights(n) /\ Bytes(s) = SumTo(w, n)
      /\ \A j \in 1 .. n : w[j] = EntryLen[s[j].name]
  BY LensAreWeights
<1>2. PICK h \in 0 .. n : h = i - 1
  BY <1>1
<1>3. r = SubSeq(s, 1, h) \o SubSeq(s, i + 1, n)
  BY <1>2 DEF RemoveAt
<1>4. i \in h .. n
  BY <1>1, <1>2
<1>5. /\ r \in Seq(Entry) /\ Len(r) = h + (n - i)
      /\ \A j \in 1 .. Len(r) : r[j] = s[IF j <= h THEN j ELSE j - h + i]
  <2>1. LET q == SubSeq(s, 1, h) \o SubSeq(s, i + 1, Len(s))
        IN  /\ q \in Seq(Entry) /\ Len(q) = h + (Len(s) - i)
            /\ \A j \in 1 .. Len(q) : q[j] = s[IF j <= h THEN j ELSE j - h + i]
    BY <1>4, CutOut
  <2> QED BY <1>3, <2>1
<1> HIDE DEF r, n, w
<1>6. /\ x \in Weights(n) /\ x[i] = 0 /\ i \in 1 .. n
      /\ \A j \in 1 .. n : j # i => x[j] = w[j]
  BY <1>1 DEF Weights, n
<1> HIDE DEF x
<1>7. SumTo(x, n) + w[i] = SumTo(w, n) + x[i]
  BY <1>1, <1>6, SumChange
<1>8. /\ Lens(r) \in Weights(h + (n - i)) /\ Bytes(r) = SumTo(Lens(r), h + (n - i))
      /\ \A j \in 1 .. h + (n - i) : Lens(r)[j] = EntryLen[r[j].name]
  BY <1>5, LensAreWeights
<1>9. \A j \in h + 1 .. i : x[j] = 0
  BY <1>1, <1>2, <1>6
<1>10. \A j \in 1 .. h + (n - i) : Lens(r)[j] = x[IF j <= h THEN j ELSE j - h + i]
  <2> TAKE j \in 1 .. h + (n - i)
  <2> DEFINE g == IF j <= h THEN j ELSE j - h + i
  <2>1. g \in 1 .. n /\ g # i
    BY <1>1, <1>2, <1>6
  <2>2. r[j] = s[g]
    BY <1>5
  <2>3. Lens(r)[j] = EntryLen[s[g].name]
    BY <1>8, <2>2
  <2> HIDE DEF g
  <2>4. Lens(r)[j] = x[g]
    BY <1>1, <1>6, <2>1, <2>3
  <2> QED BY <2>4 DEF g
<1>11. SumTo(Lens(r), h + (n - i)) = SumTo(x, n)
  BY <1>1, <1>4, <1>6, <1>8, <1>9, <1>10, SumCut
<1>12. SumTo(w, n) \in Nat /\ Bytes(r) \in Nat /\ w[i] = EntryLen[s[i].name] /\ w[i] \in Nat
  BY <1>1, <1>5, <1>6, LensAreWeights DEF Weights
<1>13. Bytes(r) + w[i] = Bytes(s)
  BY <1>1, <1>6, <1>7, <1>8, <1>11, <1>12
<1> QED BY <1>12, <1>13 DEF r

LEMMA BytesSame ==
  ASSUME NEW s \in Seq(Entry), NEW t \in Seq(Entry), Len(s) = Len(t),
         \A i \in 1 .. Len(s) : s[i].name = t[i].name
  PROVE  Bytes(s) = Bytes(t)
<1>1. DOMAIN s = 1 .. Len(s) /\ DOMAIN t = 1 .. Len(s)
  OBVIOUS
<1>2. Lens(s) = Lens(t)
  BY <1>1 DEF Lens
<1> QED BY <1>2, LensAreWeights

FileOf(e) == [name |-> e.name, size |-> e.size]
SlotsOf(d, k) == 1 .. Len(d[k].slots)

(* The files of all the slots, their number of bytes, and that each has a   *)
(* name of its own.                                                        *)
Files(d) == UNION {{FileOf(e) : e \in Range(d[k].slots)} : k \in DOMAIN d}
Weight(d) == [k \in DOMAIN d |-> Bytes(d[k].slots)]
Total(d) == SumTo(Weight(d), Len(d))
OneName(d) ==
  \A k, l \in DOMAIN d : \A i \in SlotsOf(d, k), j \in SlotsOf(d, l) :
    d[k].slots[i].name = d[l].slots[j].name => k = l /\ i = j

LEMMA InFiles ==
  ASSUME NEW d \in Seq(DirBlock), NEW f
  PROVE  f \in Files(d) <=> \E k \in DOMAIN d : \E i \in SlotsOf(d, k) :
                              f = FileOf(d[k].slots[i])
<1>1. ASSUME NEW k \in DOMAIN d
      PROVE  Range(d[k].slots) = {d[k].slots[i] : i \in SlotsOf(d, k)}
  <2>1. d[k] \in DirBlock
    OBVIOUS
  <2>2. d[k].slots \in Seq(Entry)
    BY <2>1, BlockSorts
  <2>3. DOMAIN d[k].slots = SlotsOf(d, k)
    BY <2>2 DEF SlotsOf
  <2> QED BY <2>3 DEF Range
<1>2. f \in Files(d) <=> \E k \in DOMAIN d : \E e \in Range(d[k].slots) : f = FileOf(e)
  <2> DEFINE G(k) == {FileOf(e) : e \in Range(d[k].slots)}
  <2>1. ASSUME NEW k \in DOMAIN d
        PROVE  f \in G(k) <=> \E e \in Range(d[k].slots) : f = FileOf(e)
    OBVIOUS
  <2>2. Files(d) = UNION {G(k) : k \in DOMAIN d}
    BY DEF Files
  <2> HIDE DEF G
  <2>3. f \in Files(d) <=> \E k \in DOMAIN d : f \in G(k)
    BY <2>2
  <2> QED BY <2>1, <2>3
<1> QED BY <1>1, <1>2

LEMMA BlockWeights ==
  ASSUME NEW d \in Seq(DirBlock)
  PROVE  /\ Len(d) \in Nat /\ DOMAIN d = 1 .. Len(d) /\ Weight(d) \in Weights(Len(d))
         /\ \A k \in 1 .. Len(d) : Weight(d)[k] = Bytes(d[k].slots)
         /\ Total(d) \in Nat
<1>1. Len(d) \in Nat /\ DOMAIN d = 1 .. Len(d)
  OBVIOUS
<1>2. ASSUME NEW k \in DOMAIN d PROVE Bytes(d[k].slots) \in Nat
  <2>1. d[k] \in DirBlock
    OBVIOUS
  <2>2. d[k].slots \in Seq(Entry)
    BY <2>1, BlockSorts
  <2> QED BY <2>2, LensAreWeights
<1>3. Weight(d) \in Weights(Len(d))
  BY <1>1, <1>2 DEF Weight, Weights
<1>4. Len(d) \in 0 .. Len(d)
  BY <1>1
<1>5. Total(d) \in Nat
  BY <1>1, <1>3, <1>4, SumSteps DEF Total
<1> QED BY <1>1, <1>3, <1>5 DEF Weight

(* One block is another. *)
LEMMA ChangedWeighs ==
  ASSUME NEW d \in Seq(DirBlock), NEW k \in DOMAIN d, NEW b \in DirBlock
  PROVE  LET e == [d EXCEPT ![k] = b]
         IN  /\ e \in Seq(DirBlock) /\ DOMAIN e = DOMAIN d /\ e[k] = b
             /\ \A l \in DOMAIN d : l # k => e[l] = d[l]
             /\ Total(e) + Bytes(d[k].slots) = Total(d) + Bytes(b.slots)
<1> DEFINE e == [d EXCEPT ![k] = b]
           n == Len(d)
<1>1. /\ e \in Seq(DirBlock) /\ DOMAIN e = DOMAIN d /\ e[k] = b /\ Len(e) = n
      /\ \A l \in DOMAIN d : l # k => e[l] = d[l]
  OBVIOUS
<1> HIDE DEF e
<1>2. /\ n \in Nat /\ Weight(d) \in Weights(n) /\ k \in 1 .. n
      /\ \A l \in 1 .. n : Weight(d)[l] = Bytes(d[l].slots)
  BY BlockWeights
<1>3. /\ Weight(e) \in Weights(n)
      /\ \A l \in 1 .. n : Weight(e)[l] = Bytes(e[l].slots)
  BY <1>1, BlockWeights
<1>4. \A l \in 1 .. n : l # k => Weight(e)[l] = Weight(d)[l]
  BY <1>1, <1>2, <1>3
<1> HIDE DEF n
<1>5. SumTo(Weight(e), n) + Weight(d)[k] = SumTo(Weight(d), n) + Weight(e)[k]
  BY <1>2, <1>3, <1>4, SumChange
<1>6. Total(e) + Bytes(d[k].slots) = Total(d) + Bytes(b.slots)
  BY <1>1, <1>2, <1>3, <1>5 DEF Total, n
<1> QED BY <1>1, <1>6 DEF e

LEMMA GrownHolds ==
  ASSUME NEW d \in Seq(DirBlock), NEW a \in Blocks, OneName(d)
  PROVE  LET e == Append(d, DirBlockAt(a))
         IN  OneName(e) /\ Files(e) = Files(d) /\ Total(e) = Total(d)
<1> DEFINE e == Append(d, DirBlockAt(a))
           new == Len(d) + 1
<1>1. /\ e \in Seq(DirBlock) /\ DOMAIN e = 1 .. new /\ DOMAIN d = 1 .. Len(d)
      /\ Len(e) = new /\ Len(d) \in Nat
      /\ e[new].slots = <<>> /\ \A k \in 1 .. Len(d) : e[k] = d[k]
  BY NewBlock
<1> HIDE DEF e
<1>2. SlotsOf(e, new) = {} /\ \A k \in DOMAIN d : k \in DOMAIN e /\ SlotsOf(e, k) = SlotsOf(d, k)
  BY <1>1 DEF SlotsOf
<1>3. \A k \in DOMAIN e : k = new \/ k \in DOMAIN d
  BY <1>1
<1> HIDE DEF new
<1>4. OneName(e)
  <2> SUFFICES ASSUME NEW k \in DOMAIN e, NEW l \in DOMAIN e,
                      NEW i \in SlotsOf(e, k), NEW j \in SlotsOf(e, l),
                      e[k].slots[i].name = e[l].slots[j].name
               PROVE  k = l /\ i = j
    BY DEF OneName
  <2>1. k \in DOMAIN d /\ l \in DOMAIN d
    BY <1>2, <1>3
  <2> QED BY <1>1, <1>2, <2>1 DEF OneName
<1>5. ASSUME NEW f PROVE f \in Files(e) <=> f \in Files(d)
  <2>1. f \in Files(e) <=> \E k \in DOMAIN e : \E i \in SlotsOf(e, k) : f = FileOf(e[k].slots[i])
    BY <1>1, InFiles
  <2>2. f \in Files(d) <=> \E k \in DOMAIN d : \E i \in SlotsOf(d, k) : f = FileOf(d[k].slots[i])
    BY InFiles
  <2> QED BY <1>1, <1>2, <1>3, <2>1, <2>2
<1>6. Total(e) = Total(d)
  <2>1. /\ Weight(d) \in Weights(Len(d)) /\ Weight(e) \in Weights(new)
        /\ \A k \in 1 .. Len(d) : Weight(d)[k] = Bytes(d[k].slots)
        /\ \A k \in 1 .. new : Weight(e)[k] = Bytes(e[k].slots)
        /\ Total(d) \in Nat
    BY <1>1, BlockWeights
  <2>2. new \in 1 .. new /\ new \in Nat /\ new - 1 = Len(d) /\ Len(d) <= new /\ Len(d) <= Len(d)
    BY <1>1 DEF new
  <2>3. Weight(e)[new] = 0
    BY <1>1, <2>1, <2>2, BytesOfNone
  <2>4. SumTo(Weight(e), new) = SumTo(Weight(e), Len(d)) + Weight(e)[new]
    BY <2>1, <2>2, SumSteps
  <2>5. \A k \in 1 .. Len(d) : Weight(e)[k] = Weight(d)[k]
    BY <1>1, <2>1, <2>2
  <2>6. SumTo(Weight(e), Len(d)) = SumTo(Weight(d), Len(d))
    BY <1>1, <2>1, <2>2, <2>5, SumSame
  <2> QED BY <1>1, <2>1, <2>3, <2>4, <2>6 DEF Total
<1>7. Files(e) = Files(d)
  BY <1>5
<1> QED BY <1>4, <1>6, <1>7 DEF e

(* An entry with a new name goes behind those of block k. *)
LEMMA PutHolds ==
  ASSUME NEW d \in Seq(DirBlock), OneName(d), NEW k \in DOMAIN d, NEW b \in DirBlock,
         NEW x \in Entry, b.slots = Append(d[k].slots, x),
         \A f \in Files(d) : f.name # x.name
  PROVE  LET e == [d EXCEPT ![k] = b]
         IN  /\ OneName(e) /\ Files(e) = Files(d) \cup {FileOf(x)}
             /\ Total(e) = Total(d) + EntryLen[x.name]
<1> DEFINE e == [d EXCEPT ![k] = b]
           new == Len(d[k].slots) + 1
<1>1. d[k] \in DirBlock
  OBVIOUS
<1>2. d[k].slots \in Seq(Entry) /\ Len(d[k].slots) \in Nat
  BY <1>1, BlockSorts
<1>3. /\ e \in Seq(DirBlock) /\ DOMAIN e = DOMAIN d /\ e[k] = b
      /\ \A l \in DOMAIN d : l # k => e[l] = d[l]
      /\ Total(e) + Bytes(d[k].slots) = Total(d) + Bytes(b.slots)
  BY ChangedWeighs
<1> HIDE DEF e
<1>4. Total(e) = Total(d) + EntryLen[x.name]
  <2>1. Bytes(b.slots) = Bytes(d[k].slots) + EntryLen[x.name]
    BY <1>2, BytesAppended
  <2>2. Total(d) \in Nat /\ Total(e) \in Nat /\ Bytes(d[k].slots) \in Nat
    BY <1>2, <1>3, BlockWeights, LensAreWeights
  <2>3. EntryLen[x.name] \in Nat
    <3>1. x.name \in Name
      BY DEF Entry
    <3> QED BY <3>1, DirAssumption
  <2>4. Total(e) + Bytes(d[k].slots) = Total(d) + (Bytes(d[k].slots) + EntryLen[x.name])
    BY <1>3, <2>1
  <2>5. PICK p \in Nat, q \in Nat, r \in Nat, s \in Nat :
          p = Total(e) /\ q = Total(d) /\ r = Bytes(d[k].slots) /\ s = EntryLen[x.name]
    BY <2>2, <2>3
  <2>6. p + r = q + (r + s)
    BY <2>4, <2>5
  <2>7. p = q + s
    BY <2>6, Cancels
  <2> QED BY <2>5, <2>7
<1>5. /\ SlotsOf(e, k) = 1 .. new /\ e[k].slots[new] = x
      /\ \A i \in 1 .. new - 1 : e[k].slots[i] = d[k].slots[i]
      /\ SlotsOf(d, k) = 1 .. new - 1
  BY SMTT(40), <1>2, <1>3 DEF SlotsOf
<1>6. new \in Nat /\ new >= 1
  BY <1>2
<1> HIDE DEF new
<1>7. ASSUME NEW l \in DOMAIN e, NEW i \in SlotsOf(e, l), l # k \/ i # new
      PROVE  i \in SlotsOf(d, l) /\ e[l].slots[i] = d[l].slots[i]
  <2>1. CASE l # k
    BY <1>3, <2>1 DEF SlotsOf
  <2>2. CASE l = k
    <3>1. i \in 1 .. new - 1
      BY <1>5, <1>6, <1>7, <2>2
    <3> QED BY <1>5, <2>2, <3>1
  <2> QED BY <2>1, <2>2
<1>8. ASSUME NEW l \in DOMAIN d, NEW i \in SlotsOf(d, l)
      PROVE  i \in SlotsOf(e, l) /\ e[l].slots[i] = d[l].slots[i] /\ d[l].slots[i].name # x.name
  <2>1. FileOf(d[l].slots[i]) \in Files(d)
    BY InFiles
  <2>2. d[l].slots[i].name # x.name
    BY <2>1 DEF FileOf
  <2>3. CASE l # k
    BY <1>3, <2>2, <2>3 DEF SlotsOf
  <2>4. CASE l = k
    <3>1. i \in 1 .. new
      BY <1>5, <1>6, <2>4
    <3> QED BY <1>5, <2>2, <2>4, <3>1
  <2> QED BY <2>3, <2>4
<1>9. OneName(e)
  <2> SUFFICES ASSUME NEW l \in DOMAIN e, NEW m \in DOMAIN e,
                      NEW i \in SlotsOf(e, l), NEW j \in SlotsOf(e, m),
                      e[l].slots[i].name = e[m].slots[j].name
               PROVE  l = m /\ i = j
    BY DEF OneName
  <2>1. CASE l = k /\ i = new
    BY <1>3, <1>5, <1>7, <1>8, <2>1
  <2>2. CASE m = k /\ j = new
    BY SMTT(40), <1>3, <1>5, <1>7, <1>8, <2>2
  <2>3. CASE (l # k \/ i # new) /\ (m # k \/ j # new)
    BY <1>3, <1>7, <2>3 DEF OneName
  <2> QED BY <2>1, <2>2, <2>3
<1>10. Files(e) = Files(d) \cup {FileOf(x)}
  <2>1. ASSUME NEW f \in Files(e) PROVE f \in Files(d) \cup {FileOf(x)}
    <3>1. PICK l \in DOMAIN e : \E i \in SlotsOf(e, l) : f = FileOf(e[l].slots[i])
      BY <1>3, InFiles
    <3>2. PICK i \in SlotsOf(e, l) : f = FileOf(e[l].slots[i])
      BY <3>1
    <3>3. CASE l = k /\ i = new
      BY <1>5, <3>2, <3>3
    <3>4. CASE l # k \/ i # new
      BY <1>3, <1>7, <3>2, <3>4, InFiles
    <3> QED BY <3>3, <3>4
  <2>2. ASSUME NEW f \in Files(d) PROVE f \in Files(e)
    <3>1. PICK l \in DOMAIN d : \E i \in SlotsOf(d, l) : f = FileOf(d[l].slots[i])
      BY InFiles
    <3>2. PICK i \in SlotsOf(d, l) : f = FileOf(d[l].slots[i])
      BY <3>1
    <3>3. f = FileOf(e[l].slots[i]) /\ i \in SlotsOf(e, l)
      BY <1>8, <3>2
    <3> QED BY <1>3, <3>3, InFiles
  <2>3. FileOf(x) \in Files(e)
    <3>1. new \in SlotsOf(e, k)
      BY <1>5, <1>6
    <3> QED BY <1>3, <1>5, <3>1, InFiles
  <2> QED BY <2>1, <2>2, <2>3
<1> QED BY <1>4, <1>9, <1>10 DEF e

Removed(d, k, i) == [d EXCEPT ![k] = [d[k] EXCEPT !.slots = RemoveAt(@, i)]]

(* Entry i of block k is removed. *)
LEMMA RemovedHolds ==
  ASSUME NEW d \in Seq(DirBlock), OneName(d), NEW k \in DOMAIN d, NEW i \in SlotsOf(d, k)
  PROVE  LET e == Removed(d, k, i)
         IN  /\ OneName(e) /\ Files(e) = Files(d) \ {FileOf(d[k].slots[i])}
             /\ Total(e) = Total(d) - EntryLen[d[k].slots[i].name]
<1> DEFINE b == [d[k] EXCEPT !.slots = RemoveAt(@, i)]
           e == [d EXCEPT ![k] = b]
           moved(l, j) == IF l = k /\ j >= i THEN j + 1 ELSE j
           x == d[k].slots[i]
<1>1. d[k] \in DirBlock
  OBVIOUS
<1>2. d[k].slots \in Seq(Entry) /\ Len(d[k].slots) \in Nat /\ i \in 1 .. Len(d[k].slots)
  BY <1>1, BlockSorts DEF SlotsOf
<1>3. /\ b \in DirBlock /\ b.slots = RemoveAt(d[k].slots, i)
      /\ Len(b.slots) = Len(d[k].slots) - 1
      /\ \A j \in 1 .. Len(b.slots) : b.slots[j] = d[k].slots[IF j < i THEN j ELSE j + 1]
  BY <1>1, <1>2, RemovedGives
<1> HIDE DEF b
<1>4. /\ e \in Seq(DirBlock) /\ DOMAIN e = DOMAIN d /\ e[k] = b
      /\ \A l \in DOMAIN d : l # k => e[l] = d[l]
      /\ Total(e) + Bytes(d[k].slots) = Total(d) + Bytes(b.slots)
  BY <1>3, ChangedWeighs
<1> HIDE DEF e
<1>5. Total(e) = Total(d) - EntryLen[x.name]
  <2>1. Bytes(b.slots) + EntryLen[x.name] = Bytes(d[k].slots)
    BY <1>2, <1>3, BytesRemoved
  <2>2. b.slots \in Seq(Entry)
    BY <1>3, BlockSorts
  <2>3. /\ Total(d) \in Nat /\ Total(e) \in Nat
        /\ Bytes(d[k].slots) \in Nat /\ Bytes(b.slots) \in Nat
    BY <1>2, <1>4, <2>2, BlockWeights, LensAreWeights
  <2>4. EntryLen[x.name] \in Nat
    <3>1. x \in Entry
      BY <1>2
    <3>2. x.name \in Name
      BY <3>1 DEF Entry
    <3> QED BY <3>2, DirAssumption
  <2>5. Total(e) + Bytes(d[k].slots) = Total(d) + Bytes(b.slots)
    BY <1>4
  <2> HIDE DEF x, moved
  <2>6. PICK p \in Nat, q \in Nat, r \in Nat, s \in Nat :
          p = Total(e) /\ q = Total(d) /\ r = Bytes(b.slots) /\ s = EntryLen[x.name]
    BY <2>3, <2>4
  <2>7. q + r = p + (r + s)
    BY <2>1, <2>5, <2>6
  <2>8. q = p + s
    BY <2>7, Cancels
  <2>9. p = q - s
    BY <2>8
  <2> QED BY <2>6, <2>9
<1>6. /\ SlotsOf(e, k) = 1 .. Len(d[k].slots) - 1 /\ SlotsOf(d, k) = 1 .. Len(d[k].slots)
      /\ \A l \in DOMAIN d : l # k => SlotsOf(e, l) = SlotsOf(d, l)
  BY <1>3, <1>4 DEF SlotsOf
<1>7. ASSUME NEW l \in DOMAIN e, NEW j \in SlotsOf(e, l)
      PROVE  /\ moved(l, j) \in SlotsOf(d, l) /\ (l = k => moved(l, j) # i)
             /\ e[l].slots[j] = d[l].slots[moved(l, j)] /\ j \in Nat
  <2>1. CASE l # k
    BY <1>4, <1>6, <2>1 DEF SlotsOf
  <2>2. CASE l = k
    <3>1. j \in 1 .. Len(d[k].slots) - 1 /\ j \in 1 .. Len(b.slots)
      BY <1>3, <1>6, <2>2
    <3>2. moved(l, j) = IF j < i THEN j ELSE j + 1
      BY <1>2, <2>2, <3>1
    <3>3. e[l].slots[j] = d[k].slots[moved(l, j)]
      BY <1>3, <1>4, <2>2, <3>1, <3>2
    <3> QED BY <1>2, <1>6, <2>2, <3>1, <3>2, <3>3
  <2> QED BY <2>1, <2>2
<1>8. ASSUME NEW l \in DOMAIN d, NEW g \in SlotsOf(d, l), l # k \/ g # i
      PROVE  \E j \in SlotsOf(e, l) : moved(l, j) = g
  <2>1. CASE l # k
    BY <1>6, <2>1
  <2>2. CASE l = k
    <3> DEFINE j == IF g < i THEN g ELSE g - 1
    <3>1. g \in 1 .. Len(d[k].slots) /\ g # i
      BY <1>6, <1>8, <2>2
    <3>2. j \in 1 .. Len(d[k].slots) - 1 /\ moved(l, j) = g
      BY <1>2, <2>2, <3>1
    <3> QED BY <1>6, <2>2, <3>2
  <2> QED BY <2>1, <2>2
<1>9. ASSUME NEW l \in DOMAIN e, NEW j \in SlotsOf(e, l), NEW h \in SlotsOf(e, l),
             moved(l, j) = moved(l, h)
      PROVE  j = h
  <2>1. j \in Nat /\ h \in Nat
    BY <1>7
  <2> QED BY <1>2, <1>9, <2>1
<1> HIDE DEF moved
<1>10. OneName(e)
  <2> SUFFICES ASSUME NEW l \in DOMAIN e, NEW m \in DOMAIN e,
                      NEW j \in SlotsOf(e, l), NEW h \in SlotsOf(e, m),
                      e[l].slots[j].name = e[m].slots[h].name
               PROVE  l = m /\ j = h
    BY DEF OneName
  <2>1. d[l].slots[moved(l, j)].name = d[m].slots[moved(m, h)].name
    BY <1>7
  <2>2. /\ moved(l, j) \in SlotsOf(d, l) /\ moved(m, h) \in SlotsOf(d, m)
        /\ l \in DOMAIN d /\ m \in DOMAIN d
    BY <1>4, <1>7
  <2>3. l = m /\ moved(l, j) = moved(m, h)
    BY <2>1, <2>2 DEF OneName
  <2> QED BY <1>9, <2>3
<1>11. Files(e) = Files(d) \ {FileOf(x)}
  <2>1. ASSUME NEW f \in Files(e) PROVE f \in Files(d) /\ f # FileOf(x)
    <3>1. PICK l \in DOMAIN e : \E j \in SlotsOf(e, l) : f = FileOf(e[l].slots[j])
      BY <1>4, InFiles
    <3>2. PICK j \in SlotsOf(e, l) : f = FileOf(e[l].slots[j])
      BY <3>1
    <3>3. PICK g \in SlotsOf(d, l) : f = FileOf(d[l].slots[g]) /\ (l = k => g # i)
      BY <1>7, <3>2
    <3>4. l \in DOMAIN d
      BY <1>4
    <3>5. f \in Files(d)
      BY <3>3, <3>4, InFiles
    <3>6. d[l].slots[g].name # x.name
      BY <3>3, <3>4 DEF OneName
    <3> QED BY <3>3, <3>5, <3>6 DEF FileOf
  <2>2. ASSUME NEW f \in Files(d), f # FileOf(x) PROVE f \in Files(e)
    <3>1. PICK l \in DOMAIN d : \E g \in SlotsOf(d, l) : f = FileOf(d[l].slots[g])
      BY InFiles
    <3>2. PICK g \in SlotsOf(d, l) : f = FileOf(d[l].slots[g])
      BY <3>1
    <3>3. l # k \/ g # i
      BY <2>2, <3>2
    <3>4. PICK j \in SlotsOf(e, l) : moved(l, j) = g
      BY <1>8, <3>3
    <3>5. f = FileOf(e[l].slots[j])
      BY <1>4, <1>7, <3>2, <3>4
    <3> QED BY <1>4, <3>5, InFiles
  <2> HIDE DEF x
  <2> QED BY <2>1, <2>2
<1>12. e = Removed(d, k, i)
  BY DEF Removed, e, b
<1> QED BY <1>5, <1>10, <1>11, <1>12

(* Blocks without entries are cut out of the chain. *)
LEMMA CutHolds ==
  ASSUME NEW d \in Seq(DirBlock), OneName(d), NEW k \in DOMAIN d, NEW h \in 0 .. k - 1,
         \A l \in h + 1 .. k : d[l].slots = <<>>
  PROVE  LET e == SubSeq(d, 1, h) \o SubSeq(d, k + 1, Len(d))
         IN  OneName(e) /\ Files(e) = Files(d) /\ Total(e) = Total(d)
<1> DEFINE e == SubSeq(d, 1, h) \o SubSeq(d, k + 1, Len(d))
           B(l) == IF l <= h THEN l ELSE l - h + k
           n == Len(d)
           m == h + (n - k)
<1>1. /\ n \in Nat /\ k \in Nat /\ h \in Nat /\ k <= n /\ h < k /\ m \in Nat
      /\ DOMAIN d = 1 .. n /\ h \in 0 .. n /\ k \in h .. n
  OBVIOUS
<1>2. e \in Seq(DirBlock) /\ Len(e) = m /\ \A j \in 1 .. Len(e) : e[j] = d[B(j)]
  BY ZenonT(40), <1>1, CutOut
<1> HIDE DEF e
<1>3. DOMAIN e = 1 .. m
  BY <1>2
<1>4. ASSUME NEW l \in DOMAIN e
      PROVE  /\ l \in Nat /\ B(l) \in DOMAIN d /\ e[l] = d[B(l)]
             /\ SlotsOf(e, l) = SlotsOf(d, B(l))
  <2>1. l \in Nat /\ B(l) \in 1 .. n
    BY <1>1, <1>3
  <2>2. e[l] = d[B(l)]
    BY <1>2, <1>3
  <2> HIDE DEF B
  <2> QED BY <1>1, <2>1, <2>2 DEF SlotsOf
<1>5. ASSUME NEW l \in DOMAIN e, NEW j \in DOMAIN e, B(l) = B(j)
      PROVE  l = j
  <2>1. l \in Nat /\ j \in Nat
    BY <1>4
  <2> QED BY <1>1, <1>5, <2>1
<1>6. ASSUME NEW l \in DOMAIN d, NEW i \in SlotsOf(d, l)
      PROVE  \E j \in DOMAIN e : B(j) = l
  <2>1. l \notin h + 1 .. k
    <3>1. SlotsOf(d, l) # {}
      BY <1>6
    <3>2. d[l].slots # <<>>
      BY <3>1 DEF SlotsOf
    <3> QED BY <3>2
  <2> DEFINE j == IF l <= h THEN l ELSE l - k + h
  <2>2. j \in 1 .. m /\ B(j) = l
    BY <1>1, <2>1
  <2> QED BY <1>3, <2>2
<1>7. Total(e) = Total(d)
  <2>1. /\ Weight(d) \in Weights(n) /\ Weight(e) \in Weights(m)
        /\ \A j \in 1 .. n : Weight(d)[j] = Bytes(d[j].slots)
        /\ \A j \in 1 .. m : Weight(e)[j] = Bytes(e[j].slots)
    BY <1>2, BlockWeights
  <2>2. \A j \in h + 1 .. k : Weight(d)[j] = 0
    <3>1. \A j \in h + 1 .. k : j \in 1 .. n
      BY <1>1
    <3> QED BY <2>1, <3>1, BytesOfNone
  <2>3. \A j \in 1 .. m : Weight(e)[j] = Weight(d)[IF j <= h THEN j ELSE j - h + k]
    BY <1>1, <1>3, <1>4, <2>1
  <2> HIDE DEF n
  <2>4. SumTo(Weight(e), m) = SumTo(Weight(d), n)
    BY <1>1, <2>1, <2>2, <2>3, SumCut
  <2> QED BY <1>2, <2>4 DEF Total, n
<1> HIDE DEF B, m, n
<1>8. OneName(e)
  <2> SUFFICES ASSUME NEW l \in DOMAIN e, NEW g \in DOMAIN e,
                      NEW i \in SlotsOf(e, l), NEW j \in SlotsOf(e, g),
                      e[l].slots[i].name = e[g].slots[j].name
               PROVE  l = g /\ i = j
    BY DEF OneName
  <2>1. B(l) = B(g) /\ i = j
    BY <1>4 DEF OneName
  <2> QED BY <1>5, <2>1
<1>9. ASSUME NEW f PROVE f \in Files(e) <=> f \in Files(d)
  <2>1. ASSUME f \in Files(e) PROVE f \in Files(d)
    <3>1. PICK l \in DOMAIN e : \E j \in SlotsOf(e, l) : f = FileOf(e[l].slots[j])
      BY <1>2, <2>1, InFiles
    <3>2. \E j \in SlotsOf(d, B(l)) : f = FileOf(d[B(l)].slots[j])
      BY <1>4, <3>1
    <3> QED BY <1>4, <3>2, InFiles
  <2>2. ASSUME f \in Files(d) PROVE f \in Files(e)
    <3>1. PICK l \in DOMAIN d : \E j \in SlotsOf(d, l) : f = FileOf(d[l].slots[j])
      BY <2>2, InFiles
    <3>2. PICK j \in SlotsOf(d, l) : f = FileOf(d[l].slots[j])
      BY <3>1
    <3>3. PICK g \in DOMAIN e : B(g) = l
      BY <1>6
    <3>4. j \in SlotsOf(e, g) /\ f = FileOf(e[g].slots[j])
      BY <1>4, <3>2, <3>3
    <3> QED BY <1>2, <3>4, InFiles
  <2> QED BY <2>1, <2>2
<1>10. Files(e) = Files(d)
  BY <1>9
<1> QED BY <1>7, <1>8, <1>10 DEF e

Resized(d, k, i, s) == [d EXCEPT ![k].slots[i].size = s]

(* The size of entry i of block k is written. *)
LEMMA UpdatedHolds ==
  ASSUME NEW d \in Seq(DirBlock), OneName(d), NEW k \in DOMAIN d, NEW i \in SlotsOf(d, k),
         NEW s \in Size
  PROVE  LET u == Resized(d, k, i, s)
             x == d[k].slots[i]
         IN  /\ OneName(u) /\ Total(u) = Total(d)
             /\ Files(u) = (Files(d) \ {FileOf(x)}) \cup {[name |-> x.name, size |-> s]}
<1> DEFINE x == d[k].slots[i]
           y == [x EXCEPT !.size = s]
           slots == [d[k].slots EXCEPT ![i] = y]
           b == [d[k] EXCEPT !.slots = slots]
           e == [d EXCEPT ![k] = b]
<1>1. d[k] \in DirBlock
  OBVIOUS
<1>2. d[k].slots \in Seq(Entry) /\ Len(d[k].slots) \in Nat /\ i \in 1 .. Len(d[k].slots)
  BY <1>1, BlockSorts DEF SlotsOf
<1>3. x \in Entry
  BY <1>2
<1>4. y \in Entry /\ y.name = x.name /\ y.size = s
  BY <1>3 DEF Entry
<1> HIDE DEF y
<1>5. /\ slots \in Seq(Entry) /\ Len(slots) = Len(d[k].slots) /\ slots[i] = y
      /\ \A j \in 1 .. Len(d[k].slots) : j # i => slots[j] = d[k].slots[j]
  BY <1>2, <1>4
<1> HIDE DEF slots
<1>6. \A j \in 1 .. Len(slots) : slots[j].name = d[k].slots[j].name
  BY <1>4, <1>5
<1>7. Bytes(slots) = Bytes(d[k].slots)
  BY <1>2, <1>5, <1>6, BytesSame
<1>8. b \in DirBlock /\ b.slots = slots
  BY <1>1, <1>5 DEF DirBlock
<1> HIDE DEF b
<1>9. /\ e \in Seq(DirBlock) /\ DOMAIN e = DOMAIN d /\ e[k] = b
      /\ \A l \in DOMAIN d : l # k => e[l] = d[l]
      /\ Total(e) + Bytes(d[k].slots) = Total(d) + Bytes(b.slots)
  BY <1>8, ChangedWeighs
<1> HIDE DEF e
<1>10. Total(e) = Total(d)
  <2>1. Total(e) \in Nat /\ Total(d) \in Nat /\ Bytes(d[k].slots) \in Nat
    BY <1>2, <1>9, BlockWeights, LensAreWeights
  <2>2. Total(e) + Bytes(d[k].slots) = Total(d) + Bytes(d[k].slots)
    BY <1>7, <1>8, <1>9
  <2> QED BY <2>1, <2>2
<1>11. ASSUME NEW l \in DOMAIN d
       PROVE  SlotsOf(e, l) = SlotsOf(d, l) /\
              \A j \in SlotsOf(d, l) :
                /\ e[l].slots[j].name = d[l].slots[j].name
                /\ (l # k \/ j # i => e[l].slots[j] = d[l].slots[j])
  BY <1>5, <1>6, <1>8, <1>9 DEF SlotsOf
<1>12. OneName(e)
  BY <1>9, <1>11 DEF OneName
<1>13. e[k].slots[i] = y /\ FileOf(y) = [name |-> x.name, size |-> s]
  BY <1>4, <1>5, <1>8, <1>9 DEF FileOf
<1> HIDE DEF x
<1>14. ASSUME NEW f \in Files(e)
       PROVE  f \in (Files(d) \ {FileOf(x)}) \cup {FileOf(y)}
  <2>1. PICK l \in DOMAIN e : \E j \in SlotsOf(e, l) : f = FileOf(e[l].slots[j])
    BY <1>9, InFiles
  <2>2. PICK j \in SlotsOf(e, l) : f = FileOf(e[l].slots[j])
    BY <2>1
  <2>3. CASE l = k /\ j = i
    BY <1>13, <2>2, <2>3
  <2>4. CASE l # k \/ j # i
    <3>1. l \in DOMAIN d /\ j \in SlotsOf(d, l) /\ f = FileOf(d[l].slots[j])
      BY <1>9, <1>11, <2>2, <2>4
    <3>2. f \in Files(d)
      BY <3>1, InFiles
    <3>3. d[l].slots[j].name # x.name
      BY <2>4, <3>1 DEF OneName, x
    <3> QED BY <3>1, <3>2, <3>3 DEF FileOf
  <2> QED BY <2>3, <2>4
<1>15. ASSUME NEW f \in Files(d), f # FileOf(x) PROVE f \in Files(e)
  <2>1. PICK l \in DOMAIN d : \E j \in SlotsOf(d, l) : f = FileOf(d[l].slots[j])
    BY InFiles
  <2>2. PICK j \in SlotsOf(d, l) : f = FileOf(d[l].slots[j])
    BY <2>1
  <2>3. l # k \/ j # i
    BY <1>15, <2>2 DEF x
  <2>4. j \in SlotsOf(e, l) /\ f = FileOf(e[l].slots[j])
    BY <1>11, <2>2, <2>3
  <2> QED BY <1>9, <2>4, InFiles
<1>16. FileOf(y) \in Files(e)
  BY <1>9, <1>11, <1>13, InFiles
<1>17. Files(e) = (Files(d) \ {FileOf(x)}) \cup {FileOf(y)}
  BY <1>14, <1>15, <1>16
<1>18. e = Resized(d, k, i, s)
  BY DEF Resized, e, b, slots, y, x
<1> QED BY <1>10, <1>12, <1>13, <1>17, <1>18 DEF x

(* No block of d is filled to its last byte: every entry is read.          *)
Roomy(d) == \A k \in DOMAIN d : Bytes(d[k].slots) # Cap
NoneFull == Roomy(dir)

LEMMA AllIsSeen ==
  ASSUME NEW d \in Seq(DirBlock), Roomy(d)
  PROVE  /\ \A k \in DOMAIN d : Seen(d[k]) = d[k].slots
         /\ SumSeen(d) = Total(d)
<1>1. \A k \in DOMAIN d : Seen(d[k]) = d[k].slots
  BY DEF Roomy, Seen
<1>2. [k \in DOMAIN d |-> Bytes(Seen(d[k]))] = Weight(d)
  BY <1>1 DEF Weight
<1> QED BY <1>1, <1>2 DEF SumSeen, Total

LEMMA ListingIsFiles ==
  ASSUME NEW d \in Seq(DirBlock), Roomy(d)
  PROVE  UNION {{[name |-> e.name, size |-> e.size] : e \in Range(Seen(d[k]))}
                  : k \in DOMAIN d} = Files(d)
<1>1. \A k \in DOMAIN d : Seen(d[k]) = d[k].slots
  BY AllIsSeen
<1> DEFINE G(k) == {[name |-> e.name, size |-> e.size] : e \in Range(Seen(d[k]))}
<1>2. ASSUME NEW k \in DOMAIN d
      PROVE  G(k) = {FileOf(e) : e \in Range(d[k].slots)}
  BY <1>1 DEF FileOf
<1>3. Files(d) = UNION {G(k) : k \in DOMAIN d}
  <2> HIDE DEF G
  <2> QED BY <1>2 DEF Files
<1> QED BY <1>3

(* The entry that Dir::find comes to has the name that is looked for.      *)
LEMMA PlaceHasName ==
  ASSUME dir \in Seq(DirBlock), NEW n, Found(n)
  PROVE  dir[Place(n)[1]].slots[Place(n)[2]].name = n
<1> DEFINE at(k)    == {i \in DOMAIN Seen(dir[k]) : dir[k].slots[i].name = n}
           least(S) == CHOOSE i \in S : \A j \in S : i <= j
           holding  == {k \in DOMAIN dir : at(k) # {}}
<1>1. holding # {} /\ holding \in SUBSET Nat
  BY DEF Found
<1>2. least(holding) \in holding
  BY <1>1, LeastOf
<1>3. ASSUME NEW k \in DOMAIN dir, at(k) # {}
      PROVE  dir[k].slots[least(at(k))].name = n
  <2>1. dir[k] \in DirBlock
    OBVIOUS
  <2>2. DOMAIN Seen(dir[k]) = 1 .. Len(Seen(dir[k]))
    BY <2>1, SeenIsFirst
  <2>3. at(k) \in SUBSET Nat
    BY <2>2
  <2>4. least(at(k)) \in at(k)
    <3> HIDE DEF at
    <3> QED BY <1>3, <2>3, LeastOf
  <2> QED BY <2>4
<1>4. least(holding) \in DOMAIN dir /\ at(least(holding)) # {}
  BY <1>2
<1>5. Place(n)[1] = least(holding) /\ Place(n)[2] = least(at(least(holding)))
  BY DEF Place
<1> HIDE DEF at, holding, least
<1> QED BY <1>3, <1>4, <1>5

LEMMA FoundInFiles ==
  ASSUME dir \in Seq(DirBlock), NoneFull, NEW n
  PROVE  Found(n) <=> \E f \in Files(dir) : f.name = n
<1>1. \A k \in DOMAIN dir : DOMAIN Seen(dir[k]) = SlotsOf(dir, k)
  <2> SUFFICES ASSUME NEW k \in DOMAIN dir PROVE DOMAIN Seen(dir[k]) = SlotsOf(dir, k)
    OBVIOUS
  <2>1. dir[k] \in DirBlock /\ Seen(dir[k]) = dir[k].slots
    BY AllIsSeen DEF NoneFull
  <2> QED BY <2>1, SeenIsFirst DEF SlotsOf
<1>2. Found(n) <=> \E k \in DOMAIN dir : \E i \in SlotsOf(dir, k) : dir[k].slots[i].name = n
  BY <1>1 DEF Found
<1>3. ASSUME NEW f \in Files(dir), f.name = n PROVE Found(n)
  <2>1. \E k \in DOMAIN dir : \E i \in SlotsOf(dir, k) : f = FileOf(dir[k].slots[i])
    BY InFiles
  <2> QED BY <1>2, <1>3, <2>1 DEF FileOf
<1>4. ASSUME Found(n) PROVE \E f \in Files(dir) : f.name = n
  <2>1. PICK k \in DOMAIN dir : \E i \in SlotsOf(dir, k) : dir[k].slots[i].name = n
    BY <1>2, <1>4
  <2>2. PICK i \in SlotsOf(dir, k) : dir[k].slots[i].name = n
    BY <2>1
  <2>3. FileOf(dir[k].slots[i]) \in Files(dir)
    BY InFiles
  <2> QED BY <2>2, <2>3 DEF FileOf
<1> QED BY <1>3, <1>4

(***************************************************************************)
(* The steps                                                               *)
(***************************************************************************)

NameInv == DirInv /\ OneName(dir)
RefInv == NameInv /\ size = Total(dir)


LEMMA StoreStarts == Init /\ NoneFull => RefInv /\ Store!Init
<1> SUFFICES ASSUME Init, NoneFull PROVE RefInv /\ Store!Init
  OBVIOUS
<1>1. DirInv
  BY DirStarts
<1> DEFINE a == next_free_addr(Blocks)
<1>2. a \in Blocks
  BY NextFreeIsFree, DirAssumption
<1>3. dir = <<DirBlockAt(a)>>
  BY <1>2 DEF Init
<1> HIDE DEF a
<1>4. dir \in Seq(DirBlock) /\ DOMAIN dir = {1} /\ Len(dir) = 1 /\ dir[1].slots = <<>>
  BY <1>2, <1>3, NewBlock
<1>5. SlotsOf(dir, 1) = {}
  BY <1>4 DEF SlotsOf
<1>6. OneName(dir)
  BY <1>4, <1>5 DEF OneName
<1>7. Total(dir) = 0
  <2>1. Weight(dir) \in Weights(1) /\ Weight(dir)[1] = 0
    BY <1>4, BlockWeights, BytesOfNone
  <2>2. 1 \in 1 .. 1 /\ 1 \in Nat /\ 1 - 1 = 0
    OBVIOUS
  <2>3. SumTo(Weight(dir), 1) = SumTo(Weight(dir), 0) + Weight(dir)[1] /\ SumTo(Weight(dir), 0) = 0
    BY <2>1, <2>2, SumSteps
  <2> QED BY <1>4, <2>1, <2>3 DEF Total
<1>8. Files(dir) = {}
  BY <1>4, <1>5, InFiles
<1>9. Listing = {}
  BY <1>4, <1>8, ListingIsFiles DEF NoneFull, Listing
<1> QED BY <1>1, <1>6, <1>7, <1>9 DEF RefInv, NameInv, Init, Store!Init

LEMMA StateShows ==
  ASSUME NameInv, NoneFull
  PROVE  /\ dir \in Seq(DirBlock) /\ OneName(dir)
         /\ Listing = Files(dir)
         /\ \A k \in DOMAIN dir : Seen(dir[k]) = dir[k].slots
<1>1. dir \in Seq(DirBlock) /\ Roomy(dir)
  BY DEF NameInv, DirInv, NoneFull
<1>2. Listing = Files(dir)
  BY <1>1, ListingIsFiles DEF Listing
<1> QED BY <1>1, <1>2, AllIsSeen DEF NameInv

LEMMA NextShows ==
  ASSUME NoneFull', DirInv'
  PROVE  Listing' = Files(dir') /\ SumSeen(dir') = Total(dir')
<1>1. dir' \in Seq(DirBlock) /\ Roomy(dir')
  BY DEF DirInv, NoneFull
<1> QED BY <1>1, ListingIsFiles, AllIsSeen DEF Listing

LEMMA CreateAdds ==
  ASSUME NameInv, NoneFull, NEW n \in Name, Create(n)
  PROVE  /\ OneName(dir') /\ Files(dir') = Files(dir) \cup {Store!File(n, 0)}
         /\ Total(dir') = Total(dir) + EntryLen[n]
         /\ \A f \in Files(dir) : f.name # n
<1>1. DirInv
  BY DEF NameInv
<1>2. /\ dir \in Seq(DirBlock) /\ OneName(dir)
      /\ \A k \in DOMAIN dir : Seen(dir[k]) = dir[k].slots
  BY StateShows
<1>3. \A f \in Files(dir) : f.name # n
  BY <1>2, FoundInFiles DEF Create
<1>4. FirstFree \in Blocks /\ (Spot(n) > Len(dir) => ThenFree \in Blocks)
  <2>1. Free # {} /\ (Spot(n) > Len(dir) => Free \ {FirstFree} # {}) /\ Free \subseteq Blocks
    <3>1. FirstFree \in Free /\ Free # {}
      BY NextFreeIsFree DEF Create, FirstFree, Free
    <3> QED BY <3>1 DEF Create, Free
  <2> QED BY <2>1, NextFreeIsFree DEF FirstFree, ThenFree
<1>5. Spot(n) \in 1 .. Len(dir) + 1 /\ Len(dir) \in Nat
  BY <1>1, SpotIsThere DEF DirInv
<1> DEFINE grown == IF Spot(n) > Len(dir) THEN Append(dir, DirBlockAt(FirstFree)) ELSE dir
           addr  == IF Spot(n) > Len(dir) THEN ThenFree ELSE FirstFree
           x     == [name |-> n, addr |-> addr, size |-> 0]
           b     == Put(grown[Spot(n)], n, addr)
<1>6. /\ grown \in Seq(DirBlock) /\ Spot(n) \in DOMAIN grown
      /\ OneName(grown) /\ Files(grown) = Files(dir) /\ Total(grown) = Total(dir)
      /\ Seen(grown[Spot(n)]) = grown[Spot(n)].slots
  <2>1. CASE Spot(n) > Len(dir)
    <3>1. /\ grown = Append(dir, DirBlockAt(FirstFree)) /\ Spot(n) = Len(dir) + 1
          /\ grown[Spot(n)] = DirBlockAt(FirstFree)
          /\ DirBlockAt(FirstFree) \in DirBlock /\ DirBlockAt(FirstFree).slots = <<>>
      BY <1>2, <1>4, <1>5, <2>1, NewBlock
    <3> HIDE DEF grown
    <3>2. /\ Seen(DirBlockAt(FirstFree)) \in Seq(Entry)
          /\ Len(Seen(DirBlockAt(FirstFree))) <= Len(<<>>)
      BY <3>1, SeenIsFirst
    <3>3. Seen(DirBlockAt(FirstFree)) = <<>>
      BY <3>2
    <3>4. OneName(grown) /\ Files(grown) = Files(dir) /\ Total(grown) = Total(dir)
      BY <1>2, <1>4, <3>1, GrownHolds
    <3> QED BY <1>2, <1>5, <3>1, <3>3, <3>4
  <2>2. CASE ~(Spot(n) > Len(dir))
    BY <1>2, <1>5, <2>2
  <2> QED BY <2>1, <2>2
<1>7. dir' = [grown EXCEPT ![Spot(n)] = b]
  BY DEF Create
<1>8. addr \in Blocks
  BY <1>4
<1> HIDE DEF addr
<1>9. x \in Entry
  BY <1>8, DirAssumption DEF Entry
<1>10. b \in DirBlock /\ b.slots = Append(grown[Spot(n)].slots, x)
  <2>1. grown[Spot(n)] \in DirBlock
    BY <1>6
  <2> QED BY <1>6, <1>8, <2>1, PutGives
<1> HIDE DEF grown, b
<1>11. x.name = n /\ FileOf(x) = Store!File(n, 0)
  BY DEF FileOf, Store!File
<1> HIDE DEF x
<1>12. /\ OneName(dir') /\ Files(dir') = Files(dir) \cup {FileOf(x)}
       /\ Total(dir') = Total(dir) + EntryLen[n]
  <2>1. \A f \in Files(grown) : f.name # x.name
    BY <1>3, <1>6, <1>11
  <2>2. LET e == [grown EXCEPT ![Spot(n)] = b]
        IN  /\ OneName(e) /\ Files(e) = Files(grown) \cup {FileOf(x)}
            /\ Total(e) = Total(grown) + EntryLen[x.name]
    BY ZenonT(40), <1>6, <1>9, <1>10, <2>1, PutHolds
  <2> QED BY <1>6, <1>7, <1>11, <2>2
<1> QED BY <1>3, <1>11, <1>12

LEMMA DeleteTakes ==
  ASSUME NameInv, NoneFull, NEW n \in Name, Delete(n)
  PROVE  /\ OneName(dir') /\ Total(dir') = Total(dir) - EntryLen[n]
         /\ \E f \in Files(dir) : f.name = n /\ Files(dir') = Files(dir) \ {f}
<1>2. /\ dir \in Seq(DirBlock) /\ OneName(dir)
      /\ \A k \in DOMAIN dir : Seen(dir[k]) = dir[k].slots
  BY StateShows
<1> DEFINE k == Place(n)[1]
           i == Place(n)[2]
           x == dir[k].slots[i]
           left == [dir[k] EXCEPT !.slots = RemoveAt(@, i)]
           e == [dir EXCEPT ![k] = left]
           prev == {j \in 1 .. k - 1 : Seen(dir[j]) # <<>>}
           cut  == left.slots = <<>> /\ left.junk = 0 /\ prev # {}
           h == CHOOSE j \in prev : \A l \in prev : l <= j
<1>3. k \in DOMAIN dir /\ i \in SlotsOf(dir, k) /\ x.name = n
  BY <1>2, PlaceIsThere, PlaceHasName DEF Delete, SlotsOf
<1>5. IF cut THEN dir' = SubSeq(dir, 1, h) \o SubSeq(dir, k + 1, Len(dir)) ELSE dir' = e
  BY DEF Delete
<1> HIDE DEF k, i
<1>4. e = Removed(dir, k, i)
  BY DEF Removed
<1>6. /\ OneName(e) /\ Files(e) = Files(dir) \ {FileOf(x)}
      /\ Total(e) = Total(dir) - EntryLen[n]
  <2> HIDE DEF e, left, prev, cut
  <2> QED BY <1>2, <1>3, <1>4, RemovedHolds
<1>7. left \in DirBlock
  <2>1. dir[k] \in DirBlock
    BY <1>2, <1>3
  <2> QED BY <1>3, <2>1, RemovedGives DEF SlotsOf
<1> HIDE DEF left
<1>8. /\ e \in Seq(DirBlock) /\ Len(e) = Len(dir) /\ e[k] = left
      /\ \A l \in DOMAIN dir : l # k => e[l] = dir[l]
  BY <1>2, <1>3, <1>7
<1> HIDE DEF e
<1>9. OneName(dir') /\ Files(dir') = Files(e) /\ Total(dir') = Total(e)
  <2>1. CASE ~cut
    BY <1>5, <1>6, <2>1
  <2>2. CASE cut
    <3>1. k \in 1 .. Len(dir) /\ Len(dir) \in Nat /\ k - 1 \in Nat
      BY <1>2, <1>3
    <3>2. prev \in SUBSET Nat /\ prev # {} /\ \A j \in prev : j <= k - 1
      BY <2>2, <3>1
    <3>3. h \in prev /\ \A l \in prev : l <= h
      <4> HIDE DEF prev
      <4>1. PICK top \in Nat : top = k - 1
        BY <3>1
      <4>2. \A j \in prev : j <= top
        BY <3>2, <4>1
      <4>3. \E j \in prev : \A l \in prev : l <= j
        BY <3>2, <4>2, GreatestOf
      <4> QED BY <4>3
    <3> HIDE DEF h
    <3>4. h \in 1 .. k - 1 /\ h \in 0 .. k - 1
      BY <3>1, <3>3
    <3>5. ASSUME NEW l \in h + 1 .. k PROVE e[l].slots = <<>>
      <4>1. CASE l = k
        BY <1>8, <2>2, <4>1
      <4>2. CASE l # k
        <5>1. l \in 1 .. k - 1 /\ ~(l <= h) /\ l \in DOMAIN dir
          BY <1>2, <3>1, <3>4, <4>2
        <5>2. Seen(dir[l]) = <<>>
          BY <3>3, <5>1
        <5> QED BY <1>2, <1>8, <4>2, <5>1, <5>2
      <4> QED BY <4>1, <4>2
    <3>6. k \in DOMAIN e
      BY <1>8, <3>1
    <3>7. SubSeq(e, 1, h) = SubSeq(dir, 1, h)
      BY <1>2, <1>8, <3>1, <3>4
    <3>8. SubSeq(e, k + 1, Len(e)) = SubSeq(dir, k + 1, Len(dir))
      <4>1. \A j \in k + 1 .. Len(dir) : e[j] = dir[j]
        BY <1>2, <1>8, <3>1
      <4> HIDE DEF x, cut, prev
      <4> QED BY <1>8, <3>1, <4>1
    <3>9. dir' = SubSeq(e, 1, h) \o SubSeq(e, k + 1, Len(e))
      BY <1>5, <2>2, <3>7, <3>8
    <3> QED BY <1>6, <1>8, <3>4, <3>5, <3>6, <3>9, CutHolds
  <2> QED BY <2>1, <2>2
<1>10. FileOf(x) \in Files(dir) /\ FileOf(x).name = n
  <2>1. FileOf(x) \in Files(dir)
    BY <1>2, <1>3, InFiles
  <2> QED BY <1>3, <2>1 DEF FileOf
<1> HIDE DEF x
<1> QED BY <1>6, <1>9, <1>10

LEMMA UpdateSets ==
  ASSUME NameInv, NoneFull, NEW n \in Name, NEW s \in Size, Update(n, s)
  PROVE  /\ OneName(dir') /\ Total(dir') = Total(dir)
         /\ \E f \in Files(dir) :
              f.name = n /\ Files(dir') = (Files(dir) \ {f}) \cup {Store!File(n, s)}
<1>1. dir \in Seq(DirBlock) /\ OneName(dir)
  BY StateShows
<1> DEFINE k == Place(n)[1]
           i == Place(n)[2]
           x == dir[k].slots[i]
<1>2. k \in DOMAIN dir /\ i \in SlotsOf(dir, k) /\ x.name = n
  BY <1>1, PlaceIsThere, PlaceHasName DEF Update, SlotsOf
<1>3. dir' = Resized(dir, k, i, s)
  BY DEF Update, Resized
<1> HIDE DEF k, i
<1>4. /\ OneName(dir') /\ Total(dir') = Total(dir)
      /\ Files(dir') = (Files(dir) \ {FileOf(x)}) \cup {[name |-> x.name, size |-> s]}
  BY <1>1, <1>2, <1>3, UpdatedHolds
<1>5. FileOf(x) \in Files(dir) /\ FileOf(x).name = n
  <2>1. FileOf(x) \in Files(dir)
    BY <1>1, <1>2, InFiles
  <2> QED BY <1>2, <2>1 DEF FileOf
<1> HIDE DEF x
<1> QED BY <1>2, <1>4, <1>5 DEF Store!File

LEMMA FailureLeaves ==
  ASSUME NameInv, NoneFull, NEW n \in Name, CreateFails(n)
  PROVE  OneName(dir') /\ Files(dir') = Files(dir) /\ Total(dir') = Total(dir)
<1>1. dir \in Seq(DirBlock) /\ OneName(dir)
  BY StateShows
<1>2. CASE dir' = dir
  BY <1>1, <1>2
<1>3. CASE Free # {} /\ dir' = Append(dir, DirBlockAt(FirstFree))
  <2>1. FirstFree \in Blocks
    BY <1>3, NextFreeIsFree DEF FirstFree, Free
  <2> QED BY <1>1, <1>3, <2>1, GrownHolds
<1> QED BY <1>2, <1>3 DEF CreateFails

(* As long as no block of it is filled to its last byte, a directory is the  *)
(* map from names to entries its callers take it for: whatever is created,   *)
(* written and deleted, in however many blocks, and cut out of them          *)
(* (dir.rs 90-283).                                                          *)
THEOREM Implements == Spec /\ []NoneFull => ImplementsDirStore
<1>1. RefInv /\ NoneFull /\ NoneFull' /\ [Next]_vars => RefInv' /\ [Store!Next]_(Store!vars)
  <2> SUFFICES ASSUME RefInv, NoneFull, NoneFull', [Next]_vars
               PROVE  RefInv' /\ [Store!Next]_(Store!vars)
    OBVIOUS
  <2>1. DirInv'
    BY StepKeeps DEF RefInv, NameInv
  <2>2. /\ size = Total(dir) /\ Listing = Files(dir)
        /\ Listing' = Files(dir') /\ SumSeen(dir') = Total(dir')
    BY <2>1, StateShows, NextShows DEF RefInv
  <2>3. ASSUME NEW n \in Name, Create(n) PROVE RefInv' /\ Store!Next
    <3>1. size' = SumSeen(dir') /\ reply' = TRUE
      BY <2>3 DEF Create
    <3>2. RefInv' /\ Store!Create(n)
      BY <2>1, <2>2, <2>3, <3>1, CreateAdds DEF RefInv, NameInv, Store!Create
    <3> QED BY <3>2 DEF Store!Next
  <2>4. ASSUME NEW n \in Name, Delete(n) PROVE RefInv' /\ Store!Next
    <3>1. size' = SumSeen(dir') /\ reply' = TRUE
      BY <2>4 DEF Delete
    <3>2. RefInv' /\ Store!Delete(n)
      BY <2>1, <2>2, <2>4, <3>1, DeleteTakes DEF RefInv, NameInv, Store!Delete
    <3> QED BY <3>2 DEF Store!Next
  <2>5. ASSUME NEW n \in Name, NEW s \in Size, Update(n, s) PROVE RefInv' /\ Store!Next
    <3>1. size' = size /\ reply' = reply
      BY <2>5 DEF Update
    <3>2. RefInv' /\ Store!Update(n, s)
      BY <2>1, <2>2, <2>5, <3>1, UpdateSets DEF RefInv, NameInv, Store!Update
    <3> QED BY <3>2 DEF Store!Next
  <2>6. ASSUME NEW n \in Name, CreateFails(n) PROVE RefInv' /\ Store!Next
    <3>1. size' = size /\ reply' = FALSE
      BY <2>6 DEF CreateFails
    <3>2. RefInv' /\ Store!Refuse
      BY <2>1, <2>2, <2>6, <3>1, FailureLeaves DEF RefInv, NameInv, Store!Refuse
    <3> QED BY <3>2 DEF Store!Next
  <2>7. ASSUME NEW n \in Name, DeleteFails(n) PROVE RefInv' /\ Store!Next
    <3>1. dir' = dir /\ size' = size /\ reply' = FALSE
      BY <2>7 DEF DeleteFails
    <3>2. RefInv' /\ Store!Refuse
      BY <2>1, <2>2, <3>1 DEF RefInv, NameInv, Store!Refuse
    <3> QED BY <3>2 DEF Store!Next
  <2>8. CASE UNCHANGED vars
    <3>1. dir' = dir /\ size' = size /\ reply' = reply
      BY <2>8 DEF vars
    <3> QED BY <2>1, <2>2, <3>1 DEF RefInv, NameInv, Store!vars
  <2> QED BY <2>3, <2>4, <2>5, <2>6, <2>7, <2>8 DEF Next
<1> QED BY <1>1, StoreStarts, PTL DEF Spec, ImplementsDirStore, Store!Spec

(* No entries with different names fill a block to its last byte.            *)
NeverFull ==
  \A s \in Seq(Entry) :
    (\A i, j \in 1 .. Len(s) : s[i].name = s[j].name => i = j) => Bytes(s) # Cap

(* Which no sizes of names allow for: then the directory always is that map. *)
COROLLARY AlwaysImplements == ASSUME NeverFull PROVE Spec => ImplementsDirStore
<1>1. ASSUME NEW d \in Seq(DirBlock), OneName(d) PROVE Roomy(d)
  <2> SUFFICES ASSUME NEW k \in DOMAIN d PROVE Bytes(d[k].slots) # Cap
    BY DEF Roomy
  <2>1. d[k] \in DirBlock
    OBVIOUS
  <2>2. d[k].slots \in Seq(Entry)
    BY <2>1, BlockSorts
  <2>3. \A i, j \in 1 .. Len(d[k].slots) : d[k].slots[i].name = d[k].slots[j].name => i = j
    BY <1>1 DEF OneName, SlotsOf
  <2> QED BY <2>2, <2>3 DEF NeverFull
<1>2. Init => NameInv
  <2> SUFFICES ASSUME Init PROVE DirInv /\ OneName(dir)
    BY DEF NameInv
  <2>1. DirInv /\ Len(dir) = 1 /\ dir[1].slots = <<>>
    BY DirStarts, NextFreeIsFree, NewBlock, DirAssumption DEF Init
  <2>2. DOMAIN dir = {1} /\ SlotsOf(dir, 1) = {}
    BY <2>1 DEF DirInv, SlotsOf
  <2> QED BY <2>1, <2>2 DEF OneName
<1>3. NameInv /\ [Next]_vars => NameInv'
  <2> SUFFICES ASSUME NameInv, [Next]_vars PROVE OneName(dir')
    BY StepKeeps DEF NameInv
  <2>1. NoneFull
    BY <1>1 DEF NameInv, DirInv, NoneFull
  <2>2. OneName(dir)
    BY DEF NameInv
  <2>3. ASSUME NEW n \in Name, Create(n) \/ Delete(n) \/ CreateFails(n) \/ DeleteFails(n)
        PROVE  OneName(dir')
    BY <2>1, <2>2, <2>3, CreateAdds, DeleteTakes, FailureLeaves DEF DeleteFails
  <2>4. ASSUME NEW n \in Name, NEW s \in Size, Update(n, s) PROVE OneName(dir')
    BY <2>1, <2>4, UpdateSets
  <2> QED BY <2>2, <2>3, <2>4 DEF Next, vars
<1>4. NameInv => NoneFull
  BY <1>1 DEF NameInv, DirInv, NoneFull
<1> QED BY <1>2, <1>3, <1>4, Implements, PTL DEF Spec
=============================================================================
