------------------------------ MODULE MallocProofs ------------------------------
(***************************************************************************)
(* The allocator of mm.c under the requests of mdriver.c, for any size of  *)
(* the heap and of its extensions, any word sizes, both builds, and any    *)
(* trace: blocks cover the heap, the client's are apart and keep their     *)
(* data.                                                                   *)
(*                                                                         *)
(* A layout gives the blocks without the walk over their headers: B, the   *)
(* block pointers, and for each its size s[b] and whether it is allocated, *)
(* a[b].                                                                   *)
(***************************************************************************)
EXTENDS MallocDriver, NumberLemmas, FiniteSetTheorems, TLAPS

Top == MemHeap + MaxHeap
Listp == MemHeap + DSIZE

Memories == [heap : [Words -> Nat], brk : Nat, listp : Int, rover : Int, nextFit : BOOLEAN]

(* The blocks from the prologue on, one behind the other up to hi.         *)
Layout(B, s, hi) ==
    /\ hi \in Nat /\ hi <= Top
    /\ Listp \in B /\ s[Listp] = DSIZE
    /\ \A b \in B : /\ b \in Nat /\ b % 8 = 0 /\ b >= Listp
                    /\ s[b] \in Nat /\ s[b] % 8 = 0 /\ s[b] >= 8 /\ (b /= Listp => s[b] >= 16)
                    /\ b + s[b] \in B \cup {hi} /\ b + s[b] <= hi
    /\ \A b, c \in B : b < c => b + s[b] <= c
    /\ \A c \in B \cup {hi} : c = Listp \/ \E b \in B : b + s[b] = c

(* Headers and footers say what the layout says, and the epilogue is there. *)
Tagged(m, B, s, a) ==
    /\ \A b \in B : /\ a[b] \in {0, 1}
                    /\ Get(m, b - 4) = s[b] + a[b] /\ Get(m, b + s[b] - 8) = s[b] + a[b]
    /\ a[Listp] = 1
    /\ Get(m, m.brk - 4) = 1

Shaped(m, B, s, a) == /\ m \in Memories /\ m.listp = Listp
                      /\ Layout(B, s, m.brk) /\ Tagged(m, B, s, a)

RoverIn(m, B) == m.nextFit => m.rover \in B

(* Free blocks that are neighbours are allowed at X only.                  *)
Apart(B, s, a, X) ==
    \A b \in B, e \in B : e = b + s[b] /\ a[b] = 0 /\ a[e] = 0 => b \in X \/ e \in X

(* Between two states of the heap, the allocated blocks other than those   *)
(* of X are the same, of the same size, and with the same payload.         *)
SamePayload(m, m2, b, size) ==
    \A w \in Int : b <= w /\ w < b + size - 8 => Get(m2, w) = Get(m, w)

Kept(m, B, s, a, m2, B2, s2, a2, X) ==
    /\ \A b \in B \ X : a[b] = 1 => /\ b \in B2 /\ a2[b] = 1 /\ s2[b] = s[b]
                                   /\ SamePayload(m, m2, b, s[b])
    /\ \A b \in B2 \ X : a2[b] = 1 => b \in B /\ a[b] = 1

--------------------------------------------------------------------------------
(* Words and tags *)

(* What the constants are. *)
LEMMA Numbers ==
  /\ MaxHeap \in Nat /\ MaxHeap % 8 = 0 /\ MaxHeap >= 32 /\ MemHeap = 16 /\ Listp = 24
  /\ Top = 16 + MaxHeap /\ WSIZE = 4 /\ DSIZE = 8 /\ NULL = 0 /\ Failed = -1
  /\ CHUNKSIZE \in Nat /\ CHUNKSIZE % 8 = 0 /\ CHUNKSIZE >= 16 /\ 16 + CHUNKSIZE <= MaxHeap
  /\ UintMod \in Nat /\ UintMod % 16 = 0 /\ 2 * MaxHeap < UintMod /\ 2 * CHUNKSIZE < UintMod
  /\ SizeMod \in Nat /\ SizeMod >= UintMod /\ SizeMod % UintMod = 0
  /\ \A size \in Sizes : size \in Nat /\ size > 0 /\ 2 * size < UintMod
  /\ Ids \subseteq Nat
<1> USE DEF WSIZE, DSIZE, MemHeap, NULL, Failed, Listp, Top
<1>1. /\ MaxHeap \in Nat /\ MaxHeap % 8 = 0 /\ CHUNKSIZE \in Nat /\ CHUNKSIZE % 8 = 0
      /\ CHUNKSIZE >= 16 /\ 16 + CHUNKSIZE <= MaxHeap /\ UintMod \in Nat /\ UintMod % 16 = 0
      /\ MaxHeap < UintMod \div 2 /\ CHUNKSIZE < UintMod \div 2 /\ SizeMod \in Nat /\ SizeMod /= 0
      /\ SizeMod % UintMod = 0 /\ Ids \subseteq Nat /\ Sizes \subseteq 1 .. UintMod \div 2 - 1
  BY HeapAssumption, DriverAssumption
<1>2. 2 * MaxHeap < UintMod /\ 2 * CHUNKSIZE < UintMod
  BY <1>1
<1>3. SizeMod >= UintMod
  <2>1. SizeMod = UintMod * (SizeMod \div UintMod) + 0 /\ SizeMod \div UintMod \in Nat
    BY <1>1, <1>2, DivMod
  <2>2. PICK q \in Nat : q = SizeMod \div UintMod
    BY <2>1
  <2>3. SizeMod = UintMod * q
    BY <1>1, <2>1, <2>2
  <2>4. q >= 1
    BY <1>1, <2>3
  <2>5. UintMod * (q - 1) >= 0
    BY <1>1, <2>4
  <2> QED BY <1>1, <2>3, <2>5
<1>4. ASSUME NEW size \in Sizes PROVE size \in Nat /\ size > 0 /\ 2 * size < UintMod
  <2>1. size \in 1 .. UintMod \div 2 - 1
    BY <1>1
  <2> QED BY <1>1, <2>1
<1> QED BY <1>1, <1>2, <1>3, <1>4

(* The words of the heap. *)
LEMMA InWords ==
  /\ \A p \in Int : p \in Words <=> p >= 16 /\ p < Top /\ p % 4 = 0
  /\ Words \subseteq Nat
<1>1. Words = {16 + 4 * k : k \in 0 .. MaxHeap \div 4 - 1}
  BY DEF Words, MemHeap, WSIZE
<1>2. ASSUME NEW p \in Int, p >= 16, p < Top, p % 4 = 0
      PROVE  p \in Words
  <2>1. PICK k \in Nat : p = 16 + 4 * k
    <3>1. p = 16 + 4 * ((p - 16) \div 4) /\ (p - 16) \div 4 \in Nat
      BY <1>2
    <3> QED BY <3>1
  <2>2. k \in 0 .. MaxHeap \div 4 - 1
    BY <1>2, <2>1, Numbers
  <2> QED BY <1>1, <2>1, <2>2
<1>3. ASSUME NEW p \in Words
      PROVE  p \in Nat /\ p >= 16 /\ p < Top /\ p % 4 = 0
  <2>1. PICK k \in 0 .. MaxHeap \div 4 - 1 : p = 16 + 4 * k
    BY <1>1
  <2> QED BY <2>1, Numbers
<1> QED BY <1>2, <1>3

(* A number below the modulus is its own remainder. *)
LEMMA SmallRemainder ==
  ASSUME NEW n \in Nat, n > 0, NEW v \in Nat, v < n
  PROVE  v % n = v
<1>1. v = n * (v \div n) + (v % n) /\ v \div n \in Nat /\ v % n \in 0 .. n - 1
  BY DivMod
<1>2. PICK q \in Nat, r \in 0 .. n - 1 : v = n * q + r /\ r = v % n
  BY <1>1
<1>3. q = 0
  <2>1. CASE q >= 1
    <3>1. n * (q - 1) >= 0
      BY <2>1
    <3> QED BY <1>2, <3>1
  <2> QED BY <2>1
<1> QED BY <1>2, <1>3

(* Writing a word changes that word. *)
LEMMA PutWrites ==
  ASSUME NEW m \in Memories, NEW p \in Words, NEW v \in Nat, v < UintMod
  PROVE  /\ Put(m, p, v) \in Memories
         /\ \A q \in Int : Get(Put(m, p, v), q) = IF q = p THEN v ELSE Get(m, q)
         /\ Put(m, p, v).brk = m.brk /\ Put(m, p, v).listp = m.listp
         /\ Put(m, p, v).rover = m.rover /\ Put(m, p, v).nextFit = m.nextFit
<1>1. v % UintMod = v
  BY Numbers, SmallRemainder
<1>2. Put(m, p, v) = [m EXCEPT !.heap[p] = v]
  BY <1>1 DEF Put
<1>3. m.heap \in [Words -> Nat]
  BY DEF Memories
<1>4. Put(m, p, v) \in Memories
  BY <1>2, <1>3 DEF Memories
<1>5. Put(m, p, v).heap = [m.heap EXCEPT ![p] = v]
  BY <1>2 DEF Memories
<1> QED BY <1>2, <1>3, <1>4, <1>5 DEF Memories, Get

(* The same, of the memory a write leaves. *)
Same(m, m2) == /\ m2 \in Memories /\ m2.brk = m.brk /\ m2.listp = m.listp
               /\ m2.rover = m.rover /\ m2.nextFit = m.nextFit

(* What PutWrites says, of the memory itself. *)
LEMMA PutSame ==
  ASSUME NEW m \in Memories, NEW p \in Words, NEW v \in Nat, v < UintMod, NEW m2, m2 = Put(m, p, v)
  PROVE  /\ Same(m, m2)
         /\ \A q \in Int : Get(m2, q) = IF q = p THEN v ELSE Get(m, q)
BY PutWrites DEF Same

(* A word is a natural number, and a tag is a size and a bit.              *)
LEMMA Words32 ==
  ASSUME NEW m \in Memories, NEW p \in Int
  PROVE  Get(m, p) \in Nat /\ GetSize(m, p) \in Nat /\ GetSize(m, p) % 8 = 0
         /\ GetAlloc(m, p) \in {0, 1}
<1>1. Get(m, p) \in Nat
  BY DEF Get, Memories
<1> QED BY <1>1 DEF GetSize, GetAlloc, DSIZE

(* The parts of a tag. *)
LEMMA TagParts ==
  ASSUME NEW m, NEW p, NEW n \in Nat, n % 8 = 0, NEW x \in {0, 1}, Get(m, p) = n + x
  PROVE  GetSize(m, p) = n /\ GetAlloc(m, p) = x
BY DEF GetSize, GetAlloc, DSIZE

(* The words of a block. *)
LEMMA BlockIn ==
  ASSUME NEW B, NEW s, NEW hi, Layout(B, s, hi), NEW b \in B
  PROVE  /\ b \in Nat /\ s[b] \in Nat /\ b >= 24 /\ s[b] >= 8 /\ b % 8 = 0 /\ s[b] % 8 = 0
         /\ b + s[b] <= hi /\ hi <= Top /\ hi \in Nat /\ hi % 8 = 0 /\ hi >= 32
         /\ b - 4 \in Words /\ b + s[b] - 8 \in Words /\ hi - 4 \in Words
         /\ b + s[b] < UintMod
<1>1. /\ b \in Nat /\ s[b] \in Nat /\ b >= 24 /\ s[b] >= 8 /\ b % 8 = 0 /\ s[b] % 8 = 0
      /\ b + s[b] <= hi /\ hi <= Top /\ hi \in Nat
  BY Numbers DEF Layout
<1>2. hi % 8 = 0
  <2>1. PICK c \in B : c + s[c] = hi
    BY <1>1, Numbers DEF Layout
  <2>2. PICK x \in Nat, y \in Nat : c = x /\ s[c] = y /\ x % 8 = 0 /\ y % 8 = 0
    BY DEF Layout
  <2>3. (x + y) % 8 = 0
    BY <2>2
  <2> QED BY <2>1, <2>2, <2>3
<1>3. b - 4 \in Words /\ b + s[b] - 8 \in Words /\ hi - 4 \in Words
  <2>1. PICK y \in Nat : y = s[b] /\ y % 8 = 0 /\ y >= 8 /\ b + y <= hi
    BY <1>1
  <2>2. /\ b - 4 \in Int /\ b - 4 >= 16 /\ b - 4 < Top /\ (b - 4) % 4 = 0
        /\ b + y - 8 \in Int /\ b + y - 8 >= 16 /\ b + y - 8 < Top /\ (b + y - 8) % 4 = 0
        /\ hi - 4 \in Int /\ hi - 4 >= 16 /\ hi - 4 < Top /\ (hi - 4) % 4 = 0
    <3>1. Top \in Nat
      BY Numbers
    <3> QED BY <1>1, <1>2, <2>1, <3>1
  <2> QED BY <2>1, <2>2, InWords
<1> QED BY <1>1, <1>2, <1>3, Numbers

(* Multiples of 8 add up and subtract to multiples of 8. *)
LEMMA Eights ==
  ASSUME NEW x \in Nat, NEW y \in Nat, x % 8 = 0, y % 8 = 0
  PROVE  (x + y) % 8 = 0 /\ (x - y) % 8 = 0
OBVIOUS

--------------------------------------------------------------------------------
(* Replacing the blocks between x and y by one block, or by two that meet  *)
(* at z.  This is every change of the layout: coalescing (one block for    *)
(* several), place (two for one), and extend_heap (one for none: x is the  *)
(* old end and y the new one).                                             *)

Region(B, hi, x, y, hi2) == /\ x \in B \cup {hi} /\ x /= Listp
                            /\ x < y /\ y \in Nat /\ y % 8 = 0 /\ y <= Top
                            /\ \/ y \in B \cup {hi} /\ hi2 = hi
                               \/ x = hi /\ hi2 = y

Cut(x, y, z) == /\ z \in Nat /\ z % 8 = 0 /\ z - x >= 16
                /\ z = y \/ y - z >= 16

SplicedB(B, x, y, z) == {b \in B : b < x \/ b >= y} \cup ({x, z} \ {y})

SplicedS(B, s, x, y, z) ==
    [b \in SplicedB(B, x, y, z) |-> IF b = x THEN z - x
                                    ELSE IF b = z /\ z /= y THEN y - z ELSE s[b]]

(* The members of the spliced layout. *)
LEMMA SplicedBlocks ==
  ASSUME NEW B, NEW s, NEW hi, Layout(B, s, hi), NEW x, NEW y, NEW z, NEW hi2,
         Region(B, hi, x, y, hi2), Cut(x, y, z)
  PROVE  /\ x \in Nat /\ x % 8 = 0 /\ x >= 32 /\ x <= hi /\ z <= y /\ x < z
         /\ x \in SplicedB(B, x, y, z) /\ SplicedS(B, s, x, y, z)[x] = z - x
         /\ z /= y => z \in SplicedB(B, x, y, z) /\ SplicedS(B, s, x, y, z)[z] = y - z
         /\ \A b \in B : /\ b < x => b + s[b] <= x
                         /\ b < x \/ b >= y => /\ b \in SplicedB(B, x, y, z)
                                               /\ SplicedS(B, s, x, y, z)[b] = s[b]
         /\ \A b \in SplicedB(B, x, y, z) :
               b = x \/ (b = z /\ z /= y) \/ (b \in B /\ (b < x \/ b >= y))
<1>1. hi \in Nat /\ hi % 8 = 0 /\ hi >= 32 /\ hi <= Top
  <2>1. Listp \in B
    BY DEF Layout
  <2> QED BY <2>1, BlockIn
<1>2. \A b \in B : b \in Nat /\ s[b] \in Nat /\ b >= 24 /\ s[b] >= 8 /\ b % 8 = 0
                  /\ b + s[b] <= hi
  BY BlockIn
<1>3. x \in Nat /\ x % 8 = 0 /\ x >= 32 /\ x <= hi
  <2>1. CASE x = hi
    BY <1>1, <2>1
  <2>2. CASE x \in B
    <3>1. Listp \in B /\ s[Listp] = 8 /\ Listp + s[Listp] <= x
      <4>1. Listp < x
        BY <1>2, <2>2, Numbers DEF Region
      <4> QED BY <2>2, <4>1, Numbers DEF Layout
    <3>2. x \in Nat /\ x % 8 = 0 /\ s[x] \in Nat /\ x + s[x] <= hi
      BY <1>2, <2>2
    <3>3. x >= 24 + 8
      BY <3>1, Numbers
    <3> QED BY <1>1, <3>2, <3>3
  <2> QED BY <2>1, <2>2 DEF Region
<1>4. y \in Nat /\ z \in Nat /\ z <= y /\ x < z
  BY <1>3 DEF Region, Cut
<1>5. x \in SplicedB(B, x, y, z) /\ SplicedS(B, s, x, y, z)[x] = z - x
  BY <1>3, <1>4 DEF SplicedB, SplicedS
<1>6. z /= y => z \in SplicedB(B, x, y, z) /\ SplicedS(B, s, x, y, z)[z] = y - z
  BY <1>3, <1>4 DEF SplicedB, SplicedS
<1>7. ASSUME NEW b \in B
      PROVE  /\ b < x => b + s[b] <= x
             /\ b < x \/ b >= y => /\ b \in SplicedB(B, x, y, z)
                                   /\ SplicedS(B, s, x, y, z)[b] = s[b]
  <2>1. b < x => b + s[b] <= x
    BY <1>2, <1>3 DEF Region, Layout
  <2>2. ASSUME b < x \/ b >= y PROVE b \in SplicedB(B, x, y, z)
    BY <2>2 DEF SplicedB
  <2>3. ASSUME b < x \/ b >= y PROVE SplicedS(B, s, x, y, z)[b] = s[b]
    BY <1>2, <1>3, <1>4, <2>2, <2>3 DEF SplicedS
  <2> QED BY <2>1, <2>2, <2>3
<1>8. ASSUME NEW b \in SplicedB(B, x, y, z)
      PROVE  b = x \/ (b = z /\ z /= y) \/ (b \in B /\ (b < x \/ b >= y))
  BY DEF SplicedB
<1> QED BY <1>3, <1>4, <1>5, <1>6, <1>7, <1>8

(* It is a layout again. *)
LEMMA SplicedLayout ==
  ASSUME NEW B, NEW s, NEW hi, Layout(B, s, hi), NEW x, NEW y, NEW z, NEW hi2,
         Region(B, hi, x, y, hi2), Cut(x, y, z)
  PROVE  Layout(SplicedB(B, x, y, z), SplicedS(B, s, x, y, z), hi2)
<1>1. PICK C : C = SplicedB(B, x, y, z)
  OBVIOUS
<1>2. PICK t : t = SplicedS(B, s, x, y, z)
  OBVIOUS
<1>3. /\ x \in Nat /\ x % 8 = 0 /\ x >= 32 /\ x <= hi /\ x < z /\ z <= y
      /\ x \in C /\ t[x] = z - x
      /\ z /= y => z \in C /\ t[z] = y - z
  BY <1>1, <1>2, SplicedBlocks
<1>4. ASSUME NEW b \in B
      PROVE  /\ b < x => b + s[b] <= x
             /\ b < x \/ b >= y => b \in C /\ t[b] = s[b]
  BY <1>1, <1>2, SplicedBlocks
<1>5. ASSUME NEW b \in C
      PROVE  b = x \/ (b = z /\ z /= y) \/ (b \in B /\ (b < x \/ b >= y))
  BY <1>1, <1>2, SplicedBlocks
<1>6. /\ hi \in Nat /\ hi <= Top /\ Top \in Nat /\ Listp = 24 /\ Listp \in B /\ s[Listp] = 8
  BY Numbers DEF Layout
<1>7. ASSUME NEW b \in B
      PROVE  /\ b \in Nat /\ b % 8 = 0 /\ b >= 24 /\ b < hi
             /\ s[b] \in Nat /\ s[b] % 8 = 0 /\ s[b] >= 8 /\ (b /= 24 => s[b] >= 16)
             /\ b + s[b] \in B \cup {hi} /\ b + s[b] <= hi
  <2>1. /\ b \in Nat /\ b % 8 = 0 /\ b >= 24
        /\ s[b] \in Nat /\ s[b] % 8 = 0 /\ s[b] >= 8 /\ (b /= 24 => s[b] >= 16)
        /\ b + s[b] \in B \cup {hi} /\ b + s[b] <= hi
    BY <1>6 DEF Layout
  <2> QED BY <1>6, <2>1
<1>8. /\ y \in Nat /\ y % 8 = 0 /\ y <= Top /\ x \in B \cup {hi}
      /\ (y \in B \cup {hi} /\ hi2 = hi) \/ (x = hi /\ hi2 = y)
      /\ z \in Nat /\ z % 8 = 0 /\ z - x >= 16 /\ (z = y \/ y - z >= 16)
  BY DEF Region, Cut
<1>9. /\ hi2 \in Nat /\ hi2 <= Top /\ y <= hi2 /\ hi <= hi2
      /\ y \in C \cup {hi2}
      /\ z \in C \cup {hi2}
  <2>1. y <= hi2 /\ hi <= hi2 /\ hi2 \in Nat /\ hi2 <= Top
    BY <1>3, <1>6, <1>7, <1>8
  <2>2. y \in C \cup {hi2}
    BY <1>3, <1>4, <1>6, <1>7, <1>8
  <2> QED BY <2>1, <2>2, <1>3
<1>10. Listp \in C /\ t[Listp] = DSIZE
  BY <1>3, <1>4, <1>6, Numbers
<1>11. ASSUME NEW b \in C
       PROVE  /\ b \in Nat /\ b % 8 = 0 /\ b >= 24
              /\ t[b] \in Nat /\ t[b] % 8 = 0 /\ t[b] >= 8 /\ (b /= 24 => t[b] >= 16)
              /\ b + t[b] \in C \cup {hi2} /\ b + t[b] <= hi2
  <2>1. CASE b = x
    BY <1>3, <1>8, <1>9, <2>1, Eights
  <2>2. CASE b = z /\ z /= y
    BY <1>3, <1>8, <1>9, <2>2, Eights
  <2>3. CASE b \in B /\ b < x
    <3>1. b + s[b] <= x /\ t[b] = s[b]
      BY <1>4, <2>3
    <3>2. b + s[b] \in C \cup {hi2}
      <4>1. PICK c : c = b + s[b] /\ c \in B \cup {hi} /\ c <= x
        BY <1>7, <2>3, <3>1
      <4>2. CASE c = x
        BY <1>3, <4>1, <4>2
      <4>3. CASE c < x
        BY <1>3, <1>4, <1>6, <4>1, <4>3
      <4> QED BY <1>3, <1>6, <1>7, <4>1, <4>2, <4>3
    <3> QED BY <1>3, <1>6, <1>7, <1>9, <2>3, <3>1, <3>2
  <2>4. CASE b \in B /\ b >= y
    <3>1. t[b] = s[b]
      BY <1>4, <2>4
    <3>2. y \in B \cup {hi} /\ hi2 = hi
      BY <1>3, <1>7, <1>8, <2>4
    <3>3. PICK c : c = b + s[b] /\ c \in B \cup {hi} /\ c >= y
      BY <1>7, <1>8, <2>4
    <3>4. c \in C \cup {hi2}
      BY <1>4, <3>2, <3>3
    <3> QED BY <1>6, <1>7, <2>4, <3>1, <3>2, <3>3, <3>4
  <2> QED BY <1>5, <2>1, <2>2, <2>3, <2>4
<1>12. ASSUME NEW b \in C, NEW c \in C, b < c
       PROVE  b + t[b] <= c
  <2>1. b \in Nat /\ c \in Nat
    BY <1>11
  <2>2. CASE b = x
    BY <1>3, <1>5, <1>7, <1>8, <2>1, <2>2, <1>12
  <2>3. CASE b = z /\ z /= y
    BY <1>3, <1>5, <1>7, <1>8, <2>1, <2>3, <1>12
  <2>4. CASE b \in B /\ b < x
    <3>1. b + s[b] <= x /\ t[b] = s[b] /\ s[b] \in Nat
      BY <1>4, <1>7, <2>4
    <3>2. CASE c >= x
      BY <1>3, <2>1, <3>1, <3>2
    <3>3. CASE c < x
      <4>1. c \in B
        BY <1>3, <1>5, <1>8, <2>1, <3>3
      <4> QED BY <1>12, <2>4, <3>1, <4>1 DEF Layout
    <3> QED BY <1>3, <2>1, <3>2, <3>3
  <2>5. CASE b \in B /\ b >= y
    <3>1. c \in B
      BY <1>3, <1>5, <1>8, <1>12, <2>1, <2>5
    <3> QED BY <1>4, <1>12, <2>5, <3>1 DEF Layout
  <2> QED BY <1>5, <2>2, <2>3, <2>4, <2>5
<1>13. ASSUME NEW c \in C \cup {hi2}
       PROVE  c = Listp \/ \E b \in C : b + t[b] = c
  <2>1. c \in Nat
    BY <1>9, <1>11
  <2>2. CASE c = x
    <3>1. PICK b \in B : b + s[b] = x
      BY <1>8, <2>2 DEF Region, Layout
    <3>2. b < x
      BY <1>7, <3>1
    <3> QED BY <1>4, <2>2, <3>1, <3>2
  <2>3. CASE c = z
    BY <1>3, <1>8, <2>3
  <2>4. CASE c = y
    BY <1>3, <1>8, <2>4
  <2>5. CASE c \in B \cup {hi} /\ c < x
    <3>1. c = Listp \/ \E b \in B : b + s[b] = c
      BY <2>5 DEF Layout
    <3>2. CASE c /= Listp
      <4>1. PICK b \in B : b + s[b] = c
        BY <3>1, <3>2
      <4>2. b < x
        BY <1>3, <1>7, <2>1, <2>5, <4>1
      <4> QED BY <1>4, <4>1, <4>2
    <3> QED BY <3>2
  <2>6. CASE c \in B \cup {hi} /\ c > y
    <3>1. c = Listp \/ \E b \in B : b + s[b] = c
      BY <2>6 DEF Layout
    <3>2. PICK b \in B : b + s[b] = c
      BY <1>3, <1>6, <1>8, <2>6, <3>1
    <3>3. b >= y
      <4>1. CASE y \in B /\ b < y
        <5>1. b + s[b] <= y
          BY <3>2, <4>1 DEF Layout
        <5> QED BY <1>8, <2>1, <2>6, <3>2, <5>1
      <4>2. CASE y >= hi
        BY <1>6, <1>7, <1>8, <2>1, <2>6, <3>2, <4>2
      <4> QED BY <1>7, <1>8, <1>3, <1>6, <4>1, <4>2
    <3> QED BY <1>4, <3>2, <3>3
  <2> QED BY <1>3, <1>5, <1>6, <1>8, <1>9, <2>1, <2>2, <2>3, <2>4, <2>5, <2>6
<1>14. Layout(C, t, hi2)
  BY <1>6, <1>9, <1>10, <1>11, <1>12, <1>13 DEF Layout
<1> QED BY <1>1, <1>2, <1>14

SplicedA(B, a, x, y, z, c, d) ==
    [b \in SplicedB(B, x, y, z) |-> IF b = x THEN c ELSE IF b = z /\ z /= y THEN d ELSE a[b]]

(* The tags of the new blocks are written, and nothing else but payload.   *)
Rewrites(m, m2, x, y, z, c, d) ==
    /\ m2 \in Memories /\ m2.listp = Listp
    /\ \A w \in Int : w < x - 4 \/ (y - 4 <= w /\ w < m.brk) => Get(m2, w) = Get(m, w)
    /\ Get(m2, m2.brk - 4) = 1
    /\ c \in {0, 1} /\ d \in {0, 1}
    /\ Get(m2, x - 4) = z - x + c /\ Get(m2, z - 8) = z - x + c
    /\ z /= y => Get(m2, z - 4) = y - z + d /\ Get(m2, y - 8) = y - z + d

(* Blocks and memory agree after the change, and the blocks outside the    *)
(* region are what they were.                                              *)
LEMMA SplicedMemory ==
  ASSUME NEW m, NEW B, NEW s, NEW a, Shaped(m, B, s, a), NEW x, NEW y, NEW z, NEW m2,
         NEW c, NEW d, Region(B, m.brk, x, y, m2.brk), Cut(x, y, z),
         Rewrites(m, m2, x, y, z, c, d)
  PROVE  /\ Shaped(m2, SplicedB(B, x, y, z), SplicedS(B, s, x, y, z), SplicedA(B, a, x, y, z, c, d))
         /\ \A b \in B : b < x \/ b >= y => /\ SplicedA(B, a, x, y, z, c, d)[b] = a[b]
                                            /\ SamePayload(m, m2, b, s[b])
         /\ SplicedA(B, a, x, y, z, c, d)[x] = c
         /\ z /= y => SplicedA(B, a, x, y, z, c, d)[z] = d
<1>1. PICK C : C = SplicedB(B, x, y, z)
  OBVIOUS
<1>2. PICK t : t = SplicedS(B, s, x, y, z)
  OBVIOUS
<1>3. PICK g : g = SplicedA(B, a, x, y, z, c, d)
  OBVIOUS
<1>4. Layout(B, s, m.brk) /\ Tagged(m, B, s, a)
  BY DEF Shaped
<1>5. /\ x \in Nat /\ x % 8 = 0 /\ x >= 32 /\ x <= m.brk /\ x < z /\ z <= y
      /\ x \in C /\ t[x] = z - x
      /\ z /= y => z \in C /\ t[z] = y - z
  BY <1>1, <1>2, <1>4, SplicedBlocks
<1>6. ASSUME NEW b \in B
      PROVE  /\ b < x => b + s[b] <= x
             /\ b < x \/ b >= y => b \in C /\ t[b] = s[b]
  BY <1>1, <1>2, <1>4, SplicedBlocks
<1>7. ASSUME NEW b \in C
      PROVE  b = x \/ (b = z /\ z /= y) \/ (b \in B /\ (b < x \/ b >= y))
  BY <1>1, <1>2, <1>4, SplicedBlocks
<1>8. Layout(C, t, m2.brk)
  BY <1>1, <1>2, <1>4, SplicedLayout
<1>9. y \in Nat /\ z \in Nat
  BY DEF Region, Cut
<1>10. /\ g[x] = c /\ (z /= y => g[z] = d)
       /\ \A b \in B : b < x \/ b >= y => g[b] = a[b]
  <2>1. g[x] = c
    BY <1>1, <1>3, <1>5 DEF SplicedA
  <2>2. z /= y => g[z] = d
    BY <1>1, <1>3, <1>5, <1>9 DEF SplicedA
  <2>3. ASSUME NEW b \in B, b < x \/ b >= y PROVE g[b] = a[b]
    <3>1. b \in Nat /\ b \in C
      BY <1>4, <1>6, <2>3, BlockIn
    <3>2. b /= x /\ (z /= y => b /= z)
      BY <1>5, <1>9, <2>3, <3>1
    <3> QED BY <1>1, <1>3, <3>1, <3>2 DEF SplicedA
  <2> QED BY <2>1, <2>2, <2>3
<1>11. ASSUME NEW b \in B, b < x \/ b >= y
       PROVE  /\ SamePayload(m, m2, b, s[b])
              /\ Get(m2, b - 4) = Get(m, b - 4)
              /\ Get(m2, b + s[b] - 8) = Get(m, b + s[b] - 8)
  <2>1. b \in Nat /\ s[b] \in Nat /\ s[b] >= 8 /\ b + s[b] <= m.brk /\ m.brk \in Nat
    BY <1>4, BlockIn
  <2>2. b < x => b + s[b] <= x
    BY <1>6
  <2>3. ASSUME NEW w \in Int, b - 4 <= w /\ w <= b + s[b] - 8
        PROVE  Get(m2, w) = Get(m, w)
    <3>1. w < x - 4 \/ (y - 4 <= w /\ w < m.brk)
      BY <1>5, <1>9, <1>11, <2>1, <2>2, <2>3
    <3> QED BY <3>1 DEF Rewrites
  <2>4. SamePayload(m, m2, b, s[b])
    BY <2>1, <2>3 DEF SamePayload
  <2>5. b - 4 \in Int /\ b + s[b] - 8 \in Int
    BY <2>1
  <2>6. b - 4 <= b + s[b] - 8
    BY <2>1
  <2>7. Get(m2, b - 4) = Get(m, b - 4)
    BY <2>1, <2>3, <2>5, <2>6
  <2>8. Get(m2, b + s[b] - 8) = Get(m, b + s[b] - 8)
    BY <2>1, <2>3, <2>5, <2>6
  <2> QED BY <2>4, <2>7, <2>8
<1>12. Tagged(m2, C, t, g)
  <2>1. ASSUME NEW b \in C
        PROVE  /\ g[b] \in {0, 1}
               /\ Get(m2, b - 4) = t[b] + g[b] /\ Get(m2, b + t[b] - 8) = t[b] + g[b]
    <3>1. CASE b = x
      BY <1>5, <1>9, <1>10, <3>1 DEF Rewrites
    <3>2. CASE b = z /\ z /= y
      BY <1>5, <1>9, <1>10, <3>2 DEF Rewrites
    <3>3. CASE b \in B /\ (b < x \/ b >= y)
      <4>1. t[b] = s[b] /\ g[b] = a[b]
        BY <1>6, <1>10, <3>3
      <4>2. a[b] \in {0, 1} /\ Get(m, b - 4) = s[b] + a[b] /\ Get(m, b + s[b] - 8) = s[b] + a[b]
        BY <1>4, <3>3 DEF Tagged
      <4> QED BY <1>11, <3>3, <4>1, <4>2
    <3> QED BY <1>7, <3>1, <3>2, <3>3
  <2>2. g[Listp] = 1
    <3>1. Listp \in B /\ Listp < x
      BY <1>4, <1>5, Numbers DEF Layout
    <3> QED BY <1>4, <1>10, <3>1 DEF Tagged
  <2> QED BY <2>1, <2>2 DEF Tagged, Rewrites
<1>13. Shaped(m2, C, t, g)
  BY <1>8, <1>12 DEF Shaped, Rewrites
<1> QED BY <1>1, <1>2, <1>3, <1>10, <1>11, <1>13

(* Which allocated blocks a change keeps. *)
LEMMA SplicedKept ==
  ASSUME NEW m, NEW B, NEW s, NEW a, Shaped(m, B, s, a), NEW x, NEW y, NEW z, NEW m2,
         NEW c, NEW d, Region(B, m.brk, x, y, m2.brk), Cut(x, y, z),
         Rewrites(m, m2, x, y, z, c, d), NEW X,
         \A b \in B : x <= b /\ b < y /\ a[b] = 1 => b \in X,
         c = 1 => x \in X, z /= y /\ d = 1 => z \in X
  PROVE  Kept(m, B, s, a, m2, SplicedB(B, x, y, z), SplicedS(B, s, x, y, z),
              SplicedA(B, a, x, y, z, c, d), X)
<1>1. PICK C : C = SplicedB(B, x, y, z)
  OBVIOUS
<1>2. PICK t : t = SplicedS(B, s, x, y, z)
  OBVIOUS
<1>3. PICK g : g = SplicedA(B, a, x, y, z, c, d)
  OBVIOUS
<1>4. Layout(B, s, m.brk)
  BY DEF Shaped
<1>5. x \in Nat /\ y \in Nat
  <2>1. x \in Nat
    BY <1>4, SplicedBlocks
  <2> QED BY <2>1 DEF Region
<1>6. ASSUME NEW b \in B
      PROVE  /\ b \in Nat
             /\ b < x \/ b >= y => /\ b \in C /\ t[b] = s[b] /\ g[b] = a[b]
                                   /\ SamePayload(m, m2, b, s[b])
  <2>1. b \in Nat
    BY <1>4, BlockIn
  <2>2. b < x \/ b >= y => b \in C /\ t[b] = s[b]
    BY <1>1, <1>2, <1>4, SplicedBlocks
  <2>3. b < x \/ b >= y => g[b] = a[b] /\ SamePayload(m, m2, b, s[b])
    BY <1>3, SplicedMemory
  <2> QED BY <2>1, <2>2, <2>3
<1>7. ASSUME NEW b \in C
      PROVE  b = x \/ (b = z /\ z /= y) \/ (b \in B /\ (b < x \/ b >= y))
  BY <1>1, <1>2, <1>4, SplicedBlocks
<1>8. g[x] = c /\ (z /= y => g[z] = d)
  BY <1>3, SplicedMemory
<1>9. ASSUME NEW b \in B \ X, a[b] = 1
      PROVE  b \in C /\ g[b] = 1 /\ t[b] = s[b] /\ SamePayload(m, m2, b, s[b])
  BY <1>5, <1>6, <1>9
<1>10. ASSUME NEW b \in C \ X, g[b] = 1 PROVE b \in B /\ a[b] = 1
  BY <1>6, <1>7, <1>8, <1>10
<1> QED BY <1>1, <1>2, <1>3, <1>9, <1>10 DEF Kept

(* Free neighbours after a change: only the new blocks can be among them.  *)
LEMMA SplicedApart ==
  ASSUME NEW m, NEW B, NEW s, NEW a, Shaped(m, B, s, a), NEW x, NEW y, NEW z, NEW m2,
         NEW c, NEW d, Region(B, m.brk, x, y, m2.brk), Cut(x, y, z),
         Rewrites(m, m2, x, y, z, c, d),
         NEW X, Apart(B, s, a, X), \A b \in X : b >= x /\ b < y
  PROVE  Apart(SplicedB(B, x, y, z), SplicedS(B, s, x, y, z), SplicedA(B, a, x, y, z, c, d),
               {x, z} \ {y})
<1>1. PICK C : C = SplicedB(B, x, y, z)
  OBVIOUS
<1>2. PICK t : t = SplicedS(B, s, x, y, z)
  OBVIOUS
<1>3. PICK g : g = SplicedA(B, a, x, y, z, c, d)
  OBVIOUS
<1>4. Layout(B, s, m.brk)
  BY DEF Shaped
<1>5. x \in Nat /\ y \in Nat /\ x < z /\ z <= y /\ z \in Nat
  <2>1. x \in Nat /\ x < z /\ z <= y
    BY <1>4, SplicedBlocks
  <2> QED BY <2>1 DEF Region, Cut
<1>6. ASSUME NEW b \in B, b < x \/ b >= y
      PROVE  b \in Nat /\ t[b] = s[b] /\ g[b] = a[b] /\ b \notin X
  <2>1. b \in Nat
    BY <1>4, BlockIn
  <2>2. t[b] = s[b]
    BY <1>2, <1>4, <1>6, SplicedBlocks
  <2>3. g[b] = a[b]
    BY <1>3, <1>6, SplicedMemory
  <2>4. b \notin X
    BY <1>5, <1>6, <2>1
  <2> QED BY <2>1, <2>2, <2>3, <2>4
<1>7. ASSUME NEW b \in C, b \notin {x, z} \ {y}
      PROVE  b \in B /\ (b < x \/ b >= y)
  <2>1. b = x \/ (b = z /\ z /= y) \/ (b \in B /\ (b < x \/ b >= y))
    BY <1>1, <1>2, <1>4, SplicedBlocks
  <2> QED BY <1>5, <1>7, <2>1
<1>8. ASSUME NEW b \in C, NEW e \in C, e = b + t[b], g[b] = 0, g[e] = 0,
             b \notin {x, z} \ {y}, e \notin {x, z} \ {y}
      PROVE  FALSE
  <2>1. /\ b \in B /\ (b < x \/ b >= y) /\ e \in B /\ (e < x \/ e >= y)
    BY <1>7, <1>8
  <2>2. e = b + s[b] /\ a[b] = 0 /\ a[e] = 0 /\ b \notin X /\ e \notin X
    BY <1>6, <1>8, <2>1
  <2> QED BY <2>1, <2>2 DEF Apart
<1> QED BY <1>1, <1>2, <1>3, <1>8 DEF Apart

(* What two changes keep. *)
LEMMA KeptTwice ==
  ASSUME NEW m, NEW B, NEW s, NEW a, NEW m1, NEW B1, NEW s1, NEW a1, NEW m2, NEW B2, NEW s2,
         NEW a2, NEW X, NEW Y, Kept(m, B, s, a, m1, B1, s1, a1, X),
         Kept(m1, B1, s1, a1, m2, B2, s2, a2, Y)
  PROVE  Kept(m, B, s, a, m2, B2, s2, a2, X \cup Y)
<1>1. ASSUME NEW b \in B \ (X \cup Y), a[b] = 1
      PROVE  b \in B2 /\ a2[b] = 1 /\ s2[b] = s[b] /\ SamePayload(m, m2, b, s[b])
  <2>1. b \in B1 \ Y /\ a1[b] = 1 /\ s1[b] = s[b] /\ SamePayload(m, m1, b, s[b])
    BY <1>1 DEF Kept
  <2>2. b \in B2 /\ a2[b] = 1 /\ s2[b] = s1[b] /\ SamePayload(m1, m2, b, s1[b])
    BY <2>1 DEF Kept
  <2>3. SamePayload(m1, m2, b, s[b])
    BY <2>1, <2>2
  <2> QED BY <2>1, <2>2, <2>3 DEF SamePayload
<1>2. ASSUME NEW b \in B2 \ (X \cup Y), a2[b] = 1 PROVE b \in B /\ a[b] = 1
  BY <1>2 DEF Kept
<1> QED BY <1>1, <1>2 DEF Kept

--------------------------------------------------------------------------------
(* coalesce *)

(* The tags of a block are two words. *)
LEMMA TagsWritten ==
  ASSUME NEW m \in Memories, NEW bp \in Nat, NEW n \in Nat, n % 8 = 0, NEW x \in {0, 1},
         NEW v \in Nat, v = n + x, v < UintMod, bp - 4 \in Words, NEW w \in Words, w = bp + n - 8
  PROVE  /\ Same(m, PutTags(m, bp, Pack(n, x)))
         /\ \A q \in Int : Get(PutTags(m, bp, Pack(n, x)), q) =
                              IF q = bp - 4 \/ q = w THEN v ELSE Get(m, q)
<1>2. PICK m1 : m1 = Put(m, bp - 4, v)
  OBVIOUS
<1>3. Same(m, m1) /\ \A q \in Int : Get(m1, q) = IF q = bp - 4 THEN v ELSE Get(m, q)
  BY <1>2, PutWrites DEF Same
<1>4. GetSize(m1, bp - 4) = n
  <2>1. Get(m1, bp - 4) = n + x
    BY <1>3
  <2> QED BY <2>1, TagParts
<1>5. PutTags(m, bp, Pack(n, x)) = Put(m1, w, v)
  BY <1>2, <1>4 DEF PutTags, PutFooter, Ftrp, Hdrp, Pack, WSIZE, DSIZE
<1>6. PICK m2 : m2 = Put(m1, w, v)
  OBVIOUS
<1>7. Same(m1, m2) /\ \A q \in Int : Get(m2, q) = IF q = w THEN v ELSE Get(m1, q)
  BY <1>3, <1>6, PutWrites DEF Same
<1>8. Same(m, m2)
  BY <1>3, <1>7 DEF Same
<1>9. ASSUME NEW q \in Int
      PROVE  Get(m2, q) = IF q = bp - 4 \/ q = w THEN v ELSE Get(m, q)
  BY <1>3, <1>7
<1> QED BY <1>5, <1>6, <1>8, <1>9

(* A footer is written where the header says it is. *)
LEMMA FooterWritten ==
  ASSUME NEW m \in Memories, NEW bp, NEW v \in Nat, v < UintMod,
         NEW w \in Words, w = bp + GetSize(m, bp - 4) - 8
  PROVE  /\ Same(m, PutFooter(m, bp, v))
         /\ \A q \in Int : Get(PutFooter(m, bp, v), q) = IF q = w THEN v ELSE Get(m, q)
<1>1. PutFooter(m, bp, v) = Put(m, w, v)
  BY DEF PutFooter, Ftrp, Hdrp, WSIZE, DSIZE
<1> QED BY <1>1, PutWrites DEF Same

(* What a block and its neighbours say of themselves. *)
LEMMA BlockTags ==
  ASSUME NEW m, NEW B, NEW s, NEW a, Shaped(m, B, s, a), NEW b \in B
  PROVE  /\ a[b] \in {0, 1}
         /\ Get(m, b - 4) = s[b] + a[b] /\ Get(m, b + s[b] - 8) = s[b] + a[b]
         /\ GetSize(m, b - 4) = s[b] /\ GetAlloc(m, b - 4) = a[b]
         /\ GetSize(m, b + s[b] - 8) = s[b] /\ GetAlloc(m, b + s[b] - 8) = a[b]
         /\ NextBlkp(m, b) = b + s[b]
<1>1. /\ a[b] \in {0, 1} /\ s[b] \in Nat /\ s[b] % 8 = 0
      /\ Get(m, b - 4) = s[b] + a[b] /\ Get(m, b + s[b] - 8) = s[b] + a[b]
  BY DEF Shaped, Tagged, Layout
<1>2. GetSize(m, b - 4) = s[b] /\ GetAlloc(m, b - 4) = a[b]
  BY <1>1, TagParts
<1>3. GetSize(m, b + s[b] - 8) = s[b] /\ GetAlloc(m, b + s[b] - 8) = a[b]
  BY <1>1, TagParts
<1> QED BY <1>1, <1>2, <1>3 DEF NextBlkp, WSIZE

(* The epilogue is an allocated block of size 0. *)
LEMMA EpilogueTags ==
  ASSUME NEW m, NEW B, NEW s, NEW a, Shaped(m, B, s, a)
  PROVE  GetSize(m, m.brk - 4) = 0 /\ GetAlloc(m, m.brk - 4) = 1
<1>1. Get(m, m.brk - 4) = 0 + 1
  BY DEF Shaped, Tagged
<1> QED BY <1>1, TagParts

(* The whole heap between two requests. *)
Sound(m, B, s, a) == Shaped(m, B, s, a) /\ Apart(B, s, a, {}) /\ RoverIn(m, B)

(* coalesce has made one block of x .. y, which ends a run of free blocks.  *)
FreeRun(m, B, s, a, x, y) == /\ y \in B \cup {m.brk} /\ x < y
                             /\ \A b \in B : x <= b /\ b < y => a[b] = 0
                             /\ \A b \in B : b + s[b] = x => a[b] = 1
                             /\ y \in B => a[y] = 1

OneTag(m, m2, x, y) == /\ Same(m, m2)
                       /\ \A w \in Int : w < x - 4 \/ w >= y - 4 => Get(m2, w) = Get(m, w)
                       /\ Get(m2, x - 4) = y - x
                       /\ Get(m2, y - 8) = y - x

(* One free block where there was a run of them, rover included: the heap  *)
(* is consistent, and no allocated block has changed.                      *)
LEMMA Merged ==
  ASSUME NEW m, NEW B, NEW s, NEW a, Shaped(m, B, s, a), RoverIn(m, B),
         NEW x \in B, x /= Listp, NEW y, FreeRun(m, B, s, a, x, y),
         NEW bp, Apart(B, s, a, {bp}), bp >= x, bp < y, NEW m2, OneTag(m, m2, x, y)
  PROVE  \E m3, B2, s2, a2 :
            /\ FixRover(Result(m2, x)) = Result(m3, x)
            /\ Sound(m3, B2, s2, a2) /\ Kept(m, B, s, a, m3, B2, s2, a2, {})
            /\ x \in B2 /\ a2[x] = 0 /\ s2[x] = y - x
            /\ m3.brk = m.brk /\ m3.nextFit = m.nextFit
<1>0. /\ y \in B \cup {m.brk} /\ x < y
      /\ \A b \in B : x <= b /\ b < y => a[b] = 0
      /\ \A b \in B : b + s[b] = x => a[b] = 1
      /\ y \in B => a[y] = 1
      /\ Same(m, m2)
      /\ \A w \in Int : w < x - 4 \/ w >= y - 4 => Get(m2, w) = Get(m, w)
      /\ Get(m2, x - 4) = y - x /\ Get(m2, y - 8) = y - x
      /\ \A b \in {bp} : b >= x /\ b < y
  BY DEF FreeRun, OneTag
<1> USE <1>0
<1>1. Layout(B, s, m.brk)
  BY DEF Shaped
<1>2. /\ x \in Nat /\ x % 8 = 0 /\ s[x] \in Nat /\ s[x] >= 16 /\ x + s[x] <= m.brk
      /\ m.brk \in Nat /\ m.brk <= Top /\ m.brk % 8 = 0
  <2>1. x \in Nat /\ x % 8 = 0 /\ s[x] \in Nat /\ x + s[x] <= m.brk
      /\ m.brk \in Nat /\ m.brk <= Top /\ m.brk % 8 = 0
    BY <1>1, BlockIn
  <2>2. s[x] >= 16
    BY <1>1 DEF Layout
  <2> QED BY <2>1, <2>2
<1>3. y \in Nat /\ y % 8 = 0 /\ y <= Top /\ y <= m.brk /\ x + s[x] <= y
  <2>1. CASE y = m.brk
    BY <1>2, <2>1
  <2>2. CASE y \in B
    <3>1. y \in Nat /\ y % 8 = 0 /\ s[y] \in Nat /\ y + s[y] <= m.brk /\ Top \in Nat
      BY <1>1, <2>2, BlockIn, Numbers
    <3>2. x + s[x] <= y
      BY <1>1, <2>2 DEF Layout
    <3>3. PICK n \in Nat, k \in Nat, h \in Nat : n = y /\ k = s[y] /\ h = m.brk /\ n + k <= h /\ h <= Top
      BY <1>2, <3>1
    <3>4. y <= m.brk /\ y <= Top
      BY <3>1, <3>3
    <3> QED BY <3>1, <3>2, <3>4
  <2> QED BY <2>1, <2>2
<1>4. Region(B, m.brk, x, y, m.brk) /\ Cut(x, y, y)
  BY <1>2, <1>3 DEF Region, Cut
<1>5. NextBlkp(m2, x) = y
  <2>1. PICK n \in Nat : n = y - x /\ n % 8 = 0
    <3>1. (y - x) % 8 = 0 /\ y - x \in Nat
      BY <1>2, <1>3, Eights
    <3> QED BY <3>1
  <2>2. Get(m2, x - 4) = n + 0
    BY <2>1
  <2>3. GetSize(m2, x - 4) = n
    BY <2>1, <2>2, TagParts
  <2> QED BY <1>2, <1>3, <2>1, <2>3 DEF NextBlkp, WSIZE
<1>6. PICK m3 : /\ FixRover(Result(m2, x)) = Result(m3, x)
                /\ m3 \in Memories /\ m3.heap = m2.heap /\ m3.brk = m.brk /\ m3.listp = m.listp
                /\ m3.nextFit = m.nextFit
                /\ m3.rover = IF m.nextFit /\ m.rover > x /\ m.rover < y THEN x ELSE m.rover
  <2>1. CASE m.nextFit /\ m.rover > x /\ m.rover < y
    <3>1. FixRover(Result(m2, x)) = [Result(m2, x) EXCEPT !.m.rover = x]
      BY <1>5, <2>1 DEF FixRover, Result, Same
    <3>2. FixRover(Result(m2, x)) = Result([m2 EXCEPT !.rover = x], x)
      BY <3>1 DEF Result
    <3>3. PICK m4 : m4 = [m2 EXCEPT !.rover = x]
      OBVIOUS
    <3>4. m4 \in Memories /\ m4.heap = m2.heap /\ m4.brk = m2.brk /\ m4.listp = m2.listp
          /\ m4.nextFit = m2.nextFit /\ m4.rover = x
      BY <1>2, <3>3 DEF Same, Memories
    <3> QED BY <2>1, <3>2, <3>3, <3>4 DEF Same
  <2>2. CASE ~(m.nextFit /\ m.rover > x /\ m.rover < y)
    <3>1. FixRover(Result(m2, x)) = Result(m2, x)
      BY <1>5, <2>2 DEF FixRover, Result, Same
    <3> QED BY <2>2, <3>1 DEF Same
  <2> QED BY <2>1, <2>2
<1>7. Rewrites(m, m3, x, y, y, 0, 0)
  <2>1. \A w \in Int : Get(m3, w) = Get(m2, w)
    BY <1>6 DEF Get
  <2>2. Get(m3, m3.brk - 4) = 1
    <3>1. Get(m, m.brk - 4) = 1 /\ m.brk - 4 \in Int /\ m.brk - 4 >= y - 4
      BY <1>2, <1>3 DEF Shaped, Tagged
    <3> QED BY <1>6, <2>1, <3>1
  <2>3. Get(m3, x - 4) = y - x + 0 /\ Get(m3, y - 8) = y - x + 0
    BY <1>2, <1>3, <2>1
  <2>4. m3 \in Memories /\ m3.listp = Listp
    BY <1>6 DEF Shaped
  <2>5. \A w \in Int : w < x - 4 \/ (y - 4 <= w /\ w < m.brk) => Get(m3, w) = Get(m, w)
    BY <1>2, <1>3, <2>1
  <2> QED BY <2>2, <2>3, <2>4, <2>5 DEF Rewrites
<1>8. PICK C, t, g : /\ C = SplicedB(B, x, y, y) /\ t = SplicedS(B, s, x, y, y)
                     /\ g = SplicedA(B, a, x, y, y, 0, 0)
  OBVIOUS
<1>9. Region(B, m.brk, x, y, m3.brk)
  BY <1>4, <1>6
<1>10. Shaped(m3, C, t, g) /\ g[x] = 0
  BY <1>4, <1>7, <1>8, <1>9, SplicedMemory
<1>11. Kept(m, B, s, a, m3, C, t, g, {})
  BY <1>4, <1>7, <1>8, <1>9, SplicedKept
<1>12. Apart(C, t, g, {x, y} \ {y})
  BY <1>4, <1>7, <1>8, <1>9, SplicedApart
<1>13. /\ x \in C /\ t[x] = y - x
       /\ \A b \in B : b < x \/ b >= y => b \in C /\ t[b] = s[b]
       /\ \A b \in C : b = x \/ (b \in B /\ (b < x \/ b >= y))
  BY <1>1, <1>4, <1>8, SplicedBlocks
<1>14. \A b \in B : b < x \/ b >= y => g[b] = a[b]
  BY <1>4, <1>7, <1>8, <1>9, SplicedMemory
<1>15. Apart(C, t, g, {})
  <2>1. ASSUME NEW b \in C, NEW e \in C, e = b + t[b], g[b] = 0, g[e] = 0
        PROVE  FALSE
    <3>1. b = x \/ e = x
      BY <1>12, <2>1 DEF Apart
    <3>2. CASE b = x
      <4>1. e = y
        BY <1>2, <1>3, <1>13, <2>1, <3>2
      <4>2. e \in B /\ a[e] = 1
        BY <1>2, <1>3, <1>13, <4>1
      <4> QED BY <1>3, <1>14, <2>1, <4>1, <4>2
    <3>3. CASE b /= x /\ e = x
      <4>1. b \in B /\ (b < x \/ b >= y) /\ t[b] = s[b] /\ g[b] = a[b]
        BY <1>13, <1>14, <3>3
      <4> QED BY <2>1, <3>3, <4>1
    <3> QED BY <3>1, <3>2, <3>3
  <2> QED BY <2>1 DEF Apart
<1>16. RoverIn(m3, C)
  <2>1. CASE m.nextFit
    <3>1. m.rover \in B /\ m.rover \in Nat
      BY <1>1, <2>1, BlockIn DEF RoverIn
    <3>2. m3.rover \in C
      BY <1>2, <1>3, <1>6, <1>13, <2>1, <3>1
    <3> QED BY <3>2 DEF RoverIn
  <2>2. CASE ~m.nextFit
    BY <1>6, <2>2 DEF RoverIn
  <2> QED BY <2>1, <2>2
<1> QED BY <1>6, <1>10, <1>11, <1>13, <1>15, <1>16 DEF Sound

(* The header and the footer of the new block are all that is written. *)
LEMMA OneTagWritten ==
  ASSUME NEW m, NEW m2, Same(m, m2), NEW x \in Nat, NEW y \in Nat, y - x >= 8, NEW v, v = y - x,
         \A q \in Int : Get(m2, q) = IF q = x - 4 \/ q = y - 8 THEN v ELSE Get(m, q)
  PROVE  OneTag(m, m2, x, y)
<1>1. x - 4 \in Int /\ y - 8 \in Int
  OBVIOUS
<1>2. Get(m2, x - 4) = v /\ Get(m2, y - 8) = v
  BY <1>1
<1>3. ASSUME NEW w \in Int, w < x - 4 \/ w >= y - 4
      PROVE  Get(m2, w) = Get(m, w)
  <2>1. w /= x - 4 /\ w /= y - 8
    BY <1>3
  <2> QED BY <2>1
<1> QED BY <1>2, <1>3 DEF OneTag

(* What coalesce does, from a heap whose only free neighbours are at bp.   *)
Coalesces(m, B, s, a, bp, r) ==
    \E m3, B2, s2, a2, x :
        /\ r = Result(m3, x)
        /\ Sound(m3, B2, s2, a2) /\ Kept(m, B, s, a, m3, B2, s2, a2, {})
        /\ x \in B2 /\ a2[x] = 0 /\ s2[x] >= s[bp]
        /\ m3.brk = m.brk /\ m3.nextFit = m.nextFit

(* The blocks from x on, if x and the next are all there is before y.      *)
LEMMA TwoBlocks ==
  ASSUME NEW B, NEW s, NEW hi, Layout(B, s, hi), NEW x \in B, NEW n \in B, n = x + s[x]
  PROVE  /\ \A b \in B : x <= b /\ b < n => b = x
         /\ \A b \in B : x <= b /\ b < n + s[n] => b = x \/ b = n
         /\ \A b \in B : b + s[b] = x + s[x] => b = x
<1>1. \A b \in B : b \in Nat /\ s[b] \in Nat /\ s[b] >= 8
  BY BlockIn
<1>2. \A b, c \in B : b < c => b + s[b] <= c
  BY DEF Layout
<1>3. ASSUME NEW b \in B, x <= b, b < n PROVE b = x
  BY <1>1, <1>2, <1>3
<1>4. ASSUME NEW b \in B, x <= b, b < n + s[n] PROVE b = x \/ b = n
  BY <1>1, <1>2, <1>4
<1>5. ASSUME NEW b \in B, b + s[b] = x + s[x] PROVE b = x
  BY <1>1, <1>2, <1>5
<1> QED BY <1>3, <1>4, <1>5

(* coalesce, of a block just marked free, whichever of its neighbours are  *)
(* free.                                                                   *)
LEMMA CoalesceRight ==
  ASSUME NEW m, NEW B, NEW s, NEW a, Shaped(m, B, s, a), RoverIn(m, B), NEW bp \in B,
         bp /= Listp, a[bp] = 0, Apart(B, s, a, {bp})
  PROVE  Coalesces(m, B, s, a, bp, Coalesce(m, bp))
<1>1. Layout(B, s, m.brk) /\ m \in Memories
  BY DEF Shaped
<1>2. \A b \in B : /\ b \in Nat /\ s[b] \in Nat /\ b >= 24 /\ s[b] >= 8 /\ b % 8 = 0
                   /\ s[b] % 8 = 0 /\ b + s[b] <= m.brk /\ b - 4 \in Words
                   /\ b + s[b] - 8 \in Words /\ b + s[b] < UintMod
  BY <1>1, BlockIn
<1>3. m.brk \in Nat /\ m.brk % 8 = 0
  BY <1>1, BlockIn
<1>4. PICK n : n = bp + s[bp]
  OBVIOUS
<1>5. n \in B \cup {m.brk} /\ n \in Nat /\ bp < n
  BY <1>1, <1>2, <1>4 DEF Layout
<1>6. PICK p \in B : p + s[p] = bp
  BY <1>1 DEF Layout
<1>7. \A b \in B : /\ a[b] \in {0, 1}
                   /\ Get(m, b - 4) = s[b] + a[b] /\ Get(m, b + s[b] - 8) = s[b] + a[b]
                   /\ GetSize(m, b - 4) = s[b] /\ GetAlloc(m, b - 4) = a[b]
                   /\ GetSize(m, b + s[b] - 8) = s[b] /\ GetAlloc(m, b + s[b] - 8) = a[b]
                   /\ NextBlkp(m, b) = b + s[b]
  BY BlockTags
<1>8. PrevBlkp(m, bp) = p /\ NextBlkp(m, bp) = n /\ GetAlloc(m, Ftrp(m, p)) = a[p]
  <2>1. PICK k \in Nat : k = p /\ k + s[p] = bp
    BY <1>2, <1>6
  <2>2. bp - s[p] = p
    BY <1>2, <2>1
  <2>0. /\ GetSize(m, p - 4) = s[p]
        /\ GetSize(m, p + s[p] - 8) = s[p] /\ GetAlloc(m, p + s[p] - 8) = a[p]
        /\ NextBlkp(m, bp) = bp + s[bp]
    BY <1>7
  <2>3. GetSize(m, bp - 8) = s[p] /\ GetAlloc(m, bp - 8) = a[p]
    <3>1. p \in Nat /\ s[p] \in Nat /\ bp \in Nat
      BY <1>2
    <3>2. p + s[p] - 8 = bp - 8
      BY <1>6, <3>1
    <3> QED BY <2>0, <3>2
  <2>4. PrevBlkp(m, bp) = p
    BY <2>2, <2>3 DEF PrevBlkp, DSIZE
  <2>5. Ftrp(m, p) = bp - 8
    <3>1. p \in Nat /\ s[p] \in Nat /\ bp \in Nat
      BY <1>2
    <3>2. p + s[p] - 8 = bp - 8
      BY <1>6, <3>1
    <3> QED BY <2>0, <3>2 DEF Ftrp, Hdrp, WSIZE, DSIZE
  <2>6. GetAlloc(m, Ftrp(m, p)) = a[p]
    BY <2>3, <2>5
  <2> QED BY <1>4, <2>0, <2>4, <2>6
<1>9. /\ n \in B => GetAlloc(m, n - 4) = a[n]
      /\ n \notin B => GetAlloc(m, n - 4) = 1
  BY <1>5, <1>7, EpilogueTags
<1>10. p < bp /\ p /= bp /\ n /= bp /\ p \in Nat /\ s[p] \in Nat
  BY <1>2, <1>5, <1>6
<1>11. \A b \in B : b + s[b] = bp => b = p
  BY <1>1, <1>6, TwoBlocks
<1>12. /\ n \in B => \A b \in B : bp <= b /\ b < n => b = bp
       /\ n \in B => \A b \in B : bp <= b /\ b < n + s[n] => b = bp \/ b = n
       /\ \A b \in B : bp <= b /\ b < n => b = bp
       /\ \A b \in B : p <= b /\ b < n => b = p \/ b = bp
  <2>1. n \in B => \A b \in B : bp <= b /\ b < n => b = bp
    BY <1>1, <1>4, TwoBlocks
  <2>2. n \in B => \A b \in B : bp <= b /\ b < n + s[n] => b = bp \/ b = n
    BY <1>1, <1>4, TwoBlocks
  <2>3. \A b \in B : p <= b /\ b < n => b = p \/ b = bp
    BY <1>1, <1>4, <1>6, TwoBlocks
  <2>4. \A b \in B : bp <= b /\ b < n => b = bp
    BY <1>2, <1>10, <2>3
  <2> QED BY <2>1, <2>2, <2>3, <2>4
<1>13. Coalesce(m, bp) = CoalesceWith(m, bp, p, n)
  BY <1>8 DEF Coalesce
<1>14. CASE a[p] = 1 /\ (n \in B => a[n] = 1)
  <2>1. Coalesce(m, bp) = Result(m, bp)
    BY <1>8, <1>9, <1>13, <1>14 DEF CoalesceWith, Hdrp, WSIZE
  <2>2. Apart(B, s, a, {})
    <3>1. ASSUME NEW b \in B, NEW e \in B, e = b + s[b], a[b] = 0, a[e] = 0 PROVE FALSE
      <4>1. b = bp \/ e = bp
        BY <3>1 DEF Apart
      <4>2. CASE b = bp
        <5>1. e = n
          BY <1>4, <3>1, <4>2
        <5> QED BY <1>14, <3>1, <5>1
      <4>3. CASE e = bp
        BY <1>11, <1>14, <3>1, <4>3
      <4> QED BY <4>1, <4>2, <4>3
    <3> QED BY <3>1 DEF Apart
  <2>3. Kept(m, B, s, a, m, B, s, a, {})
    BY DEF Kept, SamePayload
  <2>4. s[bp] >= s[bp]
    BY <1>2
  <2>5. Sound(m, B, s, a)
    BY <2>2 DEF Sound
  <2> QED BY <2>1, <2>3, <2>4, <2>5 DEF Coalesces
<1>15. CASE a[p] = 1 /\ n \in B /\ a[n] = 0
  <2>1. PICK y : y = n + s[n] /\ y \in B \cup {m.brk} /\ y \in Nat /\ n < y /\ y < UintMod
    <3>1. n + s[n] \in B \cup {m.brk}
      BY <1>1, <1>15 DEF Layout
    <3> QED BY <1>2, <1>15, <3>1
  <2>2. PICK v : v = y - bp /\ v = s[bp] + s[n] /\ v \in Nat /\ v % 8 = 0 /\ v < UintMod
    <3>1. y - bp = s[bp] + s[n]
      BY <1>2, <1>4, <1>15, <2>1
    <3>2. (s[bp] + s[n]) % 8 = 0
      BY <1>2, <1>15, Eights
    <3>3. s[bp] \in Nat /\ s[n] \in Nat /\ bp \in Nat
      BY <1>2, <1>15
    <3>4. s[bp] + s[n] \in Nat /\ s[bp] + s[n] < UintMod
      BY <2>1, <3>1, <3>3, Numbers
    <3> QED BY <3>1, <3>2, <3>4
  <2>3. PICK m2 : m2 = PutTags(m, bp, Pack(v, 0))
    OBVIOUS
  <2>4. Coalesce(m, bp) = FixRover(Result(m2, bp))
    <3>1. GetSize(m, bp - 4) + GetSize(m, n - 4) = v
      BY <1>7, <1>15, <2>2
    <3>2. MergeNext(m, bp, n) = Result(m2, bp)
      BY <2>3, <3>1 DEF MergeNext, Hdrp, WSIZE
    <3> QED BY <1>8, <1>9, <1>13, <1>15, <3>2 DEF CoalesceWith, Hdrp, WSIZE
  <2>5. /\ Same(m, m2)
        /\ \A q \in Int : Get(m2, q) = IF q = bp - 4 \/ q = y - 8 THEN v ELSE Get(m, q)
    <3>1. y - 8 = n + s[n] - 8 /\ y - 8 = bp + v - 8
      BY <1>2, <1>5, <1>15, <2>1, <2>2
    <3>2. bp - 4 \in Words /\ y - 8 \in Words
      BY <1>2, <1>15, <3>1
    <3> QED BY <1>1, <1>2, <2>2, <2>3, <3>1, <3>2, TagsWritten
  <2>6. OneTag(m, m2, bp, y)
    <3>1. bp \in Nat /\ y \in Nat /\ v \in Nat /\ bp + v - 8 = y - 8 /\ y - bp >= 8
      BY <1>2, <1>5, <2>1, <2>2
    <3>2. \A q \in Int : Get(m2, q) = IF q = bp - 4 \/ q = y - 8 THEN v ELSE Get(m, q)
      BY <2>2, <2>5, <3>1
    <3> QED BY <2>2, <2>5, <3>1, <3>2, OneTagWritten
  <2>7. FreeRun(m, B, s, a, bp, y)
    <3>1. \A b \in B : bp <= b /\ b < y => a[b] = 0
      BY <1>12, <1>15, <2>1
    <3>2. y \in B => a[y] = 1
      <4>1. y /= bp /\ n /= bp
        BY <1>2, <1>5, <2>1
      <4> QED BY <1>7, <1>15, <2>1, <4>1 DEF Apart
    <3>3. bp < y /\ \A b \in B : b + s[b] = bp => a[b] = 1
      BY <1>5, <1>2, <1>11, <1>15, <2>1
    <3> QED BY <2>1, <3>1, <3>2, <3>3 DEF FreeRun
  <2>10. bp >= bp /\ bp < y
    BY <1>2, <1>5, <2>1
  <2>11. PICK m3, B2, s2, a2 :
            /\ FixRover(Result(m2, bp)) = Result(m3, bp)
            /\ Sound(m3, B2, s2, a2) /\ Kept(m, B, s, a, m3, B2, s2, a2, {})
            /\ bp \in B2 /\ a2[bp] = 0 /\ s2[bp] = y - bp
            /\ m3.brk = m.brk /\ m3.nextFit = m.nextFit
    BY <2>6, <2>7, <2>10, Merged
  <2>12. y - bp >= s[bp]
    BY <1>2, <1>15, <2>2
  <2> QED BY <2>4, <2>11, <2>12 DEF Coalesces
<1>16. CASE a[p] = 0
  <2>1. p /= Listp /\ n - p >= 8 /\ p < n /\ n - p = s[bp] + s[p] /\ bp >= p /\ bp < n
    <3>1. p /= Listp
      BY <1>16 DEF Shaped, Tagged
    <3>2. s[bp] \in Nat /\ s[p] \in Nat /\ bp \in Nat /\ p \in Nat /\ s[bp] >= 8
      BY <1>2
    <3> QED BY <1>4, <1>5, <1>6, <1>10, <3>1, <3>2
  <2>2. \A b \in B : b + s[b] = p => a[b] = 1
    <3>1. ASSUME NEW b \in B, b + s[b] = p PROVE a[b] = 1
      <4>1. b /= bp
        BY <1>2, <1>10, <3>1
      <4>2. a[b] \in {0, 1}
        BY <1>7
      <4> QED BY <1>10, <1>16, <3>1, <4>1, <4>2 DEF Apart
    <3> QED BY <3>1
  <2>3. CASE n \in B => a[n] = 1
    <3>1. PICK v : v = n - p /\ v = s[bp] + s[p] /\ v \in Nat /\ v % 8 = 0 /\ v < UintMod
      <4>1. (s[bp] + s[p]) % 8 = 0 /\ s[bp] \in Nat /\ s[p] \in Nat
        BY <1>2, Eights
      <4>2. n < UintMod
        BY <1>2, <1>4
      <4> QED BY <1>5, <1>10, <2>1, <4>1, <4>2, Numbers
    <3>2. PICK m1 : m1 = PutFooter(m, bp, Pack(v, 0))
      OBVIOUS
    <3>3. PICK m2 : m2 = Put(m1, p - 4, v)
      OBVIOUS
    <3>4. Coalesce(m, bp) = FixRover(Result(m2, p))
      <4>1. GetSize(m, bp - 4) + GetSize(m, p - 4) = v
        BY <1>7, <3>1
      <4>2. MergePrev(m, bp, p, v) = Result(m2, p)
        BY <3>1, <3>2, <3>3 DEF MergePrev, Hdrp, WSIZE, Pack
      <4>3. GetAlloc(m, n - 4) = 1 /\ a[p] /= 1
        BY <1>9, <1>16, <2>3
      <4> QED BY <1>8, <1>13, <4>1, <4>2, <4>3 DEF CoalesceWith, Hdrp, WSIZE
    <3>5. Same(m, m1) /\ \A q \in Int : Get(m1, q) = IF q = n - 8 THEN v ELSE Get(m, q)
      <4>1. /\ s[bp] \in Nat /\ bp \in Nat /\ bp + s[bp] - 8 \in Words
            /\ GetSize(m, bp - 4) = s[bp]
        BY <1>2, <1>7
      <4>2. bp + s[bp] - 8 = n - 8
        BY <1>4, <1>5, <4>1
      <4>3. n - 8 = bp + GetSize(m, bp - 4) - 8 /\ n - 8 \in Words
        BY <4>1, <4>2
      <4>4. PutFooter(m, bp, Pack(v, 0)) = PutFooter(m, bp, v)
        BY <3>1 DEF Pack
      <4> QED BY <1>1, <3>1, <3>2, <4>3, <4>4, FooterWritten
    <3>6. Same(m1, m2) /\ \A q \in Int : Get(m2, q) = IF q = p - 4 THEN v ELSE Get(m1, q)
      <4>1. m1 \in Memories /\ p - 4 \in Words
        BY <1>2, <3>5 DEF Same
      <4> QED BY <3>1, <3>3, <4>1, PutWrites DEF Same
    <3>7. OneTag(m, m2, p, n)
      <4>1. Same(m, m2)
        BY <3>5, <3>6 DEF Same
      <4>2. \A q \in Int : Get(m2, q) = IF q = p - 4 \/ q = n - 8 THEN v ELSE Get(m, q)
        BY <3>5, <3>6
      <4> QED BY <1>5, <1>10, <2>1, <3>1, <4>1, <4>2, OneTagWritten
    <3>8. FreeRun(m, B, s, a, p, n)
      <4>1. \A b \in B : p <= b /\ b < n => a[b] = 0
        BY <1>12, <1>16
      <4> QED BY <1>5, <2>1, <2>2, <2>3, <4>1 DEF FreeRun
    <3>9. PICK m3, B2, s2, a2 :
            /\ FixRover(Result(m2, p)) = Result(m3, p)
            /\ Sound(m3, B2, s2, a2) /\ Kept(m, B, s, a, m3, B2, s2, a2, {})
            /\ p \in B2 /\ a2[p] = 0 /\ s2[p] = n - p
            /\ m3.brk = m.brk /\ m3.nextFit = m.nextFit
      BY <2>1, <3>7, <3>8, Merged
    <3>10. n - p >= s[bp]
      BY <1>2, <2>1
    <3> QED BY <3>4, <3>9, <3>10 DEF Coalesces
  <2>4. CASE n \in B /\ a[n] = 0
    <3>0. PICK y : /\ y = n + s[n] /\ y \in B \cup {m.brk} /\ y \in Nat /\ n < y
                   /\ y < UintMod /\ s[n] \in Nat
      <4>1. n + s[n] \in B \cup {m.brk}
        BY <1>1, <2>4 DEF Layout
      <4> QED BY <1>2, <2>4, <4>1
    <3>1. PICK v : /\ v = y - p /\ v = s[bp] + s[p] + s[n] /\ v \in Nat /\ v % 8 = 0
                   /\ v < UintMod
      <4>1. y - p = s[bp] + s[p] + s[n]
        BY <1>2, <1>5, <1>10, <2>1, <3>0
      <4>2. (s[bp] + s[p]) % 8 = 0 /\ s[bp] + s[p] \in Nat /\ s[n] \in Nat /\ s[n] % 8 = 0
        <5>1. s[bp] \in Nat /\ s[p] \in Nat /\ s[bp] % 8 = 0 /\ s[p] % 8 = 0
          BY <1>2
        <5>2. s[n] \in Nat /\ s[n] % 8 = 0
          BY <1>2, <2>4
        <5> QED BY <5>1, <5>2, Eights
      <4>3. (s[bp] + s[p] + s[n]) % 8 = 0 /\ s[bp] + s[p] + s[n] \in Nat
        BY <4>2, Eights
      <4>4. y - p < UintMod
        BY <1>10, <3>0, Numbers
      <4> QED BY <4>1, <4>3, <4>4
    <3>2. PICK m1 : m1 = Put(m, p - 4, v)
      OBVIOUS
    <3>3. PICK m2 : m2 = PutFooter(m1, n, Pack(v, 0))
      OBVIOUS
    <3>4. Coalesce(m, bp) = FixRover(Result(m2, p))
      <4>1. GetSize(m, bp - 4) + GetSize(m, p - 4) + GetSize(m, Ftrp(m, n)) = v
        <5>1. GetSize(m, bp - 4) = s[bp] /\ GetSize(m, p - 4) = s[p]
              /\ GetSize(m, n - 4) = s[n] /\ GetSize(m, n + s[n] - 8) = s[n]
          BY <1>7, <2>4
        <5>2. GetSize(m, Ftrp(m, n)) = s[n]
          BY <5>1 DEF Ftrp, Hdrp, WSIZE, DSIZE
        <5> QED BY <3>1, <5>1, <5>2
      <4>2. MergeBoth(m, p, n, v) = Result(m2, p)
        BY <3>1, <3>2, <3>3 DEF MergeBoth, Hdrp, WSIZE, Pack
      <4>3. GetAlloc(m, n - 4) = 0 /\ a[p] /= 1
        BY <1>9, <1>16, <2>4
      <4> QED BY <1>8, <1>13, <4>1, <4>2, <4>3 DEF CoalesceWith, Hdrp, WSIZE
    <3>5. Same(m, m1) /\ \A q \in Int : Get(m1, q) = IF q = p - 4 THEN v ELSE Get(m, q)
      <4>1. p - 4 \in Words
        BY <1>2
      <4> QED BY <1>1, <3>1, <3>2, <4>1, PutWrites DEF Same
    <3>6. Same(m1, m2) /\ \A q \in Int : Get(m2, q) = IF q = y - 8 THEN v ELSE Get(m1, q)
      <4>1. /\ s[n] \in Nat /\ n \in Nat /\ n + s[n] - 8 \in Words /\ Get(m, n - 4) = s[n] + 0
            /\ s[n] % 8 = 0
        BY <1>2, <1>7, <2>4
      <4>2. n + s[n] - 8 = y - 8 /\ m1 \in Memories
        BY <3>0, <3>5, <4>1 DEF Same
      <4>3. GetSize(m1, n - 4) = s[n]
        <5>1. n - 4 \in Int /\ n - 4 /= p - 4
          BY <1>5, <1>10, <2>1
        <5>2. Get(m1, n - 4) = s[n] + 0
          BY <3>5, <4>1, <5>1
        <5> QED BY <4>1, <5>2, TagParts
      <4>4. y - 8 = n + GetSize(m1, n - 4) - 8 /\ y - 8 \in Words
        BY <4>1, <4>2, <4>3
      <4>5. PutFooter(m1, n, Pack(v, 0)) = PutFooter(m1, n, v)
        BY <3>1 DEF Pack
      <4> QED BY <3>1, <3>3, <4>2, <4>4, <4>5, FooterWritten
    <3>7. OneTag(m, m2, p, y)
      <4>1. Same(m, m2)
        BY <3>5, <3>6 DEF Same
      <4>2. \A q \in Int : Get(m2, q) = IF q = p - 4 \/ q = y - 8 THEN v ELSE Get(m, q)
        BY <3>5, <3>6
      <4>3. y - p >= 8
        BY <1>5, <1>10, <2>1, <3>0
      <4> QED BY <1>10, <3>0, <3>1, <4>1, <4>2, <4>3, OneTagWritten
    <3>8. FreeRun(m, B, s, a, p, y)
      <4>1. \A b \in B : p <= b /\ b < y => a[b] = 0
        <5>1. ASSUME NEW b \in B, p <= b, b < y PROVE b = p \/ b = bp \/ b = n
          <6>1. b \in Nat
            BY <1>2
          <6>2. b < n => b = p \/ b = bp
            BY <1>12, <5>1
          <6>3. b >= n => b = n
            BY <1>5, <1>12, <2>4, <3>0, <5>1, <6>1
          <6> QED BY <1>5, <6>1, <6>2, <6>3
        <5> QED BY <1>16, <2>4, <5>1
      <4>2. y \in B => a[y] = 1
        <5>1. y /= bp /\ n /= bp
          BY <1>2, <1>5, <3>0
        <5> QED BY <1>7, <2>4, <3>0, <5>1 DEF Apart
      <4>3. p < y
        BY <1>5, <1>10, <2>1, <3>0
      <4> QED BY <2>2, <3>0, <4>1, <4>2, <4>3 DEF FreeRun
    <3>9. bp >= p /\ bp < y
      BY <1>2, <1>5, <2>1, <3>0
    <3>10. PICK m3, B2, s2, a2 :
            /\ FixRover(Result(m2, p)) = Result(m3, p)
            /\ Sound(m3, B2, s2, a2) /\ Kept(m, B, s, a, m3, B2, s2, a2, {})
            /\ p \in B2 /\ a2[p] = 0 /\ s2[p] = y - p
            /\ m3.brk = m.brk /\ m3.nextFit = m.nextFit
      BY <2>1, <3>7, <3>8, <3>9, Merged
    <3>11. y - p >= s[bp]
      <4>1. s[bp] \in Nat /\ s[p] \in Nat
        BY <1>2
      <4> QED BY <3>0, <3>1, <4>1
    <3> QED BY <3>4, <3>10, <3>11 DEF Coalesces
  <2> QED BY <1>7, <2>3, <2>4
<1> QED BY <1>7, <1>14, <1>15, <1>16

--------------------------------------------------------------------------------
(* place, mm_free and extend_heap *)

(* A block is a region of its own. *)
LEMMA OneBlock ==
  ASSUME NEW m, NEW B, NEW s, NEW a, Shaped(m, B, s, a), NEW bp \in B, bp /= Listp,
         NEW y, y = bp + s[bp]
  PROVE  /\ Region(B, m.brk, bp, y, m.brk) /\ Cut(bp, y, y)
         /\ bp \in Nat /\ s[bp] \in Nat /\ s[bp] % 8 = 0 /\ s[bp] >= 16 /\ bp % 8 = 0
         /\ y \in Nat /\ y % 8 = 0 /\ y <= Top /\ y < UintMod /\ y <= m.brk /\ m.brk \in Nat
         /\ bp - 4 \in Words /\ y - 8 \in Words
         /\ \A b \in B : bp <= b /\ b < y => b = bp
<1>1. Layout(B, s, m.brk)
  BY DEF Shaped
<1>2. /\ bp \in Nat /\ s[bp] \in Nat /\ s[bp] % 8 = 0 /\ bp % 8 = 0 /\ bp + s[bp] <= m.brk
      /\ m.brk <= Top /\ m.brk \in Nat /\ bp - 4 \in Words /\ bp + s[bp] - 8 \in Words
      /\ bp + s[bp] < UintMod
  BY <1>1, BlockIn
<1>3. s[bp] >= 16 /\ y \in B \cup {m.brk}
  BY <1>1 DEF Layout
<1>4. y \in Nat /\ y % 8 = 0 /\ y - bp = s[bp] /\ bp < y
  BY <1>2, <1>3, Eights
<1>5. y <= Top /\ y < UintMod /\ y <= m.brk
  BY <1>2, Numbers
<1>6. Region(B, m.brk, bp, y, m.brk)
  BY <1>3, <1>4, <1>5 DEF Region
<1>7. Cut(bp, y, y)
  BY <1>3, <1>4 DEF Cut
<1>8. y - 8 \in Words
  <2>1. bp + s[bp] - 8 = y - 8
    BY <1>2
  <2> QED BY <1>2, <2>1
<1>9. ASSUME NEW b \in B, bp <= b, b < y PROVE b = bp
  <2>1. b \in Nat
    BY <1>1, BlockIn
  <2>2. bp < b => bp + s[bp] <= b
    BY <1>1 DEF Layout
  <2> QED BY <1>2, <1>9, <2>1, <2>2
<1> QED BY <1>2, <1>3, <1>4, <1>5, <1>6, <1>7, <1>8, <1>9

(* The rover stays at a block when only the blocks after x change.         *)
LEMMA RoverStays ==
  ASSUME NEW m, NEW B, NEW s, NEW hi, NEW hi2, Layout(B, s, hi), NEW x, NEW y, NEW z,
         Region(B, hi, x, y, hi2), Cut(x, y, z), \A b \in B : x <= b /\ b < y => b = x,
         RoverIn(m, B), NEW m2, m2.rover = m.rover, m2.nextFit = m.nextFit
  PROVE  RoverIn(m2, SplicedB(B, x, y, z))
<1>1. SUFFICES ASSUME m.nextFit PROVE m.rover \in SplicedB(B, x, y, z)
  BY DEF RoverIn
<1>2. m.rover \in B
  BY <1>1 DEF RoverIn
<1>3. m.rover \in Nat
  BY <1>2, BlockIn
<1>4. x \in SplicedB(B, x, y, z) /\ x \in Nat
  BY SplicedBlocks
<1>5. y \in Nat
  BY DEF Region
<1>6. m.rover < x \/ m.rover >= y => m.rover \in SplicedB(B, x, y, z)
  BY <1>2, SplicedBlocks
<1> QED BY <1>2, <1>3, <1>4, <1>5, <1>6

(* What place does with a free block. *)
Places(m, B, s, a, bp, asize, m2) ==
    \E B2, s2, a2 :
        /\ Sound(m2, B2, s2, a2) /\ Kept(m, B, s, a, m2, B2, s2, a2, {bp})
        /\ bp \in B2 /\ a2[bp] = 1 /\ s2[bp] >= asize
        /\ m2.brk = m.brk /\ m2.nextFit = m.nextFit

(* The common part: the tags are written, as one block or two.             *)
LEMMA PlacedTags ==
  ASSUME NEW m, NEW B, NEW s, NEW a, Sound(m, B, s, a), NEW bp \in B, bp /= Listp, a[bp] = 0,
         NEW y, y = bp + s[bp], NEW z, Cut(bp, y, z), NEW m2, Same(m, m2),
         Rewrites(m, m2, bp, y, z, 1, 0), NEW asize, z - bp >= asize
  PROVE  Places(m, B, s, a, bp, asize, m2)
<1>1. Shaped(m, B, s, a) /\ Apart(B, s, a, {}) /\ RoverIn(m, B)
  BY DEF Sound
<1>2. Layout(B, s, m.brk)
  BY <1>1 DEF Shaped
<1>3. /\ Region(B, m.brk, bp, y, m.brk) /\ m2.brk = m.brk
      /\ \A b \in B : bp <= b /\ b < y => b = bp
      /\ bp \in Nat /\ y \in Nat /\ bp < y
  BY <1>1, OneBlock DEF Same
<1>4. Region(B, m.brk, bp, y, m2.brk)
  BY <1>3
<1>5. PICK C, t, g : /\ C = SplicedB(B, bp, y, z) /\ t = SplicedS(B, s, bp, y, z)
                     /\ g = SplicedA(B, a, bp, y, z, 1, 0)
  OBVIOUS
<1>6. Shaped(m2, C, t, g) /\ g[bp] = 1
  BY <1>1, <1>4, <1>5, SplicedMemory
<1>7. \A b \in B : b < bp \/ b >= y => g[b] = a[b]
  BY <1>1, <1>4, <1>5, SplicedMemory
<1>8. Kept(m, B, s, a, m2, C, t, g, {bp})
  <2>1. /\ \A b \in B : bp <= b /\ b < y /\ a[b] = 1 => b \in {bp}
        /\ (1 = 1 => bp \in {bp}) /\ (z /= y /\ 0 = 1 => z \in {bp})
    BY <1>3
  <2> QED BY <1>1, <1>4, <1>5, <2>1, SplicedKept
<1>9. Apart(C, t, g, {bp, z} \ {y})
  <2>1. \A b \in {} : b >= bp /\ b < y
    OBVIOUS
  <2> QED BY <1>1, <1>4, <1>5, <2>1, SplicedApart
<1>10. /\ bp \in C /\ t[bp] = z - bp /\ bp < z /\ z <= y
       /\ z /= y => z \in C /\ t[z] = y - z
       /\ \A b \in C : b = bp \/ (b = z /\ z /= y) \/ (b \in B /\ (b < bp \/ b >= y))
  BY <1>2, <1>4, <1>5, SplicedBlocks
<1>11. Layout(C, t, m.brk)
  BY <1>3, <1>6 DEF Shaped
<1>12. RoverIn(m2, C)
  BY <1>1, <1>2, <1>3, <1>5, RoverStays DEF Same
<1>13. Apart(C, t, g, {})
  <2>1. ASSUME NEW b \in C, NEW e \in C, e = b + t[b], g[b] = 0, g[e] = 0 PROVE FALSE
    <3>1. z \in Nat
      BY DEF Cut
    <3>2. z /= y /\ (b = z \/ e = z)
      BY <1>6, <1>9, <2>1 DEF Apart
    <3>3. CASE b = z
      <4>1. e = y
        BY <1>3, <1>10, <2>1, <3>1, <3>2, <3>3
      <4>2. y \in B /\ g[y] = a[y]
        BY <1>3, <1>7, <1>10, <2>1, <3>1, <3>2, <4>1
      <4>3. a[y] /= 0
        <5>1. bp \notin {} /\ y \notin {}
          OBVIOUS
        <5> QED BY <1>1, <4>2, <5>1 DEF Apart
      <4> QED BY <2>1, <4>1, <4>2, <4>3
    <3>4. CASE e = z
      <4>1. z = bp + t[bp]
        BY <1>3, <1>10, <3>1
      <4>2. \A c \in C : c + t[c] = bp + t[bp] => c = bp
        BY <1>10, <1>11, <3>2, <4>1, TwoBlocks
      <4>3. b = bp
        BY <2>1, <3>4, <4>1, <4>2
      <4> QED BY <1>6, <2>1, <4>3
    <3> QED BY <3>2, <3>3, <3>4
  <2> QED BY <2>1 DEF Apart
<1> QED BY <1>6, <1>8, <1>10, <1>12, <1>13 DEF Places, Sound, Same

(* place, whether it splits the block or not. *)
LEMMA PlaceRight ==
  ASSUME NEW m, NEW B, NEW s, NEW a, Sound(m, B, s, a), NEW bp \in B, bp /= Listp, a[bp] = 0,
         NEW asize \in Nat, asize % 8 = 0, asize >= 16, asize <= s[bp]
  PROVE  Places(m, B, s, a, bp, asize, Place(m, bp, asize))
<1>1. Shaped(m, B, s, a) /\ m \in Memories
  BY DEF Sound, Shaped
<1>2. PICK y, csize \in Nat : y = bp + s[bp] /\ csize = s[bp]
  BY <1>1, OneBlock
<1>3. /\ Cut(bp, y, y) /\ csize % 8 = 0 /\ csize >= 16 /\ bp \in Nat /\ bp % 8 = 0
      /\ y \in Nat /\ y % 8 = 0 /\ y < UintMod /\ y <= m.brk /\ m.brk \in Nat
      /\ bp - 4 \in Words /\ y - 8 \in Words /\ y = bp + csize
  BY <1>1, <1>2, OneBlock
<1>4. Place(m, bp, asize) = PlaceIn(m, bp, asize, csize)
  BY <1>1, <1>2, BlockTags DEF Place, Hdrp, WSIZE
<1>5. (csize - asize) % SizeMod = csize - asize
  <2>1. csize - asize \in Nat /\ csize - asize < SizeMod
    BY <1>2, <1>3, Numbers
  <2> QED BY <2>1, Numbers, SmallRemainder
<1>6. Get(m, m.brk - 4) = 1 /\ m.listp = Listp
  BY <1>1 DEF Shaped, Tagged
<1>7. CASE csize - asize < 16
  <2>1. PICK m2 : m2 = PutTags(m, bp, Pack(csize, 1))
    OBVIOUS
  <2>2. Place(m, bp, asize) = m2
    BY <1>4, <1>5, <1>7, <2>1 DEF PlaceIn, DSIZE
  <2>3. /\ Same(m, m2)
        /\ \A q \in Int : Get(m2, q) = IF q = bp - 4 \/ q = y - 8 THEN csize + 1
                                       ELSE Get(m, q)
    <3>1. y - 8 = bp + csize - 8 /\ csize + 1 < UintMod
      BY <1>3, Numbers
    <3>2. m \in Memories /\ bp \in Nat /\ csize % 8 = 0 /\ bp - 4 \in Words /\ y - 8 \in Words
      BY <1>1, <1>3
    <3>3. 1 \in {0, 1}
      OBVIOUS
    <3>4. /\ Same(m, PutTags(m, bp, Pack(csize, 1)))
          /\ \A q \in Int : Get(PutTags(m, bp, Pack(csize, 1)), q) =
                              IF q = bp - 4 \/ q = y - 8 THEN csize + 1 ELSE Get(m, q)
      BY <3>1, <3>2, <3>3, TagsWritten
    <3> QED BY <2>1, <3>4
  <2>4. Rewrites(m, m2, bp, y, y, 1, 0)
    <3>1. bp + csize - 8 = y - 8 /\ bp - 4 \in Int /\ y - 8 \in Int /\ y - bp = csize
      BY <1>3
    <3>2. Get(m2, bp - 4) = y - bp + 1 /\ Get(m2, y - 8) = y - bp + 1
      BY <2>3, <3>1
    <3>3. ASSUME NEW w \in Int, w < bp - 4 \/ (y - 4 <= w /\ w < m.brk)
          PROVE  Get(m2, w) = Get(m, w)
      <4>1. w /= bp - 4 /\ w /= y - 8
        BY <1>3, <3>1, <3>3
      <4> QED BY <2>3, <4>1
    <3>4. Get(m2, m2.brk - 4) = 1
      <4>1. m.brk - 4 \in Int /\ m.brk - 4 /= bp - 4 /\ m.brk - 4 /= y - 8
        BY <1>3
      <4> QED BY <1>6, <2>3, <4>1 DEF Same
    <3> QED BY <1>6, <2>3, <3>2, <3>3, <3>4 DEF Rewrites, Same
  <2>5. y - bp >= asize
    <3>1. asize <= csize
      BY <1>2
    <3>2. y = bp + csize /\ bp \in Nat
      BY <1>3
    <3> QED BY <3>1, <3>2
  <2> QED BY <1>2, <1>3, <2>2, <2>3, <2>4, <2>5, PlacedTags
<1>8. CASE csize - asize >= 16
  <2>0. PICK z \in Nat, rest \in Nat : z = bp + asize /\ rest = csize - asize
    BY <1>3, <1>8
  <2>1. PICK m1 : m1 = PutTags(m, bp, Pack(asize, 1))
    OBVIOUS
  <2>2. PICK m2 : m2 = PutTags(m1, z, Pack(rest, 0))
    OBVIOUS
  <2>3. /\ z % 8 = 0 /\ rest % 8 = 0 /\ y = z + rest /\ rest >= 16 /\ z - bp = asize
        /\ z - 8 \in Words /\ z - 4 \in Words
    <3>1. z % 8 = 0 /\ rest % 8 = 0
      BY <1>3, <2>0, Eights
    <3>2. y = z + rest /\ rest >= 16 /\ z - bp = asize
      BY <1>3, <1>8, <2>0
    <3>3. z - 8 >= 16 /\ z - 4 < Top /\ (z - 8) % 4 = 0 /\ (z - 4) % 4 = 0
      <4>1. bp - 4 >= 16 /\ y - 8 < Top /\ Top \in Nat
        BY <1>3, InWords, Numbers
      <4> QED BY <1>3, <2>0, <3>1, <3>2, <4>1
    <3>4. z - 8 \in Words /\ z - 4 \in Words
      <4>1. Top \in Nat
        BY Numbers
      <4> QED BY <3>3, <4>1, InWords
    <3> QED BY <3>1, <3>2, <3>4
  <2>4. /\ Same(m, m1)
        /\ \A q \in Int : Get(m1, q) = IF q = bp - 4 \/ q = z - 8 THEN asize + 1
                                       ELSE Get(m, q)
    <3>1. z - 8 = bp + asize - 8 /\ asize + 1 < UintMod
      BY <1>3, <2>0, <2>3, Numbers
    <3>2. m \in Memories /\ bp \in Nat /\ bp - 4 \in Words /\ z - 8 \in Words
      BY <1>1, <1>3, <2>3
    <3>3. 1 \in {0, 1}
      OBVIOUS
    <3>4. /\ Same(m, PutTags(m, bp, Pack(asize, 1)))
          /\ \A q \in Int : Get(PutTags(m, bp, Pack(asize, 1)), q) =
                              IF q = bp - 4 \/ q = z - 8 THEN asize + 1 ELSE Get(m, q)
      BY <3>1, <3>2, <3>3, TagsWritten
    <3> QED BY <2>1, <3>4
  <2>5. Place(m, bp, asize) = m2
    <3>1. NextBlkp(m1, bp) = z
      <4>1. Get(m1, bp - 4) = asize + 1
        BY <1>3, <2>4
      <4>2. GetSize(m1, bp - 4) = asize
        BY <4>1, TagParts
      <4> QED BY <2>0, <4>2 DEF NextBlkp, WSIZE
    <3> QED BY <1>4, <1>5, <1>8, <2>0, <2>1, <2>2, <3>1 DEF PlaceIn, PutRest, DSIZE
  <2>6. /\ Same(m1, m2)
        /\ \A q \in Int : Get(m2, q) = IF q = z - 4 \/ q = y - 8 THEN rest
                                       ELSE Get(m1, q)
    <3>1. y - 8 = z + rest - 8 /\ rest = rest + 0 /\ rest < UintMod /\ m1 \in Memories
      BY <1>3, <2>3, <2>4, Numbers DEF Same
    <3>2. rest % 8 = 0 /\ z - 4 \in Words /\ y - 8 \in Words /\ 0 \in {0, 1}
      BY <1>3, <2>3
    <3>3. Same(m1, PutTags(m1, z, Pack(rest, 0)))
      BY <3>1, <3>2, TagsWritten
    <3>4. PICK w \in Words : w = y - 8 /\ w = z + rest - 8
      BY <3>1, <3>2
    <3>5. \A q \in Int : Get(PutTags(m1, z, Pack(rest, 0)), q) =
                              IF q = z - 4 \/ q = w THEN rest ELSE Get(m1, q)
      BY <3>1, <3>2, <3>4, TagsWritten
    <3> QED BY <2>2, <3>3, <3>4, <3>5
  <2>7. Same(m, m2)
    BY <2>4, <2>6 DEF Same
  <2>8. \A q \in Int : Get(m2, q) = IF q = z - 4 \/ q = y - 8 THEN rest
                                    ELSE IF q = bp - 4 \/ q = z - 8 THEN asize + 1
                                    ELSE Get(m, q)
    BY <2>4, <2>6
  <2>9. Rewrites(m, m2, bp, y, z, 1, 0)
    <3>1. bp - 4 \in Int /\ z - 8 \in Int /\ z - 4 \in Int /\ y - 8 \in Int /\ y - z = rest
      BY <1>3, <2>3
    <3>2. /\ bp - 4 /= z - 4 /\ bp - 4 /= y - 8 /\ z - 8 /= z - 4 /\ z - 8 /= y - 8
      BY <1>3, <2>3
    <3>3. Get(m2, bp - 4) = z - bp + 1 /\ Get(m2, z - 8) = z - bp + 1
      BY <2>3, <2>8, <3>1, <3>2
    <3>4. Get(m2, z - 4) = y - z + 0 /\ Get(m2, y - 8) = y - z + 0
      BY <2>8, <3>1
    <3>5. ASSUME NEW w \in Int, w < bp - 4 \/ (y - 4 <= w /\ w < m.brk)
          PROVE  Get(m2, w) = Get(m, w)
      <4>1. w /= bp - 4 /\ w /= z - 8 /\ w /= z - 4 /\ w /= y - 8
        BY <1>3, <2>3, <3>5
      <4> QED BY <2>8, <4>1
    <3>6. Get(m2, m2.brk - 4) = 1
      <4>1. /\ m.brk - 4 \in Int /\ m.brk - 4 /= bp - 4 /\ m.brk - 4 /= z - 8
            /\ m.brk - 4 /= z - 4 /\ m.brk - 4 /= y - 8
        BY <1>3, <2>3
      <4> QED BY <1>6, <2>7, <2>8, <4>1 DEF Same
    <3> QED BY <1>6, <2>7, <3>3, <3>4, <3>5, <3>6 DEF Rewrites, Same
  <2>10. Cut(bp, y, z)
    BY <1>3, <2>3 DEF Cut
  <2>11. z - bp >= asize
    BY <2>3
  <2> QED BY <1>2, <2>5, <2>7, <2>9, <2>10, <2>11, PlacedTags
<1> QED BY <1>3, <1>7, <1>8

(* mm_free gives the block back and keeps the others. *)
Frees(m, B, s, a, bp, m2) ==
    \E B2, s2, a2 :
        /\ Sound(m2, B2, s2, a2) /\ Kept(m, B, s, a, m2, B2, s2, a2, {bp})
        /\ bp \in B2 => a2[bp] = 0
        /\ m2.brk = m.brk /\ m2.nextFit = m.nextFit

(* mm_free of an allocated block. *)
LEMMA FreeRight ==
  ASSUME NEW m, NEW B, NEW s, NEW a, Sound(m, B, s, a), NEW bp \in B, bp /= Listp
  PROVE  Frees(m, B, s, a, bp, MmFree(m, bp))
<1>1. Shaped(m, B, s, a) /\ m \in Memories /\ Apart(B, s, a, {}) /\ RoverIn(m, B)
  BY DEF Sound, Shaped
<1>2. PICK y, size \in Nat : y = bp + s[bp] /\ size = s[bp]
  BY <1>1, OneBlock
<1>3. /\ Region(B, m.brk, bp, y, m.brk) /\ Cut(bp, y, y) /\ size % 8 = 0 /\ size >= 16
      /\ bp \in Nat /\ y \in Nat /\ y < UintMod /\ y <= m.brk /\ m.brk \in Nat
      /\ bp - 4 \in Words /\ y - 8 \in Words /\ y = bp + size /\ bp >= 32
      /\ \A b \in B : bp <= b /\ b < y => b = bp
  <2>1. /\ Region(B, m.brk, bp, y, m.brk) /\ Cut(bp, y, y) /\ size % 8 = 0 /\ size >= 16
        /\ bp \in Nat /\ y \in Nat /\ y < UintMod /\ y <= m.brk /\ m.brk \in Nat
        /\ bp - 4 \in Words /\ y - 8 \in Words /\ y = bp + size
        /\ \A b \in B : bp <= b /\ b < y => b = bp
    BY <1>1, <1>2, OneBlock
  <2>2. bp >= 32
    BY <1>1, <2>1, SplicedBlocks DEF Shaped
  <2> QED BY <2>1, <2>2
<1>4. PICK m1 : m1 = PutTags(m, bp, Pack(size, 0))
  OBVIOUS
<1>5. MmFree(m, bp) = Coalesce(m1, bp).m
  <2>1. Initialized(m) = m /\ bp /= NULL
    BY <1>1, <1>3, Numbers DEF Initialized, Shaped
  <2>2. GetSize(m, Hdrp(bp)) = size
    BY <1>1, <1>2, BlockTags DEF Hdrp, WSIZE
  <2> QED BY <1>4, <2>1, <2>2 DEF MmFree, FreeSized, PutTags
<1>6. PICK w \in Words : w = y - 8 /\ w = bp + size - 8
  BY <1>3
<1>7. Same(m, m1)
  <2>1. 0 \in {0, 1} /\ size = size + 0 /\ size < UintMod
    BY <1>3, Numbers
  <2> QED BY <1>1, <1>3, <1>4, <1>6, <2>1, TagsWritten
<1>8. \A q \in Int : Get(m1, q) = IF q = bp - 4 \/ q = w THEN size ELSE Get(m, q)
  <2>1. 0 \in {0, 1} /\ size = size + 0 /\ size < UintMod
    BY <1>3, Numbers
  <2>2. m \in Memories /\ bp \in Nat /\ size % 8 = 0 /\ bp - 4 \in Words
    BY <1>1, <1>3
  <2> QED BY <1>4, <1>6, <2>1, <2>2, TagsWritten, SMTT(30)
<1>9. Rewrites(m, m1, bp, y, y, 0, 0)
  <2>1. Get(m, m.brk - 4) = 1 /\ m.listp = Listp
    BY <1>1 DEF Shaped, Tagged
  <2>2. bp - 4 \in Int /\ w \in Int /\ y - bp + 0 = size
    BY <1>3, <1>6
  <2>3. Get(m1, bp - 4) = y - bp + 0 /\ Get(m1, y - 8) = y - bp + 0
    BY <1>6, <1>8, <2>2
  <2>4. ASSUME NEW q \in Int, q < bp - 4 \/ (y - 4 <= q /\ q < m.brk)
        PROVE  Get(m1, q) = Get(m, q)
    <3>1. q /= bp - 4 /\ q /= w
      BY <1>3, <1>6, <2>4
    <3> QED BY <1>8, <3>1
  <2>5. Get(m1, m1.brk - 4) = 1
    <3>1. m.brk - 4 \in Int /\ m.brk - 4 /= bp - 4 /\ m.brk - 4 /= w
      BY <1>3, <1>6
    <3> QED BY <1>7, <1>8, <2>1, <3>1 DEF Same
  <2> QED BY <1>7, <2>1, <2>3, <2>4, <2>5 DEF Rewrites, Same
<1>10. PICK C, t, g : /\ C = SplicedB(B, bp, y, y) /\ t = SplicedS(B, s, bp, y, y)
                      /\ g = SplicedA(B, a, bp, y, y, 0, 0)
  OBVIOUS
<1>11. Region(B, m.brk, bp, y, m1.brk)
  BY <1>3, <1>7 DEF Same
<1>12. Shaped(m1, C, t, g) /\ g[bp] = 0
  BY <1>1, <1>3, <1>9, <1>10, <1>11, SplicedMemory
<1>13. Kept(m, B, s, a, m1, C, t, g, {bp})
  <2>1. /\ \A b \in B : bp <= b /\ b < y /\ a[b] = 1 => b \in {bp}
        /\ (0 = 1 => bp \in {bp}) /\ (y /= y /\ 0 = 1 => y \in {bp})
    BY <1>3
  <2> QED BY <1>1, <1>3, <1>9, <1>10, <1>11, <2>1, SplicedKept
<1>14. Apart(C, t, g, {bp})
  <2>1. \A b \in {} : b >= bp /\ b < y
    OBVIOUS
  <2>2. Apart(C, t, g, {bp, y} \ {y})
    BY <1>1, <1>3, <1>9, <1>10, <1>11, <2>1, SplicedApart
  <2> QED BY <2>2 DEF Apart
<1>15. bp \in C
  BY <1>1, <1>3, <1>10, SplicedBlocks DEF Shaped
<1>16. RoverIn(m1, C)
  BY <1>1, <1>3, <1>7, <1>10, RoverStays DEF Shaped, Same
<1>17. Coalesces(m1, C, t, g, bp, Coalesce(m1, bp))
  BY <1>12, <1>14, <1>15, <1>16, CoalesceRight
<1>18. PICK m3, B2, s2, a2, x :
          /\ Coalesce(m1, bp) = Result(m3, x)
          /\ Sound(m3, B2, s2, a2) /\ Kept(m1, C, t, g, m3, B2, s2, a2, {})
          /\ m3.brk = m1.brk /\ m3.nextFit = m1.nextFit
  BY <1>17 DEF Coalesces
<1>19. MmFree(m, bp) = m3
  BY <1>5, <1>18 DEF Result
<1>20. Kept(m, B, s, a, m3, B2, s2, a2, {bp} \cup {})
  BY <1>13, <1>18, KeptTwice
<1>21. bp \in B2 => a2[bp] = 0
  <2>1. SUFFICES ASSUME bp \in B2, a2[bp] /= 0 PROVE FALSE
    OBVIOUS
  <2>2. a2[bp] \in {0, 1}
    BY <1>18, <2>1 DEF Sound, Shaped, Tagged
  <2>3. g[bp] = 1
    BY <1>18, <2>1, <2>2 DEF Kept
  <2> QED BY <1>12, <2>3
<1>22. {bp} \cup {} = {bp}
  OBVIOUS
<1> QED BY <1>7, <1>18, <1>19, <1>20, <1>21, <1>22 DEF Frees, Same

(* extend_heap, of size bytes: it fails, or makes a free block that large. *)
Extends(m, B, s, a, size, r) ==
    \/ r = Result(m, NULL) /\ ~(2 * size < UintMod /\ m.brk + size <= Top)
    \/ \E m3, B2, s2, a2, x :
          /\ r = Result(m3, x)
          /\ Sound(m3, B2, s2, a2) /\ Kept(m, B, s, a, m3, B2, s2, a2, {})
          /\ x \in B2 /\ a2[x] = 0 /\ s2[x] >= size
          /\ m3.brk = m.brk + size /\ m3.nextFit = m.nextFit

(* The new area of the heap, once mem_sbrk has given it.                   *)
Grown(m, m1, size) == m1 = [m EXCEPT !.brk = @ + size]

(* The new area becomes a free block in front of a new epilogue, and is    *)
(* coalesced with a free block before it.                                  *)
LEMMA AreaRight ==
  ASSUME NEW m, NEW B, NEW s, NEW a, Sound(m, B, s, a), NEW size \in Nat, size % 8 = 0,
         size >= 16, m.brk + size <= Top, NEW m1, Grown(m, m1, size)
  PROVE  Extends(m, B, s, a, size, FormatArea(Result(m1, m.brk), size))
<1>1. Shaped(m, B, s, a) /\ m \in Memories /\ Apart(B, s, a, {}) /\ RoverIn(m, B)
      /\ Layout(B, s, m.brk) /\ m.listp = Listp
  BY DEF Sound, Shaped
<1>2. PICK x \in Nat, y \in Nat : x = m.brk /\ y = m.brk + size /\ y = x + size
  BY <1>1 DEF Layout
<1>3. /\ x % 8 = 0 /\ x >= 32 /\ x <= Top /\ x - 4 \in Words
  <2>1. Listp \in B
    BY <1>1 DEF Layout
  <2> QED BY <1>1, <1>2, <2>1, BlockIn
<1>4. /\ y % 8 = 0 /\ y <= Top /\ y < UintMod /\ size < UintMod /\ y - x = size
      /\ y - 8 \in Words /\ y - 4 \in Words /\ Top \in Nat
  <2>1. Top \in Nat /\ y <= Top
    BY <1>2, Numbers
  <2>2. y % 8 = 0 /\ y - x = size
    BY <1>2, <1>3, Eights
  <2>3. y < UintMod /\ size < UintMod
    BY <1>2, <1>3, <2>1, Numbers
  <2>4. /\ y - 8 \in Int /\ y - 8 >= 16 /\ y - 8 < Top /\ (y - 8) % 4 = 0
        /\ y - 4 \in Int /\ y - 4 >= 16 /\ y - 4 < Top /\ (y - 4) % 4 = 0
    BY <1>2, <1>3, <2>1, <2>2
  <2>5. y - 8 \in Words /\ y - 4 \in Words
    BY <2>4, InWords
  <2> QED BY <2>1, <2>2, <2>3, <2>5
<1>5. /\ m1 \in Memories /\ m1.brk = y /\ m1.listp = Listp /\ m1.rover = m.rover
      /\ m1.nextFit = m.nextFit /\ \A q \in Int : Get(m1, q) = Get(m, q)
  BY <1>1, <1>2 DEF Memories, Get, Grown
<1>6. PICK m2 : m2 = PutTags(m1, x, Pack(size, 0))
  OBVIOUS
<1>7. PICK w \in Words, e \in Words : w = y - 8 /\ w = x + size - 8 /\ e = y - 4
  BY <1>2, <1>4
<1>8. Same(m1, m2)
  <2>1. 0 \in {0, 1} /\ size = size + 0
    OBVIOUS
  <2> QED BY <1>3, <1>4, <1>5, <1>6, <1>7, <2>1, TagsWritten
<1>9. \A q \in Int : Get(m2, q) = IF q = x - 4 \/ q = w THEN size ELSE Get(m1, q)
  <2>1. 0 \in {0, 1} /\ size = size + 0
    OBVIOUS
  <2>2. m1 \in Memories /\ x - 4 \in Words /\ size < UintMod
    BY <1>3, <1>4, <1>5
  <2>3. w \in Words /\ w = x + size - 8
    BY <1>7
  <2>4. \A q \in Int : Get(PutTags(m1, x, Pack(size, 0)), q) =
                             IF q = x - 4 \/ q = w THEN size ELSE Get(m1, q)
    BY <2>1, <2>2, <2>3, TagsWritten
  <2> QED BY <1>6, <2>4
<1>10. PICK m3 : m3 = PutEpilogue(m2, x)
  OBVIOUS
<1>11. m3 = Put(m2, e, 1)
  <2>1. Get(m2, x - 4) = size + 0
    <3>1. x - 4 \in Int /\ size + 0 = size
      BY <1>2
    <3> QED BY <1>9, <3>1
  <2>2. GetSize(m2, x - 4) = size
    BY <2>1, TagParts
  <2>3. x + size - 4 = e
    BY <1>2, <1>7
  <2> QED BY <1>10, <2>2, <2>3 DEF PutEpilogue, NextBlkp, Hdrp, Pack, WSIZE
<1>12. Same(m2, m3) /\ \A q \in Int : Get(m3, q) = IF q = e THEN 1 ELSE Get(m2, q)
  <2>1. 1 \in Nat /\ 1 < UintMod /\ m2 \in Memories
    BY <1>8, Numbers DEF Same
  <2> QED BY <1>11, <2>1, PutWrites DEF Same
<1>13. Same(m1, m3)
  BY <1>8, <1>12 DEF Same
<1>14. \A q \in Int : Get(m3, q) = IF q = e THEN 1 ELSE IF q = x - 4 \/ q = w THEN size
                                   ELSE Get(m, q)
  BY <1>5, <1>9, <1>12
<1>15. Rewrites(m, m3, x, y, y, 0, 0)
  <2>1. x - 4 \in Int /\ w \in Int /\ e \in Int /\ y - x + 0 = size /\ e /= x - 4 /\ e /= w
    <3>1. y = x + size /\ w = x + size - 8 /\ e = x + size - 4
      BY <1>2, <1>7
    <3> QED BY <1>2, <3>1
  <2>2. Get(m3, x - 4) = y - x + 0 /\ Get(m3, y - 8) = y - x + 0
    BY <1>7, <1>14, <2>1
  <2>3. ASSUME NEW q \in Int, q < x - 4 \/ (y - 4 <= q /\ q < m.brk)
        PROVE  Get(m3, q) = Get(m, q)
    <3>1. q /= x - 4 /\ q /= w /\ q /= e
      BY <1>2, <1>7, <2>3
    <3> QED BY <1>14, <3>1
  <2>4. Get(m3, m3.brk - 4) = 1
    BY <1>5, <1>7, <1>13, <1>14, <2>1 DEF Same
  <2> QED BY <1>5, <1>13, <2>2, <2>3, <2>4 DEF Rewrites, Same
<1>16. Region(B, m.brk, x, y, m3.brk) /\ Cut(x, y, y)
  <2>1. m3.brk = y /\ x /= Listp /\ x \in B \cup {m.brk}
    BY <1>2, <1>3, <1>5, <1>13, Numbers DEF Same
  <2> QED BY <1>2, <1>4, <2>1 DEF Region, Cut
<1>17. PICK C, t, g : /\ C = SplicedB(B, x, y, y) /\ t = SplicedS(B, s, x, y, y)
                      /\ g = SplicedA(B, a, x, y, y, 0, 0)
  OBVIOUS
<1>18. Shaped(m3, C, t, g) /\ g[x] = 0
  BY <1>1, <1>15, <1>16, <1>17, SplicedMemory
<1>19. \A b \in B : ~(x <= b)
  <2>1. \A b \in B : b \in Nat /\ s[b] \in Nat /\ s[b] >= 8 /\ b + s[b] <= x
    BY <1>1, <1>2, BlockIn
  <2> QED BY <1>2, <2>1
<1>20. Kept(m, B, s, a, m3, C, t, g, {})
  <2>1. /\ \A b \in B : x <= b /\ b < y /\ a[b] = 1 => b \in {}
        /\ (0 = 1 => x \in {}) /\ (y /= y /\ 0 = 1 => y \in {})
    BY <1>19
  <2> QED BY <1>1, <1>15, <1>16, <1>17, <2>1, SplicedKept
<1>21. Apart(C, t, g, {x})
  <2>1. \A b \in {} : b >= x /\ b < y
    OBVIOUS
  <2>2. Apart(C, t, g, {x, y} \ {y})
    BY <1>1, <1>15, <1>16, <1>17, <2>1, SplicedApart
  <2> QED BY <2>2 DEF Apart
<1>22. x \in C /\ t[x] = size
  <2>1. x \in C /\ t[x] = y - x
    BY <1>1, <1>16, <1>17, SplicedBlocks
  <2> QED BY <1>4, <2>1
<1>23. RoverIn(m3, C)
  <2>1. \A b \in B : x <= b /\ b < y => b = x
    BY <1>19
  <2>2. m3.rover = m.rover /\ m3.nextFit = m.nextFit
    BY <1>5, <1>13 DEF Same
  <2> QED BY <1>1, <1>16, <1>17, <2>1, <2>2, RoverStays
<1>24. x /= Listp
  BY <1>3, Numbers
<1>25. Coalesces(m3, C, t, g, x, Coalesce(m3, x))
  BY <1>18, <1>21, <1>22, <1>23, <1>24, CoalesceRight
<1>26. PICK m4, B2, s2, a2, b :
          /\ Coalesce(m3, x) = Result(m4, b)
          /\ Sound(m4, B2, s2, a2) /\ Kept(m3, C, t, g, m4, B2, s2, a2, {})
          /\ b \in B2 /\ a2[b] = 0 /\ s2[b] >= size
          /\ m4.brk = m3.brk /\ m4.nextFit = m3.nextFit
  BY <1>22, <1>25 DEF Coalesces
<1>27. FormatArea(Result(m1, m.brk), size) = Result(m4, b)
  <2>1. x /= Failed
    BY <1>2, Numbers
  <2> QED BY <1>2, <1>6, <1>10, <1>26, <2>1 DEF FormatArea, Result
<1>28. Kept(m, B, s, a, m4, B2, s2, a2, {} \cup {})
  BY <1>20, <1>26, KeptTwice
<1>29. {} \cup {} = {}
  OBVIOUS
<1>30. m4.brk = m.brk + size /\ m4.nextFit = m.nextFit
  BY <1>2, <1>5, <1>13, <1>26 DEF Same
<1> QED BY <1>26, <1>27, <1>28, <1>29, <1>30 DEF Extends

(* extend_heap, with what becomes of the size on its way to mem_sbrk. *)
LEMMA ExtendRight ==
  ASSUME NEW m, NEW B, NEW s, NEW a, Sound(m, B, s, a), NEW size \in Nat, size % 8 = 0,
         size >= 16, size < UintMod
  PROVE  Extends(m, B, s, a, size, ExtendHeap(m, size \div 4))
<1>1. m \in Memories /\ m.brk \in Nat
  BY DEF Sound, Shaped, Layout
<1>2. PICK k \in Nat : size = 8 * k
  <2>1. size = 8 * (size \div 8) /\ size \div 8 \in Nat
    OBVIOUS
  <2> QED BY <2>1
<1>3. PICK words \in Nat : words = size \div 4 /\ words = 2 * k
  BY <1>2
<1>4. (words + (words % 2)) * 4 = size
  BY <1>2, <1>3
<1>5. size % SizeMod = size /\ size % UintMod = size
  BY Numbers, SmallRemainder
<1>6. ExtendHeap(m, words) = FormatArea(MemSbrk(m, ToInt(size)), size)
  BY <1>4, <1>5 DEF ExtendHeap, WSIZE
<1>7. UintMod \div 2 \in Nat /\ (2 * size < UintMod <=> size < UintMod \div 2)
  BY Numbers
<1>8. CASE 2 * size < UintMod /\ m.brk + size <= Top
  <2>1. ToInt(size) = size
    BY <1>5, <1>7, <1>8 DEF ToInt
  <2>2. PICK m1 : m1 = [m EXCEPT !.brk = @ + size]
    OBVIOUS
  <2>3. MemSbrk(m, size) = Result(m1, m.brk)
    BY <1>1, <1>8, <2>2, Numbers DEF MemSbrk, Top
  <2>4. Extends(m, B, s, a, size, FormatArea(Result(m1, m.brk), size))
    BY <1>8, <2>2, AreaRight DEF Grown
  <2> QED BY <1>3, <1>6, <2>1, <2>3, <2>4
<1>9. CASE ~(2 * size < UintMod /\ m.brk + size <= Top)
  <2>1. MemSbrk(m, ToInt(size)) = Result(m, Failed)
    <3>1. CASE 2 * size < UintMod
      <4>1. ToInt(size) = size
        BY <1>5, <1>7, <3>1 DEF ToInt
      <4>2. m.brk + size > MemHeap + MaxHeap
        BY <1>1, <1>9, <3>1, Numbers DEF Top
      <4> QED BY <4>1, <4>2 DEF MemSbrk
    <3>2. CASE ~(2 * size < UintMod)
      <4>1. ToInt(size) = size - UintMod
        BY <1>5, <1>7, <3>2 DEF ToInt
      <4>2. size - UintMod < 0
        BY Numbers
      <4> QED BY <4>1, <4>2 DEF MemSbrk
    <3> QED BY <3>1, <3>2
  <2>2. FormatArea(Result(m, Failed), size) = Result(m, NULL)
    BY DEF FormatArea, Result
  <2> QED BY <1>3, <1>6, <1>9, <2>1, <2>2 DEF Extends
<1> QED BY <1>8, <1>9

--------------------------------------------------------------------------------
(* find_fit *)

(* The scan of Search is a function, for the addresses grow along it.      *)
Heap == MemHeap .. MemHeap + MaxHeap

ScanEnds(m, asize, stop, bp) ==
    bp >= stop \/ GetSize(m, Hdrp(bp)) = 0 \/ Fits(m, asize, bp)

IsScan(f, m, asize, stop) ==
    f = [bp \in Heap |-> IF ScanEnds(m, asize, stop, bp) THEN bp
                         ELSE IF NextBlkp(m, bp) \in DOMAIN f THEN f[NextBlkp(m, bp)]
                         ELSE stop]

(* Search is the scan's value at start. *)
LEMMA SearchIs ==
  ASSUME NEW m, NEW asize, NEW start, NEW stop
  PROVE  Search(m, asize, start, stop) = (CHOOSE f : IsScan(f, m, asize, stop))[start]
BY DEF Search, IsScan, ScanEnds, Heap

(* There is a scan: no block leads back to an earlier address. *)
LEMMA ScanExists ==
  ASSUME NEW m \in Memories, NEW asize, NEW stop
  PROVE  \E f : IsScan(f, m, asize, stop)
<1> DEFINE Right(f, bp) == f[bp] = IF ScanEnds(m, asize, stop, bp) THEN bp
                                   ELSE IF NextBlkp(m, bp) \in Heap THEN f[NextBlkp(m, bp)]
                                   ELSE stop
           Above(n) == {bp \in Heap : Top - bp < n}
           Good == {n \in Nat : \E f : DOMAIN f = Heap /\ \A bp \in Above(n) : Right(f, bp)}
<1>1. Top \in Nat /\ Heap = 16 .. Top
  BY Numbers DEF Heap, Top
<1>2. ASSUME NEW bp \in Heap, ~ScanEnds(m, asize, stop, bp), NextBlkp(m, bp) \in Heap
      PROVE  NextBlkp(m, bp) > bp
  <2>1. GetSize(m, bp - 4) /= 0
    BY <1>2 DEF ScanEnds, Hdrp, WSIZE
  <2>2. GetSize(m, bp - 4) \in Nat
    <3>1. bp - 4 \in Int
      BY <1>1
    <3> QED BY <3>1, Words32
  <2> QED BY <1>1, <2>1, <2>2 DEF NextBlkp, WSIZE
<1>3. ASSUME NEW n \in Nat, \A k \in Nat : k < n => k \in Good
      PROVE  n \in Good
  <2>1. CASE n = 0
    <3>1. Above(0) = {}
      BY <1>1
    <3>2. DOMAIN [bp \in Heap |-> 0] = Heap
      OBVIOUS
    <3> QED BY <2>1, <3>1, <3>2
  <2>2. CASE n > 0
    <3>1. n - 1 \in Nat /\ n - 1 \in Good
      BY <1>3, <2>2
    <3>2. PICK f : DOMAIN f = Heap /\ \A bp \in Above(n - 1) : Right(f, bp)
      BY <3>1
    <3>3. PICK h : h = [bp \in Heap |-> IF Top - bp < n - 1 THEN f[bp]
                                        ELSE IF ScanEnds(m, asize, stop, bp) THEN bp
                                        ELSE IF NextBlkp(m, bp) \in Heap THEN f[NextBlkp(m, bp)]
                                        ELSE stop]
      OBVIOUS
    <3>4. ASSUME NEW bp \in Above(n) PROVE Right(h, bp)
      <4>1. bp \in Heap /\ Top - bp < n
        OBVIOUS
      <4>2. ASSUME ~ScanEnds(m, asize, stop, bp), NextBlkp(m, bp) \in Heap
            PROVE  h[NextBlkp(m, bp)] = f[NextBlkp(m, bp)]
        <5>1. Top - NextBlkp(m, bp) < n - 1
          BY <1>1, <1>2, <4>1, <4>2
        <5> QED BY <3>3, <4>2, <5>1
      <4>3. CASE Top - bp < n - 1
        <5>1. h[bp] = f[bp]
          BY <3>3, <4>1, <4>3
        <5>2. Right(f, bp)
          BY <3>2, <4>1, <4>3
        <5> QED BY <4>2, <5>1, <5>2
      <4>4. CASE ~(Top - bp < n - 1)
        BY <3>3, <4>1, <4>2, <4>4
      <4> QED BY <4>3, <4>4
    <3>5. DOMAIN h = Heap
      BY <3>3
    <3> QED BY <3>4, <3>5
  <2> QED BY <2>1, <2>2
<1>4. Top \in Good
  <2> HIDE DEF Good
  <2>1. Nat \subseteq Good
    BY <1>3, StrongInduction
  <2> QED BY <1>1, <2>1
<1>5. PICK f : DOMAIN f = Heap /\ \A bp \in Above(Top) : Right(f, bp)
  BY <1>4
<1>6. \A bp \in Heap : Right(f, bp)
  BY <1>1, <1>5
<1>7. PICK h : h = [bp \in Heap |-> f[bp]]
  OBVIOUS
<1>8. DOMAIN h = Heap /\ \A bp \in Heap : h[bp] = f[bp]
  BY <1>7
<1>9. \A bp \in Heap : Right(h, bp)
  BY <1>6, <1>8
<1>10. h = [bp \in Heap |-> IF ScanEnds(m, asize, stop, bp) THEN bp
                            ELSE IF NextBlkp(m, bp) \in Heap THEN h[NextBlkp(m, bp)]
                            ELSE stop]
  BY <1>7, <1>8, <1>9
<1> QED BY <1>8, <1>10 DEF IsScan

(* A search ends at the first block that fits, or at stop. *)
FitsIn(s, a, asize, b) == a[b] = 0 /\ asize <= s[b]

FirstFrom(B, s, a, hi, asize, start, stop, r) ==
    /\ r \in B \cup {hi} /\ start <= r /\ r <= stop
    /\ r = stop \/ (r \in B /\ FitsIn(s, a, asize, r))
    /\ \A c \in B : start <= c /\ c < r => ~FitsIn(s, a, asize, c)

(* A search from a block to a later one, or to the end of the heap. *)
LEMMA SearchRight ==
  ASSUME NEW m, NEW B, NEW s, NEW a, Shaped(m, B, s, a), NEW asize \in Nat,
         NEW start \in B, NEW stop \in B \cup {m.brk}, start <= stop
  PROVE  FirstFrom(B, s, a, m.brk, asize, start, stop, Search(m, asize, start, stop))
<1>1. Layout(B, s, m.brk) /\ m \in Memories
  BY DEF Shaped
<1>2. PICK f : f = CHOOSE g : IsScan(g, m, asize, stop)
  OBVIOUS
<1>3. IsScan(f, m, asize, stop) /\ Search(m, asize, start, stop) = f[start]
  BY <1>1, <1>2, ScanExists, SearchIs
<1>4. Top \in Nat /\ Heap = 16 .. Top
  BY Numbers DEF Heap, Top
<1>5. \A b \in B : /\ b \in Nat /\ s[b] \in Nat /\ s[b] >= 8 /\ b + s[b] <= m.brk
                   /\ b + s[b] \in B \cup {m.brk} /\ b \in Heap
  <2>1. \A b \in B : /\ b \in Nat /\ s[b] \in Nat /\ s[b] >= 8 /\ b + s[b] <= m.brk
                     /\ b >= 24 /\ m.brk <= Top /\ m.brk \in Nat
    BY <1>1, BlockIn
  <2>2. \A b \in B : b + s[b] \in B \cup {m.brk}
    BY <1>1 DEF Layout
  <2> QED BY <1>4, <2>1, <2>2
<1>6. m.brk \in Nat /\ m.brk \in Heap /\ stop \in Nat
  <2>1. m.brk \in Nat /\ m.brk <= Top /\ m.brk >= 32
    BY <1>1, BlockIn
  <2> QED BY <1>4, <1>5, <2>1
<1>7. \A b \in B \cup {m.brk} : b \in Nat /\ b \in Heap /\ b <= m.brk
  BY <1>5, <1>6
<1>8. \A b \in B : /\ NextBlkp(m, b) = b + s[b] /\ GetSize(m, Hdrp(b)) = s[b]
                   /\ Fits(m, asize, b) <=> FitsIn(s, a, asize, b)
  BY BlockTags DEF Fits, FitsIn, Hdrp, WSIZE
<1>9. DOMAIN f = Heap
  BY <1>3 DEF IsScan
<1>10. \A b \in Heap : f[b] = IF ScanEnds(m, asize, stop, b) THEN b
                              ELSE IF NextBlkp(m, b) \in Heap THEN f[NextBlkp(m, b)]
                              ELSE stop
  BY <1>3, <1>9 DEF IsScan
<1> DEFINE Right(b) == FirstFrom(B, s, a, m.brk, asize, b, stop, f[b])
           Good == {n \in Nat : \A b \in B \cup {m.brk} : b <= stop /\ stop - b = n => Right(b)}
<1>11. ASSUME NEW n \in Nat, \A k \in Nat : k < n => k \in Good
       PROVE  n \in Good
  <2> SUFFICES ASSUME NEW b \in B \cup {m.brk}, b <= stop, stop - b = n
               PROVE  Right(b)
    OBVIOUS
  <2>0. b \in Nat /\ b \in Heap
    BY <1>7
  <2>1. CASE b = stop
    <3>1. f[b] = b
      BY <1>10, <2>0, <2>1, <1>6 DEF ScanEnds
    <3> QED BY <1>6, <1>7, <2>0, <2>1, <3>1 DEF FirstFrom
  <2>2. CASE b < stop /\ FitsIn(s, a, asize, b)
    <3>1. b \in B
      BY <1>6, <1>7, <2>0, <2>2
    <3>2. f[b] = b
      BY <1>8, <1>10, <2>0, <2>2, <3>1 DEF ScanEnds
    <3> QED BY <1>6, <1>7, <2>0, <2>2, <3>1, <3>2 DEF FirstFrom
  <2>3. CASE b < stop /\ ~FitsIn(s, a, asize, b)
    <3>1. b \in B
      BY <1>6, <1>7, <2>0, <2>3
    <3>2. PICK nx \in Nat : /\ nx = b + s[b] /\ nx \in B \cup {m.brk} /\ nx \in Heap /\ nx > b
      BY <1>5, <1>7, <3>1
    <3>3. f[b] = f[nx]
      <4>1. ~ScanEnds(m, asize, stop, b)
        <5>1. s[b] /= 0 /\ ~(b >= stop)
          BY <1>5, <1>6, <2>0, <2>3, <3>1
        <5> QED BY <1>8, <2>3, <3>1, <5>1 DEF ScanEnds
      <4> QED BY <1>8, <1>10, <2>0, <3>1, <3>2, <4>1
    <3>4. nx <= stop
      <4>1. CASE stop \in B
        BY <1>1, <2>3, <3>1, <3>2, <4>1 DEF Layout
      <4>2. CASE stop = m.brk
        BY <1>7, <3>2, <4>2
      <4> QED BY <4>1, <4>2
    <3>5. Right(nx)
      <4>1. stop - nx \in Nat /\ stop - nx < n
        BY <1>6, <2>0, <3>2, <3>4
      <4>2. stop - nx \in Good
        BY <1>11, <4>1
      <4> QED BY <3>2, <3>4, <4>2
    <3>6. /\ f[b] \in B \cup {m.brk} /\ nx <= f[b] /\ f[b] <= stop
          /\ f[b] = stop \/ (f[b] \in B /\ FitsIn(s, a, asize, f[b]))
          /\ \A c \in B : nx <= c /\ c < f[b] => ~FitsIn(s, a, asize, c)
      BY <3>3, <3>5 DEF FirstFrom
    <3>7. ASSUME NEW c \in B, b <= c, c < f[b] PROVE ~FitsIn(s, a, asize, c)
      <4>1. b < c => nx <= c
        BY <1>1, <3>1, <3>2 DEF Layout
      <4>2. c \in Nat
        BY <1>5
      <4> QED BY <2>0, <2>3, <3>6, <3>7, <4>1, <4>2
    <3>8. b <= f[b]
      <4>1. f[b] \in Nat
        BY <1>7, <3>6
      <4> QED BY <2>0, <3>2, <3>6, <4>1
    <3> QED BY <3>6, <3>7, <3>8 DEF FirstFrom
  <2> QED BY <1>6, <2>0, <2>1, <2>2, <2>3
<1>12. Right(start)
  <2>1. stop - start \in Nat
    BY <1>5, <1>6
  <2>2. stop - start \in Good
    <3> HIDE DEF Good
    <3>1. Nat \subseteq Good
      BY <1>11, StrongInduction
    <3> QED BY <2>1, <3>1
  <2> QED BY <2>2
<1> QED BY <1>3, <1>12

(* find_fit returns a block that fits, or NULL when there is none; it      *)
(* moves the rover only.                                                   *)
FindsFit(m, B, s, a, asize, r) ==
    \E m2, x : /\ r = Result(m2, x)
               /\ Sound(m2, B, s, a) /\ m2.heap = m.heap
               /\ m2.brk = m.brk /\ m2.nextFit = m.nextFit
               /\ \/ x = NULL /\ \A c \in B : ~FitsIn(s, a, asize, c)
                  \/ x \in B /\ FitsIn(s, a, asize, x)

(* The test of find_fit, by the layout. *)
LEMMA FoundIs ==
  ASSUME NEW m, NEW B, NEW s, NEW a, Shaped(m, B, s, a), NEW asize \in Nat
  PROVE  /\ \A b \in B : Found(m, asize, b) <=> FitsIn(s, a, asize, b)
         /\ ~Found(m, asize, m.brk)
<1>1. \A b \in B : s[b] \in Nat /\ s[b] >= 8
  BY BlockIn DEF Shaped
<1>2. ASSUME NEW b \in B PROVE Found(m, asize, b) <=> FitsIn(s, a, asize, b)
  <2>1. GetSize(m, b - 4) = s[b] /\ GetAlloc(m, b - 4) = a[b]
    BY BlockTags
  <2> QED BY <1>1, <2>1 DEF Found, Fits, FitsIn, Hdrp, WSIZE
<1>3. ~Found(m, asize, m.brk)
  <2>1. GetSize(m, m.brk - 4) = 0
    BY EpilogueTags
  <2> QED BY <2>1 DEF Found, Hdrp, WSIZE
<1> QED BY <1>2, <1>3

(* The heap with the rover elsewhere. *)
LEMMA RoverMoves ==
  ASSUME NEW m, NEW B, NEW s, NEW a, Sound(m, B, s, a), NEW b \in B, NEW m2,
         m2 = [m EXCEPT !.rover = b]
  PROVE  Sound(m2, B, s, a) /\ m2.heap = m.heap /\ m2.brk = m.brk /\ m2.nextFit = m.nextFit
<1>1. m \in Memories /\ m.listp = Listp /\ Layout(B, s, m.brk) /\ Tagged(m, B, s, a)
      /\ Apart(B, s, a, {})
  BY DEF Sound, Shaped
<1>2. b \in Nat
  BY <1>1, BlockIn
<1>3. /\ m2 \in Memories /\ m2.heap = m.heap /\ m2.brk = m.brk /\ m2.listp = m.listp
      /\ m2.nextFit = m.nextFit /\ m2.rover = b
  BY <1>1, <1>2 DEF Memories
<1>4. \A q \in Int : Get(m2, q) = Get(m, q)
  BY <1>3 DEF Get
<1>5. Tagged(m2, B, s, a)
  <2>1. \A q : Get(m2, q) = Get(m, q)
    BY <1>3 DEF Get
  <2> QED BY <1>1, <1>3, <2>1 DEF Tagged
<1> QED BY <1>1, <1>3, <1>5 DEF Sound, Shaped, RoverIn

(* find_fit, first fit and next fit: a free block that is large enough if  *)
(* there is one, and only the rover has moved.                             *)
LEMMA FitRight ==
  ASSUME NEW m, NEW B, NEW s, NEW a, Sound(m, B, s, a), NEW asize \in Nat
  PROVE  FindsFit(m, B, s, a, asize, FindFit(m, asize))
<1>1. Shaped(m, B, s, a) /\ RoverIn(m, B) /\ m.listp = Listp /\ Layout(B, s, m.brk)
  BY DEF Sound, Shaped
<1>2. \A b \in B : b \in Nat /\ b >= Listp /\ b < m.brk
  <2>1. \A b \in B : b \in Nat /\ b >= 24 /\ s[b] \in Nat /\ s[b] >= 8 /\ b + s[b] <= m.brk
                     /\ m.brk \in Nat
    BY <1>1, BlockIn
  <2> QED BY <2>1, Numbers
<1>3. Listp \in B /\ m.brk \in Nat
  BY <1>1 DEF Layout
<1>4. CASE ~m.nextFit
  <2>1. PICK x : x = Search(m, asize, m.listp, m.brk)
    OBVIOUS
  <2>2. FirstFrom(B, s, a, m.brk, asize, Listp, m.brk, x)
    <3>1. Listp <= m.brk
      BY <1>2, <1>3
    <3> QED BY <1>1, <1>3, <2>1, <3>1, SearchRight
  <2>3. FindFit(m, asize) = FirstFitAt(m, asize, x)
    BY <1>4, <2>1 DEF FindFit, FirstFit
  <2>4. CASE Found(m, asize, x)
    <3>1. x \in B /\ FitsIn(s, a, asize, x)
      BY <1>1, <2>2, <2>4, FoundIs DEF FirstFrom
    <3>2. FindFit(m, asize) = Result(m, x)
      BY <2>3, <2>4 DEF FirstFitAt
    <3> QED BY <3>1, <3>2 DEF FindsFit
  <2>5. CASE ~Found(m, asize, x)
    <3>1. x = m.brk
      BY <1>1, <2>2, <2>5, FoundIs DEF FirstFrom
    <3>2. \A c \in B : ~FitsIn(s, a, asize, c)
      BY <1>2, <2>2, <3>1 DEF FirstFrom
    <3>3. FindFit(m, asize) = Result(m, NULL)
      BY <2>3, <2>5 DEF FirstFitAt
    <3> QED BY <3>2, <3>3 DEF FindsFit
  <2> QED BY <2>4, <2>5
<1>5. CASE m.nextFit
  <2>1. PICK x, b : x = Search(m, asize, m.rover, m.brk) /\ b = Search(m, asize, m.listp, m.rover)
    OBVIOUS
  <2>2. m.rover \in B /\ m.rover \in Nat
    BY <1>1, <1>2, <1>5 DEF RoverIn
  <2>3. FirstFrom(B, s, a, m.brk, asize, m.rover, m.brk, x)
    <3>1. m.rover <= m.brk
      BY <1>2, <1>3, <2>2
    <3> QED BY <1>1, <2>1, <2>2, <3>1, SearchRight
  <2>4. FirstFrom(B, s, a, m.brk, asize, Listp, m.rover, b)
    <3>1. Listp <= m.rover
      BY <1>2, <2>2
    <3> QED BY <1>1, <1>3, <2>1, <2>2, <3>1, SearchRight
  <2>5. FindFit(m, asize) = NextFitAt(m, asize, x, b)
    BY <1>5, <2>1 DEF FindFit, NextFitSearch
  <2>6. CASE Found(m, asize, x)
    <3>1. x \in B /\ FitsIn(s, a, asize, x)
      BY <1>1, <2>3, <2>6, FoundIs DEF FirstFrom
    <3>2. PICK m2 : m2 = [m EXCEPT !.rover = x]
      OBVIOUS
    <3>3. FindFit(m, asize) = Result(m2, x)
      BY <2>5, <2>6, <3>2 DEF NextFitAt
    <3>4. Sound(m2, B, s, a) /\ m2.heap = m.heap /\ m2.brk = m.brk /\ m2.nextFit = m.nextFit
      BY <3>1, <3>2, RoverMoves
    <3> QED BY <3>1, <3>3, <3>4 DEF FindsFit
  <2>7. CASE ~Found(m, asize, x)
    <3>1. x = m.brk
      BY <1>1, <2>3, <2>7, FoundIs DEF FirstFrom
    <3>2. \A c \in B : m.rover <= c => ~FitsIn(s, a, asize, c)
      BY <1>2, <2>3, <3>1 DEF FirstFrom
    <3>3. b \in B /\ b <= m.rover
      BY <1>2, <1>3, <2>2, <2>4 DEF FirstFrom
    <3>4. PICK m2 : m2 = [m EXCEPT !.rover = b]
      OBVIOUS
    <3>5. Sound(m2, B, s, a) /\ m2.heap = m.heap /\ m2.brk = m.brk /\ m2.nextFit = m.nextFit
      BY <3>3, <3>4, RoverMoves
    <3>6. CASE b < m.rover
      <4>1. FitsIn(s, a, asize, b)
        BY <1>2, <2>2, <2>4, <3>3, <3>6 DEF FirstFrom
      <4>2. FindFit(m, asize) = Result(m2, b)
        BY <1>1, <2>5, <2>7, <3>3, <3>4, <3>6, <4>1, FoundIs DEF NextFitAt
      <4> QED BY <3>3, <3>5, <4>1, <4>2 DEF FindsFit
    <3>7. CASE ~(b < m.rover)
      <4>1. b = m.rover
        BY <1>2, <2>2, <3>3, <3>7
      <4>2. \A c \in B : ~FitsIn(s, a, asize, c)
        BY <1>2, <2>2, <2>4, <3>2, <4>1 DEF FirstFrom
      <4>3. FindFit(m, asize) = Result(m2, NULL)
        BY <2>5, <2>7, <3>4, <3>7 DEF NextFitAt
      <4> QED BY <3>5, <4>2, <4>3 DEF FindsFit
    <3> QED BY <3>6, <3>7
  <2> QED BY <2>6, <2>7
<1> QED BY <1>1, <1>4, <1>5 DEF Shaped, Memories

--------------------------------------------------------------------------------
(* mm_malloc *)

(* The block size has room for the request, its header and its footer.     *)
LEMMA AdjustRight ==
  ASSUME NEW size \in Nat, size > 0, 2 * size < UintMod
  PROVE  /\ Adjust(size) \in Nat /\ Adjust(size) % 8 = 0 /\ Adjust(size) >= 16
         /\ Adjust(size) >= size + 8 /\ Adjust(size) < UintMod
<1>1. UintMod \in Nat /\ UintMod > 64 /\ SizeMod \in Nat /\ SizeMod >= UintMod
  BY Numbers
<1>2. CASE size <= 8
  <2>1. Adjust(size) = 16
    BY <1>2 DEF Adjust, DSIZE
  <2> QED BY <1>1, <1>2, <2>1
<1>3. CASE size > 8
  <2>1. PICK n \in Nat : n = size + 15 /\ n < UintMod
    BY <1>1
  <2>2. n % SizeMod = n
    BY <1>1, <2>1, SmallRemainder
  <2>3. size + DSIZE + (DSIZE - 1) = n
    BY <2>1 DEF DSIZE
  <2>4. Adjust(size) = 8 * (n \div 8)
    BY <1>3, <2>2, <2>3 DEF Adjust, DSIZE
  <2>5. PICK q \in Nat : q = n \div 8 /\ n - 7 <= 8 * q /\ 8 * q <= n
    BY <2>1
  <2>6. Adjust(size) = 8 * q
    BY <2>4, <2>5
  <2>7. PICK k \in Nat : k = 8 * q /\ k % 8 = 0
    OBVIOUS
  <2>8. k >= size + 8 /\ k < UintMod /\ k >= 16
    BY <1>1, <1>3, <2>1, <2>5, <2>7
  <2> QED BY <2>6, <2>7, <2>8
<1> QED BY <1>2, <1>3

(* Where no word changes, every block is kept. *)
LEMMA KeptSame ==
  ASSUME NEW m, NEW B, NEW s, NEW a, NEW m2, m2.heap = m.heap
  PROVE  Kept(m, B, s, a, m2, B, s, a, {})
<1>1. \A q : Get(m2, q) = Get(m, q)
  BY DEF Get
<1> QED BY <1>1 DEF Kept, SamePayload

(* mm_malloc fails and leaves the blocks as they are, or returns a block   *)
(* that was not allocated; the heap grows only when no free block fits.    *)
Refuses(m, B, s, a, r) == \E m2 : /\ r = Result(m2, NULL)
                                  /\ Sound(m2, B, s, a) /\ m2.heap = m.heap
                                  /\ m2.brk = m.brk

Hands(m, B, s, a, asize, X, m2, B2, s2, a2, x) ==
    /\ Sound(m2, B2, s2, a2) /\ Kept(m, B, s, a, m2, B2, s2, a2, X)
    /\ x \in B2 /\ x /= Listp /\ a2[x] = 1 /\ s2[x] >= asize
    /\ x \in B => a[x] = 0
    /\ m2.brk >= m.brk
    /\ m2.brk /= m.brk => \A c \in B : ~FitsIn(s, a, asize, c)

Mallocs(m, B, s, a, asize, r) ==
    \/ Refuses(m, B, s, a, r)
    \/ \E m2, B2, s2, a2, x : /\ r = Result(m2, x)
                              /\ Hands(m, B, s, a, asize, {x}, m2, B2, s2, a2, x)

(* mm_malloc of a size that an int can hold, from any consistent heap. *)
LEMMA MallocRight ==
  ASSUME NEW m, NEW B, NEW s, NEW a, Sound(m, B, s, a), NEW size \in Nat, size > 0,
         2 * size < UintMod
  PROVE  Mallocs(m, B, s, a, Adjust(size), MmMalloc(m, size))
<1>1. PICK asize \in Nat : /\ asize = Adjust(size)
                           /\ asize % 8 = 0 /\ asize >= 16 /\ asize < UintMod
  BY AdjustRight
<1>2. Initialized(m) = m
  BY Numbers DEF Sound, Shaped, Initialized
<1>3. MmMalloc(m, size) = FitOrExtend(FindFit(m, asize), asize)
  BY <1>1, <1>2 DEF MmMalloc, MallocSized
<1>4. PICK m1, x : /\ FindFit(m, asize) = Result(m1, x)
                   /\ Sound(m1, B, s, a) /\ m1.heap = m.heap
                   /\ m1.brk = m.brk /\ m1.nextFit = m.nextFit
                   /\ \/ x = NULL /\ \A c \in B : ~FitsIn(s, a, asize, c)
                      \/ x \in B /\ FitsIn(s, a, asize, x)
  BY FitRight DEF FindsFit
<1>5. Kept(m, B, s, a, m1, B, s, a, {})
  BY <1>4, KeptSame
<1>6. m.brk \in Nat /\ \A b \in B : b /= NULL
  <2>1. \A b \in B : b \in Nat /\ b >= 24
    BY BlockIn DEF Sound, Shaped
  <2>2. m.brk \in Nat
    BY DEF Sound, Shaped, Layout
  <2> QED BY <2>1, <2>2, Numbers
<1>7. CASE x \in B /\ FitsIn(s, a, asize, x)
  <2>1. MmMalloc(m, size) = Result(Place(m1, x, asize), x)
    BY <1>3, <1>4, <1>6, <1>7 DEF FitOrExtend, PlaceFound, Result
  <2>2. x /= Listp /\ a[x] = 0 /\ asize <= s[x]
    BY <1>4, <1>7 DEF FitsIn, Sound, Shaped, Tagged
  <2>3. PICK m2 : m2 = Place(m1, x, asize)
    OBVIOUS
  <2>4. Places(m1, B, s, a, x, asize, m2)
    BY <1>1, <1>4, <1>7, <2>2, <2>3, PlaceRight
  <2>5. PICK B2, s2, a2 :
           /\ Sound(m2, B2, s2, a2) /\ Kept(m1, B, s, a, m2, B2, s2, a2, {x})
           /\ x \in B2 /\ a2[x] = 1 /\ s2[x] >= asize /\ m2.brk = m1.brk
    BY <2>4 DEF Places
  <2>6. Kept(m, B, s, a, m2, B2, s2, a2, {} \cup {x})
    BY <1>5, <2>5, KeptTwice
  <2>7. {} \cup {x} = {x}
    OBVIOUS
  <2>8. m2.brk = m.brk /\ m2.brk >= m.brk
    BY <1>4, <1>6, <2>5
  <2>9. Hands(m, B, s, a, asize, {x}, m2, B2, s2, a2, x)
    BY <2>2, <2>5, <2>6, <2>7, <2>8 DEF Hands
  <2> QED BY <1>1, <2>1, <2>3, <2>9 DEF Mallocs
<1>8. CASE x = NULL /\ \A c \in B : ~FitsIn(s, a, asize, c)
  <2>1. PICK ext \in Nat : /\ ext = IF asize > CHUNKSIZE THEN asize ELSE CHUNKSIZE
                           /\ ext % 8 = 0 /\ ext >= asize /\ ext >= 16 /\ ext < UintMod
    BY <1>1, Numbers
  <2>2. MmMalloc(m, size) = PlaceFound(ExtendHeap(m1, ext \div 4), asize)
    BY <1>3, <1>4, <1>8, <2>1 DEF FitOrExtend, Result, WSIZE
  <2>3. Extends(m1, B, s, a, ext, ExtendHeap(m1, ext \div 4))
    BY <1>4, <2>1, ExtendRight
  <2>4. CASE ExtendHeap(m1, ext \div 4) = Result(m1, NULL)
    <3>1. MmMalloc(m, size) = Result(m1, NULL)
      BY <2>2, <2>4 DEF PlaceFound, Result
    <3> QED BY <1>4, <3>1 DEF Mallocs, Refuses
  <2>5. CASE ~(ExtendHeap(m1, ext \div 4) = Result(m1, NULL))
    <3>1. PICK m2, B2, s2, a2, y :
             /\ ExtendHeap(m1, ext \div 4) = Result(m2, y)
             /\ Sound(m2, B2, s2, a2) /\ Kept(m1, B, s, a, m2, B2, s2, a2, {})
             /\ y \in B2 /\ a2[y] = 0 /\ s2[y] >= ext
             /\ m2.brk = m1.brk + ext
      BY <2>3, <2>5 DEF Extends
    <3>2. y /= Listp /\ y /= NULL /\ s2[y] >= asize
      <4>1. y \in Nat /\ y >= 24 /\ s2[y] \in Nat
        BY <3>1, BlockIn DEF Sound, Shaped
      <4>2. y /= Listp
        BY <3>1 DEF Sound, Shaped, Tagged
      <4> QED BY <2>1, <3>1, <4>1, <4>2, Numbers
    <3>3. PICK m3 : m3 = Place(m2, y, asize)
      OBVIOUS
    <3>4. MmMalloc(m, size) = Result(m3, y)
      BY <2>2, <3>1, <3>2, <3>3 DEF PlaceFound, Result
    <3>5. Places(m2, B2, s2, a2, y, asize, m3)
      <4>1. s2[y] \in Nat
        BY <3>1, BlockIn DEF Sound, Shaped
      <4> QED BY <1>1, <3>1, <3>2, <3>3, <4>1, PlaceRight
    <3>6. PICK B3, s3, a3 :
             /\ Sound(m3, B3, s3, a3) /\ Kept(m2, B2, s2, a2, m3, B3, s3, a3, {y})
             /\ y \in B3 /\ a3[y] = 1 /\ s3[y] >= asize /\ m3.brk = m2.brk
      BY <3>5 DEF Places
    <3>7. Kept(m, B, s, a, m2, B2, s2, a2, {} \cup {})
      BY <1>5, <3>1, KeptTwice
    <3>8. Kept(m, B, s, a, m3, B3, s3, a3, ({} \cup {}) \cup {y})
      BY <3>6, <3>7, KeptTwice
    <3>9. ({} \cup {}) \cup {y} = {y} /\ {} \cup {} = {}
      OBVIOUS
    <3>10. y \in B => a[y] = 0
      <4>1. SUFFICES ASSUME y \in B, a[y] /= 0 PROVE FALSE
        OBVIOUS
      <4>2. a[y] = 1
        BY <1>4, <4>1 DEF Sound, Shaped, Tagged
      <4>3. a2[y] = 1
        BY <3>7, <3>9, <4>1, <4>2 DEF Kept
      <4> QED BY <3>1, <4>3
    <3>11. m3.brk >= m.brk
      BY <1>4, <1>6, <2>1, <3>1, <3>6
    <3>12. Hands(m, B, s, a, asize, {y}, m3, B3, s3, a3, y)
      BY <1>8, <3>2, <3>6, <3>8, <3>9, <3>10, <3>11 DEF Hands
    <3> QED BY <1>1, <3>4, <3>12 DEF Mallocs
  <2> QED BY <2>4, <2>5
<1> QED BY <1>4, <1>7, <1>8

--------------------------------------------------------------------------------
(* mm_init *)

(* mm_init finds room, and leaves one free block. *)
LEMMA InitRight ==
  ASSUME NEW build \in BOOLEAN
  PROVE  \E m, B, s, a : /\ MmInit(MemResetBrk(MemInit(build))) = Result(m, 0)
                         /\ Sound(m, B, s, a)
                         /\ \A b \in B : a[b] = 1 => b = Listp
<1>1. PICK m0 : m0 = MemResetBrk(MemInit(build))
  OBVIOUS
<1>2. /\ m0 \in Memories /\ m0.brk = 16 /\ m0.nextFit = build
  <2>1. m0 = [heap |-> [p \in Words |-> 0], brk |-> MemHeap,
              listp |-> NULL, rover |-> NULL, nextFit |-> build]
    BY <1>1 DEF MemResetBrk, MemInit
  <2> QED BY <2>1 DEF Memories, MemHeap, NULL
<1>3. PICK m1 : m1 = [m0 EXCEPT !.brk = 32]
  OBVIOUS
<1>4. m1 \in Memories /\ m1.brk = 32 /\ m1.nextFit = build
  BY <1>2, <1>3 DEF Memories
<1>5. MmInit(m0) = InitHeap(m1, 16)
  <2>1. MemSbrk(m0, 16) = Result(m1, 16)
    BY <1>2, <1>3, Numbers DEF MemSbrk
  <2> QED BY <2>1 DEF MmInit, WSIZE, Result
<1>6. PICK m2 : m2 = PutPrologue(m1, 16)
  OBVIOUS
<1>7. 16 \in Words /\ 20 \in Words /\ 24 \in Words /\ 28 \in Words
  BY InWords, Numbers
<1>8. PICK zero \in Nat, one \in Nat, tag \in Nat, w1 \in Words, w2 \in Words, w3 \in Words,
           w4 \in Words :
         /\ zero = 0 /\ one = 1 /\ tag = 9 /\ w1 = 16 /\ w2 = 20 /\ w3 = 24 /\ w4 = 28
         /\ zero < UintMod /\ one < UintMod /\ tag < UintMod
  BY <1>7, Numbers
<1>9. PICK p1, p2, p3 : p1 = Put(m1, w1, zero) /\ p2 = Put(p1, w2, tag) /\ p3 = Put(p2, w3, tag)
  OBVIOUS
<1>10. m2 = Put(p3, w4, one)
  BY <1>6, <1>8, <1>9 DEF PutPrologue, Pack, WSIZE, DSIZE
<1>11. zero < UintMod /\ one < UintMod /\ tag < UintMod
  BY <1>8
<1>12. Same(m1, p1)
  BY <1>4, <1>9, <1>11, PutWrites DEF Same
<1>13. Same(p1, p2) /\ \A q \in Int : Get(p2, q) = IF q = w2 THEN tag ELSE Get(p1, q)
  <2>1. p1 \in Memories
    BY <1>12 DEF Same
  <2> QED BY <1>9, <1>11, <2>1, PutSame
<1>14. Same(p2, p3) /\ \A q \in Int : Get(p3, q) = IF q = w3 THEN tag ELSE Get(p2, q)
  <2>1. p2 \in Memories
    BY <1>13 DEF Same
  <2> QED BY <1>9, <1>11, <2>1, PutSame
<1>30. Same(p3, m2) /\ \A q \in Int : Get(m2, q) = IF q = w4 THEN one ELSE Get(p3, q)
  <2>1. p3 \in Memories
    BY <1>14 DEF Same
  <2> QED BY <1>10, <1>11, <2>1, PutSame
<1>15. /\ m2 \in Memories /\ m2.brk = 32 /\ m2.nextFit = build
       /\ Get(m2, 20) = 9 /\ Get(m2, 24) = 9 /\ Get(m2, 28) = 1
  BY <1>4, <1>8, <1>12, <1>13, <1>14, <1>30 DEF Same
<1>16. PICK m3 : m3 = [m2 EXCEPT !.listp = 24, !.rover = IF build THEN 24 ELSE m2.rover]
  OBVIOUS
<1>17. /\ m3 \in Memories /\ m3.brk = 32 /\ m3.nextFit = build /\ m3.listp = 24
       /\ build => m3.rover = 24
       /\ Get(m3, 20) = 9 /\ Get(m3, 24) = 9 /\ Get(m3, 28) = 1
  <2>1. /\ m2.heap \in [Words -> Nat] /\ m2.rover \in Int /\ m2.nextFit \in BOOLEAN
        /\ build \in BOOLEAN
    BY <1>15 DEF Memories
  <2>2. PICK r \in Int : r = IF build THEN 24 ELSE m2.rover
    BY <2>1
  <2>3. m3 = [heap |-> m2.heap, brk |-> 32, listp |-> 24, rover |-> r, nextFit |-> build]
    BY <1>15, <1>16, <2>2 DEF Memories
  <2>4. m3 \in Memories
    BY <2>1, <2>3 DEF Memories
  <2>5. \A q : Get(m3, q) = Get(m2, q)
    BY <2>3 DEF Get
  <2> QED BY <1>15, <2>2, <2>3, <2>4, <2>5
<1>18. InitHeap(m1, 16) = InitStatus(ExtendHeap(m3, CHUNKSIZE \div 4))
  <2>1. [PutPrologue(m1, 16) EXCEPT !.listp = 16 + 2 * WSIZE,
                                    !.rover = IF m1.nextFit THEN 16 + 2 * WSIZE ELSE @] = m3
    BY <1>4, <1>6, <1>15, <1>16 DEF WSIZE, Memories
  <2> QED BY <2>1, Numbers DEF InitHeap, WSIZE
<1>19. PICK B, s, a : B = {24} /\ s = [b \in {24} |-> 8] /\ a = [b \in {24} |-> 1]
  OBVIOUS
<1>20. Layout(B, s, 32)
  BY <1>19, Numbers DEF Layout
<1>21. Sound(m3, B, s, a)
  <2>1. Tagged(m3, B, s, a)
    BY <1>17, <1>19, Numbers DEF Tagged
  <2>2. Apart(B, s, a, {})
    BY <1>19 DEF Apart
  <2> QED BY <1>17, <1>19, <1>20, <2>1, <2>2, Numbers DEF Sound, Shaped, RoverIn
<1>22. Extends(m3, B, s, a, CHUNKSIZE, ExtendHeap(m3, CHUNKSIZE \div 4))
  <2>1. CHUNKSIZE \in Nat /\ CHUNKSIZE % 8 = 0 /\ CHUNKSIZE >= 16 /\ CHUNKSIZE < UintMod
    BY Numbers
  <2> QED BY <1>21, <2>1, ExtendRight
<1>23. 2 * CHUNKSIZE < UintMod /\ m3.brk + CHUNKSIZE <= Top
  BY <1>17, Numbers
<1>24. PICK m4, B2, s2, a2, x :
          /\ ExtendHeap(m3, CHUNKSIZE \div 4) = Result(m4, x)
          /\ Sound(m4, B2, s2, a2) /\ Kept(m3, B, s, a, m4, B2, s2, a2, {})
          /\ x \in B2
  BY <1>22, <1>23 DEF Extends
<1>25. x /= NULL
  <2>1. x \in Nat /\ x >= 24
    BY <1>24, BlockIn DEF Sound, Shaped
  <2> QED BY <2>1, Numbers
<1>26. InitHeap(m1, 16) = Result(m4, 0)
  BY <1>18, <1>24, <1>25 DEF InitStatus, Result
<1>27. ASSUME NEW b \in B2, a2[b] = 1 PROVE b = Listp
  <2>1. b \in B
    BY <1>24, <1>27 DEF Kept
  <2> QED BY <1>19, <2>1, Numbers
<1> QED BY <1>1, <1>5, <1>24, <1>26, <1>27

--------------------------------------------------------------------------------
(* The payload is the client's, and mm_realloc *)

(* Words written inside the payload of an allocated block leave the heap   *)
(* consistent and the other blocks alone.                                  *)
Filled(m, m2, x, n) == /\ Same(m, m2)
                       /\ \A w \in Int : w < x \/ w >= x + n => Get(m2, w) = Get(m, w)

(* The tags of every block, and the payloads of the others, are still there. *)
LEMMA FilledRight ==
  ASSUME NEW m, NEW B, NEW s, NEW a, Sound(m, B, s, a), NEW x \in B, NEW n \in Nat,
         n <= s[x] - 8, NEW m2, Filled(m, m2, x, n)
  PROVE  Sound(m2, B, s, a) /\ Kept(m, B, s, a, m2, B, s, a, {x})
<1>1. /\ m \in Memories /\ m.listp = Listp /\ Layout(B, s, m.brk) /\ Tagged(m, B, s, a)
      /\ Apart(B, s, a, {}) /\ RoverIn(m, B)
  BY DEF Sound, Shaped
<1>2. /\ m2 \in Memories /\ m2.listp = Listp /\ m2.brk = m.brk /\ m2.rover = m.rover
      /\ m2.nextFit = m.nextFit
      /\ \A w \in Int : w < x \/ w >= x + n => Get(m2, w) = Get(m, w)
  BY <1>1 DEF Filled, Same
<1>3. \A b \in B : b \in Nat /\ s[b] \in Nat /\ s[b] >= 8 /\ b + s[b] <= m.brk
  BY <1>1, BlockIn
<1>4. m.brk \in Nat
  BY <1>1 DEF Layout
<1>5. ASSUME NEW b \in B, b /= x, NEW w \in Int, b - 4 <= w, w <= b + s[b] - 8
      PROVE  Get(m2, w) = Get(m, w)
  <2>1. b < x => b + s[b] <= x
    BY <1>1 DEF Layout
  <2>2. x < b => x + s[x] <= b
    BY <1>1 DEF Layout
  <2>3. w < x \/ w >= x + n
    BY <1>3, <1>5, <2>1, <2>2
  <2> QED BY <1>2, <2>3
<1>6. ASSUME NEW b \in B
      PROVE  Get(m2, b - 4) = Get(m, b - 4) /\ Get(m2, b + s[b] - 8) = Get(m, b + s[b] - 8)
  <2>1. b - 4 \in Int /\ b + s[b] - 8 \in Int /\ b - 4 <= b + s[b] - 8
    BY <1>3
  <2>2. CASE b = x
    <3>1. b - 4 < x /\ b + s[b] - 8 >= x + n
      BY <1>3, <2>2
    <3> QED BY <1>2, <2>1, <3>1
  <2>3. CASE b /= x
    BY <1>3, <1>5, <2>1, <2>3
  <2> QED BY <2>2, <2>3
<1>7. Get(m2, m2.brk - 4) = 1
  <2>1. m.brk - 4 >= x + n /\ m.brk - 4 \in Int
    BY <1>3, <1>4
  <2> QED BY <1>1, <1>2, <2>1 DEF Tagged
<1>8. Tagged(m2, B, s, a)
  <2>1. ASSUME NEW b \in B
        PROVE  /\ a[b] \in {0, 1}
               /\ Get(m2, b - 4) = s[b] + a[b] /\ Get(m2, b + s[b] - 8) = s[b] + a[b]
    BY <1>1, <1>6 DEF Tagged
  <2> QED BY <1>1, <1>7, <2>1 DEF Tagged
<1>9. Sound(m2, B, s, a)
  BY <1>1, <1>2, <1>8 DEF Sound, Shaped, RoverIn
<1>10. ASSUME NEW b \in B \ {x} PROVE SamePayload(m, m2, b, s[b])
  BY <1>3, <1>5 DEF SamePayload
<1> QED BY <1>9, <1>10 DEF Kept

(* memcpy into the payload. *)
LEMMA MemcpyRight ==
  ASSUME NEW m \in Memories, NEW to \in Nat, NEW from \in Nat, NEW n \in Nat
  PROVE  /\ Filled(m, Memcpy(m, to, from, n), to, n)
         /\ \A w \in Words : w >= to /\ w < to + n =>
               Get(Memcpy(m, to, from, n), w) = Get(m, from + (w - to))
<1>1. PICK h : h = [p \in Words |-> IF p >= to /\ p < to + n
                                    THEN Get(m, from + (p - to)) ELSE m.heap[p]]
  OBVIOUS
<1>2. PICK m2 : m2 = Memcpy(m, to, from, n)
  OBVIOUS
<1>3. m2 = [m EXCEPT !.heap = h]
  BY <1>1, <1>2 DEF Memcpy
<1>4. m.heap \in [Words -> Nat] /\ Words \subseteq Nat
  BY InWords DEF Memories
<1>5. h \in [Words -> Nat]
  <2>1. \A p \in Words : Get(m, from + (p - to)) \in Nat
    <3>1. \A p \in Words : from + (p - to) \in Int
      BY <1>4
    <3> QED BY <3>1, Words32
  <2> QED BY <1>1, <1>4, <2>1
<1>6. /\ m2 \in Memories /\ m2.heap = h /\ m2.brk = m.brk /\ m2.listp = m.listp
      /\ m2.rover = m.rover /\ m2.nextFit = m.nextFit
  BY <1>3, <1>5 DEF Memories
<1>7. \A w \in Words : Get(m2, w) = IF w >= to /\ w < to + n
                                    THEN Get(m, from + (w - to)) ELSE Get(m, w)
  BY <1>1, <1>6 DEF Get
<1>8. \A w \in Int : w < to \/ w >= to + n => Get(m2, w) = Get(m, w)
  <2>1. ASSUME NEW w \in Int, w < to \/ w >= to + n PROVE Get(m2, w) = Get(m, w)
    <3>1. CASE w \in Words
      BY <1>7, <2>1, <3>1
    <3>2. CASE w \notin Words
      BY <3>2 DEF Get
    <3> QED BY <3>1, <3>2
  <2> QED BY <2>1
<1> QED BY <1>2, <1>6, <1>7, <1>8 DEF Filled, Same

(* mm_realloc fails as mm_malloc does, or moves the data of the old block  *)
(* to the new one and gives the old one back.                              *)
Moves(m, B, s, a, ptr, size, m2, B2, s2, a2, x) ==
    /\ x /= ptr /\ Hands(m, B, s, a, Adjust(size), {x, ptr}, m2, B2, s2, a2, x)
    /\ ptr \in B2 => a2[ptr] = 0
    /\ \A w \in Words : x <= w /\ w - x < size /\ w - x < s[ptr] - 8 =>
          Get(m2, w) = Get(m, ptr + (w - x))

Reallocs(m, B, s, a, ptr, size, r) ==
    \/ Refuses(m, B, s, a, r)
    \/ \E m2, B2, s2, a2, x : /\ r = Result(m2, x)
                              /\ Moves(m, B, s, a, ptr, size, m2, B2, s2, a2, x)

(* mm_realloc of an allocated block to a size that is not 0. *)
LEMMA ReallocRight ==
  ASSUME NEW m, NEW B, NEW s, NEW a, Sound(m, B, s, a), NEW ptr \in B, ptr /= Listp, a[ptr] = 1,
         NEW size \in Nat, size > 0, 2 * size < UintMod
  PROVE  Reallocs(m, B, s, a, ptr, size, MmRealloc(m, ptr, size))
<1>1. ptr \in Nat /\ ptr >= 24 /\ s[ptr] \in Nat /\ m \in Memories
  BY BlockIn DEF Sound, Shaped
<1>2. MmRealloc(m, ptr, size) = MoveBlock(MmMalloc(m, size), ptr, size)
  BY <1>1, Numbers DEF MmRealloc
<1>3. CASE Refuses(m, B, s, a, MmMalloc(m, size))
  <2>1. MmRealloc(m, ptr, size) = MmMalloc(m, size)
    BY <1>2, <1>3 DEF MoveBlock, Refuses, Result
  <2> QED BY <1>3, <2>1 DEF Reallocs
<1>4. CASE ~Refuses(m, B, s, a, MmMalloc(m, size))
  <2>1. PICK m1, B1, s1, a1, x :
          /\ MmMalloc(m, size) = Result(m1, x)
          /\ Hands(m, B, s, a, Adjust(size), {x}, m1, B1, s1, a1, x)
    BY <1>4, MallocRight DEF Mallocs
  <2>2. /\ Sound(m1, B1, s1, a1) /\ Kept(m, B, s, a, m1, B1, s1, a1, {x})
        /\ x \in B1 /\ x /= Listp /\ a1[x] = 1 /\ s1[x] >= Adjust(size)
        /\ x \in B => a[x] = 0
        /\ m1.brk >= m.brk
        /\ m1.brk /= m.brk => \A c \in B : ~FitsIn(s, a, Adjust(size), c)
    BY <2>1 DEF Hands
  <2>3. x /= ptr
    BY <2>2
  <2>4. /\ ptr \in B1 /\ a1[ptr] = 1 /\ s1[ptr] = s[ptr] /\ SamePayload(m, m1, ptr, s[ptr])
    BY <2>2, <2>3 DEF Kept
  <2>5. /\ x \in Nat /\ x >= 24 /\ s1[x] \in Nat /\ m1 \in Memories
        /\ x - 4 \in Words /\ x + s1[x] - 8 \in Words
    BY <2>2, BlockIn DEF Sound, Shaped
  <2>6. PICK n \in Nat : n = (IF size < s[ptr] THEN size ELSE s[ptr]) /\ n <= size /\ n <= s1[x] - 8
    <3>1. Adjust(size) \in Nat /\ Adjust(size) >= size + 8
      BY AdjustRight
    <3> QED BY <1>1, <2>2, <2>5, <3>1
  <2>7. PICK m2 : m2 = Memcpy(m1, x, ptr, n)
    OBVIOUS
  <2>8. GetSize(m1, Hdrp(ptr)) = s[ptr]
    BY <2>2, <2>4, BlockTags DEF Sound, Hdrp, WSIZE
  <2>9. MmRealloc(m, ptr, size) = Result(MmFree(m2, ptr), x)
    <3>1. x /= NULL
      BY <2>5, Numbers
    <3> QED BY <1>2, <2>1, <2>6, <2>7, <2>8, <3>1 DEF MoveBlock, CopyBlock, Result
  <2>10. /\ Filled(m1, m2, x, n)
         /\ \A w \in Words : w >= x /\ w < x + n => Get(m2, w) = Get(m1, ptr + (w - x))
    BY <1>1, <2>5, <2>7, MemcpyRight
  <2>11. Sound(m2, B1, s1, a1) /\ Kept(m1, B1, s1, a1, m2, B1, s1, a1, {x})
    BY <2>2, <2>6, <2>10, FilledRight
  <2>12. PICK m3 : m3 = MmFree(m2, ptr)
    OBVIOUS
  <2>13. PICK B3, s3, a3 :
            /\ Sound(m3, B3, s3, a3) /\ Kept(m2, B1, s1, a1, m3, B3, s3, a3, {ptr})
            /\ ptr \in B3 => a3[ptr] = 0
            /\ m3.brk = m2.brk
    BY <2>4, <2>11, <2>12, FreeRight DEF Frees
  <2>14. Kept(m, B, s, a, m2, B1, s1, a1, {x} \cup {x})
    BY <2>2, <2>11, KeptTwice
  <2>15. Kept(m, B, s, a, m3, B3, s3, a3, ({x} \cup {x}) \cup {ptr})
    BY <2>13, <2>14, KeptTwice
  <2>16. ({x} \cup {x}) \cup {ptr} = {x, ptr}
    OBVIOUS
  <2>17. x \in B3 /\ a3[x] = 1 /\ s3[x] = s1[x] /\ SamePayload(m2, m3, x, s1[x])
    BY <2>2, <2>3, <2>13 DEF Kept
  <2>18. m3.brk = m1.brk
    BY <2>10, <2>13 DEF Filled, Same
  <2>19. Hands(m, B, s, a, Adjust(size), {x, ptr}, m3, B3, s3, a3, x)
    BY <2>2, <2>13, <2>15, <2>16, <2>17, <2>18 DEF Hands
  <2>20. ASSUME NEW w \in Words, x <= w, w - x < size, w - x < s[ptr] - 8
         PROVE  Get(m3, w) = Get(m, ptr + (w - x))
    <3>1. w \in Nat
      BY InWords
    <3>2. w < x + n /\ w < x + s1[x] - 8
      BY <1>1, <2>5, <2>6, <2>20, <3>1
    <3>3. Get(m3, w) = Get(m2, w)
      BY <2>17, <2>20, <3>1, <3>2 DEF SamePayload
    <3>4. Get(m2, w) = Get(m1, ptr + (w - x))
      BY <2>10, <2>20, <3>2
    <3>5. Get(m1, ptr + (w - x)) = Get(m, ptr + (w - x))
      <4>1. /\ ptr + (w - x) \in Int /\ ptr <= ptr + (w - x)
            /\ ptr + (w - x) < ptr + s[ptr] - 8
        BY <1>1, <2>5, <2>20, <3>1
      <4> QED BY <2>4, <4>1 DEF SamePayload
    <3> QED BY <3>3, <3>4, <3>5
  <2>21. MmRealloc(m, ptr, size) = Result(m3, x)
    BY <2>9, <2>12
  <2>22. Moves(m, B, s, a, ptr, size, m3, B3, s3, a3, x)
    BY <2>3, <2>13, <2>19, <2>20 DEF Moves
  <2> QED BY <2>21, <2>22 DEF Reallocs
<1> QED BY <1>3, <1>4

--------------------------------------------------------------------------------
(* checkheap's walk *)

WalkArea == MemHeap .. MemHeap + MaxHeap + DSIZE

IsWalk(f, m) ==
    f = [bp \in WalkArea |-> IF GetSize(m, Hdrp(bp)) = 0 \/ NextBlkp(m, bp) \notin DOMAIN f
                             THEN {bp} ELSE {bp} \cup f[NextBlkp(m, bp)]]

(* The walk of Chain is a function too. *)
LEMMA ChainWalk ==
  ASSUME NEW m
  PROVE  Chain(m) = (CHOOSE f : IsWalk(f, m))[m.listp]
BY DEF Chain, IsWalk, WalkArea

(* There is a walk: no block leads back to an earlier address. *)
LEMMA WalkExists ==
  ASSUME NEW m \in Memories
  PROVE  \E f : IsWalk(f, m)
<1> DEFINE Last(bp) == GetSize(m, Hdrp(bp)) = 0 \/ NextBlkp(m, bp) \notin WalkArea
           Right(f, bp) == f[bp] = IF Last(bp) THEN {bp} ELSE {bp} \cup f[NextBlkp(m, bp)]
           Above(n) == {bp \in WalkArea : Top + 8 - bp < n}
           Good == {n \in Nat : \E f : DOMAIN f = WalkArea /\ \A bp \in Above(n) : Right(f, bp)}
<1>1. Top \in Nat /\ WalkArea = 16 .. Top + 8
  BY Numbers DEF WalkArea, Top
<1>2. ASSUME NEW bp \in WalkArea, ~Last(bp)
      PROVE  NextBlkp(m, bp) > bp /\ NextBlkp(m, bp) \in WalkArea
  <2>1. GetSize(m, bp - 4) /= 0 /\ NextBlkp(m, bp) \in WalkArea
    BY <1>2 DEF Hdrp, WSIZE
  <2>2. GetSize(m, bp - 4) \in Nat
    <3>1. bp - 4 \in Int
      BY <1>1
    <3> QED BY <3>1, Words32
  <2> QED BY <1>1, <2>1, <2>2 DEF NextBlkp, WSIZE
<1> HIDE DEF Last
<1>3. ASSUME NEW n \in Nat, \A k \in Nat : k < n => k \in Good
      PROVE  n \in Good
  <2>1. CASE n = 0
    <3>1. Above(0) = {}
      BY <1>1
    <3>2. DOMAIN [bp \in WalkArea |-> {}] = WalkArea
      OBVIOUS
    <3> QED BY <2>1, <3>1, <3>2
  <2>2. CASE n > 0
    <3>1. n - 1 \in Nat /\ n - 1 \in Good
      <4> HIDE DEF Good
      <4>1. n - 1 \in Nat /\ n - 1 < n
        BY <2>2
      <4> QED BY <1>3, <4>1
    <3>2. PICK f : DOMAIN f = WalkArea /\ \A bp \in Above(n - 1) : Right(f, bp)
      BY <3>1
    <3>3. PICK h : h = [bp \in WalkArea |-> IF Top + 8 - bp < n - 1 THEN f[bp]
                                            ELSE IF Last(bp) THEN {bp}
                                            ELSE {bp} \cup f[NextBlkp(m, bp)]]
      OBVIOUS
    <3>4. ASSUME NEW bp \in Above(n) PROVE Right(h, bp)
      <4>1. bp \in WalkArea /\ Top + 8 - bp < n
        OBVIOUS
      <4>2. ASSUME ~Last(bp) PROVE h[NextBlkp(m, bp)] = f[NextBlkp(m, bp)]
        <5>1. Top + 8 - NextBlkp(m, bp) < n - 1 /\ NextBlkp(m, bp) \in WalkArea
          BY <1>1, <1>2, <4>1, <4>2
        <5> QED BY <3>3, <5>1
      <4>3. CASE Top + 8 - bp < n - 1
        <5>1. h[bp] = f[bp]
          BY <3>3, <4>1, <4>3
        <5>2. Right(f, bp)
          BY <3>2, <4>1, <4>3
        <5> QED BY <4>2, <5>1, <5>2
      <4>4. CASE ~(Top + 8 - bp < n - 1)
        BY <3>3, <4>1, <4>2, <4>4
      <4> QED BY <4>3, <4>4
    <3>5. DOMAIN h = WalkArea
      BY <3>3
    <3> QED BY <3>4, <3>5
  <2> HIDE DEF Good
  <2>3. n = 0 \/ n > 0
    OBVIOUS
  <2> QED BY <2>1, <2>2, <2>3
<1>4. Top + 8 \in Good
  <2> HIDE DEF Good
  <2>1. Nat \subseteq Good
    BY <1>3, StrongInduction
  <2> QED BY <1>1, <2>1
<1>5. PICK f : DOMAIN f = WalkArea /\ \A bp \in Above(Top + 8) : Right(f, bp)
  BY <1>4
<1>6. \A bp \in WalkArea : Right(f, bp)
  BY <1>1, <1>5
<1>7. PICK h : h = [bp \in WalkArea |-> f[bp]]
  OBVIOUS
<1>8. DOMAIN h = WalkArea /\ \A bp \in WalkArea : h[bp] = f[bp]
  BY <1>7
<1>9. \A bp \in WalkArea : Right(h, bp)
  BY <1>2, <1>6, <1>8
<1>10. h = [bp \in WalkArea |-> IF Last(bp) THEN {bp} ELSE {bp} \cup h[NextBlkp(m, bp)]]
  BY <1>7, <1>8, <1>9
<1> QED BY <1>8, <1>10 DEF IsWalk, Last

(* The walk from the prologue meets every block, and ends at the epilogue. *)
LEMMA ChainIs ==
  ASSUME NEW m, NEW B, NEW s, NEW a, Shaped(m, B, s, a)
  PROVE  Chain(m) = B \cup {m.brk} /\ Blocks(m) = B
<1>1. Layout(B, s, m.brk) /\ m \in Memories /\ m.listp = Listp
  BY DEF Shaped
<1>2. PICK f : f = CHOOSE g : IsWalk(g, m)
  OBVIOUS
<1>3. IsWalk(f, m) /\ Chain(m) = f[Listp]
  BY <1>1, <1>2, WalkExists, ChainWalk
<1>4. Top \in Nat /\ WalkArea = 16 .. Top + 8
  BY Numbers DEF WalkArea, Top
<1>5. \A b \in B : /\ b \in Nat /\ s[b] \in Nat /\ s[b] >= 8 /\ b + s[b] <= m.brk
                   /\ b + s[b] \in B \cup {m.brk} /\ b \in WalkArea
  <2>1. \A b \in B : /\ b \in Nat /\ s[b] \in Nat /\ s[b] >= 8 /\ b + s[b] <= m.brk
                     /\ b >= 24 /\ m.brk <= Top /\ m.brk \in Nat
    BY <1>1, BlockIn
  <2>2. \A b \in B : b + s[b] \in B \cup {m.brk}
    BY <1>1 DEF Layout
  <2> QED BY <1>4, <2>1, <2>2
<1>6. m.brk \in Nat /\ m.brk \in WalkArea /\ Listp \in B
  <2>1. Listp \in B
    BY <1>1 DEF Layout
  <2>2. m.brk \in Nat /\ m.brk <= Top /\ m.brk >= 32
    BY <1>1, <2>1, BlockIn
  <2> QED BY <1>4, <2>1, <2>2
<1>7. \A b \in B \cup {m.brk} : b \in Nat /\ b \in WalkArea /\ b <= m.brk
  BY <1>5, <1>6
<1>8. ASSUME NEW b \in B PROVE b < m.brk
  <2>1. b \in Nat /\ s[b] \in Nat /\ s[b] >= 8 /\ b + s[b] <= m.brk /\ m.brk \in Nat
    BY <1>5, <1>6
  <2> QED BY <2>1
<1>9. \A b \in B : NextBlkp(m, b) = b + s[b] /\ GetSize(m, Hdrp(b)) = s[b]
  BY BlockTags DEF Hdrp, WSIZE
<1>10. GetSize(m, Hdrp(m.brk)) = 0
  BY EpilogueTags DEF Hdrp, WSIZE
<1>11. DOMAIN f = WalkArea
  BY <1>3 DEF IsWalk
<1>12. \A b \in WalkArea : f[b] = IF GetSize(m, Hdrp(b)) = 0 \/ NextBlkp(m, b) \notin WalkArea
                                  THEN {b} ELSE {b} \cup f[NextBlkp(m, b)]
  BY <1>3, <1>11 DEF IsWalk
<1> DEFINE From(b) == {c \in B \cup {m.brk} : b <= c}
           Good == {n \in Nat : \A b \in B \cup {m.brk} : m.brk - b = n => f[b] = From(b)}
<1>13. ASSUME NEW n \in Nat, \A k \in Nat : k < n => k \in Good
       PROVE  n \in Good
  <2> SUFFICES ASSUME NEW b \in B \cup {m.brk}, m.brk - b = n
               PROVE  f[b] = From(b)
    OBVIOUS
  <2>1. CASE b = m.brk
    <3>1. f[b] = {b}
      BY <1>6, <1>10, <1>12, <2>1
    <3>2. From(b) = {b}
      BY <1>6, <1>7, <1>8, <2>1
    <3> QED BY <3>1, <3>2
  <2>2. CASE b \in B
    <3>1. PICK nx \in Nat : nx = b + s[b] /\ nx \in B \cup {m.brk} /\ nx \in WalkArea /\ nx > b
      BY <1>5, <1>7, <2>2
    <3>2. f[b] = {b} \cup f[nx]
      <4>1. s[b] /= 0 /\ b \in WalkArea
        BY <1>5, <2>2
      <4> QED BY <1>9, <1>12, <2>2, <3>1, <4>1
    <3>3. f[nx] = From(nx)
      <4>1. m.brk - nx \in Nat /\ m.brk - nx < n
        BY <1>5, <1>6, <1>7, <2>2, <3>1
      <4>2. m.brk - nx \in Good
        BY <1>13, <4>1
      <4> QED BY <3>1, <4>2
    <3>4. From(b) = {b} \cup From(nx)
      <4>1. ASSUME NEW c \in B \cup {m.brk}, b <= c PROVE c = b \/ nx <= c
        <5>1. c \in Nat /\ b \in Nat
          BY <1>7
        <5>2. c \in B /\ b < c => nx <= c
          BY <1>1, <2>2, <3>1 DEF Layout
        <5>3. c = m.brk => nx <= c
          BY <1>7, <3>1
        <5> QED BY <4>1, <5>1, <5>2, <5>3
      <4>2. ASSUME NEW c \in B \cup {m.brk}, nx <= c PROVE b <= c
        BY <1>7, <3>1, <4>2
      <4>3. b <= b
        BY <1>7
      <4> QED BY <4>1, <4>2, <4>3
    <3> QED BY <3>2, <3>3, <3>4
  <2> QED BY <2>1, <2>2
<1>14. f[Listp] = From(Listp)
  <2>1. m.brk - Listp \in Nat
    BY <1>6, <1>7
  <2>2. m.brk - Listp \in Good
    <3> HIDE DEF Good
    <3>1. Nat \subseteq Good
      BY <1>13, StrongInduction
    <3> QED BY <2>1, <3>1
  <2> QED BY <1>6, <2>2
<1>15. From(Listp) = B \cup {m.brk}
  <2>1. \A c \in B : Listp <= c
    BY <1>1 DEF Layout
  <2>2. Listp <= m.brk
    BY <1>6, <1>7
  <2> QED BY <2>1, <2>2
<1>16. m.brk \notin B
  BY <1>6, <1>8
<1> QED BY <1>3, <1>14, <1>15, <1>16 DEF Blocks, Epilogue

--------------------------------------------------------------------------------
(* What the client holds *)

Data(m, p, size, d) == \A w \in Words : p <= w /\ w < p + size => Get(m, w) = Datum(d, w - p)

Holds(m, B, s, a, p, size, d) == /\ p \in B /\ p /= Listp /\ a[p] = 1 /\ size <= s[p] - 8
                                 /\ Data(m, p, size, d)

(* The allocated blocks are those of the ids in lv, one each, with their   *)
(* data.                                                                   *)
Owned(m, bl, sz, lv, B, s, a) ==
    /\ Sound(m, B, s, a)
    /\ \A d \in lv : bl[d] /= NULL => Holds(m, B, s, a, bl[d], sz[d], d)
    /\ \A d \in lv, e \in lv : bl[d] = bl[e] => d = e \/ bl[d] = NULL
    /\ \A b \in B : a[b] = 1 => b = Listp \/ \E d \in lv : bl[d] = b

Booked(bl, sz, lv) == /\ bl \in [Ids -> Nat] /\ sz \in [Ids -> Nat] /\ lv \subseteq Ids
                      /\ \A d \in lv : bl[d] = NULL <=> sz[d] = 0

(* A block that is kept still holds its data. *)
LEMMA StillHolds ==
  ASSUME NEW m, NEW B, NEW s, NEW a, Sound(m, B, s, a), NEW p, NEW size \in Nat, NEW d,
         Holds(m, B, s, a, p, size, d),
         NEW m2, NEW B2, NEW s2, NEW a2, NEW X, Kept(m, B, s, a, m2, B2, s2, a2, X), p \notin X
  PROVE  Holds(m2, B2, s2, a2, p, size, d)
<1>1. p \in B /\ p /= Listp /\ a[p] = 1 /\ size <= s[p] - 8 /\ Data(m, p, size, d)
  BY DEF Holds
<1>2. p \in B2 /\ a2[p] = 1 /\ s2[p] = s[p] /\ SamePayload(m, m2, p, s[p])
  BY <1>1 DEF Kept
<1>3. p \in Nat /\ s[p] \in Nat
  BY <1>1, BlockIn DEF Sound, Shaped
<1>4. ASSUME NEW w \in Words, p <= w, w < p + size PROVE Get(m2, w) = Datum(d, w - p)
  <2>1. w \in Int
    BY InWords
  <2>2. w < p + s[p] - 8
    BY <1>1, <1>3, <1>4, <2>1
  <2>3. Get(m2, w) = Get(m, w)
    BY <1>2, <1>4, <2>1, <2>2 DEF SamePayload
  <2> QED BY <1>1, <1>4, <2>3 DEF Data
<1> QED BY <1>1, <1>2, <1>4 DEF Holds, Data

(* randomize_block fills the payload. *)
LEMMA FillsRight ==
  ASSUME NEW m \in Memories, NEW x \in Nat, NEW n \in Nat, NEW i \in Ids,
         NEW m2, m2 = RandomizeBlock(m, x, n, i)
  PROVE  Filled(m, m2, x, n) /\ Data(m2, x, n, i)
<1>1. PICK h : h = [p \in Words |-> IF p >= x /\ p < x + n THEN Datum(i, p - x) ELSE m.heap[p]]
  OBVIOUS
<1>2. m2 = [m EXCEPT !.heap = h]
  BY <1>1 DEF RandomizeBlock
<1>3. m.heap \in [Words -> Nat] /\ Words \subseteq Nat
  BY InWords DEF Memories
<1>4. ASSUME NEW p \in Words, p >= x PROVE Datum(i, p - x) \in Nat
  <2>1. PICK k \in Nat : k = p - x
    BY <1>3, <1>4
  <2>2. UintMod \in Nat /\ i \in Nat /\ MaxHeap \in Nat
    BY Numbers
  <2>3. PICK j \in Nat : j = i * MaxHeap
    BY <2>2
  <2>4. Datum(i, p - x) = UintMod + j + k
    BY <2>1, <2>3 DEF Datum
  <2> QED BY <2>1, <2>2, <2>3, <2>4
<1>5. h \in [Words -> Nat]
  BY <1>1, <1>3, <1>4
<1>6. /\ m2 \in Memories /\ m2.heap = h /\ m2.brk = m.brk /\ m2.listp = m.listp
      /\ m2.rover = m.rover /\ m2.nextFit = m.nextFit
  BY <1>2, <1>5 DEF Memories
<1>7. \A w \in Words : Get(m2, w) = IF w >= x /\ w < x + n THEN Datum(i, w - x) ELSE Get(m, w)
  BY <1>1, <1>6 DEF Get
<1>8. ASSUME NEW w \in Int, w < x \/ w >= x + n PROVE Get(m2, w) = Get(m, w)
  <2>1. CASE w \in Words
    BY <1>7, <1>8, <2>1
  <2>2. CASE w \notin Words
    BY <2>2 DEF Get
  <2> QED BY <2>1, <2>2
<1>9. Data(m2, x, n, i)
  <2>1. ASSUME NEW w \in Words, x <= w, w < x + n PROVE Get(m2, w) = Datum(i, w - x)
    <3>1. w \in Nat
      BY <1>3
    <3> QED BY <1>7, <2>1, <3>1
  <2> QED BY <2>1 DEF Data
<1> QED BY <1>6, <1>8, <1>9 DEF Filled, Same

(* Nothing is filled where there is no block. *)
LEMMA FillsNothing ==
  ASSUME NEW m \in Memories, NEW i
  PROVE  RandomizeBlock(m, NULL, 0, i) = m
<1>1. [p \in Words |-> IF p >= NULL /\ p < NULL + 0 THEN Datum(i, p - NULL) ELSE m.heap[p]] = m.heap
  <2>1. \A p \in Words : ~(p >= NULL /\ p < NULL + 0)
    BY InWords, Numbers
  <2>2. m.heap \in [Words -> Nat]
    BY DEF Memories
  <2> QED BY <2>1, <2>2
<1>2. RandomizeBlock(m, NULL, 0, i) = [m EXCEPT !.heap = m.heap]
  BY <1>1 DEF RandomizeBlock
<1> QED BY <1>2 DEF Memories

(* A block taken back: the id holds nothing any more. *)
LEMMA Dropped ==
  ASSUME NEW m, NEW bl, NEW sz, NEW lv, NEW B, NEW s, NEW a, Owned(m, bl, sz, lv, B, s, a),
         Booked(bl, sz, lv), NEW i \in lv,
         NEW m2, NEW B2, NEW s2, NEW a2, Sound(m2, B2, s2, a2),
         Kept(m, B, s, a, m2, B2, s2, a2, {bl[i]}), bl[i] \in B2 => a2[bl[i]] = 0
  PROVE  Owned(m2, bl, sz, lv \ {i}, B2, s2, a2) /\ Booked(bl, sz, lv \ {i})
<1>1. ASSUME NEW d \in lv \ {i}, bl[d] /= NULL
      PROVE  Holds(m2, B2, s2, a2, bl[d], sz[d], d)
  <2>1. Holds(m, B, s, a, bl[d], sz[d], d) /\ bl[d] \notin {bl[i]}
    BY <1>1 DEF Owned
  <2>2. sz[d] \in Nat /\ Sound(m, B, s, a)
    BY DEF Booked, Owned
  <2> QED BY <2>1, <2>2, StillHolds
<1>2. ASSUME NEW b \in B2, a2[b] = 1, b /= Listp
      PROVE  \E d \in lv \ {i} : bl[d] = b
  <2>1. b \notin {bl[i]}
    BY <1>2
  <2>2. b \in B /\ a[b] = 1
    BY <1>2, <2>1 DEF Kept
  <2>3. PICK d \in lv : bl[d] = b
    BY <1>2, <2>2 DEF Owned
  <2> QED BY <2>1, <2>3
<1>3. \A d \in lv \ {i}, e \in lv \ {i} : bl[d] = bl[e] => d = e \/ bl[d] = NULL
  BY DEF Owned
<1>4. Owned(m2, bl, sz, lv \ {i}, B2, s2, a2)
  BY <1>1, <1>2, <1>3 DEF Owned
<1>5. Booked(bl, sz, lv \ {i})
  BY DEF Booked
<1> QED BY <1>4, <1>5

(* The block x of the given size is entered for i. *)
Records(bl, sz, i, x, size, bl2, sz2) == /\ bl2 = [bl EXCEPT ![i] = x]
                                         /\ sz2 = [sz EXCEPT ![i] = size]

(* An id that holds nothing. *)
LEMMA Emptied ==
  ASSUME NEW m, NEW bl, NEW sz, NEW lv, NEW B, NEW s, NEW a, NEW i \in Ids,
         Owned(m, bl, sz, lv \ {i}, B, s, a), Booked(bl, sz, lv \ {i}), i \in lv,
         NEW bl2, NEW sz2, Records(bl, sz, i, NULL, 0, bl2, sz2)
  PROVE  Owned(m, bl2, sz2, lv, B, s, a) /\ Booked(bl2, sz2, lv)
<1>1. bl \in [Ids -> Nat] /\ sz \in [Ids -> Nat] /\ lv \subseteq Ids /\ NULL = 0
  BY Numbers DEF Booked
<1>2. /\ bl2 \in [Ids -> Nat] /\ sz2 \in [Ids -> Nat] /\ bl2[i] = NULL /\ sz2[i] = 0
      /\ \A d \in Ids \ {i} : bl2[d] = bl[d] /\ sz2[d] = sz[d]
  BY <1>1 DEF Records
<1>3. \A d \in lv : bl2[d] /= NULL => Holds(m, B, s, a, bl2[d], sz2[d], d)
  BY <1>1, <1>2 DEF Owned
<1>4. \A d \in lv, e \in lv : bl2[d] = bl2[e] => d = e \/ bl2[d] = NULL
  BY <1>1, <1>2 DEF Owned
<1>5. \A b \in B : a[b] = 1 => b = Listp \/ \E d \in lv : bl2[d] = b
  BY <1>1, <1>2 DEF Owned
<1>6. \A d \in lv : bl2[d] = NULL <=> sz2[d] = 0
  BY <1>1, <1>2 DEF Booked
<1>7. Owned(m, bl2, sz2, lv, B, s, a)
  BY <1>3, <1>4, <1>5 DEF Owned
<1> QED BY <1>1, <1>2, <1>6, <1>7 DEF Booked

(* A new block x is recorded for i and filled: what i held before, if      *)
(* anything, is in X, and no longer allocated.                             *)
Replaces(bl, lv, i, X, x, B2, a2) ==
    /\ x \in X
    /\ \A b \in X \ {x} : i \in lv /\ b = bl[i] /\ (b \in B2 => a2[b] = 0)
    /\ i \in lv /\ bl[i] /= NULL => bl[i] \in X /\ bl[i] /= x

(* Ownership after the new block is recorded: every other id keeps its     *)
(* block and its data.                                                     *)
LEMMA Assigned ==
  ASSUME NEW m, NEW bl, NEW sz, NEW lv, NEW B, NEW s, NEW a, Owned(m, bl, sz, lv, B, s, a),
         Booked(bl, sz, lv), NEW i \in Ids, NEW size \in Nat, size > 0,
         NEW asize \in Nat, asize >= size + 8,
         NEW m2, NEW B2, NEW s2, NEW a2, NEW X, NEW x, Hands(m, B, s, a, asize, X, m2, B2, s2, a2, x),
         Replaces(bl, lv, i, X, x, B2, a2),
         NEW bl3, NEW sz3, NEW m3, m3 = RandomizeBlock(m2, x, size, i),
         Records(bl, sz, i, x, size, bl3, sz3)
  PROVE  /\ Owned(m3, bl3, sz3, lv \cup {i}, B2, s2, a2) /\ Booked(bl3, sz3, lv \cup {i})
         /\ m3.brk = m2.brk
<1>1. /\ Sound(m2, B2, s2, a2) /\ Kept(m, B, s, a, m2, B2, s2, a2, X)
      /\ x \in B2 /\ x /= Listp /\ a2[x] = 1 /\ s2[x] >= asize /\ (x \in B => a[x] = 0)
  BY DEF Hands
<1>2. /\ x \in Nat /\ x >= 24 /\ s2[x] \in Nat /\ m2 \in Memories /\ size <= s2[x] - 8 /\ x /= NULL
  <2>1. x \in Nat /\ x >= 24 /\ s2[x] \in Nat /\ m2 \in Memories
    BY <1>1, BlockIn DEF Sound, Shaped
  <2> QED BY <1>1, <2>1, Numbers
<1>3. /\ bl \in [Ids -> Nat] /\ sz \in [Ids -> Nat] /\ lv \subseteq Ids
      /\ \A d \in lv : bl[d] = NULL <=> sz[d] = 0
  BY DEF Booked
<1>4. /\ bl3 \in [Ids -> Nat] /\ sz3 \in [Ids -> Nat] /\ bl3[i] = x /\ sz3[i] = size
      /\ \A d \in Ids \ {i} : bl3[d] = bl[d] /\ sz3[d] = sz[d]
  BY <1>2, <1>3 DEF Records
<1>5. Filled(m2, m3, x, size) /\ Data(m3, x, size, i)
  BY <1>2, FillsRight
<1>6. Sound(m3, B2, s2, a2) /\ Kept(m2, B2, s2, a2, m3, B2, s2, a2, {x})
  BY <1>1, <1>2, <1>5, FilledRight
<1>7. Kept(m, B, s, a, m3, B2, s2, a2, X \cup {x})
  BY <1>1, <1>6, KeptTwice
<1>8. X \cup {x} = X
  BY DEF Replaces
<1>9. ASSUME NEW d \in lv \ {i}, bl[d] /= NULL
      PROVE  bl[d] \notin X /\ Holds(m3, B2, s2, a2, bl[d], sz[d], d)
  <2>1. Holds(m, B, s, a, bl[d], sz[d], d) /\ Sound(m, B, s, a)
    BY <1>9 DEF Owned
  <2>2. bl[d] /= x
    BY <1>1, <2>1 DEF Holds
  <2>3. ASSUME bl[d] \in X \ {x} PROVE FALSE
    <3>1. i \in lv /\ bl[d] = bl[i]
      BY <2>3 DEF Replaces
    <3> QED BY <1>9, <3>1 DEF Owned
  <2>4. bl[d] \notin X
    BY <2>2, <2>3
  <2>5. sz[d] \in Nat
    BY <1>3
  <2>6. Kept(m, B, s, a, m3, B2, s2, a2, X)
    BY <1>7, <1>8
  <2>7. Holds(m3, B2, s2, a2, bl[d], sz[d], d)
    BY <2>1, <2>4, <2>5, <2>6, StillHolds
  <2> QED BY <2>4, <2>7
<1>10. Holds(m3, B2, s2, a2, x, size, i)
  BY <1>1, <1>2, <1>5 DEF Holds
<1>11. ASSUME NEW d \in lv \cup {i}, bl3[d] /= NULL
       PROVE  Holds(m3, B2, s2, a2, bl3[d], sz3[d], d)
  <2>1. CASE d = i
    BY <1>4, <1>10, <2>1
  <2>2. CASE d /= i
    <3>1. d \in lv \ {i} /\ bl3[d] = bl[d] /\ sz3[d] = sz[d]
      BY <1>3, <1>4, <2>2
    <3> QED BY <1>9, <1>11, <3>1
  <2> QED BY <2>1, <2>2
<1>12. ASSUME NEW d \in lv \cup {i}, NEW e \in lv \cup {i}, bl3[d] = bl3[e], d /= e
       PROVE  bl3[d] = NULL
  <2>1. ASSUME NEW c \in lv \ {i}, bl[c] /= NULL PROVE bl[c] /= x
    <3>1. bl[c] \notin X /\ x \in X
      BY <1>9, <2>1 DEF Replaces
    <3> QED BY <3>1
  <2>2. CASE d = i
    BY <1>2, <1>3, <1>4, <1>12, <2>1, <2>2
  <2>3. CASE e = i
    BY <1>2, <1>3, <1>4, <1>12, <2>1, <2>3
  <2>4. CASE d /= i /\ e /= i
    BY <1>3, <1>4, <1>12, <2>4 DEF Owned
  <2> QED BY <2>2, <2>3, <2>4
<1>13. ASSUME NEW b \in B2, a2[b] = 1, b /= Listp
       PROVE  \E d \in lv \cup {i} : bl3[d] = b
  <2>1. CASE b = x
    BY <1>4, <2>1
  <2>2. CASE b /= x
    <3>1. b \notin X
      BY <1>13, <2>2 DEF Replaces
    <3>2. b \in B /\ a[b] = 1
      BY <1>1, <1>13, <3>1 DEF Kept
    <3>3. PICK d \in lv : bl[d] = b
      BY <1>13, <3>2 DEF Owned
    <3>4. d /= i
      <4>1. b \in Nat /\ b >= 24
        BY <1>1, <1>13, BlockIn DEF Sound, Shaped
      <4>2. b /= NULL
        BY <4>1, Numbers
      <4> QED BY <3>1, <3>3, <4>2 DEF Replaces
    <3> QED BY <1>3, <1>4, <3>3, <3>4
  <2> QED BY <2>1, <2>2
<1>14. Owned(m3, bl3, sz3, lv \cup {i}, B2, s2, a2)
  BY <1>6, <1>11, <1>12, <1>13 DEF Owned
<1>15. Booked(bl3, sz3, lv \cup {i})
  <2>1. ASSUME NEW d \in lv \cup {i} PROVE bl3[d] = NULL <=> sz3[d] = 0
    <3>1. CASE d = i
      BY <1>2, <1>4, <3>1
    <3>2. CASE d /= i
      BY <1>3, <1>4, <3>2
    <3> QED BY <3>1, <3>2
  <2> QED BY <1>3, <1>4, <2>1 DEF Booked
<1> QED BY <1>5, <1>14, <1>15 DEF Filled, Same

(* The range list holds the payloads of the blocks. *)
RangesOf(bl, sz, lv) == {NewRange(bl[d], sz[d], d) : d \in {e \in lv : bl[e] /= NULL}}

(* remove_range takes out the range of the block it is given. *)
LEMMA RangeRemoved ==
  ASSUME NEW m, NEW bl, NEW sz, NEW lv, NEW B, NEW s, NEW a, Owned(m, bl, sz, lv, B, s, a),
         NEW i \in lv
  PROVE  RemoveRange(RangesOf(bl, sz, lv), bl[i]) = RangesOf(bl, sz, lv \ {i})
<1>1. ASSUME NEW d \in lv, bl[d] /= NULL PROVE bl[d] = bl[i] <=> d = i
  BY <1>1 DEF Owned
<1>2. \A d \in lv : NewRange(bl[d], sz[d], d).lo = bl[d]
  BY DEF NewRange
<1>3. ASSUME NEW r \in RemoveRange(RangesOf(bl, sz, lv), bl[i])
      PROVE  r \in RangesOf(bl, sz, lv \ {i})
  <2>1. PICK d \in lv : bl[d] /= NULL /\ r = NewRange(bl[d], sz[d], d)
    BY DEF RemoveRange, RangesOf
  <2>2. d /= i
    BY <1>2, <2>1 DEF RemoveRange
  <2> QED BY <2>1, <2>2 DEF RangesOf
<1>4. ASSUME NEW r \in RangesOf(bl, sz, lv \ {i})
      PROVE  r \in RemoveRange(RangesOf(bl, sz, lv), bl[i])
  <2>1. PICK d \in lv \ {i} : bl[d] /= NULL /\ r = NewRange(bl[d], sz[d], d)
    BY DEF RangesOf
  <2>2. r \in RangesOf(bl, sz, lv) /\ r.lo /= bl[i]
    BY <1>1, <1>2, <2>1 DEF RangesOf
  <2> QED BY <2>2 DEF RemoveRange
<1> QED BY <1>3, <1>4

(* add_range adds the range of the new block. *)
LEMMA RangeAdded ==
  ASSUME NEW bl, NEW sz, NEW lv, Booked(bl, sz, lv), NEW i \in Ids, NEW x, NEW size, x /= NULL,
         NEW bl3, NEW sz3, Records(bl, sz, i, x, size, bl3, sz3)
  PROVE  RangesOf(bl, sz, lv \ {i}) \cup {NewRange(x, size, i)}
            = RangesOf(bl3, sz3, lv \cup {i})
<1>1. /\ lv \subseteq Ids /\ bl3[i] = x /\ sz3[i] = size
      /\ \A d \in Ids \ {i} : bl3[d] = bl[d] /\ sz3[d] = sz[d]
  BY DEF Booked, Records
<1>2. ASSUME NEW r \in RangesOf(bl, sz, lv \ {i}) \cup {NewRange(x, size, i)}
      PROVE  r \in RangesOf(bl3, sz3, lv \cup {i})
  <2>1. CASE r = NewRange(x, size, i)
    BY <1>1, <2>1 DEF RangesOf
  <2>2. CASE r \in RangesOf(bl, sz, lv \ {i})
    <3>1. PICK d \in lv \ {i} : bl[d] /= NULL /\ r = NewRange(bl[d], sz[d], d)
      BY <2>2 DEF RangesOf
    <3> QED BY <1>1, <3>1 DEF RangesOf
  <2> QED BY <2>1, <2>2
<1>3. ASSUME NEW r \in RangesOf(bl3, sz3, lv \cup {i})
      PROVE  r \in RangesOf(bl, sz, lv \ {i}) \cup {NewRange(x, size, i)}
  <2>1. PICK d \in lv \cup {i} : bl3[d] /= NULL /\ r = NewRange(bl3[d], sz3[d], d)
    BY DEF RangesOf
  <2>2. CASE d = i
    BY <1>1, <2>1, <2>2
  <2>3. CASE d /= i
    <3>1. d \in lv \ {i} /\ bl[d] /= NULL /\ r = NewRange(bl[d], sz[d], d)
      BY <1>1, <2>1, <2>3
    <3> QED BY <3>1 DEF RangesOf
  <2> QED BY <2>2, <2>3
<1> QED BY <1>2, <1>3

(* Nothing to add for an id that holds nothing. *)
LEMMA RangeOfNothing ==
  ASSUME NEW bl, NEW sz, NEW lv, Booked(bl, sz, lv), NEW i \in lv,
         NEW bl3, NEW sz3, Records(bl, sz, i, NULL, 0, bl3, sz3)
  PROVE  RangesOf(bl, sz, lv \ {i}) = RangesOf(bl3, sz3, lv)
<1>1. /\ lv \subseteq Ids /\ bl3[i] = NULL
      /\ \A d \in Ids \ {i} : bl3[d] = bl[d] /\ sz3[d] = sz[d]
  BY DEF Booked, Records
<1>2. {e \in lv \ {i} : bl[e] /= NULL} = {e \in lv : bl3[e] /= NULL}
  BY <1>1
<1>3. \A d \in {e \in lv : bl3[e] /= NULL} : NewRange(bl[d], sz[d], d) = NewRange(bl3[d], sz3[d], d)
  BY <1>1
<1> QED BY <1>2, <1>3 DEF RangesOf

(* Where the payload of a held block is. *)
LEMMA HeldIs ==
  ASSUME NEW m, NEW bl, NEW sz, NEW lv, NEW B, NEW s, NEW a, Owned(m, bl, sz, lv, B, s, a),
         Booked(bl, sz, lv), NEW d \in lv, bl[d] /= NULL
  PROVE  /\ bl[d] \in Nat /\ sz[d] \in Nat /\ bl[d] >= 24 /\ sz[d] > 0
         /\ bl[d] \in B /\ s[bl[d]] \in Nat /\ sz[d] + 8 <= s[bl[d]]
         /\ bl[d] + sz[d] + 8 <= m.brk /\ m.brk \in Nat
<1>1. Holds(m, B, s, a, bl[d], sz[d], d) /\ Sound(m, B, s, a)
  BY DEF Owned
<1>2. bl[d] \in Nat /\ sz[d] \in Nat /\ sz[d] /= 0
  BY DEF Booked
<1>3. bl[d] \in B /\ sz[d] <= s[bl[d]] - 8
  BY <1>1 DEF Holds
<1>4. /\ s[bl[d]] \in Nat /\ bl[d] >= 24 /\ bl[d] + s[bl[d]] <= m.brk /\ m.brk \in Nat
  BY <1>1, <1>3, BlockIn DEF Sound, Shaped
<1> QED BY <1>2, <1>3, <1>4

(* Two payloads do not overlap. *)
LEMMA HeldApart ==
  ASSUME NEW m, NEW bl, NEW sz, NEW lv, NEW B, NEW s, NEW a, Owned(m, bl, sz, lv, B, s, a),
         Booked(bl, sz, lv), NEW d \in lv, NEW e \in lv, d /= e, bl[d] /= NULL, bl[e] /= NULL
  PROVE  bl[d] + sz[d] <= bl[e] \/ bl[e] + sz[e] <= bl[d]
<1>1. PICK x \in Nat, y \in Nat, z \in Nat : x = bl[d] /\ y = sz[d] /\ z = s[x] /\ y <= z /\ x \in B
  <2>1. /\ bl[d] \in Nat /\ sz[d] \in Nat /\ bl[d] \in B /\ s[bl[d]] \in Nat
        /\ sz[d] + 8 <= s[bl[d]]
    BY HeldIs
  <2> QED BY <2>1
<1>2. PICK u \in Nat, v \in Nat, w \in Nat : u = bl[e] /\ v = sz[e] /\ w = s[u] /\ v <= w /\ u \in B
  <2>1. /\ bl[e] \in Nat /\ sz[e] \in Nat /\ bl[e] \in B /\ s[bl[e]] \in Nat
        /\ sz[e] + 8 <= s[bl[e]]
    BY HeldIs
  <2> QED BY <2>1
<1>3. x /= u
  BY <1>1, <1>2 DEF Owned
<1>4. Layout(B, s, m.brk)
  BY DEF Owned, Sound, Shaped
<1>5. (x < u => x + z <= u) /\ (u < x => u + w <= x)
  BY <1>1, <1>2, <1>4 DEF Layout
<1> QED BY <1>1, <1>2, <1>3, <1>5

(* add_range accepts the payload of a block among those of the others. *)
LEMMA Judged ==
  ASSUME NEW m, NEW bl, NEW sz, NEW lv, NEW B, NEW s, NEW a, Owned(m, bl, sz, lv, B, s, a),
         Booked(bl, sz, lv), NEW i \in lv, bl[i] /= NULL
  PROVE  Judge(m, RangesOf(bl, sz, lv \ {i}), bl[i], sz[i]) = "running"
<1>1. PICK x \in Nat, n \in Nat : x = bl[i] /\ n = sz[i] /\ x >= 24 /\ n > 0 /\ x + n + 8 <= m.brk
                                  /\ m.brk \in Nat /\ x \in B
  BY HeldIs
<1>2. x % ALIGNMENT = 0
  BY <1>1, BlockIn DEF Owned, Sound, Shaped, ALIGNMENT
<1>3. ~OutsideHeap(m, x, n)
  BY <1>1 DEF OutsideHeap, Hi, MemHeap
<1>4. ASSUME NEW r \in RangesOf(bl, sz, lv \ {i})
      PROVE  /\ ~(x >= r.lo /\ x <= r.hi)
             /\ ~(Hi(x, n) >= r.lo /\ Hi(x, n) <= r.hi)
  <2>1. PICK d \in lv \ {i} : bl[d] /= NULL /\ r = NewRange(bl[d], sz[d], d)
    BY DEF RangesOf
  <2>2. PICK y \in Nat, k \in Nat : y = bl[d] /\ k = sz[d] /\ k > 0
    BY <2>1, HeldIs
  <2>3. r.lo = y /\ r.hi = y + k - 1
    BY <2>1, <2>2 DEF NewRange, Hi
  <2>4. x + n <= y \/ y + k <= x
    BY <1>1, <2>1, <2>2, HeldApart
  <2>5. Hi(x, n) = x + n - 1
    BY DEF Hi
  <2> QED BY <1>1, <2>2, <2>3, <2>4, <2>5
<1>5. ~Overlaps(RangesOf(bl, sz, lv \ {i}), x, n)
  BY <1>4 DEF Overlaps
<1> QED BY <1>1, <1>2, <1>3, <1>5 DEF Judge

(* check_index finds the data of a live block unchanged. *)
LEMMA NotGarbled ==
  ASSUME NEW m, NEW bl, NEW sz, NEW lv, NEW B, NEW s, NEW a, Owned(m, bl, sz, lv, B, s, a),
         Booked(bl, sz, lv), NEW d \in lv
  PROVE  ~Garbled(m, bl[d], sz[d], d)
<1>1. CASE bl[d] /= NULL
  <2>1. Data(m, bl[d], sz[d], d)
    BY <1>1 DEF Owned, Holds
  <2>2. bl[d] \in Nat /\ sz[d] \in Nat /\ Words \subseteq Nat
    BY InWords DEF Booked
  <2>3. \A w \in Words : w >= bl[d] => bl[d] <= w
    BY <2>2
  <2> QED BY <2>1, <2>3 DEF Data, Garbled, BlockWords
<1>2. CASE bl[d] = NULL
  <2>1. bl[d] = 0 /\ sz[d] = 0
    BY <1>2, Numbers DEF Booked
  <2>2. BlockWords(0, 0) = {}
    <3>1. \A w \in Words : w \in Nat
      BY InWords
    <3>2. \A w \in Words : ~(w >= 0 /\ w < 0 + 0)
      BY <3>1
    <3> QED BY <3>2 DEF BlockWords
  <2> QED BY <2>1, <2>2 DEF Garbled
<1> QED BY <1>1, <1>2

(* What the live blocks hold is no more than the heap. *)
LEMMA HeldFits ==
  ASSUME NEW m, NEW bl, NEW sz, NEW lv, NEW B, NEW s, NEW a, Owned(m, bl, sz, lv, B, s, a),
         Booked(bl, sz, lv), IsFiniteSet(lv)
  PROVE  SumOver(sz, lv) <= m.brk - MemHeap /\ SumOver(sz, lv) \in Int
<1>1. m.brk \in Nat /\ 16 <= m.brk /\ MemHeap = 16
  <2>1. Layout(B, s, m.brk) /\ Listp \in B
    BY DEF Owned, Sound, Shaped, Layout
  <2>2. m.brk >= 32 /\ m.brk \in Nat
    BY <2>1, BlockIn
  <2> QED BY <2>2, Numbers
<1>2. \A d \in lv : /\ bl[d] \in Nat /\ sz[d] \in Nat
                    /\ sz[d] = 0 \/ (16 <= bl[d] /\ bl[d] + sz[d] <= m.brk)
  <2>1. ASSUME NEW d \in lv PROVE bl[d] \in Nat /\ sz[d] \in Nat /\ (bl[d] = NULL <=> sz[d] = 0)
    BY DEF Booked
  <2>2. ASSUME NEW d \in lv, bl[d] /= NULL PROVE 16 <= bl[d] /\ bl[d] + sz[d] <= m.brk
    <3>1. PICK x \in Nat, n \in Nat : x = bl[d] /\ n = sz[d] /\ x >= 24 /\ x + n + 8 <= m.brk
      BY <2>2, HeldIs
    <3> QED BY <1>1, <3>1
  <2> QED BY <2>1, <2>2
<1>3. \A d \in lv, e \in lv : d = e \/ sz[d] = 0 \/ sz[e] = 0
                              \/ bl[d] + sz[d] <= bl[e] \/ bl[e] + sz[e] <= bl[d]
  <2>1. \A d \in lv : bl[d] = NULL <=> sz[d] = 0
    BY DEF Booked
  <2> QED BY <2>1, HeldApart
<1>4. SumOver(sz, lv) <= m.brk - 16
  BY <1>1, <1>2, <1>3, DisjointSum
<1>5. SumOver(sz, lv) \in Int
  <2>1. \A d \in lv : sz[d] \in Int
    BY <1>2
  <2> QED BY <2>1, SumOfOne
<1> QED BY <1>1, <1>4, <1>5

(* The running total follows the calls. *)
LEMMA TotalAdds ==
  ASSUME NEW bl, NEW sz, NEW lv, Booked(bl, sz, lv), IsFiniteSet(lv), NEW i \in Ids, i \notin lv,
         NEW n \in Nat, NEW x, NEW bl2, NEW sz2, Records(bl, sz, i, x, n, bl2, sz2)
  PROVE  SumOver(sz2, lv \cup {i}) = SumOver(sz, lv) + n
<1>1. sz \in [Ids -> Nat] /\ lv \subseteq Ids
  BY DEF Booked
<1>2. sz2 \in [Ids -> Nat] /\ sz2[i] = n /\ \A d \in lv : sz2[d] = sz[d]
  BY <1>1 DEF Records
<1>3. PICK T : T = lv \cup {i}
  OBVIOUS
<1>4. IsFiniteSet(T) /\ i \in T /\ T \ {i} = lv /\ T \subseteq Ids
  BY <1>1, <1>3, FS_AddElement
<1>5. \A d \in T : sz2[d] \in Int
  BY <1>2, <1>4
<1>6. SumOver(sz2, T) = sz2[i] + SumOver(sz2, T \ {i})
  BY <1>4, <1>5, SumOfOne
<1>7. \A d \in lv : sz[d] \in Int /\ sz2[d] = sz[d]
  BY <1>1, <1>2
<1>8. SumOver(sz2, lv) = SumOver(sz, lv) /\ SumOver(sz, lv) \in Int
  BY <1>7, SumEqual, SumOfOne
<1>9. SumOver(sz2, T) = n + SumOver(sz, lv)
  BY <1>2, <1>4, <1>6, <1>8
<1> QED BY <1>3, <1>8, <1>9

(* The size of one live block changes. *)
LEMMA TotalChanges ==
  ASSUME NEW bl, NEW sz, NEW lv, Booked(bl, sz, lv), IsFiniteSet(lv), NEW i \in lv,
         NEW n \in Nat, NEW x, NEW bl2, NEW sz2, Records(bl, sz, i, x, n, bl2, sz2)
  PROVE  SumOver(sz2, lv) = SumOver(sz, lv) + (n - sz[i])
<1>1. sz \in [Ids -> Nat] /\ lv \subseteq Ids
  BY DEF Booked
<1>2. sz2 \in [Ids -> Nat] /\ sz2[i] = n /\ \A d \in lv \ {i} : sz2[d] = sz[d]
  BY <1>1 DEF Records
<1>3. \A d \in lv : sz[d] \in Int /\ sz2[d] \in Int
  BY <1>1, <1>2
<1>4. SumOver(sz2, lv) = SumOver(sz, lv) + sz2[i] - sz[i]
  BY <1>2, <1>3, SumChanges
<1> QED BY <1>2, <1>4

(* One block is live no more. *)
LEMMA TotalDrops ==
  ASSUME NEW bl, NEW sz, NEW lv, Booked(bl, sz, lv), IsFiniteSet(lv), NEW i \in lv
  PROVE  SumOver(sz, lv \ {i}) = SumOver(sz, lv) + (0 - sz[i])
<1>1. \A d \in lv : sz[d] \in Int
  BY DEF Booked
<1>2. IsFiniteSet(lv \ {i}) /\ \A d \in lv \ {i} : sz[d] \in Int
  BY <1>1, FS_Subset
<1>3. SumOver(sz, lv \ {i}) \in Int /\ SumOver(sz, lv) = sz[i] + SumOver(sz, lv \ {i})
  BY <1>1, <1>2, SumOfOne
<1>4. sz[i] \in Int
  BY <1>1
<1> QED BY <1>3, <1>4

--------------------------------------------------------------------------------
(* The calls of the driver *)

(* A call that fails leaves every block with its owner; one that serves    *)
(* the request gives i a block that add_range accepts.                     *)
Fails(m, bl, sz, lv, B, s, a, r) ==
    r.ret = NULL /\ r.m.brk = m.brk /\ Owned(r.m, bl, sz, lv, B, s, a)

Filling(m2, bl2, sz2, lv2) == \E B2, s2, a2 : Owned(m2, bl2, sz2, lv2, B2, s2, a2)

Serves(m, bl, sz, lv, B, s, a, i, size, r) ==
    /\ r.ret /= NULL /\ r.m.brk >= m.brk
    /\ r.m.brk /= m.brk => \A c \in B : ~FitsIn(s, a, Adjust(size), c)
    /\ Judge(r.m, RangesOf(bl, sz, lv \ {i}), r.ret, size) = "running"
    /\ Filling(RandomizeBlock(r.m, r.ret, size, i), [bl EXCEPT ![i] = r.ret],
               [sz EXCEPT ![i] = size], lv \cup {i})
    /\ Booked([bl EXCEPT ![i] = r.ret], [sz EXCEPT ![i] = size], lv \cup {i})
    /\ RandomizeBlock(r.m, r.ret, size, i).brk = r.m.brk

(* A refusal is a call that fails. *)
LEMMA Refused ==
  ASSUME NEW m, NEW bl, NEW sz, NEW lv, NEW B, NEW s, NEW a, Owned(m, bl, sz, lv, B, s, a),
         Booked(bl, sz, lv), NEW r, Refuses(m, B, s, a, r)
  PROVE  Fails(m, bl, sz, lv, B, s, a, r)
<1>1. PICK m2 : r = Result(m2, NULL) /\ Sound(m2, B, s, a) /\ m2.heap = m.heap /\ m2.brk = m.brk
  BY DEF Refuses
<1>2. Kept(m, B, s, a, m2, B, s, a, {})
  BY <1>1, KeptSame
<1>3. ASSUME NEW d \in lv, bl[d] /= NULL PROVE Holds(m2, B, s, a, bl[d], sz[d], d)
  <2>1. Holds(m, B, s, a, bl[d], sz[d], d) /\ Sound(m, B, s, a)
    BY <1>3 DEF Owned
  <2>2. sz[d] \in Nat /\ bl[d] \notin {}
    BY DEF Booked
  <2> QED BY <1>2, <2>1, <2>2, StillHolds
<1>4. Owned(m2, bl, sz, lv, B, s, a)
  BY <1>1, <1>3 DEF Owned
<1> QED BY <1>1, <1>4 DEF Fails, Result

(* A block handed out, of the size that mm_malloc takes, serves the request. *)
LEMMA Served ==
  ASSUME NEW m, NEW bl, NEW sz, NEW lv, NEW B, NEW s, NEW a, Owned(m, bl, sz, lv, B, s, a),
         Booked(bl, sz, lv), NEW i \in Ids, NEW size \in Nat, size > 0, 2 * size < UintMod,
         NEW m2, NEW B2, NEW s2, NEW a2, NEW X, NEW x,
         Hands(m, B, s, a, Adjust(size), X, m2, B2, s2, a2, x),
         Replaces(bl, lv, i, X, x, B2, a2)
  PROVE  Serves(m, bl, sz, lv, B, s, a, i, size, Result(m2, x))
<1>1. PICK m3, bl3, sz3 : /\ m3 = RandomizeBlock(m2, x, size, i)
                          /\ Records(bl, sz, i, x, size, bl3, sz3)
  BY DEF Records
<1>2. PICK asize \in Nat : /\ asize = Adjust(size) /\ asize >= size + 8
                           /\ Hands(m, B, s, a, asize, X, m2, B2, s2, a2, x)
  BY AdjustRight
<1>3. /\ Owned(m3, bl3, sz3, lv \cup {i}, B2, s2, a2) /\ Booked(bl3, sz3, lv \cup {i})
      /\ m3.brk = m2.brk
  BY <1>1, <1>2, Assigned
<1>4. /\ x \in B2 /\ m2.brk >= m.brk /\ Sound(m2, B2, s2, a2)
      /\ m2.brk /= m.brk => \A c \in B : ~FitsIn(s, a, Adjust(size), c)
  BY DEF Hands
<1>5. x /= NULL
  <2>1. x \in Nat /\ x >= 24
    BY <1>4, BlockIn DEF Sound, Shaped
  <2> QED BY <2>1, Numbers
<1>6. /\ lv \subseteq Ids /\ bl3[i] = x /\ sz3[i] = size
      /\ \A d \in Ids \ {i} : bl3[d] = bl[d] /\ sz3[d] = sz[d]
  BY <1>1 DEF Booked, Records
<1>7. Judge(m3, RangesOf(bl3, sz3, (lv \cup {i}) \ {i}), x, size) = "running"
  <2>1. i \in lv \cup {i} /\ bl3[i] /= NULL
    BY <1>5, <1>6
  <2>2. Judge(m3, RangesOf(bl3, sz3, (lv \cup {i}) \ {i}), bl3[i], sz3[i]) = "running"
    BY <1>3, <2>1, Judged
  <2> QED BY <1>6, <2>2
<1>8. RangesOf(bl3, sz3, (lv \cup {i}) \ {i}) = RangesOf(bl, sz, lv \ {i})
  <2>1. {e \in (lv \cup {i}) \ {i} : bl3[e] /= NULL} = {e \in lv \ {i} : bl[e] /= NULL}
    BY <1>6
  <2>2. \A d \in {e \in lv \ {i} : bl[e] /= NULL} :
           NewRange(bl[d], sz[d], d) = NewRange(bl3[d], sz3[d], d)
    BY <1>6
  <2> QED BY <2>1, <2>2 DEF RangesOf
<1>9. Judge(m2, RangesOf(bl, sz, lv \ {i}), x, size) = "running"
  BY <1>3, <1>7, <1>8 DEF Judge, OutsideHeap
<1>10. Filling(m3, bl3, sz3, lv \cup {i})
  BY <1>3 DEF Filling
<1> QED BY <1>1, <1>3, <1>4, <1>5, <1>9, <1>10 DEF Serves, Result, Records

(* mm_malloc for an id that holds no block. *)
LEMMA GotNew ==
  ASSUME NEW m, NEW bl, NEW sz, NEW lv, NEW B, NEW s, NEW a, Owned(m, bl, sz, lv, B, s, a),
         Booked(bl, sz, lv), NEW i \in Ids, i \notin lv \/ bl[i] = NULL,
         NEW size \in Nat, size > 0, 2 * size < UintMod, NEW r, r = MmMalloc(m, size)
  PROVE  Fails(m, bl, sz, lv, B, s, a, r) \/ Serves(m, bl, sz, lv, B, s, a, i, size, r)
<1>1. Mallocs(m, B, s, a, Adjust(size), r)
  BY MallocRight DEF Owned
<1>2. CASE Refuses(m, B, s, a, r)
  BY <1>2, Refused
<1>3. CASE ~Refuses(m, B, s, a, r)
  <2>1. PICK m2, B2, s2, a2, x : /\ r = Result(m2, x)
                                 /\ Hands(m, B, s, a, Adjust(size), {x}, m2, B2, s2, a2, x)
    BY <1>1, <1>3 DEF Mallocs
  <2>2. Replaces(bl, lv, i, {x}, x, B2, a2)
    BY DEF Replaces
  <2>3. Serves(m, bl, sz, lv, B, s, a, i, size, Result(m2, x))
    BY <2>1, <2>2, Served
  <2> QED BY <2>1, <2>3
<1> QED BY <1>2, <1>3

(* mm_realloc for an id that holds a block. *)
LEMMA GotMoved ==
  ASSUME NEW m, NEW bl, NEW sz, NEW lv, NEW B, NEW s, NEW a, Owned(m, bl, sz, lv, B, s, a),
         Booked(bl, sz, lv), NEW i \in lv, bl[i] /= NULL,
         NEW size \in Nat, size > 0, 2 * size < UintMod, NEW r, r = MmRealloc(m, bl[i], size),
         NEW common, common = IF size < sz[i] THEN size ELSE sz[i]
  PROVE  \/ Fails(m, bl, sz, lv, B, s, a, r)
         \/ Serves(m, bl, sz, lv, B, s, a, i, size, r) /\ ~Garbled(r.m, r.ret, common, i)
<1>1. PICK ptr \in Nat, n \in Nat : /\ ptr = bl[i] /\ n = sz[i] /\ ptr >= 24 /\ ptr \in B
                                    /\ ptr /= Listp /\ a[ptr] = 1 /\ s[ptr] \in Nat
                                    /\ n + 8 <= s[ptr] /\ Data(m, ptr, n, i)
  BY HeldIs DEF Owned, Holds
<1>2. i \in Ids /\ Sound(m, B, s, a)
  BY DEF Booked, Owned
<1>3. Reallocs(m, B, s, a, ptr, size, r)
  BY <1>1, <1>2, ReallocRight
<1>4. CASE Refuses(m, B, s, a, r)
  BY <1>4, Refused
<1>5. CASE ~Refuses(m, B, s, a, r)
  <2>1. PICK m2, B2, s2, a2, x : /\ r = Result(m2, x)
                                 /\ Moves(m, B, s, a, ptr, size, m2, B2, s2, a2, x)
    BY <1>3, <1>5 DEF Reallocs
  <2>2. Hands(m, B, s, a, Adjust(size), {x, ptr}, m2, B2, s2, a2, x)
    BY <2>1 DEF Moves
  <2>3. Replaces(bl, lv, i, {x, ptr}, x, B2, a2)
    BY <1>1, <2>1 DEF Replaces, Moves
  <2>4. Serves(m, bl, sz, lv, B, s, a, i, size, Result(m2, x))
    BY <1>2, <2>2, <2>3, Served
  <2>5. x \in Nat /\ x % 8 = 0 /\ ptr % 8 = 0
    BY <1>1, <1>2, <2>2, BlockIn DEF Hands, Sound, Shaped
  <2>6. ASSUME NEW w \in Words, x <= w, w < x + common PROVE Get(m2, w) = Datum(i, w - x)
    <3>1. PICK k \in Nat : k = w - x /\ k < size /\ k < n /\ k % 4 = 0
      <4>1. w \in Nat /\ w % 4 = 0
        BY InWords
      <4>2. w - x \in Nat /\ (w - x) % 4 = 0
        BY <2>5, <2>6, <4>1
      <4>3. w - x < size /\ w - x < n
        BY <1>1, <2>5, <2>6, <4>1
      <4> QED BY <4>2, <4>3
    <3>2. Get(m2, w) = Get(m, ptr + k)
      <4>1. w - x < s[ptr] - 8
        BY <1>1, <3>1
      <4> QED BY <2>1, <2>6, <3>1, <4>1 DEF Moves
    <3>3. ptr + k \in Words
      <4>1. (ptr + k) % 4 = 0
        <5>1. ptr % 8 = 0 /\ k % 4 = 0
          BY <2>5, <3>1
        <5>2. ptr % 4 = 0
          BY <5>1
        <5> QED BY <5>1, <5>2
      <4>2. m.brk \in Nat /\ m.brk <= Top /\ ptr + s[ptr] <= m.brk /\ Top \in Nat
        <5>1. Top \in Nat
          BY Numbers
        <5> QED BY <1>1, <1>2, <5>1, BlockIn DEF Sound, Shaped
      <4>3. ptr + k \in Nat /\ ptr + k >= 16 /\ ptr + k < Top
        BY <1>1, <3>1, <4>2
      <4> QED BY <4>1, <4>3, InWords
    <3>4. Get(m, ptr + k) = Datum(i, ptr + k - ptr)
      <4>1. ptr <= ptr + k /\ ptr + k < ptr + n
        BY <3>1
      <4> QED BY <1>1, <3>3, <4>1 DEF Data
    <3>5. ptr + k - ptr = k
      OBVIOUS
    <3> QED BY <3>1, <3>2, <3>4, <3>5
  <2>7. ~Garbled(m2, x, common, i)
    <3>1. \A w \in Words : w >= x => x <= w
      BY <2>5, InWords
    <3> QED BY <2>6, <3>1 DEF Garbled, BlockWords
  <2> QED BY <2>1, <2>4, <2>7 DEF Result
<1> QED BY <1>4, <1>5

(* Nothing was common to the old block and the new one where there was no  *)
(* old block.                                                              *)
LEMMA NothingGarbled ==
  ASSUME NEW m, NEW x \in Nat, NEW i
  PROVE  ~Garbled(m, x, 0, i)
<1>1. \A w \in Words : w \in Nat
  BY InWords
<1>2. \A w \in Words : ~(w >= x /\ w < x + 0)
  BY <1>1
<1> QED BY <1>2 DEF Garbled, BlockWords

(* mm_free, and mm_realloc to 0. *)
LEMMA GivenBack ==
  ASSUME NEW m, NEW bl, NEW sz, NEW lv, NEW B, NEW s, NEW a, Owned(m, bl, sz, lv, B, s, a),
         Booked(bl, sz, lv), NEW i \in lv, NEW m2, m2 = MmFree(m, bl[i])
  PROVE  /\ m2.brk = m.brk /\ Booked(bl, sz, lv \ {i}) /\ Filling(m2, bl, sz, lv \ {i})
         /\ m2 \in Memories
<1>1. Sound(m, B, s, a)
  BY DEF Owned
<1>2. ASSUME NEW B2, NEW s2, NEW a2, Sound(m2, B2, s2, a2),
             Kept(m, B, s, a, m2, B2, s2, a2, {bl[i]}), bl[i] \in B2 => a2[bl[i]] = 0, m2.brk = m.brk
      PROVE  /\ m2.brk = m.brk /\ Booked(bl, sz, lv \ {i}) /\ Filling(m2, bl, sz, lv \ {i})
             /\ m2 \in Memories
  <2>1. Owned(m2, bl, sz, lv \ {i}, B2, s2, a2) /\ Booked(bl, sz, lv \ {i})
    BY <1>2, Dropped
  <2> QED BY <1>2, <2>1 DEF Filling, Sound, Shaped
<1>3. CASE bl[i] = NULL
  <2>1. m2 = m
    BY <1>3 DEF MmFree
  <2>2. NULL \notin B
    <3>1. \A b \in B : b >= 24 /\ b \in Nat
      BY <1>1, BlockIn DEF Sound, Shaped
    <3> QED BY <3>1, Numbers
  <2>3. Kept(m, B, s, a, m2, B, s, a, {})
    BY <2>1, KeptSame
  <2>4. Kept(m, B, s, a, m2, B, s, a, {bl[i]})
    BY <2>3 DEF Kept
  <2> QED BY <1>1, <1>2, <1>3, <2>1, <2>2, <2>4
<1>4. CASE bl[i] /= NULL
  <2>1. bl[i] \in B /\ bl[i] /= Listp /\ a[bl[i]] = 1
    BY <1>4 DEF Owned, Holds
  <2>2. Frees(m, B, s, a, bl[i], m2)
    BY <1>1, <2>1, FreeRight
  <2> QED BY <1>2, <2>2 DEF Frees
<1> QED BY <1>3, <1>4

--------------------------------------------------------------------------------
(* The invariant of the driver *)

Books == Booked(blocks, sizes, live) /\ IsFiniteSet(live)
Owns == Filling(mem, blocks, sizes, live)
Ranged == ranges = RangesOf(blocks, sizes, live)
Tallied == total = SumOver(sizes, live) /\ hwm \in Nat /\ hwm <= mem.brk - MemHeap

IInv == Books /\ Owns /\ Ranged /\ Tallied /\ DriverAccepts

GrowsRight == mem'.brk /= mem.brk =>
                  \A d \in Ids : blocks'[d] /= blocks[d] => ~FreeFits(sizes'[d])

(* The high-water mark stays below the heap's. *)
LEMMA MarkRight ==
  ASSUME NEW m, NEW bl, NEW sz, NEW lv, Filling(m, bl, sz, lv), Booked(bl, sz, lv),
         IsFiniteSet(lv), NEW brk \in Nat, brk <= m.brk, NEW t, t = SumOver(sz, lv),
         NEW h \in Nat, h <= brk - MemHeap
  PROVE  (IF t > h THEN t ELSE h) \in Nat /\ (IF t > h THEN t ELSE h) <= m.brk - MemHeap
<1>1. PICK B, s, a : Owned(m, bl, sz, lv, B, s, a)
  BY DEF Filling
<1>2. t <= m.brk - MemHeap /\ t \in Int
  BY <1>1, HeldFits
<1>3. m.brk \in Nat /\ MemHeap = 16
  BY <1>1, Numbers DEF Owned, Sound, Shaped, Memories
<1> QED BY <1>2, <1>3

(* When no free block of a layout fits, checkheap's walk meets none.       *)
LEMMA NoFit ==
  ASSUME NEW B, NEW s, NEW a, Sound(mem, B, s, a), NEW size,
         \A c \in B : ~FitsIn(s, a, Adjust(size), c)
  PROVE  ~FreeFits(size)
<1>1. Blocks(mem) = B
  BY ChainIs DEF Sound
<1>2. \A b \in B : GetAlloc(mem, Hdrp(b)) = a[b] /\ GetSize(mem, Hdrp(b)) = s[b]
  BY BlockTags DEF Sound, Hdrp, WSIZE
<1> QED BY <1>1, <1>2 DEF FreeFits, FitsIn

(* mm_init leaves an empty heap. *)
LEMMA Start == ASSUME Init PROVE IInv
<1>1. PICK build \in BOOLEAN : mem = MmInit(MemResetBrk(MemInit(build))).m
                               /\ verdict = IF MmInit(MemResetBrk(MemInit(build))).ret < 0
                                            THEN "mm_init failed" ELSE "running"
  <2>1. Builds \subseteq BOOLEAN
    BY HeapAssumption
  <2> QED BY <2>1 DEF Init
<1>2. PICK B, s, a : /\ MmInit(MemResetBrk(MemInit(build))) = Result(mem, 0)
                     /\ Sound(mem, B, s, a)
                     /\ \A b \in B : a[b] = 1 => b = Listp
  <2>1. PICK m, B, s, a : /\ MmInit(MemResetBrk(MemInit(build))) = Result(m, 0)
                          /\ Sound(m, B, s, a)
                          /\ \A b \in B : a[b] = 1 => b = Listp
    BY InitRight
  <2>2. m = mem
    BY <1>1, <2>1 DEF Result
  <2> QED BY <2>1, <2>2
<1>3. /\ blocks = [d \in Ids |-> NULL] /\ sizes = [d \in Ids |-> 0] /\ live = {} /\ ranges = {}
      /\ garbled = FALSE /\ total = 0 /\ hwm = 0
  BY DEF Init
<1>4. Books
  BY <1>3, FS_EmptySet, Numbers DEF Books, Booked
<1>5. Owned(mem, blocks, sizes, live, B, s, a)
  BY <1>2, <1>3 DEF Owned
<1>6. Ranged
  BY <1>3 DEF Ranged, RangesOf
<1>7. Tallied
  <2>1. SumOver(sizes, live) <= mem.brk - MemHeap /\ SumOver(sizes, live) \in Int
    BY <1>4, <1>5, HeldFits DEF Books
  <2>2. SumOver(sizes, live) = 0
    <3>1. live = {} /\ \A x \in live : sizes[x] \in Int
      BY <1>3
    <3> QED BY <1>4, <3>1, SumOfOne DEF Books
  <2> QED BY <1>3, <2>1, <2>2 DEF Tallied
<1>8. DriverAccepts
  BY <1>1, <1>2, <1>3 DEF DriverAccepts, Result
<1> QED BY <1>4, <1>5, <1>6, <1>7, <1>8 DEF IInv, Owns, Filling

(* A call that fails ends the evaluation, and changes nothing else. *)
LEMMA StepFails ==
  ASSUME IInv, NEW B, NEW s, NEW a, NEW r, Fails(mem, blocks, sizes, live, B, s, a, r),
         mem' = r.m, ranges' = ranges, verdict' \in {"mm_malloc failed", "mm_realloc failed"},
         ~garbled', UNCHANGED <<blocks, sizes, live, total, hwm>>
  PROVE  IInv' /\ GrowsRight
<1>1. mem'.brk = mem.brk /\ Owned(mem', blocks, sizes, live, B, s, a)
  BY DEF Fails
<1>2. Books' /\ Ranged' /\ Tallied'
  BY <1>1 DEF IInv, Books, Ranged, Tallied
<1>3. Owns'
  BY <1>1 DEF Owns, Filling
<1>4. DriverAccepts'
  BY DEF DriverAccepts
<1> QED BY <1>1, <1>2, <1>3, <1>4 DEF IInv, GrowsRight

(* A block handed out is accepted, recorded and filled. *)
LEMMA StepServes ==
  ASSUME IInv, NEW B, NEW s, NEW a, Owned(mem, blocks, sizes, live, B, s, a),
         NEW r, NEW i \in Ids, NEW size \in Nat, size > 0,
         Serves(mem, blocks, sizes, live, B, s, a, i, size, r),
         Accept(r.m, RangesOf(blocks, sizes, live \ {i}), r.ret, size, i),
         live' = live \cup {i}, Tally(size, IF i \in live THEN sizes[i] ELSE 0),
         verdict' = "running", ~garbled'
  PROVE  IInv' /\ GrowsRight
<1>1. /\ r.ret /= NULL /\ r.m.brk >= mem.brk
      /\ r.m.brk /= mem.brk => \A c \in B : ~FitsIn(s, a, Adjust(size), c)
      /\ RandomizeBlock(r.m, r.ret, size, i).brk = r.m.brk
  BY DEF Serves
<1>2. /\ mem' = RandomizeBlock(r.m, r.ret, size, i)
      /\ blocks' = [blocks EXCEPT ![i] = r.ret] /\ sizes' = [sizes EXCEPT ![i] = size]
      /\ ranges' = RangesOf(blocks, sizes, live \ {i}) \cup {NewRange(r.ret, size, i)}
      /\ Records(blocks, sizes, i, r.ret, size, blocks', sizes')
  BY DEF Accept, Records
<1>3. Booked(blocks, sizes, live) /\ IsFiniteSet(live)
  BY DEF IInv, Books
<1>4. Books'
  <2>1. Booked(blocks', sizes', live')
    BY <1>2 DEF Serves
  <2>2. IsFiniteSet(live')
    BY <1>3, FS_AddElement
  <2> QED BY <2>1, <2>2 DEF Books
<1>5. Owns'
  BY <1>2 DEF Serves, Owns
<1>6. Ranged'
  <2>1. RangesOf(blocks, sizes, live \ {i}) \cup {NewRange(r.ret, size, i)}
           = RangesOf(blocks', sizes', live \cup {i})
    BY <1>1, <1>2, <1>3, RangeAdded
  <2> QED BY <1>2, <2>1 DEF Ranged
<1>7. total' = SumOver(sizes', live')
  <2>1. total = SumOver(sizes, live)
    BY DEF IInv, Tallied
  <2>2. CASE i \in live
    <3>1. total' = total + (size - sizes[i])
      BY <2>2 DEF Tally
    <3>2. SumOver(sizes', live) = SumOver(sizes, live) + (size - sizes[i])
      BY <1>2, <1>3, <2>2, TotalChanges
    <3>3. live' = live
      BY <2>2
    <3> QED BY <1>2, <2>1, <3>1, <3>2, <3>3
  <2>3. CASE i \notin live
    <3>1. total' = total + (size - 0)
      BY <2>3 DEF Tally
    <3>2. SumOver(sizes', live \cup {i}) = SumOver(sizes, live) + size
      BY <1>2, <1>3, <2>3, TotalAdds
    <3>3. size - 0 = size
      OBVIOUS
    <3> QED BY <1>2, <2>1, <3>1, <3>2, <3>3
  <2> QED BY <2>2, <2>3
<1>8. Tallied'
  <2>1. hwm' = IF total' > hwm THEN total' ELSE hwm
    BY DEF Tally
  <2>2. hwm \in Nat /\ hwm <= mem.brk - MemHeap
    BY DEF IInv, Tallied
  <2>3. mem.brk \in Nat /\ mem.brk <= mem'.brk
    <3>1. mem.brk \in Nat
      BY DEF Owned, Sound, Shaped, Memories
    <3>2. mem'.brk = r.m.brk /\ mem'.brk \in Nat
      <4>1. PICK B2, s2, a2 : Owned(mem', blocks', sizes', live', B2, s2, a2)
        BY <1>5 DEF Owns, Filling
      <4>2. mem'.brk \in Nat
        BY <4>1 DEF Owned, Sound, Shaped, Memories
      <4> QED BY <1>1, <1>2, <4>2
    <3> QED BY <1>1, <3>1, <3>2
  <2>4. Filling(mem', blocks', sizes', live') /\ Booked(blocks', sizes', live') /\ IsFiniteSet(live')
    BY <1>4, <1>5 DEF Books, Owns
  <2>5. hwm' \in Nat /\ hwm' <= mem'.brk - MemHeap
    BY <1>7, <2>1, <2>2, <2>3, <2>4, MarkRight
  <2> QED BY <1>7, <2>5 DEF Tallied
<1>9. DriverAccepts'
  BY DEF DriverAccepts
<1>10. GrowsRight
  <2> SUFFICES ASSUME mem'.brk /= mem.brk, NEW d \in Ids, blocks'[d] /= blocks[d]
               PROVE  ~FreeFits(sizes'[d])
    BY DEF GrowsRight
  <2>1. \A c \in B : ~FitsIn(s, a, Adjust(size), c)
    BY <1>1, <1>2
  <2>2. ~FreeFits(size)
    BY <2>1, NoFit DEF Owned
  <2>3. d = i
    BY <1>2, <1>3 DEF Booked
  <2>4. sizes'[d] = size
    BY <1>2, <1>3, <2>3 DEF Booked
  <2> QED BY <2>2, <2>4
<1> QED BY <1>4, <1>5, <1>6, <1>8, <1>9, <1>10 DEF IInv

(* What the invariant says of the calls. *)
LEMMA Before ==
  ASSUME IInv
  PROVE  /\ Booked(blocks, sizes, live) /\ IsFiniteSet(live) /\ ~garbled
         /\ ranges = RangesOf(blocks, sizes, live)
         /\ \E B, s, a : Owned(mem, blocks, sizes, live, B, s, a)
BY DEF IInv, Books, Owns, Filling, Ranged, DriverAccepts

(* A request "a" of the trace. *)
LEMMA AllocStep ==
  ASSUME IInv, NEW index \in Ids, NEW size \in Sizes, Alloc(index, size)
  PROVE  IInv' /\ GrowsRight
<1>1. PICK got :
        /\ got = MmMalloc(mem, size)
        /\ index \notin live
        /\ verdict' = IF got.ret = NULL THEN "mm_malloc failed"
                      ELSE Judge(got.m, ranges, got.ret, size)
        /\ live' = IF verdict' = "running" THEN live \cup {index} ELSE live
        /\ verdict' = "running" => Accept(got.m, ranges, got.ret, size, index)
        /\ verdict' /= "running" => Refuse(got.m, ranges)
        /\ got.ret = NULL => UNCHANGED <<total, hwm>>
        /\ got.ret /= NULL => Tally(size, 0)
        /\ garbled' = garbled
  BY DEF Alloc
<1>2. /\ Booked(blocks, sizes, live) /\ ~garbled /\ ranges = RangesOf(blocks, sizes, live)
      /\ \E B, s, a : Owned(mem, blocks, sizes, live, B, s, a)
  BY Before
<1>3. size \in Nat /\ size > 0 /\ 2 * size < UintMod
  BY Numbers
<1>4. PICK B, s, a : Owned(mem, blocks, sizes, live, B, s, a)
  BY <1>2
<1>5. \/ Fails(mem, blocks, sizes, live, B, s, a, got)
      \/ Serves(mem, blocks, sizes, live, B, s, a, index, size, got)
  BY <1>1, <1>2, <1>3, <1>4, GotNew
<1>6. CASE Fails(mem, blocks, sizes, live, B, s, a, got)
  <2>1. got.ret = NULL
    BY <1>6 DEF Fails
  <2>2. verdict' = "mm_malloc failed"
    BY <1>1, <2>1
  <2>3. mem' = got.m /\ ranges' = ranges /\ UNCHANGED <<blocks, sizes, live, total, hwm>> /\ ~garbled'
    BY <1>1, <1>2, <2>1, <2>2 DEF Refuse
  <2> QED BY <1>6, <2>2, <2>3, StepFails
<1>7. CASE Serves(mem, blocks, sizes, live, B, s, a, index, size, got)
  <2>1. live \ {index} = live
    BY <1>1
  <2>2. got.ret /= NULL /\ Judge(got.m, ranges, got.ret, size) = "running"
    BY <1>2, <1>7, <2>1 DEF Serves
  <2>3. verdict' = "running"
    BY <1>1, <2>2
  <2>4. /\ Accept(got.m, RangesOf(blocks, sizes, live \ {index}), got.ret, size, index)
        /\ live' = live \cup {index} /\ ~garbled'
    BY <1>1, <1>2, <2>1, <2>3
  <2>5. Tally(size, IF index \in live THEN sizes[index] ELSE 0)
    BY <1>1, <2>2
  <2> QED BY <1>3, <1>4, <1>7, <2>3, <2>4, <2>5, StepServes
<1> QED BY <1>5, <1>6, <1>7

(* A block given back, with the id freed or left with nothing. *)
LEMMA StepGives ==
  ASSUME IInv, NEW i \in live, mem' = MmFree(mem, blocks[i]), Tally(0, sizes[i]),
         verdict' = "running", ~garbled',
         \/ /\ ranges' = RangesOf(blocks, sizes, live \ {i}) /\ live' = live \ {i}
            /\ UNCHANGED <<blocks, sizes>>
         \/ /\ ranges' = RangesOf(blocks, sizes, live \ {i}) /\ live' = live
            /\ Records(blocks, sizes, i, NULL, 0, blocks', sizes')
  PROVE  IInv' /\ GrowsRight
<1>1. /\ Booked(blocks, sizes, live) /\ IsFiniteSet(live)
      /\ \E B, s, a : Owned(mem, blocks, sizes, live, B, s, a)
  BY Before
<1>2. PICK B, s, a : Owned(mem, blocks, sizes, live, B, s, a)
  BY <1>1
<1>3. /\ mem'.brk = mem.brk /\ Booked(blocks, sizes, live \ {i})
      /\ Filling(mem', blocks, sizes, live \ {i})
  BY <1>1, <1>2, GivenBack
<1>4. PICK B2, s2, a2 : Owned(mem', blocks, sizes, live \ {i}, B2, s2, a2)
  BY <1>3 DEF Filling
<1>5. i \in Ids
  BY <1>1 DEF Booked
<1>6. /\ Booked(blocks', sizes', live') /\ IsFiniteSet(live')
      /\ Owned(mem', blocks', sizes', live', B2, s2, a2)
      /\ ranges' = RangesOf(blocks', sizes', live')
      /\ SumOver(sizes', live') = SumOver(sizes, live) + (0 - sizes[i])
  <2>1. CASE live' = live \ {i} /\ UNCHANGED <<blocks, sizes>>
                /\ ranges' = RangesOf(blocks, sizes, live \ {i})
    <3>1. IsFiniteSet(live')
      BY <1>1, <2>1, FS_Subset
    <3>2. SumOver(sizes, live \ {i}) = SumOver(sizes, live) + (0 - sizes[i])
      BY <1>1, TotalDrops
    <3> QED BY <1>3, <1>4, <2>1, <3>1, <3>2
  <2>2. CASE live' = live /\ Records(blocks, sizes, i, NULL, 0, blocks', sizes')
                /\ ranges' = RangesOf(blocks, sizes, live \ {i})
    <3>1. Owned(mem', blocks', sizes', live, B2, s2, a2) /\ Booked(blocks', sizes', live)
      BY <1>3, <1>4, <1>5, <2>2, Emptied
    <3>2. RangesOf(blocks, sizes, live \ {i}) = RangesOf(blocks', sizes', live)
      BY <1>1, <2>2, RangeOfNothing
    <3>3. SumOver(sizes', live) = SumOver(sizes, live) + (0 - sizes[i])
      BY <1>1, <2>2, TotalChanges
    <3> QED BY <1>1, <2>2, <3>1, <3>2, <3>3
  <2> QED BY <2>1, <2>2
<1>7. total' = SumOver(sizes', live')
  BY <1>6 DEF IInv, Tallied, Tally
<1>8. Tallied'
  <2>1. hwm' = IF total' > hwm THEN total' ELSE hwm
    BY DEF Tally
  <2>2. hwm \in Nat /\ hwm <= mem.brk - MemHeap
    BY DEF IInv, Tallied
  <2>3. mem.brk \in Nat /\ mem.brk <= mem'.brk
    BY <1>2, <1>3 DEF Owned, Sound, Shaped, Memories
  <2>4. Filling(mem', blocks', sizes', live')
    BY <1>6 DEF Filling
  <2>5. hwm' \in Nat /\ hwm' <= mem'.brk - MemHeap
    BY <1>6, <1>7, <2>1, <2>2, <2>3, <2>4, MarkRight
  <2> QED BY <1>7, <2>5 DEF Tallied
<1>9. Books' /\ Owns' /\ Ranged'
  BY <1>6 DEF Books, Owns, Ranged, Filling
<1>10. DriverAccepts'
  BY DEF DriverAccepts
<1> QED BY <1>3, <1>8, <1>9, <1>10 DEF IInv, GrowsRight

(* A request "f" of the trace. *)
LEMMA FreeStep ==
  ASSUME IInv, NEW index \in Ids, Free(index)
  PROVE  IInv' /\ GrowsRight
<1>1. /\ index \in live /\ live' = live \ {index} /\ verdict = "running"
      /\ garbled' = (garbled \/ Garbled(mem, blocks[index], sizes[index], index))
      /\ ranges' = RemoveRange(ranges, blocks[index])
      /\ mem' = MmFree(mem, blocks[index])
      /\ Tally(0, sizes[index])
      /\ UNCHANGED <<blocks, sizes, verdict>>
  BY DEF Free, Request
<1>2. /\ Booked(blocks, sizes, live) /\ ~garbled /\ ranges = RangesOf(blocks, sizes, live)
      /\ \E B, s, a : Owned(mem, blocks, sizes, live, B, s, a)
  BY Before
<1>3. PICK B, s, a : Owned(mem, blocks, sizes, live, B, s, a)
  BY <1>2
<1>4. ~Garbled(mem, blocks[index], sizes[index], index)
  BY <1>1, <1>2, <1>3, NotGarbled
<1>5. ranges' = RangesOf(blocks, sizes, live \ {index})
  BY <1>1, <1>2, <1>3, RangeRemoved
<1> QED BY <1>1, <1>2, <1>4, <1>5, StepGives

(* A request "f -1" of the trace. *)
LEMMA FreeNullStep ==
  ASSUME IInv, FreeNull
  PROVE  IInv' /\ GrowsRight
<1>1. /\ mem' = mem /\ Tally(0, 0)
      /\ UNCHANGED <<blocks, sizes, live, ranges, verdict, garbled>>
  BY DEF FreeNull, MmFree
<1>2. /\ Booked(blocks, sizes, live) /\ IsFiniteSet(live)
      /\ \E B, s, a : Owned(mem, blocks, sizes, live, B, s, a)
  BY Before
<1>3. PICK B, s, a : Owned(mem, blocks, sizes, live, B, s, a)
  BY <1>2
<1>4. SumOver(sizes, live) <= mem.brk - MemHeap /\ SumOver(sizes, live) \in Int
  BY <1>2, <1>3, HeldFits
<1>5. total' = total
  BY <1>1, <1>4 DEF IInv, Tallied, Tally
<1>6. Tallied'
  <2>1. mem.brk \in Nat /\ MemHeap = 16
    BY <1>3, Numbers DEF Owned, Sound, Shaped, Memories
  <2> QED BY <1>1, <1>4, <1>5, <2>1 DEF IInv, Tallied, Tally
<1>7. Books' /\ Owns' /\ Ranged' /\ DriverAccepts'
  BY <1>1 DEF IInv, Books, Owns, Ranged, DriverAccepts
<1> QED BY <1>1, <1>6, <1>7 DEF IInv, GrowsRight

(* A request "r" of the trace, to 0 or to another size. *)
LEMMA ReallocStep ==
  ASSUME IInv, NEW index \in Ids, NEW size \in Sizes \cup {0}, Realloc(index, size)
  PROVE  IInv' /\ GrowsRight
<1>1. PICK got, failed, kept, common :
        /\ got = MmRealloc(mem, blocks[index], size)
        /\ failed = IF got.ret = NULL /\ size /= 0 THEN "mm_realloc failed"
                    ELSE IF got.ret /= NULL /\ size = 0 THEN "mm_realloc of 0 returned a block"
                    ELSE "running"
        /\ kept = IF failed = "running" THEN RemoveRange(ranges, blocks[index]) ELSE ranges
        /\ common = IF size < sizes[index] THEN size ELSE sizes[index]
        /\ index \in live /\ live' = live
        /\ verdict' = IF failed /= "running" \/ size = 0 THEN failed
                      ELSE Judge(got.m, kept, got.ret, size)
        /\ verdict' = "running" => Accept(got.m, kept, got.ret, size, index)
        /\ verdict' /= "running" => Refuse(got.m, kept)
        /\ garbled' = \/ garbled
                      \/ Garbled(mem, blocks[index], sizes[index], index)
                      \/ verdict' = "running" /\ Garbled(got.m, got.ret, common, index)
        /\ failed = "mm_realloc failed" => UNCHANGED <<total, hwm>>
        /\ failed /= "mm_realloc failed" => Tally(size, sizes[index])
  BY DEF Realloc
<1>2. /\ Booked(blocks, sizes, live) /\ ~garbled /\ ranges = RangesOf(blocks, sizes, live)
      /\ \E B, s, a : Owned(mem, blocks, sizes, live, B, s, a)
  BY Before
<1>3. PICK B, s, a : Owned(mem, blocks, sizes, live, B, s, a)
  BY <1>2
<1>4. index \in live /\ common = IF size < sizes[index] THEN size ELSE sizes[index]
  BY <1>1
<1>5. ~Garbled(mem, blocks[index], sizes[index], index)
  BY <1>2, <1>3, <1>4, NotGarbled
<1>6. RemoveRange(ranges, blocks[index]) = RangesOf(blocks, sizes, live \ {index})
  BY <1>2, <1>3, <1>4, RangeRemoved
<1>7. blocks[index] \in Nat /\ sizes[index] \in Nat
      /\ (blocks[index] = NULL <=> sizes[index] = 0)
  BY <1>2, <1>4 DEF Booked
<1>8. CASE size = 0
  <2>1. got.ret = NULL /\ got.m = MmFree(mem, blocks[index])
    BY <1>1, <1>8 DEF MmRealloc, Result
  <2>2. failed = "running" /\ kept = RangesOf(blocks, sizes, live \ {index})
    BY <1>1, <1>6, <1>8, <2>1
  <2>3. verdict' = "running" /\ Accept(got.m, kept, NULL, 0, index) /\ Tally(0, sizes[index])
    BY <1>1, <1>8, <2>1, <2>2
  <2>4. ~garbled'
    <3>1. common = 0
      BY <1>7, <1>8, <1>4
    <3>2. ~Garbled(got.m, got.ret, common, index)
      <4>1. NULL \in Nat
        BY Numbers
      <4>2. ~Garbled(got.m, NULL, 0, index)
        BY <4>1, NothingGarbled
      <4> QED BY <2>1, <3>1, <4>2
    <3> QED BY <1>1, <1>2, <1>5, <3>2
  <2>5. ranges' = kept /\ Records(blocks, sizes, index, NULL, 0, blocks', sizes')
    BY <2>3 DEF Accept, Records
  <2>6. mem' = MmFree(mem, blocks[index])
    <3>1. PICK m2 : m2 = MmFree(mem, blocks[index])
      OBVIOUS
    <3>2. m2 \in Memories
      BY <1>1, <1>2, <1>3, <3>1, GivenBack
    <3>3. mem' = RandomizeBlock(m2, NULL, 0, index)
      BY <2>1, <2>3, <3>1 DEF Accept
    <3> QED BY <3>1, <3>2, <3>3, FillsNothing
  <2> QED BY <1>1, <2>2, <2>3, <2>4, <2>5, <2>6, StepGives
<1>9. CASE size /= 0
  <2>1. size \in Nat /\ size > 0 /\ 2 * size < UintMod
    BY <1>9, Numbers
  <2>2. \/ Fails(mem, blocks, sizes, live, B, s, a, got)
        \/ /\ Serves(mem, blocks, sizes, live, B, s, a, index, size, got)
           /\ ~Garbled(got.m, got.ret, common, index)
    <3>1. CASE blocks[index] = NULL
      <4>1. got = MmMalloc(mem, size)
        BY <1>1, <1>9, <3>1 DEF MmRealloc
      <4>2. \/ Fails(mem, blocks, sizes, live, B, s, a, got)
            \/ Serves(mem, blocks, sizes, live, B, s, a, index, size, got)
        BY <1>2, <1>3, <2>1, <3>1, <4>1, GotNew
      <4>3. ASSUME Serves(mem, blocks, sizes, live, B, s, a, index, size, got)
            PROVE  ~Garbled(got.m, got.ret, common, index)
        <5>1. common = 0
          BY <1>7, <1>4, <2>1, <3>1
        <5>2. got.ret \in Nat
          BY <1>2, <4>3 DEF Serves, Booked
        <5> QED BY <5>1, <5>2, NothingGarbled
      <4> QED BY <4>2, <4>3
    <3>2. CASE blocks[index] /= NULL
      BY <1>1, <1>2, <1>3, <2>1, <3>2, GotMoved
    <3> QED BY <3>1, <3>2
  <2>3. CASE Fails(mem, blocks, sizes, live, B, s, a, got)
    <3>1. got.ret = NULL
      BY <2>3 DEF Fails
    <3>2. failed = "mm_realloc failed" /\ kept = ranges /\ verdict' = "mm_realloc failed"
      BY <1>1, <1>9, <3>1
    <3>3. /\ mem' = got.m /\ ranges' = ranges /\ UNCHANGED <<blocks, sizes, live, total, hwm>>
          /\ ~garbled'
      BY <1>1, <1>2, <1>5, <3>2 DEF Refuse
    <3> QED BY <2>3, <3>2, <3>3, StepFails
  <2>4. CASE /\ Serves(mem, blocks, sizes, live, B, s, a, index, size, got)
             /\ ~Garbled(got.m, got.ret, common, index)
    <3>1. /\ got.ret /= NULL
          /\ Judge(got.m, RangesOf(blocks, sizes, live \ {index}), got.ret, size) = "running"
      BY <2>4 DEF Serves
    <3>2. failed = "running" /\ kept = RangesOf(blocks, sizes, live \ {index})
      BY <1>1, <1>6, <1>9, <3>1
    <3>3. verdict' = "running"
      BY <1>1, <1>9, <3>1, <3>2
    <3>4. /\ Accept(got.m, RangesOf(blocks, sizes, live \ {index}), got.ret, size, index)
          /\ Tally(size, sizes[index])
      BY <1>1, <3>2, <3>3
    <3>5. live' = live \cup {index} /\ ~garbled'
      BY <1>1, <1>2, <1>5, <2>4
    <3>6. Tally(size, IF index \in live THEN sizes[index] ELSE 0)
      BY <1>1, <3>4
    <3> QED BY <1>3, <2>1, <2>4, <3>3, <3>4, <3>5, <3>6, StepServes
  <2> QED BY <2>2, <2>3, <2>4
<1> QED BY <1>8, <1>9

(* Every request keeps the invariant, and grows the heap only without a fit. *)
LEMMA Step ==
  ASSUME IInv, [Next]_vars
  PROVE  IInv' /\ GrowsRight
<1>1. CASE UNCHANGED vars
  <2>1. mem' = mem /\ Books' /\ Owns' /\ Ranged' /\ Tallied' /\ DriverAccepts'
    BY <1>1 DEF vars, IInv, Books, Owns, Ranged, Tallied, DriverAccepts
  <2> QED BY <2>1 DEF IInv, GrowsRight
<1>2. CASE \E index \in Ids, size \in Sizes : Alloc(index, size)
  BY <1>2, AllocStep
<1>3. CASE \E index \in Ids, size \in Sizes \cup {0} : Realloc(index, size)
  BY <1>3, ReallocStep
<1>4. CASE \E index \in Ids : Free(index)
  BY <1>4, FreeStep
<1>5. CASE FreeNull
  BY <1>5, FreeNullStep
<1> QED BY <1>1, <1>2, <1>3, <1>4, <1>5 DEF Next

--------------------------------------------------------------------------------
(* Theorems *)

(* IInv holds of every trace. *)
THEOREM Invariant == Spec => []IInv
<1>1. Init => IInv
  BY Start
<1>2. IInv /\ [Next]_vars => IInv'
  BY Step
<1> QED BY <1>1, <1>2, PTL DEF Spec

(* The layout, and what every trace's state looks like by it. *)
LEMMA LayoutOf ==
  ASSUME IInv
  PROVE  \E B, s, a : /\ Owned(mem, blocks, sizes, live, B, s, a) /\ Sound(mem, B, s, a)
                      /\ Chain(mem) = B \cup {mem.brk} /\ Blocks(mem) = B
                      /\ \A b \in B : /\ b \in Nat /\ b >= 24 /\ b % 8 = 0 /\ s[b] \in Nat
                                      /\ GetAlloc(mem, Hdrp(b)) = a[b] /\ GetSize(mem, Hdrp(b)) = s[b]
                                      /\ a[b] \in {0, 1}
<1>1. PICK B, s, a : Owned(mem, blocks, sizes, live, B, s, a)
  BY Before
<1>2. Sound(mem, B, s, a)
  BY <1>1 DEF Owned
<1>3. Chain(mem) = B \cup {mem.brk} /\ Blocks(mem) = B
  BY <1>2, ChainIs DEF Sound
<1>4. \A b \in B : b \in Nat /\ b >= 24 /\ b % 8 = 0 /\ s[b] \in Nat
  BY <1>2, BlockIn DEF Sound, Shaped
<1>5. \A b \in B : GetAlloc(mem, Hdrp(b)) = a[b] /\ GetSize(mem, Hdrp(b)) = s[b]
  BY <1>2, BlockTags DEF Sound, Hdrp, WSIZE
<1>6. \A b \in B : a[b] \in {0, 1}
  BY <1>2 DEF Sound, Shaped, Tagged
<1> QED BY <1>1, <1>2, <1>3, <1>4, <1>5, <1>6

(* mdriver finds nothing wrong with mm.c: no block is misaligned, outside  *)
(* the heap, overlapping another or garbled, whatever the trace.           *)
THEOREM Accepted == Spec => []DriverAccepts
<1>1. IInv => DriverAccepts
  BY DEF IInv
<1> QED BY <1>1, Invariant, PTL

(* checkheap finds nothing wrong: headers and footers agree, the blocks    *)
(* are aligned and cover the heap up to the epilogue, no two free blocks   *)
(* are neighbours, and the rover points at a block.                        *)
THEOREM Consistent == Spec => []HeapConsistent
<1>1. ASSUME IInv PROVE HeapConsistent
  <2>1. PICK B, s, a : /\ Owned(mem, blocks, sizes, live, B, s, a) /\ Sound(mem, B, s, a)
                       /\ Chain(mem) = B \cup {mem.brk} /\ Blocks(mem) = B
                       /\ \A b \in B : /\ b \in Nat /\ b >= 24 /\ b % 8 = 0 /\ s[b] \in Nat
                                       /\ GetAlloc(mem, Hdrp(b)) = a[b]
                                       /\ GetSize(mem, Hdrp(b)) = s[b] /\ a[b] \in {0, 1}
    BY <1>1, LayoutOf
  <2>2. Layout(B, s, mem.brk) /\ Tagged(mem, B, s, a) /\ mem.listp = Listp /\ mem \in Memories
    BY <2>1 DEF Sound, Shaped
  <2>3. mem.brk <= MemHeap + MaxHeap
    BY <2>2 DEF Layout, Top
  <2>4. Epilogue(mem) \in Chain(mem) /\ Get(mem, Hdrp(Epilogue(mem))) = Pack(0, 1)
    BY <2>1, <2>2 DEF Epilogue, Hdrp, Pack, WSIZE, Tagged
  <2>5. Get(mem, Hdrp(mem.listp)) = Pack(DSIZE, 1)
    BY <2>2 DEF Hdrp, Pack, WSIZE, Tagged, Layout
  <2>6. ASSUME NEW b \in B
        PROVE  /\ b % DSIZE = 0 /\ Get(mem, Hdrp(b)) = Get(mem, Ftrp(mem, b))
               /\ b /= mem.listp => GetSize(mem, Hdrp(b)) >= 2 * DSIZE
               /\ IsFree(b) => NextBlkp(mem, b) = Epilogue(mem) \/ ~IsFree(NextBlkp(mem, b))
    <3>1. b % DSIZE = 0
      BY <2>1 DEF DSIZE
    <3>2. Get(mem, Hdrp(b)) = Get(mem, Ftrp(mem, b))
      <4>1. Ftrp(mem, b) = b + s[b] - 8
        BY <2>1 DEF Ftrp, DSIZE
      <4>2. Get(mem, b - 4) = Get(mem, b + s[b] - 8)
        BY <2>2 DEF Tagged
      <4> QED BY <4>1, <4>2 DEF Hdrp, WSIZE
    <3>3. b /= mem.listp => GetSize(mem, Hdrp(b)) >= 2 * DSIZE
      <4>1. b /= Listp => s[b] >= 16
        BY <2>2 DEF Layout
      <4> QED BY <2>1, <2>2, <4>1 DEF DSIZE
    <3>4. ASSUME IsFree(b), NextBlkp(mem, b) /= Epilogue(mem)
          PROVE  ~IsFree(NextBlkp(mem, b))
      <4>1. NextBlkp(mem, b) = b + s[b]
        BY <2>1, BlockTags DEF Sound
      <4>2. a[b] = 0
        BY <2>1, <3>4 DEF IsFree
      <4>3. b + s[b] \in B
        BY <2>2, <3>4, <4>1 DEF Layout, Epilogue
      <4>4. a[b + s[b]] /= 0
        BY <2>1, <4>2, <4>3 DEF Sound, Apart
      <4> QED BY <2>1, <4>1, <4>3, <4>4 DEF IsFree
    <3> QED BY <3>1, <3>2, <3>3, <3>4
  <2>7. mem.nextFit => mem.rover \in Blocks(mem)
    BY <2>1 DEF Sound, RoverIn
  <2> QED BY <2>1, <2>3, <2>4, <2>5, <2>6, <2>7 DEF HeapConsistent
<1> QED BY <1>1, Invariant, PTL

(* No block is lost, and none is handed out twice: the allocated blocks    *)
(* are those the client holds, each under one id.                          *)
THEOREM NoneLost == Spec => []AllocatedAreHeld
<1>1. ASSUME IInv PROVE AllocatedAreHeld
  <2>1. PICK B, s, a : /\ Owned(mem, blocks, sizes, live, B, s, a) /\ Sound(mem, B, s, a)
                       /\ Blocks(mem) = B
                       /\ \A b \in B : GetAlloc(mem, Hdrp(b)) = a[b]
    BY <1>1, LayoutOf
  <2>2. mem.listp = Listp
    BY <2>1 DEF Sound, Shaped
  <2>3. ASSUME NEW b \in B \ {Listp}, a[b] = 1 PROVE b \in Held
    <3>1. PICK d \in live : blocks[d] = b
      BY <2>1, <2>3 DEF Owned
    <3>2. b /= NULL
      <4>1. b \in Nat /\ b >= 24
        BY <1>1, <2>1, BlockIn DEF Sound, Shaped
      <4> QED BY <4>1, Numbers
    <3> QED BY <3>1, <3>2 DEF Held
  <2>4. ASSUME NEW b \in Held PROVE b \in B \ {Listp} /\ a[b] = 1
    <3>1. PICK d \in live : blocks[d] = b /\ b /= NULL
      BY DEF Held
    <3> QED BY <2>1, <3>1 DEF Owned, Holds
  <2>5. {bp \in Blocks(mem) \ {mem.listp} : GetAlloc(mem, Hdrp(bp)) = 1} = Held
    BY <2>1, <2>2, <2>3, <2>4
  <2>6. ASSUME NEW p \in Held PROVE Cardinality(HolderOf(p)) = 1
    <3>1. PICK d \in live : blocks[d] = p /\ p /= NULL
      BY DEF Held
    <3>2. HolderOf(p) = {d}
      <4>1. \A e \in live : blocks[e] = p => e = d
        BY <2>1, <3>1 DEF Owned
      <4> QED BY <3>1, <4>1 DEF HolderOf
    <3> QED BY <3>2, FS_Singleton
  <2> QED BY <2>5, <2>6 DEF AllocatedAreHeld
<1> QED BY <1>1, Invariant, PTL

(* The payloads of live blocks do not overlap, and each is as large as the *)
(* client asked for.                                                       *)
THEOREM Apartness == Spec => []PayloadsDisjoint
<1>1. ASSUME IInv PROVE PayloadsDisjoint
  <2>1. PICK B, s, a : /\ Owned(mem, blocks, sizes, live, B, s, a)
                       /\ \A b \in B : GetSize(mem, Hdrp(b)) = s[b]
    BY <1>1, LayoutOf
  <2>2. Booked(blocks, sizes, live) /\ ranges = RangesOf(blocks, sizes, live)
    BY <1>1, Before
  <2>3. ASSUME NEW r \in ranges, NEW t \in ranges, r /= t
        PROVE  r.hi < t.lo \/ t.hi < r.lo
    <3>1. PICK d \in live : blocks[d] /= NULL /\ r = NewRange(blocks[d], sizes[d], d)
      BY <2>2 DEF RangesOf
    <3>2. PICK e \in live : blocks[e] /= NULL /\ t = NewRange(blocks[e], sizes[e], e)
      BY <2>2 DEF RangesOf
    <3>3. d /= e
      BY <2>3, <3>1, <3>2
    <3>4. PICK x \in Nat, n \in Nat : x = blocks[d] /\ n = sizes[d]
      BY <2>2 DEF Booked
    <3>5. PICK y \in Nat, k \in Nat : y = blocks[e] /\ k = sizes[e]
      BY <2>2 DEF Booked
    <3>6. x + n <= y \/ y + k <= x
      BY <2>1, <2>2, <3>1, <3>2, <3>3, <3>4, <3>5, HeldApart
    <3>7. r.lo = x /\ r.hi = x + n - 1 /\ t.lo = y /\ t.hi = y + k - 1
      BY <3>1, <3>2, <3>4, <3>5 DEF NewRange, Hi
    <3> QED BY <3>6, <3>7
  <2>4. ASSUME NEW d \in live, blocks[d] /= NULL
        PROVE  sizes[d] <= GetSize(mem, Hdrp(blocks[d])) - DSIZE
    <3>1. blocks[d] \in B /\ sizes[d] <= s[blocks[d]] - 8
      BY <2>1, <2>4 DEF Owned, Holds
    <3> QED BY <2>1, <3>1 DEF DSIZE
  <2> QED BY <2>3, <2>4 DEF PayloadsDisjoint
<1> QED BY <1>1, Invariant, PTL

(* Between requests, a live block holds what its owner wrote, whatever was *)
(* done for the others, and also after a call that failed.                 *)
THEOREM Intact == Spec => []DataIntact
<1>1. ASSUME IInv PROVE DataIntact
  <2>1. Booked(blocks, sizes, live) /\ \E B, s, a : Owned(mem, blocks, sizes, live, B, s, a)
    BY <1>1, Before
  <2> QED BY <2>1, NotGarbled DEF DataIntact
<1> QED BY <1>1, Invariant, PTL

(* What was in use at one time never exceeds the heap, and the running     *)
(* total is the sum of the live blocks' sizes.                             *)
THEOREM Utilization == Spec => []UtilizationAtMostOne
<1>1. ASSUME IInv PROVE UtilizationAtMostOne
  <2>1. total = SumOver(sizes, live) /\ hwm <= mem.brk - MemHeap
    BY <1>1 DEF IInv, Tallied
  <2>2. MapThenSumSet(LAMBDA d : sizes[d], live) = SumOver(sizes, live)
    BY SumIs
  <2> QED BY <2>1, <2>2 DEF UtilizationAtMostOne, HeapSize
<1> QED BY <1>1, Invariant, PTL

(* The heap grows only for a request that no free block fits, with either  *)
(* search: next fit, too, looks at every block.                            *)
THEOREM Growth == Spec => GrowsOnlyWithoutFit
<1>1. ASSUME IInv, [Next]_vars
      PROVE  [mem'.brk /= mem.brk =>
                 \A d \in Ids : blocks'[d] /= blocks[d] => ~FreeFits(sizes'[d])]_vars
  BY <1>1, Step DEF GrowsRight
<1> QED BY <1>1, Invariant, PTL DEF Spec, GrowsOnlyWithoutFit

================================================================================
