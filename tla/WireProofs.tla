----------------------------- MODULE WireProofs -----------------------------
(***************************************************************************)
(* Theorems about Wire, for any torrent, any peer and streams of any       *)
(* length: the reader of a connection follows what the peer sends, and     *)
(* requests are answered with the bytes they ask for.                      *)
(***************************************************************************)
EXTENDS Wire, SequenceTheorems, TLAPS

Byte == 0 .. 255

-----------------------------------------------------------------------------
(* Numbers and bits *)

LEMMA FourBytes ==
  ASSUME NEW w \in Byte, NEW x \in Byte, NEW y \in Byte, NEW z \in Byte
  PROVE  /\ <<w, x, y, z>> \in Seq(Byte) /\ Len(<<w, x, y, z>>) = 4
         /\ <<w, x, y, z>>[1] = w /\ <<w, x, y, z>>[2] = x
         /\ <<w, x, y, z>>[3] = y /\ <<w, x, y, z>>[4] = z
  OBVIOUS

LEMMA U32Bytes ==
  ASSUME NEW n, IsU32(n)
  PROVE  /\ U32(n) \in Seq(Byte) /\ Len(U32(n)) = 4
         /\ U32(n)[1] = (n \div 16777216) % 256 /\ U32(n)[2] = (n \div 65536) % 256
         /\ U32(n)[3] = (n \div 256) % 256 /\ U32(n)[4] = n % 256
<1>. DEFINE a == (n \div 16777216) % 256
            b == (n \div 65536) % 256
            c == (n \div 256) % 256
            d == n % 256
<1>1. a \in Byte /\ b \in Byte /\ c \in Byte /\ d \in Byte
  BY SMT DEF IsU32, Byte
<1>2. U32(n) = <<a, b, c, d>>
  BY SMT DEF U32
<1>. HIDE DEF a, b, c, d
<1>3. /\ U32(n) \in Seq(Byte) /\ Len(U32(n)) = 4
      /\ U32(n)[1] = a /\ U32(n)[2] = b /\ U32(n)[3] = c /\ U32(n)[4] = d
  BY <1>1, <1>2, FourBytes
<1>. QED
  BY <1>3, SMT DEF a, b, c, d

LEMMA U32Type ==
  ASSUME NEW n, IsU32(n)
  PROVE  /\ U32(n) \in Seq(Byte) /\ U32(n) \in Seq(Nat) /\ Len(U32(n)) = 4
         /\ U32(n)[1] \in Byte /\ U32(n)[2] \in Byte /\ U32(n)[3] \in Byte
         /\ U32(n)[4] \in Byte
<1>1. U32(n) \in Seq(Byte) /\ Len(U32(n)) = 4
  BY U32Bytes, SMT
<1>2. Byte \subseteq Nat
  BY DEF Byte
<1>3. U32(n) \in Seq(Nat)
  BY <1>1, <1>2, SeqMonotonic
<1>4. \A i \in 1 .. 4 : U32(n)[i] \in Byte
  BY <1>1, ElementOfSeq
<1>. QED
  BY <1>1, <1>3, <1>4

LEMMA U32Sum ==
  ASSUME NEW n, IsU32(n)
  PROVE  n = 16777216 * ((n \div 16777216) % 256) + 65536 * ((n \div 65536) % 256)
                + 256 * ((n \div 256) % 256) + (n % 256)
<1>1. n \in Nat /\ n \div 16777216 \in Nat /\ n \div 16777216 < 256
  BY SMT DEF IsU32
<1>. QED
  BY <1>1, SMT

\* A number that fits four bytes comes back from them, wherever they are.
LEMMA U32Read ==
  ASSUME NEW n, IsU32(n), NEW s, NEW i \in Int,
         s[i] = U32(n)[1], s[i + 1] = U32(n)[2], s[i + 2] = U32(n)[3], s[i + 3] = U32(n)[4]
  PROVE  FromU32(s, i) = n
<1>. DEFINE a == (n \div 16777216) % 256
            b == (n \div 65536) % 256
            c == (n \div 256) % 256
            d == n % 256
<1>2. n = 16777216 * a + 65536 * b + 256 * c + d
  BY U32Sum, SMT
<1>3. s[i] = a /\ s[i + 1] = b /\ s[i + 2] = c /\ s[i + 3] = d
  BY U32Bytes, SMT
<1>. HIDE DEF a, b, c, d
<1>. QED
  BY <1>2, <1>3, SMT DEF FromU32

LEMMA MaskValues ==
  ASSUME NEW p \in Nat
  PROVE  /\ p % 8 \in 0 .. 7 /\ p = 8 * (p \div 8) + (p % 8) /\ p \div 8 \in Nat
         /\ p % 8 = 0 => Mask(p) = 128
         /\ p % 8 = 1 => Mask(p) = 64
         /\ p % 8 = 2 => Mask(p) = 32
         /\ p % 8 = 3 => Mask(p) = 16
         /\ p % 8 = 4 => Mask(p) = 8
         /\ p % 8 = 5 => Mask(p) = 4
         /\ p % 8 = 6 => Mask(p) = 2
         /\ p % 8 = 7 => Mask(p) = 1
<1>. DEFINE r == p % 8
<1>1. r \in 0 .. 7 /\ p = 8 * (p \div 8) + r /\ p \div 8 \in Nat
  OBVIOUS
<1>2. Mask(p) = <<128, 64, 32, 16, 8, 4, 2, 1>>[r + 1]
  BY DEF Mask
<1>. HIDE DEF r
<1>3. /\ r = 0 => Mask(p) = 128
      /\ r = 1 => Mask(p) = 64
      /\ r = 2 => Mask(p) = 32
      /\ r = 3 => Mask(p) = 16
      /\ r = 4 => Mask(p) = 8
      /\ r = 5 => Mask(p) = 4
      /\ r = 6 => Mask(p) = 2
      /\ r = 7 => Mask(p) = 1
  BY <1>2
<1>. QED
  BY <1>1, <1>3 DEF r

Masks == {128, 64, 32, 16, 8, 4, 2, 1}

LEMMA MaskFacts ==
  ASSUME NEW p \in Nat
  PROVE  /\ Mask(p) \in Masks
         /\ \A q \in Nat : p \div 8 = q \div 8 /\ Mask(p) = Mask(q) => p = q
<1>1. Mask(p) \in Masks
  BY MaskValues DEF Masks
<1>2. ASSUME NEW q \in Nat, p \div 8 = q \div 8, Mask(p) = Mask(q) PROVE p = q
  <2>1. p % 8 = q % 8
    BY <1>2, MaskValues
  <2>. QED
    BY <1>2, <2>1, MaskValues
<1>. QED
  BY <1>1, <1>2

\* Adding the mask of a bit that is not set sets this bit and no other.
LEMMA AddMask ==
  ASSUME NEW v \in Byte, NEW m \in Masks, (v \div m) % 2 # 1
  PROVE  /\ v + m \in Byte
         /\ ((v + m) \div m) % 2 = 1
         /\ \A k \in Masks : k # m => ((v + m) \div k) % 2 = (v \div k) % 2
<1>1. CASE m = 128
  BY <1>1 DEF Byte, Masks
<1>2. CASE m = 64
  BY <1>2 DEF Byte, Masks
<1>3. CASE m = 32
  BY <1>3 DEF Byte, Masks
<1>4. CASE m = 16
  BY <1>4 DEF Byte, Masks
<1>5. CASE m = 8
  BY <1>5 DEF Byte, Masks
<1>6. CASE m = 4
  BY <1>6 DEF Byte, Masks
<1>7. CASE m = 2
  BY <1>7, SMTT(30) DEF Byte, Masks
<1>8. CASE m = 1
  BY <1>8, SMTT(30) DEF Byte, Masks
<1>. QED
  BY <1>1, <1>2, <1>3, <1>4, <1>5, <1>6, <1>7, <1>8 DEF Masks

\* set_piece adds one piece to those of a bitfield.
LEMMA SetPiece ==
  ASSUME NEW bits \in Seq(Byte), NEW q \in Nat, q \div 8 < Len(bits)
  PROVE  /\ set_piece(bits, q) \in Seq(Byte)
         /\ Len(set_piece(bits, q)) = Len(bits)
         /\ \A p \in Nat : has_piece(set_piece(bits, q), p) <=> has_piece(bits, p) \/ p = q
<1>. DEFINE i == (q \div 8) + 1
            new == [bits EXCEPT ![i] = bits[i] + Mask(q)]
<1>1. i \in 1 .. Len(bits) /\ bits[i] \in Byte /\ Mask(q) \in Masks /\ q \div 8 \in Nat
  BY MaskFacts, MaskValues
<1>2. CASE has_piece(bits, q)
  BY <1>2 DEF set_piece
<1>3. CASE ~has_piece(bits, q)
  <2>1. set_piece(bits, q) = new
    BY <1>3 DEF set_piece
  <2>2. (bits[i] \div Mask(q)) % 2 # 1
    BY <1>3 DEF has_piece
  <2>3. /\ bits[i] + Mask(q) \in Byte
        /\ ((bits[i] + Mask(q)) \div Mask(q)) % 2 = 1
        /\ \A k \in Masks : k # Mask(q) =>
              ((bits[i] + Mask(q)) \div k) % 2 = (bits[i] \div k) % 2
    BY <1>1, <2>2, AddMask
  <2>4. /\ new \in Seq(Byte) /\ Len(new) = Len(bits) /\ new[i] = bits[i] + Mask(q)
        /\ \A j \in 1 .. Len(bits) : j # i => new[j] = bits[j]
    BY <1>1, <2>3
  <2>. HIDE DEF new
  <2>5. ASSUME NEW p \in Nat
        PROVE  has_piece(new, p) <=> has_piece(bits, p) \/ p = q
    <3>1. Mask(p) \in Masks /\ p \div 8 \in Nat
      BY MaskFacts, MaskValues
    <3>2. CASE p = q
      BY <2>3, <2>4, <3>2 DEF has_piece
    <3>3. CASE p # q /\ p \div 8 = q \div 8
      <4>1. Mask(p) # Mask(q)
        BY <3>3, MaskFacts
      <4>. QED
        BY <2>3, <2>4, <3>1, <3>3, <4>1 DEF has_piece
    <3>4. CASE p \div 8 # q \div 8
      <4>1. p # q
        BY <3>4
      <4>2. p \div 8 < Len(bits) =>
               (p \div 8) + 1 \in 1 .. Len(bits) /\ (p \div 8) + 1 # i
        BY <1>1, <3>1, <3>4
      <4>. QED
        BY <2>4, <4>1, <4>2 DEF has_piece
    <3>. QED
      BY <3>2, <3>3, <3>4
  <2>. QED
    BY <2>1, <2>4, <2>5
<1>. QED
  BY <1>2, <1>3

\* A sum of some of the masks has just their bits.
LEMMA SumOfMasks ==
  ASSUME NEW a \in {0, 128}, NEW b \in {0, 64}, NEW c \in {0, 32}, NEW d \in {0, 16},
         NEW e \in {0, 8}, NEW f \in {0, 4}, NEW g \in {0, 2}, NEW h \in {0, 1}
  PROVE  LET sum == a + b + c + d + e + f + g + h
         IN  /\ sum \in Byte
             /\ (sum \div 128) % 2 = 1 <=> a # 0
             /\ (sum \div 64) % 2 = 1 <=> b # 0
             /\ (sum \div 32) % 2 = 1 <=> c # 0
             /\ (sum \div 16) % 2 = 1 <=> d # 0
             /\ (sum \div 8) % 2 = 1 <=> e # 0
             /\ (sum \div 4) % 2 = 1 <=> f # 0
             /\ (sum \div 2) % 2 = 1 <=> g # 0
             /\ (sum \div 1) % 2 = 1 <=> h # 0
  BY DEF Byte

BitOf(P, p) == IF p \in P THEN Mask(p) ELSE 0

ByteOf(P, k) ==
  BitOf(P, 8 * k) + BitOf(P, 8 * k + 1) + BitOf(P, 8 * k + 2) + BitOf(P, 8 * k + 3)
    + BitOf(P, 8 * k + 4) + BitOf(P, 8 * k + 5) + BitOf(P, 8 * k + 6) + BitOf(P, 8 * k + 7)

LEMMA MaskAt ==
  ASSUME NEW k \in Nat
  PROVE  /\ Mask(8 * k) = 128 /\ Mask(8 * k + 1) = 64
         /\ Mask(8 * k + 2) = 32 /\ Mask(8 * k + 3) = 16
         /\ Mask(8 * k + 4) = 8 /\ Mask(8 * k + 5) = 4
         /\ Mask(8 * k + 6) = 2 /\ Mask(8 * k + 7) = 1
<1>1. /\ (8 * k) % 8 = 0 /\ (8 * k + 1) % 8 = 1 /\ (8 * k + 2) % 8 = 2
      /\ (8 * k + 3) % 8 = 3 /\ (8 * k + 4) % 8 = 4 /\ (8 * k + 5) % 8 = 5
      /\ (8 * k + 6) % 8 = 6 /\ (8 * k + 7) % 8 = 7
  OBVIOUS
<1>. QED
  BY <1>1, MaskValues

LEMMA ByteBits ==
  ASSUME NEW P, NEW k \in Nat, NEW p \in Nat, p \div 8 = k
  PROVE  /\ ByteOf(P, k) \in Byte
         /\ (ByteOf(P, k) \div Mask(p)) % 2 = 1 <=> p \in P
<1>. DEFINE a == BitOf(P, 8 * k)
            b == BitOf(P, 8 * k + 1)
            c == BitOf(P, 8 * k + 2)
            d == BitOf(P, 8 * k + 3)
            e == BitOf(P, 8 * k + 4)
            f == BitOf(P, 8 * k + 5)
            g == BitOf(P, 8 * k + 6)
            h == BitOf(P, 8 * k + 7)
            sum == a + b + c + d + e + f + g + h
<1>1. /\ a \in {0, 128} /\ (a # 0 <=> 8 * k \in P)
      /\ b \in {0, 64} /\ (b # 0 <=> 8 * k + 1 \in P)
      /\ c \in {0, 32} /\ (c # 0 <=> 8 * k + 2 \in P)
      /\ d \in {0, 16} /\ (d # 0 <=> 8 * k + 3 \in P)
      /\ e \in {0, 8} /\ (e # 0 <=> 8 * k + 4 \in P)
      /\ f \in {0, 4} /\ (f # 0 <=> 8 * k + 5 \in P)
      /\ g \in {0, 2} /\ (g # 0 <=> 8 * k + 6 \in P)
      /\ h \in {0, 1} /\ (h # 0 <=> 8 * k + 7 \in P)
  BY MaskAt DEF BitOf
<1>2. ByteOf(P, k) = sum
  BY DEF ByteOf
<1>. HIDE DEF a, b, c, d, e, f, g, h
<1>3. /\ sum \in Byte
      /\ (sum \div 128) % 2 = 1 <=> a # 0
      /\ (sum \div 64) % 2 = 1 <=> b # 0
      /\ (sum \div 32) % 2 = 1 <=> c # 0
      /\ (sum \div 16) % 2 = 1 <=> d # 0
      /\ (sum \div 8) % 2 = 1 <=> e # 0
      /\ (sum \div 4) % 2 = 1 <=> f # 0
      /\ (sum \div 2) % 2 = 1 <=> g # 0
      /\ (sum \div 1) % 2 = 1 <=> h # 0
  BY <1>1, SumOfMasks
<1>. HIDE DEF sum
<1>4. p % 8 \in 0 .. 7 /\ p = 8 * k + (p % 8)
  BY MaskValues
<1>5. CASE p % 8 = 0
  BY <1>1, <1>2, <1>3, <1>4, <1>5, MaskValues
<1>6. CASE p % 8 = 1
  BY <1>1, <1>2, <1>3, <1>4, <1>6, MaskValues
<1>7. CASE p % 8 = 2
  BY <1>1, <1>2, <1>3, <1>4, <1>7, MaskValues
<1>8. CASE p % 8 = 3
  BY <1>1, <1>2, <1>3, <1>4, <1>8, MaskValues
<1>9. CASE p % 8 = 4
  BY <1>1, <1>2, <1>3, <1>4, <1>9, MaskValues
<1>10. CASE p % 8 = 5
  BY <1>1, <1>2, <1>3, <1>4, <1>10, MaskValues
<1>11. CASE p % 8 = 6
  BY <1>1, <1>2, <1>3, <1>4, <1>11, MaskValues
<1>12. CASE p % 8 = 7
  BY <1>1, <1>2, <1>3, <1>4, <1>12, MaskValues
<1>. QED
  BY <1>4, <1>5, <1>6, <1>7, <1>8, <1>9, <1>10, <1>11, <1>12

\* The bytes of a bitfield of this torrent.
BitfieldLength == (total_pieces + 7) \div 8

\* The bitfield built for a set of pieces says exactly these.
LEMMA BuildBitfield ==
  ASSUME NEW P
  PROVE  /\ build_bitfield(P) \in Seq(Byte)
         /\ Len(build_bitfield(P)) = BitfieldLength
         /\ \A p \in Torrent!Pieces : has_piece(build_bitfield(P), p) <=> p \in P
<1>. DEFINE N == BitfieldLength
            bytes == [i \in 1 .. N |-> ByteOf(P, i - 1)]
<1>1. N \in Nat /\ \A p \in Torrent!Pieces : p \in Nat /\ p \div 8 \in Nat /\ p \div 8 < N
  <2>1. total_pieces \in Nat
    BY WireAssumption
  <2>2. N \in Nat /\ total_pieces <= 8 * N
    BY <2>1 DEF BitfieldLength
  <2>. HIDE DEF N
  <2>3. ASSUME NEW p \in 0 .. (total_pieces - 1)
        PROVE  p \in Nat /\ p \div 8 \in Nat /\ p \div 8 < N
    BY <2>1, <2>2
  <2>. QED
    BY <2>2, <2>3 DEF Torrent!Pieces
<1>2. build_bitfield(P) = bytes
  <2>1. DOMAIN from_piece_count(total_pieces) = 1 .. N
    BY DEF from_piece_count, BitfieldLength
  <2>2. ASSUME NEW i \in 1 .. N
        PROVE  /\ 8 * i - 8 = 8 * (i - 1) /\ 8 * i - 7 = 8 * (i - 1) + 1
               /\ 8 * i - 6 = 8 * (i - 1) + 2 /\ 8 * i - 5 = 8 * (i - 1) + 3
               /\ 8 * i - 4 = 8 * (i - 1) + 4 /\ 8 * i - 3 = 8 * (i - 1) + 5
               /\ 8 * i - 2 = 8 * (i - 1) + 6 /\ 8 * i - 1 = 8 * (i - 1) + 7
    BY <1>1
  <2>. QED
    BY <2>1, <2>2, SMTT(30) DEF build_bitfield, ByteOf, BitOf
<1>. HIDE DEF N
<1>3. ASSUME NEW i \in 1 .. N PROVE ByteOf(P, i - 1) \in Byte
  <2>1. i - 1 \in Nat /\ 8 * (i - 1) \in Nat /\ (8 * (i - 1)) \div 8 = i - 1
    BY <1>1
  <2>. QED
    BY <2>1, ByteBits
<1>4. bytes \in Seq(Byte) /\ Len(bytes) = N
  BY <1>1, <1>3
<1>5. ASSUME NEW p \in Torrent!Pieces PROVE has_piece(bytes, p) <=> p \in P
  <2>1. p \in Nat /\ p \div 8 \in Nat /\ p \div 8 < N /\ (p \div 8) + 1 \in 1 .. N
    BY <1>1
  <2>2. bytes[(p \div 8) + 1] = ByteOf(P, p \div 8)
    BY <2>1
  <2>3. (ByteOf(P, p \div 8) \div Mask(p)) % 2 = 1 <=> p \in P
    BY <2>1, ByteBits
  <2>. HIDE DEF bytes
  <2>. QED
    BY <1>4, <2>1, <2>2, <2>3 DEF has_piece
<1>. QED
  BY <1>2, <1>4, <1>5 DEF N

-----------------------------------------------------------------------------
(* Frames *)

\* What can be framed: a message of a known kind whose length fits the prefix.
Framed == {m \in [kind : DOMAIN MessageId, payload : Seq(Nat)] : IsU32(1 + Len(m.payload))}

LEMMA SmallU32 ==
  /\ IsU32(0) /\ IsU32(1) /\ IsU32(5) /\ IsU32(13)
  /\ \A n, k \in Nat : IsU32(n) /\ k <= n => IsU32(k)
  /\ \A n \in Nat : IsU32(n) => IsU32(1 + ((n + 7) \div 8))
<1>1. IsU32(0) /\ IsU32(1) /\ IsU32(5) /\ IsU32(13)
  BY SMT DEF IsU32
<1>2. ASSUME NEW n \in Nat, NEW k \in Nat, IsU32(n), k <= n PROVE IsU32(k)
  BY <1>2, SMT DEF IsU32
<1>3. ASSUME NEW n \in Nat, IsU32(n) PROVE IsU32(1 + ((n + 7) \div 8))
  <2>1. CASE n <= 1
    <3>1. n = 0 \/ n = 1
      BY <2>1
    <3>2. 1 + ((n + 7) \div 8) \in {1, 2}
      BY <3>1
    <3>. QED
      BY <3>2, SMT DEF IsU32
  <2>2. CASE n > 1
    <3>1. (n + 7) \div 8 \in Nat /\ 1 + ((n + 7) \div 8) <= n
      BY <2>2
    <3>. QED
      BY <1>2, <1>3, <3>1
  <2>. QED
    BY <2>1, <2>2
<1>. QED
  BY <1>1, <1>2, <1>3

LEMMA KeepAliveFrame ==
  KeepAlive \in Seq(Nat) /\ Len(KeepAlive) = 4 /\ FromU32(KeepAlive, 1) = 0
<1>1. U32(0) \in Seq(Byte) /\ Len(U32(0)) = 4
  BY U32Type, SmallU32
<1>2. FromU32(U32(0), 1) = 0
  <2>. DEFINE z == U32(0)
  <2>1. z[1] = U32(0)[1] /\ z[1 + 1] = U32(0)[2] /\ z[1 + 2] = U32(0)[3] /\ z[1 + 3] = U32(0)[4]
    OBVIOUS
  <2>. HIDE DEF z
  <2>2. FromU32(z, 1) = 0
    BY <2>1, U32Read, SmallU32
  <2>. QED
    BY <2>2 DEF z
<1>. QED
  BY <1>1, <1>2, U32Type, SmallU32 DEF KeepAlive

\* A sequence after the four bytes of a number.
LEMMA Prefixed ==
  ASSUME NEW n, IsU32(n), NEW s \in Seq(Nat)
  PROVE  /\ U32(n) \o s \in Seq(Nat)
         /\ Len(U32(n) \o s) = 4 + Len(s)
         /\ FromU32(U32(n) \o s, 1) = n
         /\ \A j \in 1 .. Len(s) : (U32(n) \o s)[4 + j] = s[j]
<1>. DEFINE u == U32(n)
            t == u \o s
<1>1. u \in Seq(Nat) /\ Len(u) = 4
  BY U32Type
<1>2. /\ t \in Seq(Nat) /\ Len(t) = 4 + Len(s)
      /\ \A i \in 1 .. (4 + Len(s)) : t[i] = IF i <= 4 THEN u[i] ELSE s[i - 4]
  <2>. HIDE DEF u
  <2>1. /\ t \in Seq(Nat) /\ Len(t) = Len(u) + Len(s)
        /\ \A i \in 1 .. (Len(u) + Len(s)) : t[i] = IF i <= Len(u) THEN u[i] ELSE s[i - Len(u)]
    BY <1>1, ConcatProperties
  <2>. HIDE DEF t
  <2>. QED
    BY <1>1, <2>1
<1>. HIDE DEF t
<1>3. Len(s) \in Nat
  OBVIOUS
<1>4. t[1] = u[1] /\ t[1 + 1] = u[2] /\ t[1 + 2] = u[3] /\ t[1 + 3] = u[4]
  <2>. HIDE DEF u
  <2>. QED
    BY <1>2, <1>3
<1>5. FromU32(t, 1) = n
  BY <1>4, U32Read
<1>6. ASSUME NEW j \in 1 .. Len(s) PROVE t[4 + j] = s[j]
  <2>1. 4 + j \in 1 .. (4 + Len(s)) /\ ~(4 + j <= 4) /\ (4 + j) - 4 = j
    BY <1>3
  <2>. QED
    BY <1>2, <2>1
<1>. QED
  BY <1>2, <1>5, <1>6 DEF t

LEMMA Kinds ==
  ASSUME NEW k \in DOMAIN MessageId
  PROVE  /\ MessageId[k] \in Nat /\ MessageId[k] # 9
         /\ k # "unknown"
         /\ \A j \in DOMAIN MessageId : MessageId[j] = MessageId[k] => j = k
  BY DEF MessageId

LEMMA SerializeFacts ==
  ASSUME NEW m \in Framed
  PROVE  /\ serialize(m) \in Seq(Nat)
         /\ Len(serialize(m)) = 5 + Len(m.payload)
         /\ FromU32(serialize(m), 1) = 1 + Len(m.payload)
         /\ deserialize(serialize(m)) = Some(m)
<1>. DEFINE n == Len(m.payload)
            tail == <<MessageId[m.kind]>> \o m.payload
            f == serialize(m)
<1>1. /\ m.payload \in Seq(Nat) /\ n \in Nat /\ IsU32(1 + n) /\ m.kind \in DOMAIN MessageId
      /\ m = Message(m.kind, m.payload)
  BY DEF Framed, Message
<1>2. MessageId[m.kind] \in Nat
  BY <1>1, Kinds
<1>3. /\ tail \in Seq(Nat) /\ Len(tail) = 1 + n /\ tail[1] = MessageId[m.kind]
      /\ \A j \in 1 .. n : tail[1 + j] = m.payload[j]
  BY <1>1, <1>2
<1>4. serialize(m) = U32(1 + n) \o tail
  BY DEF serialize
<1>. HIDE DEF tail
<1>5. /\ f \in Seq(Nat) /\ Len(f) = 5 + n /\ FromU32(f, 1) = 1 + n
      /\ \A j \in 1 .. (1 + n) : f[4 + j] = tail[j]
  <2>. DEFINE l == 1 + n
              g == U32(l) \o tail
  <2>1. l \in Nat /\ IsU32(l)
    BY <1>1
  <2>2. /\ g \in Seq(Nat) /\ Len(g) = 4 + Len(tail) /\ FromU32(g, 1) = l
        /\ \A j \in 1 .. Len(tail) : g[4 + j] = tail[j]
    <3>. HIDE DEF l
    <3>. QED
      BY <2>1, <1>3, Prefixed
  <2>. HIDE DEF g
  <2>3. f = g
    BY <1>4 DEF g
  <2>. HIDE DEF f, n
  <2>. QED
    BY <1>1, <1>3, <2>2, <2>3
<1>. HIDE DEF f
<1>6. f[5] = MessageId[m.kind]
  <2>1. f[4 + 1] = tail[1]
    BY <1>1, <1>5
  <2>. QED
    BY <1>3, <2>1
<1>7. SubSeq(f, 6, 4 + FromU32(f, 1)) = m.payload
  <2>1. \A j \in 1 .. n : f[5 + j] = m.payload[j]
    <3>. TAKE j \in 1 .. n
    <3>1. f[4 + (1 + j)] = tail[1 + j]
      BY <1>1, <1>5
    <3>2. 4 + (1 + j) = 5 + j
      BY <1>1
    <3>. QED
      BY <1>3, <3>1, <3>2
  <2>2. 4 + FromU32(f, 1) = 5 + n
    BY <1>1, <1>5
  <2>3. /\ SubSeq(f, 6, 5 + n) \in Seq(Nat) /\ Len(SubSeq(f, 6, 5 + n)) = n
        /\ \A j \in 1 .. n : SubSeq(f, 6, 5 + n)[j] = f[5 + j]
    <3>. HIDE DEF n
    <3>1. \A i \in 6 .. (5 + n) : f[i] \in Nat
      BY <1>1, <1>5, ElementOfSeq
    <3>2. /\ SubSeq(f, 6, 5 + n) \in Seq(Nat)
          /\ Len(SubSeq(f, 6, 5 + n)) = IF 6 <= 5 + n THEN (5 + n) - 6 + 1 ELSE 0
          /\ \A i \in 1 .. ((5 + n) - 6 + 1) : SubSeq(f, 6, 5 + n)[i] = f[6 + i - 1]
      BY <1>1, <3>1, SubSeqProperties
    <3>3. (5 + n) - 6 + 1 = n /\ \A j \in 1 .. n : 6 + j - 1 = 5 + j
      BY <1>1
    <3>. QED
      BY <1>1, <3>2, <3>3
  <2>. HIDE DEF n
  <2>4. SubSeq(f, 6, 5 + n) = m.payload
    BY <1>1, <2>1, <2>3 DEF n
  <2>. QED
    BY <2>2, <2>4
<1>8. deserialize(f) = Some(m)
  <2>. DEFINE kinds == {k \in DOMAIN MessageId : MessageId[k] = f[5]}
  <2>1. kinds = {m.kind}
    BY <1>1, <1>6, Kinds
  <2>2. (CHOOSE k \in kinds : TRUE) = m.kind
    BY <2>1
  <2>3. ~(Len(f) < 5 \/ Len(f) < 4 + FromU32(f, 1) \/ kinds = {})
    BY <1>1, <1>5, <2>1
  <2>. QED
    BY <1>1, <1>7, <2>2, <2>3 DEF deserialize
<1>. QED
  BY <1>5, <1>8 DEF f

\* A frame says its length, and is read as the message it was made of.
LEMMA FrameFacts ==
  ASSUME NEW m \in Framed \cup {Unknown}
  PROVE  /\ Frame(m) \in Seq(Nat)
         /\ Len(Frame(m)) > 4
         /\ 4 + FromU32(Frame(m), 1) = Len(Frame(m))
         /\ m = Unknown => ~deserialize(Frame(m)).some
         /\ m # Unknown => m \in Framed /\ deserialize(Frame(m)) = Some(m)
<1>1. CASE m # Unknown
  <2>1. m \in Framed /\ Frame(m) = serialize(m) /\ Len(m.payload) \in Nat
    BY <1>1 DEF Frame, Framed
  <2>. QED
    BY <1>1, <2>1, SerializeFacts
<1>2. CASE m = Unknown
  <2>. DEFINE nine == <<9>>
              f == U32(1) \o nine
  <2>1. /\ f \in Seq(Nat) /\ Len(f) = 5 /\ FromU32(f, 1) = 1 /\ f[5] = 9
    <3>1. nine \in Seq(Nat) /\ Len(nine) = 1 /\ nine[1] = 9
      OBVIOUS
    <3>. HIDE DEF nine
    <3>2. /\ f \in Seq(Nat) /\ Len(f) = 4 + Len(nine) /\ FromU32(f, 1) = 1
          /\ \A j \in 1 .. Len(nine) : f[4 + j] = nine[j]
      BY <3>1, SmallU32, Prefixed
    <3>3. f[4 + 1] = nine[1]
      BY <3>1, <3>2
    <3>. QED
      BY <3>1, <3>2, <3>3
  <2>2. Frame(m) = f
    BY <1>2 DEF Frame
  <2>. HIDE DEF f
  <2>3. {k \in DOMAIN MessageId : MessageId[k] = f[5]} = {}
    BY <2>1, Kinds
  <2>4. ~deserialize(f).some
    BY <2>3 DEF deserialize, None
  <2>5. Len(f) > 4 /\ 4 + FromU32(f, 1) = Len(f)
    BY <2>1
  <2>. QED
    BY <1>2, <2>1, <2>2, <2>4, <2>5, Zenon
<1>. QED
  BY <1>1, <1>2

-----------------------------------------------------------------------------
(* The frames on the way *)

Entry == [message : Framed \cup {Unknown}, has : SUBSET Torrent!Pieces]

\* A frame lies behind the first k bytes, as far as the bytes reach.
At(bytes, frame, k) ==
  \A j \in 1 .. Len(frame) : k + j <= Len(bytes) => bytes[k + j] = frame[j]

\* The i-th frame on the way is a keep-alive or that of the next message of log.
Item(bytes, log, off, num, i) ==
  \/ /\ num[i] = num[i - 1]
     /\ off[i] = off[i - 1] + 4
     /\ At(bytes, KeepAlive, off[i - 1])
  \/ /\ num[i] = num[i - 1] + 1
     /\ off[i] = off[i - 1] + Len(Frame(log[num[i]].message))
     /\ At(bytes, Frame(log[num[i]].message), off[i - 1])

\* After the first base bytes, the bytes are size frames, the last one of which may be cut
\* once the stream is cut: off[i] is where the i-th ends, and num[i] the messages of the
\* log that are then read, given that the first of them finds n read.
Layout(bytes, log, cut, base, n, size, off, num) ==
  /\ off \in [0 .. size -> Nat] /\ num \in [0 .. size -> Nat]
  /\ off[0] = base /\ num[0] = n /\ num[size] = Len(log)
  /\ \A i, j \in 0 .. size : i <= j => off[i] <= off[j] /\ num[i] <= num[j]
  /\ \A i \in 1 .. size : Item(bytes, log, off, num, i)
  /\ Len(bytes) <= off[size]
  /\ ~cut => Len(bytes) = off[size]

OnTheWay(bytes, log, cut, base, n) ==
  \E size \in Nat : \E off, num \in [0 .. size -> Nat] :
    Layout(bytes, log, cut, base, n, size, off, num)

LEMMA NothingOnTheWay ==
  ASSUME NEW bytes \in Seq(Nat)
  PROVE  OnTheWay(bytes, <<>>, FALSE, Len(bytes), 0)
<1>. DEFINE off == [i \in 0 .. 0 |-> Len(bytes)]
            num == [i \in 0 .. 0 |-> 0]
<1>1. Len(bytes) \in Nat /\ Len(<<>>) = 0 /\ 0 \in Nat
  OBVIOUS
<1>2. off \in [0 .. 0 -> Nat] /\ num \in [0 .. 0 -> Nat] /\ off[0] = Len(bytes) /\ num[0] = 0
  BY <1>1
<1>. HIDE DEF off, num
<1>3. Layout(bytes, <<>>, FALSE, Len(bytes), 0, 0, off, num)
  BY <1>1, <1>2 DEF Layout
<1>. QED
  BY <1>1, <1>2, <1>3 DEF OnTheWay

\* A frame added at the end of a stream that is whole: that of a new message, or a
\* keep-alive.
LEMMA FrameAdded ==
  ASSUME NEW bytes \in Seq(Nat), NEW log \in Seq(Entry), NEW base, NEW n,
         OnTheWay(bytes, log, FALSE, base, n),
         NEW frame \in Seq(Nat), NEW log2 \in Seq(Entry),
         \A i \in 1 .. Len(log) : i <= Len(log2) /\ log2[i] = log[i],
         \/ Len(log2) = Len(log) /\ frame = KeepAlive
         \/ Len(log2) = Len(log) + 1 /\ frame = Frame(log2[Len(log2)].message)
  PROVE  OnTheWay(bytes \o frame, log2, FALSE, base, n)
<1>0. PICK size \in Nat : \E off, num \in [0 .. size -> Nat] :
        Layout(bytes, log, FALSE, base, n, size, off, num)
  BY DEF OnTheWay
<1>1. PICK off \in [0 .. size -> Nat], num \in [0 .. size -> Nat] :
        Layout(bytes, log, FALSE, base, n, size, off, num)
  BY <1>0
<1>. DEFINE b2 == bytes \o frame
            off2 == [i \in 0 .. (size + 1) |->
                       IF i <= size THEN off[i] ELSE off[size] + Len(frame)]
            num2 == [i \in 0 .. (size + 1) |-> IF i <= size THEN num[i] ELSE Len(log2)]
<1>2. /\ Len(bytes) \in Nat /\ Len(frame) \in Nat /\ Len(log) \in Nat /\ Len(log2) \in Nat
      /\ b2 \in Seq(Nat) /\ Len(b2) = Len(bytes) + Len(frame)
      /\ \A i \in 1 .. Len(bytes) : b2[i] = bytes[i]
      /\ \A i \in 1 .. Len(frame) : b2[Len(bytes) + i] = frame[i]
  <2>1. /\ b2 \in Seq(Nat) /\ Len(b2) = Len(bytes) + Len(frame)
        /\ \A i \in 1 .. (Len(bytes) + Len(frame)) :
              b2[i] = IF i <= Len(bytes) THEN bytes[i] ELSE frame[i - Len(bytes)]
    BY ConcatProperties
  <2>. HIDE DEF b2
  <2>2. /\ Len(bytes) \in Nat /\ Len(frame) \in Nat
        /\ Len(log) \in Nat /\ Len(log2) \in Nat
    OBVIOUS
  <2>3. ASSUME NEW i \in 1 .. Len(bytes) PROVE b2[i] = bytes[i]
    BY <2>1, <2>2, SMTT(30)
  <2>4. ASSUME NEW i \in 1 .. Len(frame) PROVE b2[Len(bytes) + i] = frame[i]
    <3>1. /\ Len(bytes) + i \in 1 .. (Len(bytes) + Len(frame)) /\ ~(Len(bytes) + i <= Len(bytes))
          /\ (Len(bytes) + i) - Len(bytes) = i
      BY <2>2
    <3>. QED
      BY <2>1, <3>1
  <2>. QED
    BY <2>1, <2>2, <2>3, <2>4
<1>. HIDE DEF b2
<1>3. /\ off[0] = base /\ num[0] = n /\ num[size] = Len(log)
      /\ \A i, j \in 0 .. size : i <= j => off[i] <= off[j] /\ num[i] <= num[j]
      /\ \A i \in 1 .. size : Item(bytes, log, off, num, i)
      /\ Len(bytes) = off[size]
      /\ \A i \in 0 .. size : off[i] \in Nat /\ num[i] \in Nat
  BY <1>1 DEF Layout
<1>4. /\ off2 \in [0 .. (size + 1) -> Nat] /\ num2 \in [0 .. (size + 1) -> Nat]
      /\ \A i \in 0 .. size : off2[i] = off[i] /\ num2[i] = num[i]
      /\ off2[size + 1] = off[size] + Len(frame) /\ num2[size + 1] = Len(log2)
  BY <1>2, <1>3
<1>. HIDE DEF off2, num2
<1>5. ASSUME NEW i \in 0 .. (size + 1), NEW j \in 0 .. (size + 1), i <= j
      PROVE  off2[i] <= off2[j] /\ num2[i] <= num2[j]
  <2>1. CASE j <= size
    BY <1>3, <1>4, <1>5, <2>1, SMTT(30)
  <2>2. CASE j = size + 1 /\ i <= size
    <3>1. i \in 0 .. size /\ size \in 0 .. size
      BY <2>2
    <3>2. off[i] <= off[size] /\ num[i] <= Len(log)
      BY <1>3, <2>2, <3>1
    <3>3. Len(log) <= Len(log2)
      BY <1>2
    <3>4. off2[i] = off[i] /\ off2[j] = off[size] + Len(frame)
      BY <1>4, <2>2, <3>1
    <3>5. num2[i] = num[i] /\ num2[j] = Len(log2)
      BY <1>4, <2>2, <3>1
    <3>6. off[i] \in Nat /\ off[size] \in Nat /\ num[i] \in Nat
      BY <1>3, <3>1
    <3>. QED
      BY <1>2, <3>2, <3>3, <3>4, <3>5, <3>6, SMTT(30)
  <2>3. CASE i = size + 1
    BY <1>2, <1>3, <1>4, <1>5, <2>3
  <2>. QED
    BY <2>1, <2>2, <2>3
<1>6. ASSUME NEW f \in Seq(Nat), NEW o \in Nat, At(bytes, f, o), o + Len(f) <= Len(bytes)
      PROVE  At(b2, f, o)
  <2>1. Len(f) \in Nat
    OBVIOUS
  <2>2. ASSUME NEW j \in 1 .. Len(f) PROVE b2[o + j] = f[j]
    <3>1. o + j \in 1 .. Len(bytes) /\ o + j <= Len(bytes)
      <4>. DEFINE x == Len(f)
                  y == Len(bytes)
      <4>1. x \in Nat /\ y \in Nat /\ j \in 1 .. x /\ o + x <= y
        BY <1>6, <2>1
      <4>. HIDE DEF x, y
      <4>2. o + j \in 1 .. y /\ o + j <= y
        BY <4>1
      <4>. QED
        BY <4>2 DEF y
    <3>. QED
      BY <1>2, <1>6, <3>1 DEF At
  <2>. QED
    BY <2>2 DEF At
<1>7. ASSUME NEW i \in 1 .. size PROVE Item(b2, log2, off2, num2, i)
  <2>1. i - 1 \in 0 .. size /\ i \in 0 .. size /\ size \in 0 .. size
    OBVIOUS
  <2>2. off2[i] = off[i] /\ off2[i - 1] = off[i - 1] /\ num2[i] = num[i] /\ num2[i - 1] = num[i - 1]
    BY <1>4, <2>1
  <2>3. /\ Item(bytes, log, off, num, i)
        /\ off[i - 1] \in Nat /\ off[i] \in Nat /\ off[i] <= Len(bytes)
        /\ num[i - 1] \in Nat /\ num[i] \in Nat /\ num[i] <= Len(log)
    BY <1>3, <2>1
  <2>4. CASE /\ num[i] = num[i - 1] /\ off[i] = off[i - 1] + 4
             /\ At(bytes, KeepAlive, off[i - 1])
    <3>1. At(b2, KeepAlive, off[i - 1])
      BY <1>6, <2>3, <2>4, KeepAliveFrame
    <3>. QED
      BY <2>2, <2>4, <3>1 DEF Item
  <2>5. CASE /\ num[i] = num[i - 1] + 1
             /\ off[i] = off[i - 1] + Len(Frame(log[num[i]].message))
             /\ At(bytes, Frame(log[num[i]].message), off[i - 1])
    <3>1. num[i] \in 1 .. Len(log)
      BY <1>2, <2>3, <2>5, SMTT(30)
    <3>2. log2[num[i]] = log[num[i]] /\ log[num[i]].message \in Framed \cup {Unknown}
      <4>1. log[num[i]] \in Entry
        BY <3>1, ElementOfSeq
      <4>. QED
        BY <3>1, <4>1 DEF Entry
    <3>3. Frame(log[num[i]].message) \in Seq(Nat)
      BY <3>2, FrameFacts
    <3>4. At(b2, Frame(log[num[i]].message), off[i - 1])
      BY <1>6, <2>3, <2>5, <3>3
    <3>. QED
      BY <2>2, <2>5, <3>2, <3>4 DEF Item
  <2>. QED
    BY <2>3, <2>4, <2>5 DEF Item
<1>8. Item(b2, log2, off2, num2, size + 1)
  <2>1. /\ off2[size + 1] = off2[size] + Len(frame) /\ off2[size] = Len(bytes)
        /\ num2[size] = Len(log) /\ num2[size + 1] = Len(log2)
        /\ (size + 1) - 1 = size
    BY <1>3, <1>4
  <2>2. At(b2, frame, off2[size])
    BY <1>2, <2>1 DEF At
  <2>. QED
    BY <2>1, <2>2, KeepAliveFrame DEF Item
<1>9. Layout(b2, log2, FALSE, base, n, size + 1, off2, num2)
  <2>1. \A i \in 1 .. (size + 1) : Item(b2, log2, off2, num2, i)
    BY <1>7, <1>8, SMTT(30)
  <2>. QED
    BY <1>2, <1>3, <1>4, <1>5, <2>1, SMTT(30) DEF Layout
<1>10. OnTheWay(b2, log2, FALSE, base, n)
  <2>1. size + 1 \in Nat
    OBVIOUS
  <2>. QED
    BY <1>4, <1>9, <2>1 DEF OnTheWay
<1>. QED
  BY <1>10 DEF b2

\* A stream that is cut loses only bytes from its end.
LEMMA StreamCut ==
  ASSUME NEW bytes \in Seq(Nat), NEW log \in Seq(Entry), NEW cut \in BOOLEAN, NEW base, NEW n,
         OnTheWay(bytes, log, cut, base, n), NEW k \in 0 .. Len(bytes)
  PROVE  OnTheWay(SubSeq(bytes, 1, k), log, TRUE, base, n)
<1>0. PICK size \in Nat : \E off, num \in [0 .. size -> Nat] :
        Layout(bytes, log, cut, base, n, size, off, num)
  BY DEF OnTheWay
<1>1. PICK off \in [0 .. size -> Nat], num \in [0 .. size -> Nat] :
        Layout(bytes, log, cut, base, n, size, off, num)
  BY <1>0
<1>. DEFINE b2 == SubSeq(bytes, 1, k)
<1>2. /\ Len(bytes) \in Nat /\ k \in Nat /\ Len(b2) = k
      /\ \A i \in 1 .. k : b2[i] = bytes[i]
  OBVIOUS
<1>. HIDE DEF b2
<1>3. ASSUME NEW f, NEW o \in Nat, Len(f) \in Nat, At(bytes, f, o) PROVE At(b2, f, o)
  <2>1. ASSUME NEW j \in 1 .. Len(f), o + j <= Len(b2) PROVE b2[o + j] = f[j]
    <3>1. o + j \in 1 .. k /\ o + j <= Len(bytes)
      BY <1>2, <1>3, <2>1
    <3>. QED
      BY <1>2, <1>3, <3>1 DEF At
  <2>. QED
    BY <2>1 DEF At
<1>4. /\ \A i \in 0 .. size : off[i] \in Nat /\ num[i] \in Nat
      /\ num[size] = Len(log)
      /\ \A i, j \in 0 .. size : i <= j => off[i] <= off[j] /\ num[i] <= num[j]
      /\ \A i \in 1 .. size : Item(bytes, log, off, num, i)
  BY <1>1 DEF Layout
<1>5. ASSUME NEW i \in 1 .. size PROVE Item(b2, log, off, num, i)
  <2>1. i - 1 \in 0 .. size /\ i \in 0 .. size /\ size \in 0 .. size
    OBVIOUS
  <2>2. Item(bytes, log, off, num, i) /\ off[i - 1] \in Nat
    BY <1>4, <2>1
  <2>3. CASE num[i] = num[i - 1] + 1
    <3>1. num[i] \in 1 .. Len(log)
      BY <1>4, <2>1, <2>3
    <3>2. Len(Frame(log[num[i]].message)) \in Nat
      <4>1. log[num[i]] \in Entry
        BY <3>1, ElementOfSeq
      <4>2. log[num[i]].message \in Framed \cup {Unknown}
        BY <4>1 DEF Entry
      <4>. QED
        BY <4>2, FrameFacts
    <3>. QED
      BY <1>3, <2>2, <2>3, <3>2, SMTT(30) DEF Item
  <2>4. CASE num[i] = num[i - 1]
    BY <1>3, <1>4, <2>1, <2>2, <2>4, KeepAliveFrame, SMTT(30) DEF Item
  <2>. QED
    BY <2>2, <2>3, <2>4 DEF Item
<1>6. Layout(b2, log, TRUE, base, n, size, off, num)
  BY <1>1, <1>2, <1>4, <1>5 DEF Layout
<1>. QED
  BY <1>6 DEF OnTheWay, b2

\* What is left when the first k frames are read.
LEMMA FramesRead ==
  ASSUME NEW bytes \in Seq(Nat), NEW log \in Seq(Entry), NEW cut \in BOOLEAN, NEW base, NEW n,
         NEW size \in Nat, NEW off, NEW num,
         Layout(bytes, log, cut, base, n, size, off, num),
         NEW k \in 0 .. size, off[k] <= Len(bytes)
  PROVE  OnTheWay(SubSeq(bytes, off[k] + 1, Len(bytes)), log, cut, 0, num[k])
<1>. DEFINE d == off[k]
            b2 == SubSeq(bytes, d + 1, Len(bytes))
            off2 == [i \in 0 .. (size - k) |-> off[i + k] - d]
            num2 == [i \in 0 .. (size - k) |-> num[i + k]]
<1>1. /\ \A i \in 0 .. size : off[i] \in Nat /\ num[i] \in Nat
      /\ \A i, j \in 0 .. size : i <= j => off[i] <= off[j] /\ num[i] <= num[j]
      /\ \A i \in 1 .. size : Item(bytes, log, off, num, i)
      /\ num[size] = Len(log)
      /\ Len(bytes) <= off[size]
      /\ ~cut => Len(bytes) = off[size]
  BY DEF Layout
<1>2. d \in Nat /\ Len(bytes) \in Nat /\ d <= Len(bytes) /\ k \in Nat /\ k <= size
  BY <1>1
<1>3. /\ Len(b2) = Len(bytes) - d
      /\ \A i \in 1 .. (Len(bytes) - d) : b2[i] = bytes[d + i]
  <2>. HIDE DEF d
  <2>1. \A i \in (d + 1) .. Len(bytes) : bytes[i] \in Nat
    BY <1>2, ElementOfSeq
  <2>2. /\ Len(b2) = IF d + 1 <= Len(bytes) THEN Len(bytes) - (d + 1) + 1 ELSE 0
        /\ \A i \in 1 .. (Len(bytes) - (d + 1) + 1) : b2[i] = bytes[d + 1 + i - 1]
    BY <1>2, <2>1, SubSeqProperties
  <2>. HIDE DEF b2
  <2>3. Len(bytes) - (d + 1) + 1 = Len(bytes) - d
    BY <1>2
  <2>4. \A i \in 1 .. (Len(bytes) - d) : d + 1 + i - 1 = d + i
    BY <1>2
  <2>5. Len(b2) = Len(bytes) - d
    <3>1. CASE d + 1 <= Len(bytes)
      BY <2>2, <2>3, <3>1
    <3>2. CASE ~(d + 1 <= Len(bytes))
      <4>1. Len(bytes) - d = 0
        BY <1>2, <3>2
      <4>. QED
        BY <2>2, <3>2, <4>1
    <3>. QED
      BY <3>1, <3>2
  <2>6. ASSUME NEW i \in 1 .. (Len(bytes) - d) PROVE b2[i] = bytes[d + i]
    <3>1. i \in 1 .. (Len(bytes) - (d + 1) + 1)
      BY <2>3
    <3>2. b2[i] = bytes[d + 1 + i - 1]
      BY <2>2, <3>1
    <3>. QED
      BY <2>4, <3>2
  <2>. QED
    BY <2>5, <2>6
<1>4. \A i \in 0 .. (size - k) : /\ i + k \in 0 .. size /\ k \in 0 .. size
                               /\ off[i + k] >= d /\ off[i + k] - d \in Nat
  <2>. TAKE i \in 0 .. (size - k)
  <2>1. i + k \in 0 .. size /\ k \in 0 .. size /\ k <= i + k
    BY <1>2
  <2>2. d <= off[i + k] /\ off[i + k] \in Nat
    BY <1>1, <2>1
  <2>. QED
    BY <1>2, <2>1, <2>2
<1>5. /\ off2 \in [0 .. (size - k) -> Nat] /\ num2 \in [0 .. (size - k) -> Nat]
      /\ \A i \in 0 .. (size - k) : off2[i] = off[i + k] - d /\ num2[i] = num[i + k]
  BY <1>1, <1>4
<1>. HIDE DEF d, b2, off2, num2
<1>6. off2[0] = 0 /\ num2[0] = num[k]
  <2>1. 0 \in 0 .. (size - k) /\ 0 + k = k
    BY <1>2
  <2>2. off2[0] = off[k] - d /\ num2[0] = num[k]
    BY <1>5, <2>1
  <2>. QED
    BY <1>2, <2>2 DEF d
<1>7. off2[size - k] = off[size] - d /\ num2[size - k] = num[size]
  <2>1. size - k \in 0 .. (size - k) /\ (size - k) + k = size
    BY <1>2
  <2>. QED
    BY <1>5, <2>1
<1>8. ASSUME NEW i \in 0 .. (size - k), NEW j \in 0 .. (size - k), i <= j
      PROVE  off2[i] <= off2[j] /\ num2[i] <= num2[j]
  <2>1. i + k \in 0 .. size /\ j + k \in 0 .. size /\ i + k <= j + k
    BY <1>2, <1>4, <1>8
  <2>2. /\ off[i + k] <= off[j + k] /\ num[i + k] <= num[j + k]
        /\ off[i + k] \in Nat /\ off[j + k] \in Nat
    BY <1>1, <2>1
  <2>3. /\ off2[i] = off[i + k] - d /\ off2[j] = off[j + k] - d
        /\ num2[i] = num[i + k] /\ num2[j] = num[j + k]
    BY <1>5
  <2>. QED
    BY <1>2, <2>2, <2>3
<1>9. ASSUME NEW f, NEW o \in Nat, Len(f) \in Nat, o >= d, At(bytes, f, o)
      PROVE  At(b2, f, o - d)
  <2>1. ASSUME NEW j \in 1 .. Len(f), (o - d) + j <= Len(b2)
        PROVE  b2[(o - d) + j] = f[j]
    <3>1. /\ (o - d) + j \in 1 .. (Len(bytes) - d) /\ d + ((o - d) + j) = o + j
          /\ o + j <= Len(bytes)
      BY <1>2, <1>3, <1>9, <2>1
    <3>2. b2[(o - d) + j] = bytes[d + ((o - d) + j)]
      BY <1>3, <3>1
    <3>. QED
      BY <1>9, <3>1, <3>2 DEF At
  <2>. QED
    BY <2>1 DEF At
<1>10. ASSUME NEW i \in 1 .. (size - k) PROVE Item(b2, log, off2, num2, i)
  <2>. DEFINE x == i + k
  <2>1. /\ x \in 1 .. size /\ x \in 0 .. size /\ x - 1 \in 0 .. size /\ (i - 1) + k = x - 1
        /\ size \in 0 .. size
        /\ i \in 0 .. (size - k) /\ i - 1 \in 0 .. (size - k)
    BY <1>2
  <2>2. /\ off2[i] = off[x] - d /\ off2[i - 1] = off[x - 1] - d
        /\ num2[i] = num[x] /\ num2[i - 1] = num[x - 1]
    BY <1>5, <2>1
  <2>. HIDE DEF x
  <2>3. /\ off[x] \in Nat /\ off[x - 1] \in Nat /\ off[x - 1] >= d
        /\ num[x - 1] \in Nat /\ num[x] \in Nat /\ num[x] <= Len(log)
    <3>1. off[x - 1] >= d
      BY <1>4, <2>1
    <3>. QED
      BY <1>1, <2>1, <3>1
  <2>4. Item(bytes, log, off, num, x)
    BY <1>1, <2>1
  <2>5. CASE /\ num[x] = num[x - 1] /\ off[x] = off[x - 1] + 4
             /\ At(bytes, KeepAlive, off[x - 1])
    <3>1. At(b2, KeepAlive, off[x - 1] - d)
      BY <1>9, <2>3, <2>5, KeepAliveFrame
    <3>2. off[x] - d = (off[x - 1] - d) + 4
      BY <1>2, <2>3, <2>5
    <3>. QED
      BY <2>2, <2>5, <3>1, <3>2 DEF Item
  <2>6. CASE /\ num[x] = num[x - 1] + 1
             /\ off[x] = off[x - 1] + Len(Frame(log[num[x]].message))
             /\ At(bytes, Frame(log[num[x]].message), off[x - 1])
    <3>. DEFINE f == Frame(log[num[x]].message)
    <3>1. num[x] \in 1 .. Len(log)
      BY <2>3, <2>6
    <3>2. log[num[x]] \in Entry
      BY <3>1, ElementOfSeq
    <3>3. log[num[x]].message \in Framed \cup {Unknown}
      BY <3>2 DEF Entry
    <3>4. Len(f) \in Nat
      BY <3>3, FrameFacts
    <3>5. At(b2, f, off[x - 1] - d)
      BY <1>9, <2>3, <2>6, <3>4
    <3>6. off[x] - d = (off[x - 1] - d) + Len(f)
      <4>. HIDE DEF f
      <4>1. off[x] = off[x - 1] + Len(f)
        BY <2>6 DEF f
      <4>. QED
        BY <1>2, <2>3, <3>4, <4>1
    <3>. QED
      BY <2>2, <2>6, <3>5, <3>6 DEF Item
  <2>. QED
    BY <2>4, <2>5, <2>6 DEF Item
<1>11. Layout(b2, log, cut, 0, num[k], size - k, off2, num2)
  <2>1. size \in 0 .. size /\ off[size] \in Nat
    BY <1>1
  <2>2. /\ Len(b2) <= off2[size - k]
        /\ ~cut => Len(b2) = off2[size - k]
    <3>1. Len(b2) <= off2[size - k]
      BY <1>1, <1>2, <1>3, <1>7, <2>1
    <3>2. ASSUME ~cut PROVE Len(b2) = off2[size - k]
      <4>1. Len(bytes) = off[size]
        BY <1>1, <3>2
      <4>. QED
        BY <1>2, <1>3, <1>7, <2>1, <4>1
    <3>. QED
      BY <3>1, <3>2
  <2>. QED
    BY <1>1, <1>5, <1>6, <1>7, <1>8, <1>10, <2>2 DEF Layout
<1>12. OnTheWay(b2, log, cut, 0, num[k])
  <2>1. size - k \in Nat
    BY <1>2
  <2>. QED
    BY <1>5, <1>11, <2>1 DEF OnTheWay
<1>. QED
  BY <1>12 DEF b2, d

\* The length that a reader finds is that of the first frame, which is a keep-alive or that
\* of the next message.
LEMMA FirstFrame ==
  ASSUME NEW bytes \in Seq(Nat), NEW log \in Seq(Entry), NEW cut \in BOOLEAN, NEW n \in Nat,
         NEW size \in Nat, NEW off, NEW num,
         Layout(bytes, log, cut, 0, n, size, off, num),
         Len(bytes) >= 4
  PROVE  /\ 1 \in 0 .. size
         /\ off[1] = 4 + FromU32(bytes, 1)
         /\ \/ off[1] = 4 /\ num[1] = n
            \/ /\ off[1] > 4 /\ num[1] = n + 1 /\ n + 1 \in 1 .. Len(log)
               /\ off[1] <= Len(bytes) => SubSeq(bytes, 1, off[1]) = Frame(log[n + 1].message)
<1>1. /\ off[0] = 0 /\ num[0] = n /\ num[size] = Len(log)
      /\ \A i \in 0 .. size : off[i] \in Nat /\ num[i] \in Nat
      /\ \A i, j \in 0 .. size : i <= j => off[i] <= off[j] /\ num[i] <= num[j]
      /\ \A i \in 1 .. size : Item(bytes, log, off, num, i)
      /\ Len(bytes) <= off[size] /\ Len(bytes) \in Nat
  BY DEF Layout
<1>2. size # 0
  <2>. SUFFICES ASSUME size = 0 PROVE FALSE
    OBVIOUS
  <2>. QED
    BY <1>1
<1>3. 1 \in 1 .. size /\ 1 \in 0 .. size /\ size \in 0 .. size /\ 1 - 1 = 0
  BY <1>2
<1>4. off[1] \in Nat /\ num[1] \in Nat /\ num[1] <= Len(log) /\ Item(bytes, log, off, num, 1)
  BY <1>1, <1>3
<1>5. ASSUME NEW f \in Seq(Nat), Len(f) >= 4, At(bytes, f, 0)
      PROVE  FromU32(bytes, 1) = FromU32(f, 1)
  <2>1. Len(f) \in Nat
    OBVIOUS
  <2>2. ASSUME NEW j \in 1 .. 4 PROVE bytes[j] = f[j]
    <3>1. j \in 1 .. Len(f) /\ 0 + j <= Len(bytes) /\ 0 + j = j
      BY <1>1, <1>5, <2>1, SMTT(30)
    <3>. QED
      BY <1>5, <3>1 DEF At
  <2>3. bytes[1] = f[1] /\ bytes[1 + 1] = f[1 + 1] /\ bytes[1 + 2] = f[1 + 2] /\ bytes[1 + 3] = f[1 + 3]
    BY <2>2
  <2>. QED
    BY <2>3, SMT DEF FromU32
<1>6. CASE num[1] = num[0] /\ off[1] = off[0] + 4 /\ At(bytes, KeepAlive, off[0])
  <2>1. FromU32(bytes, 1) = 0
    <3>1. At(bytes, KeepAlive, 0) /\ Len(KeepAlive) >= 4
      BY <1>1, <1>6, KeepAliveFrame
    <3>. QED
      BY <1>5, <3>1, KeepAliveFrame
  <2>. QED
    BY <1>1, <1>3, <1>6, <2>1
<1>7. CASE /\ num[1] = num[0] + 1
           /\ off[1] = off[0] + Len(Frame(log[num[1]].message))
           /\ At(bytes, Frame(log[num[1]].message), off[0])
  <2>. DEFINE f == Frame(log[n + 1].message)
  <2>1. num[1] = n + 1 /\ n + 1 \in 1 .. Len(log)
    BY <1>1, <1>4, <1>7
  <2>2. log[n + 1] \in Entry
    BY <2>1, ElementOfSeq
  <2>3. log[n + 1].message \in Framed \cup {Unknown}
    BY <2>2 DEF Entry
  <2>4. f \in Seq(Nat) /\ Len(f) > 4 /\ Len(f) \in Nat /\ 4 + FromU32(f, 1) = Len(f)
    BY <2>3, FrameFacts
  <2>5. off[0] = 0 /\ off[1] = off[0] + Len(f) /\ At(bytes, f, 0)
    BY <1>1, <1>7, <2>1
  <2>. HIDE DEF f
  <2>6. off[1] = Len(f) /\ Len(f) >= 4
    BY <2>4, <2>5
  <2>7. FromU32(bytes, 1) = FromU32(f, 1)
    BY <1>5, <2>4, <2>5, <2>6
  <2>8. ASSUME off[1] <= Len(bytes) PROVE SubSeq(bytes, 1, off[1]) = f
    <3>. DEFINE l == Len(f)
                b == SubSeq(bytes, 1, l)
    <3>1. l \in Nat /\ l <= Len(bytes)
      BY <2>4, <2>6, <2>8
    <3>. HIDE DEF l
    <3>2. b \in Seq(Nat) /\ Len(b) = l /\ \A j \in 1 .. l : b[j] = bytes[j]
      BY <3>1
    <3>. HIDE DEF b
    <3>3. \A j \in 1 .. l : bytes[j] = f[j]
      BY <2>5, <3>1 DEF At, l
    <3>4. b = f
      BY <2>4, <3>2, <3>3, SeqEqual DEF l
    <3>. QED
      BY <2>6, <3>4 DEF b, l
  <2>. QED
    BY <1>3, <2>1, <2>4, <2>6, <2>7, <2>8 DEF f
<1>. QED
  BY <1>3, <1>4, <1>6, <1>7 DEF Item

\* What is left when it is read.
LEMMA NextFrame ==
  ASSUME stream \in Seq(Nat), NEW log \in Seq(Entry), NEW cut \in BOOLEAN, NEW n \in Nat,
         OnTheWay(stream, log, cut, 0, n), Len(stream) >= 4, FrameLength <= Len(stream)
  PROVE  \/ FrameLength = 4 /\ OnTheWay(Rest, log, cut, 0, n)
         \/ /\ FrameLength > 4 /\ n + 1 \in 1 .. Len(log)
            /\ SubSeq(stream, 1, FrameLength) = Frame(log[n + 1].message)
            /\ OnTheWay(Rest, log, cut, 0, n + 1)
<1>0. PICK size \in Nat : \E off, num \in [0 .. size -> Nat] :
        Layout(stream, log, cut, 0, n, size, off, num)
  BY DEF OnTheWay
<1>1. PICK off \in [0 .. size -> Nat], num \in [0 .. size -> Nat] :
        Layout(stream, log, cut, 0, n, size, off, num)
  BY <1>0
<1>2. /\ 1 \in 0 .. size
      /\ off[1] = 4 + FromU32(stream, 1)
      /\ \/ off[1] = 4 /\ num[1] = n
         \/ /\ off[1] > 4 /\ num[1] = n + 1 /\ n + 1 \in 1 .. Len(log)
            /\ off[1] <= Len(stream) => SubSeq(stream, 1, off[1]) = Frame(log[n + 1].message)
  <2>1. Layout(stream, log, cut, 0, n, size, off, num) /\ stream \in Seq(Nat) /\ Len(stream) >= 4
    BY <1>1
  <2>. QED
    BY <2>1, FirstFrame, SMTT(30)
<1>3. off[1] = FrameLength /\ off[1] <= Len(stream) /\ off[1] \in Nat
  BY <1>2 DEF FrameLength
<1>4. OnTheWay(SubSeq(stream, off[1] + 1, Len(stream)), log, cut, 0, num[1])
  BY <1>1, <1>2, <1>3, FramesRead, ZenonT(60)
<1>. QED
  BY <1>2, <1>3, <1>4 DEF Rest

-----------------------------------------------------------------------------
(* What the messages carry *)

\* Two numbers and what follows them.
Numbered(a, b, s) == U32(a) \o U32(b) \o s

LEMMA TwoNumbers ==
  ASSUME NEW a, IsU32(a), NEW b, IsU32(b), NEW s \in Seq(Nat)
  PROVE  /\ Numbered(a, b, s) \in Seq(Nat) /\ Len(Numbered(a, b, s)) = 8 + Len(s)
         /\ FromU32(Numbered(a, b, s), 1) = a /\ FromU32(Numbered(a, b, s), 5) = b
         /\ \A j \in 1 .. Len(s) : Numbered(a, b, s)[8 + j] = s[j]
<1>. DEFINE u == U32(a)
            v == U32(b)
            w == u \o v
            x == w \o s
<1>1. u \in Seq(Nat) /\ Len(u) = 4 /\ v \in Seq(Nat) /\ Len(v) = 4 /\ Len(s) \in Nat
  BY U32Type
<1>. HIDE DEF u, v
<1>2. /\ w \in Seq(Nat) /\ Len(w) = 8
      /\ \A i \in 1 .. 8 : w[i] = IF i <= 4 THEN u[i] ELSE v[i - 4]
  <2>1. /\ w \in Seq(Nat) /\ Len(w) = Len(u) + Len(v)
        /\ \A i \in 1 .. (Len(u) + Len(v)) : w[i] = IF i <= Len(u) THEN u[i] ELSE v[i - Len(u)]
    BY <1>1, ConcatProperties
  <2>. HIDE DEF w
  <2>. QED
    BY <1>1, <2>1
<1>. HIDE DEF w
<1>3. /\ x \in Seq(Nat) /\ Len(x) = 8 + Len(s)
      /\ \A i \in 1 .. (8 + Len(s)) : x[i] = IF i <= 8 THEN w[i] ELSE s[i - 8]
  <2>1. /\ x \in Seq(Nat) /\ Len(x) = Len(w) + Len(s)
        /\ \A i \in 1 .. (Len(w) + Len(s)) : x[i] = IF i <= Len(w) THEN w[i] ELSE s[i - Len(w)]
    BY <1>2, ConcatProperties
  <2>. HIDE DEF x
  <2>. QED
    BY <1>2, <2>1
<1>. HIDE DEF x
<1>4. ASSUME NEW i \in 1 .. 8 PROVE x[i] = IF i <= 4 THEN u[i] ELSE v[i - 4]
  <2>1. i \in 1 .. (8 + Len(s)) /\ i <= 8
    BY <1>1
  <2>2. x[i] = w[i]
    BY <1>3, <2>1
  <2>. QED
    BY <1>2, <2>2
<1>5. x[1] = u[1] /\ x[1 + 1] = u[2] /\ x[1 + 2] = u[3] /\ x[1 + 3] = u[4]
  BY <1>4
<1>6. x[5] = v[1] /\ x[5 + 1] = v[2] /\ x[5 + 2] = v[3] /\ x[5 + 3] = v[4]
  BY <1>4
<1>7. FromU32(x, 1) = a
  BY <1>5, U32Read DEF u
<1>8. FromU32(x, 5) = b
  BY <1>6, U32Read DEF v
<1>9. ASSUME NEW j \in 1 .. Len(s) PROVE x[8 + j] = s[j]
  <2>1. 8 + j \in 1 .. (8 + Len(s)) /\ ~(8 + j <= 8) /\ (8 + j) - 8 = j
    BY <1>1
  <2>. QED
    BY <1>3, <2>1
<1>. QED
  BY <1>3, <1>7, <1>8, <1>9 DEF Numbered, x, w, u, v

\* A request is read as it was made.
LEMMA RequestRead ==
  ASSUME NEW r \in Requests
  PROVE  /\ request_block(r) \in Framed
         /\ request_block(r).kind = "Request"
         /\ PieceRequest(request_block(r)).some
         /\ PieceRequest(request_block(r)).it.piece_index = r.piece_index
         /\ PieceRequest(request_block(r)).it.begin = r.begin
         /\ PieceRequest(request_block(r)).it.length = r.length
<1>. DEFINE p == r.piece_index
            b == r.begin
            l == r.length
            z == U32(l)
            x == Numbered(p, b, z)
            m == request_block(r)
<1>1. IsU32(p) /\ IsU32(b) /\ IsU32(l)
  BY WireAssumption
<1>2. m = [kind |-> "Request", payload |-> x]
  BY DEF request_block, Message, Numbered
<1>3. z \in Seq(Nat) /\ Len(z) = 4
  BY <1>1, U32Type
<1>. HIDE DEF p, b, l, m, z
<1>4. /\ x \in Seq(Nat) /\ Len(x) = 8 + Len(z)
      /\ FromU32(x, 1) = p /\ FromU32(x, 5) = b
      /\ \A j \in 1 .. Len(z) : x[8 + j] = z[j]
  <2>1. IsU32(p) /\ IsU32(b) /\ z \in Seq(Nat)
    BY <1>1, <1>3
  <2>2. /\ Numbered(p, b, z) \in Seq(Nat) /\ Len(Numbered(p, b, z)) = 8 + Len(z)
        /\ FromU32(Numbered(p, b, z), 1) = p /\ FromU32(Numbered(p, b, z), 5) = b
    BY <2>1, TwoNumbers
  <2>3. \A j \in 1 .. Len(z) : Numbered(p, b, z)[8 + j] = z[j]
    BY <2>1, TwoNumbers
  <2>. QED
    BY <2>2, <2>3
<1>. HIDE DEF x
<1>5. FromU32(x, 9) = l
  <2>1. x[8 + 1] = z[1] /\ x[8 + 2] = z[2] /\ x[8 + 3] = z[3] /\ x[8 + 4] = z[4]
    BY <1>3, <1>4
  <2>2. x[9] = z[1] /\ x[9 + 1] = z[2] /\ x[9 + 2] = z[3] /\ x[9 + 3] = z[4]
    BY <2>1
  <2>. QED
    BY <1>1, <2>2, U32Read DEF z
<1>6. Len(x) = 12
  BY <1>3, <1>4
<1>7. m \in Framed
  <2>1. "Request" \in DOMAIN MessageId
    BY DEF MessageId
  <2>2. IsU32(1 + Len(x))
    BY <1>6, SmallU32
  <2>. QED
    BY <1>2, <1>4, <2>1, <2>2 DEF Framed
<1>8. PieceRequest(m) = Some([piece_index |-> p, begin |-> b, length |-> l])
  BY <1>2, <1>4, <1>5, <1>6 DEF PieceRequest
<1>. QED
  BY <1>2, <1>7, <1>8 DEF Some, p, b, l, m

\* The block of an answer is read as it was made.
LEMMA PieceRead ==
  ASSUME NEW p, IsU32(p), NEW b, IsU32(b), NEW data \in Seq(Nat), IsU32(9 + Len(data))
  PROVE  LET m == deserialize(serialize(build_piece_response(p, b, data)))
         IN  /\ m.it = build_piece_response(p, b, data)
             /\ PieceBlock(m.it).it.piece_index = p
             /\ PieceBlock(m.it).it.begin = b
             /\ PieceBlock(m.it).it.data = data
<1>. DEFINE x == Numbered(p, b, data)
            a == build_piece_response(p, b, data)
            n == Len(data)
<1>1. /\ x \in Seq(Nat) /\ Len(x) = 8 + n /\ FromU32(x, 1) = p /\ FromU32(x, 5) = b
      /\ \A j \in 1 .. n : x[8 + j] = data[j]
  <2>. HIDE DEF x, n
  <2>1. /\ Numbered(p, b, data) \in Seq(Nat) /\ Len(Numbered(p, b, data)) = 8 + Len(data)
        /\ FromU32(Numbered(p, b, data), 1) = p /\ FromU32(Numbered(p, b, data), 5) = b
        /\ \A j \in 1 .. Len(data) : Numbered(p, b, data)[8 + j] = data[j]
    BY TwoNumbers, ZenonT(30)
  <2>. QED
    BY <2>1 DEF x, n
<1>2. a = [kind |-> "Piece", payload |-> x]
  BY DEF build_piece_response, Message, Numbered
<1>. HIDE DEF x, a
<1>3. a \in Framed
  <2>1. "Piece" \in DOMAIN MessageId
    BY DEF MessageId
  <2>2. 1 + Len(x) = 9 + Len(data)
    BY <1>1
  <2>3. IsU32(1 + Len(x))
    BY <2>2
  <2>. QED
    BY <1>1, <1>2, <2>1, <2>3 DEF Framed
<1>4. deserialize(serialize(a)).it = a
  BY <1>3, SerializeFacts DEF Some
<1>5. SubSeq(x, 9, Len(x)) = data
  <2>. DEFINE d == SubSeq(x, 9, 8 + n)
  <2>1. n \in Nat /\ n = Len(data)
    OBVIOUS
  <2>. HIDE DEF n
  <2>2. /\ d \in Seq(Nat) /\ Len(d) = n
        /\ \A i \in 1 .. n : d[i] = x[8 + i]
    <3>1. \A i \in 9 .. (8 + n) : x[i] \in Nat
      BY <1>1, <2>1, ElementOfSeq
    <3>2. /\ d \in Seq(Nat)
          /\ Len(d) = IF 9 <= 8 + n THEN (8 + n) - 9 + 1 ELSE 0
          /\ \A i \in 1 .. ((8 + n) - 9 + 1) : d[i] = x[9 + i - 1]
      BY <2>1, <3>1, SubSeqProperties
    <3>. HIDE DEF d
    <3>3. (8 + n) - 9 + 1 = n /\ \A i \in 1 .. n : 9 + i - 1 = 8 + i
      BY <2>1
    <3>. QED
      BY <2>1, <3>2, <3>3
  <2>. HIDE DEF d
  <2>3. d = data
    BY <1>1, <2>1, <2>2, SeqEqual
  <2>. QED
    BY <1>1, <2>3 DEF d
<1>6. PieceBlock(a).it = [piece_index |-> p, begin |-> b, data |-> data]
  <2>1. ~(Len(a.payload) < 8) /\ a.payload = x
    BY <1>1, <1>2
  <2>. QED
    BY <1>1, <1>5, <2>1 DEF PieceBlock, Some
<1>. QED
  BY <1>4, <1>6 DEF a

\* What a handshake says is read from where it says it.
LEMMA HandshakeRead ==
  ASSUME NEW g \in Greetings, NEW h, h = Handshake(g.pstr, g.infohash, g.ext)
  PROVE  /\ h \in Seq(Nat) /\ Len(h) = 68
         /\ Accepts(h) => g.pstr = PSTR /\ g.infohash = Infohash
         /\ (h[26] \div 16) % 2 = 1 <=> g.ext
         /\ g.ext \in BOOLEAN
<1>1. /\ g.pstr = PSTR \/ g.pstr = Repeated(67, 19)
      /\ g.infohash = Infohash \/ g.infohash = OtherInfohash
      /\ g.ext \in BOOLEAN
  BY DEF Greetings
<1>2. /\ \A i \in 1 .. 19 : g.pstr[i] \in Nat
      /\ \A i \in 1 .. 20 : g.infohash[i] \in Nat
  BY <1>1 DEF PSTR, Repeated, Infohash, OtherInfohash
<1>3. /\ DOMAIN h = 1 .. 68
      /\ \A i \in 1 .. 68 : h[i] \in Nat
      /\ h[2] = g.pstr[1] /\ h[48] = g.infohash[20] /\ h[26] = IF g.ext THEN 16 ELSE 0
  <2>1. DOMAIN h = 1 .. 68
    BY DEF Handshake
  <2>2. h[26] = IF g.ext THEN 16 ELSE 0
    BY DEF Handshake
  <2>3. h[2] = g.pstr[1] /\ h[48] = g.infohash[20]
    BY DEF Handshake
  <2>4. ASSUME NEW i \in 1 .. 68 PROVE h[i] \in Nat
    <3>1. CASE i = 1
      BY <3>1 DEF Handshake
    <3>2. CASE i \in 2 .. 20
      <4>1. i - 1 \in 1 .. 19 /\ h[i] = g.pstr[i - 1]
        BY <3>2 DEF Handshake
      <4>. QED
        BY <1>2, <4>1
    <3>3. CASE i \in 21 .. 28
      BY <3>3 DEF Handshake
    <3>4. CASE i \in 29 .. 48
      <4>1. i - 28 \in 1 .. 20 /\ h[i] = g.infohash[i - 28]
        BY <3>4 DEF Handshake
      <4>. QED
        BY <1>2, <4>1
    <3>5. CASE i \in 49 .. 68
      BY <3>5 DEF Handshake
    <3>. QED
      BY <3>1, <3>2, <3>3, <3>4, <3>5
  <2>. QED
    BY <2>1, <2>2, <2>3, <2>4
<1>4. h \in Seq(Nat) /\ Len(h) = 68
  <2>1. h = [i \in 1 .. 68 |-> h[i]]
    BY DEF Handshake
  <2>. QED
    BY <1>3, <2>1
<1>5. ASSUME Accepts(h) PROVE g.pstr = PSTR /\ g.infohash = Infohash
  <2>1. SubSeq(h, 2, 20) = PSTR /\ SubSeq(h, 29, 48) = Infohash
    BY <1>5 DEF Accepts, DeserializeHandshake, Some, None
  <2>2. SubSeq(h, 2, 20)[1] = h[2] /\ SubSeq(h, 29, 48)[20] = h[48]
    BY <1>4
  <2>3. h[2] = 66 /\ h[48] = 1
    BY <2>1, <2>2 DEF PSTR, Infohash, Repeated
  <2>4. Repeated(67, 19)[1] = 67
    BY DEF Repeated
  <2>5. OtherInfohash[20] = 2
    BY DEF OtherInfohash, Infohash, Repeated
  <2>6. g.pstr # Repeated(67, 19)
    <3>. SUFFICES ASSUME g.pstr = Repeated(67, 19) PROVE FALSE
      OBVIOUS
    <3>1. h[2] = 67
      BY <1>3, <2>4
    <3>. QED
      BY <2>3, <3>1
  <2>7. g.infohash # OtherInfohash
    <3>. SUFFICES ASSUME g.infohash = OtherInfohash PROVE FALSE
      OBVIOUS
    <3>1. h[48] = 2
      BY <1>3, <2>5
    <3>. QED
      BY <2>3, <3>1
  <2>. QED
    BY <1>1, <2>6, <2>7
<1>6. (h[26] \div 16) % 2 = 1 <=> g.ext
  BY <1>1, <1>3
<1>. QED
  BY <1>1, <1>4, <1>5, <1>6

-----------------------------------------------------------------------------
(* The inductive invariant *)

\* The pieces that a peer has are had before the entry x of its log, and x.has after.
Logged(had, x) ==
  \/ \E p \in Torrent!Pieces : x.message = Message("Have", U32(p)) /\ x.has = had \cup {p}
  \/ x.message = Message("Bitfield", build_bitfield(had)) /\ x.has = had
  \/ \E r \in Requests : x.message = request_block(r) /\ x.has = had
  \/ x.message \in {Message("Unchoke", <<>>), Unknown} /\ x.has = had

\* A bitfield of this torrent that says exactly the pieces of P.
Exact(bits, P) ==
  /\ bits \in Seq(Byte) /\ Len(bits) = BitfieldLength
  /\ \A p \in Torrent!Pieces : has_piece(bits, p) <=> p \in P

WireTypeOK ==
  /\ greeting \in Greetings
  /\ sent \in Seq(Entry) /\ keepAlives \in Nat /\ peerHas \in SUBSET Torrent!Pieces
  /\ stream \in Seq(Nat) /\ broken \in BOOLEAN
  /\ reader \in {"handshake", "reading", "refused", "error", "eof"}
  /\ extensions \in BOOLEAN
  /\ received \in Seq(Framed)
  /\ bitfield = None \/ \E bits : bitfield = Some(bits)

SentOK ==
  /\ \A i \in 1 .. Len(sent) :
        \E had \in SUBSET Torrent!Pieces :
          Logged(had, sent[i]) /\ (i > 1 => had = sent[i - 1].has)
  /\ Len(sent) > 0 => peerHas = sent[Len(sent)].has

ReceivedOK ==
  /\ Len(received) <= Len(sent)
  /\ \A i \in 1 .. Len(received) : received[i] = sent[i].message

KnownOK ==
  /\ bitfield.some <=> \E i \in 1 .. Len(received) : received[i].kind = "Bitfield"
  /\ bitfield.some => Len(received) > 0 /\ Exact(bitfield.it, sent[Len(received)].has)

GreetedOK ==
  /\ reader \in {"reading", "error", "eof"} =>
        /\ greeting.pstr = PSTR /\ greeting.infohash = Infohash
        /\ extensions = greeting.ext
  /\ reader = "handshake" =>
        At(stream, Handshake(greeting.pstr, greeting.infohash, greeting.ext), 0)

FramesOK ==
  /\ reader = "handshake" => received = <<>> /\ OnTheWay(stream, sent, broken, 68, 0)
  /\ reader = "reading" => OnTheWay(stream, sent, broken, 0, Len(received))
  /\ reader = "error" => /\ Len(received) < Len(sent)
                         /\ sent[Len(received) + 1].message = Unknown
  /\ reader = "eof" => broken

WireInv == WireTypeOK /\ SentOK /\ ReceivedOK /\ KnownOK /\ GreetedOK /\ FramesOK

LEMMA PiecesU32 ==
  /\ Torrent!Pieces \subseteq Nat
  /\ \A p \in Torrent!Pieces : IsU32(p) /\ p \div 8 < BitfieldLength
  /\ IsU32(1 + BitfieldLength) /\ BitfieldLength \in Nat
<1>1. total_pieces \in Nat /\ IsU32(total_pieces)
  BY WireAssumption
<1>2. Torrent!Pieces = 0 .. (total_pieces - 1)
  BY DEF Torrent!Pieces
<1>3. \A p \in Torrent!Pieces : p \in Nat /\ p <= total_pieces
  BY <1>1, <1>2
<1>4. \A p \in Torrent!Pieces : IsU32(p)
  BY <1>1, <1>3, SmallU32
<1>5. IsU32(1 + BitfieldLength) /\ BitfieldLength \in Nat
  BY <1>1, SmallU32 DEF BitfieldLength
<1>6. \A p \in Torrent!Pieces : p \div 8 < BitfieldLength
  BY <1>1, <1>2 DEF BitfieldLength
<1>. QED
  BY <1>3, <1>4, <1>5, <1>6

\* Every message of the log can be framed, and none is taken for another.
LEMMA LoggedMessage ==
  ASSUME NEW had \in SUBSET Torrent!Pieces, NEW x, Logged(had, x)
  PROVE  /\ x.message \in Framed \cup {Unknown}
         /\ x.has \in SUBSET Torrent!Pieces
         /\ x.message.kind = "Bitfield" =>
               x.message.payload = build_bitfield(had) /\ x.has = had
         /\ x.message.kind = "Have" =>
               \E p \in Torrent!Pieces : x.message.payload = U32(p) /\ x.has = had \cup {p}
         /\ x.message.kind \notin {"Bitfield", "Have"} => x.has = had
         /\ x.message.kind = "Request" => \E r \in Requests : x.message = request_block(r)
<1>0. {"Have", "Bitfield", "Request", "Unchoke"} \subseteq DOMAIN MessageId
  BY DEF MessageId
<1>1. CASE \E p \in Torrent!Pieces :
              x.message = Message("Have", U32(p)) /\ x.has = had \cup {p}
  <2>1. PICK p \in Torrent!Pieces :
           x.message = [kind |-> "Have", payload |-> U32(p)] /\ x.has = had \cup {p}
    BY <1>1 DEF Message
  <2>2. U32(p) \in Seq(Nat) /\ Len(U32(p)) = 4 /\ 1 + 4 = 5
    BY PiecesU32, U32Type
  <2>3. x.message.payload = U32(p)
    BY <2>1
  <2>4. IsU32(1 + Len(x.message.payload))
    <3>1. 1 + Len(x.message.payload) = 5
      BY <2>2, <2>3
    <3>. QED
      BY <3>1, SmallU32
  <2>5. x.message \in Framed
    BY <1>0, <2>1, <2>2, <2>4 DEF Framed
  <2>. QED
    BY <2>1, <2>5
<1>2. CASE x.message = Message("Bitfield", build_bitfield(had)) /\ x.has = had
  <2>1. /\ build_bitfield(had) \in Seq(Byte) /\ Len(build_bitfield(had)) = BitfieldLength
        /\ Byte \subseteq Nat
    BY BuildBitfield DEF Byte
  <2>2. build_bitfield(had) \in Seq(Nat)
    BY <2>1, SeqMonotonic
  <2>3. x.message = [kind |-> "Bitfield", payload |-> build_bitfield(had)]
    BY <1>2 DEF Message
  <2>4. x.message \in Framed
    BY <1>0, <2>1, <2>2, <2>3, PiecesU32 DEF Framed
  <2>. QED
    BY <1>2, <2>3, <2>4
<1>3. CASE \E r \in Requests : x.message = request_block(r) /\ x.has = had
  <2>1. PICK r \in Requests : x.message = request_block(r) /\ x.has = had
    BY <1>3
  <2>. QED
    BY <2>1, RequestRead
<1>4. CASE x.message \in {Message("Unchoke", <<>>), Unknown} /\ x.has = had
  <2>1. Message("Unchoke", <<>>) \in Framed /\ Message("Unchoke", <<>>).kind = "Unchoke"
    BY <1>0, SmallU32 DEF Framed, Message
  <2>2. Unknown.kind = "unknown"
    BY DEF Unknown, Message
  <2>. QED
    BY <1>4, <2>1, <2>2
<1>. QED
  BY <1>1, <1>2, <1>3, <1>4 DEF Logged

\* What process_message makes of a Have and of a Bitfield.
LEMMA LearnedFacts ==
  ASSUME NEW had \in SUBSET Torrent!Pieces, NEW x, Logged(had, x), x.message # Unknown,
         bitfield = None \/ \E bits : bitfield = Some(bits),
         bitfield.some => Exact(bitfield.it, had)
  PROVE  /\ Learned(x.message) = None \/ \E bits : Learned(x.message) = Some(bits)
         /\ Learned(x.message).some <=> bitfield.some \/ x.message.kind = "Bitfield"
         /\ Learned(x.message).some => Exact(Learned(x.message).it, x.has)
<1>. DEFINE m == x.message
<1>0. /\ \A bits : Some(bits).some /\ Some(bits).it = bits
      /\ ~None.some
  BY DEF Some, None
<1>1. CASE m.kind = "Bitfield"
  <2>1. m.payload = build_bitfield(had) /\ x.has = had
    BY <1>1, LoggedMessage
  <2>2. Exact(build_bitfield(had), had)
    BY BuildBitfield DEF Exact
  <2>3. Learned(m) = Some(m.payload)
    BY <1>1 DEF Learned
  <2>. QED
    BY <1>0, <1>1, <2>1, <2>2, <2>3
<1>2. CASE m.kind = "Have" /\ bitfield.some
  <2>1. PICK p \in Torrent!Pieces : m.payload = U32(p) /\ x.has = had \cup {p}
    BY <1>2, LoggedMessage
  <2>. DEFINE bits == bitfield.it
  <2>2. IsU32(p) /\ p \in Nat /\ p \div 8 < BitfieldLength
    BY PiecesU32
  <2>3. /\ bits \in Seq(Byte) /\ Len(bits) = BitfieldLength
        /\ \A q \in Torrent!Pieces : q \in Nat /\ (has_piece(bits, q) <=> q \in had)
    BY <1>2, PiecesU32 DEF Exact
  <2>. HIDE DEF bits
  <2>4. Len(m.payload) = 4 /\ FromU32(m.payload, 1) = p
    <3>1. Len(U32(p)) = 4
      BY <2>2, U32Type
    <3>2. /\ m.payload[1] = U32(p)[1] /\ m.payload[1 + 1] = U32(p)[2]
          /\ m.payload[1 + 2] = U32(p)[3] /\ m.payload[1 + 3] = U32(p)[4]
      BY <2>1
    <3>3. FromU32(m.payload, 1) = p
      BY <2>2, <3>2, U32Read
    <3>. QED
      BY <2>1, <3>1, <3>3
  <2>5. Learned(m) = Some(set_piece(bits, p))
    BY <1>2, <2>4 DEF Learned, bits
  <2>6. /\ set_piece(bits, p) \in Seq(Byte) /\ Len(set_piece(bits, p)) = BitfieldLength
        /\ \A q \in Nat : has_piece(set_piece(bits, p), q) <=> has_piece(bits, q) \/ q = p
    BY <2>2, <2>3, SetPiece
  <2>7. Exact(set_piece(bits, p), x.has)
    BY <2>1, <2>3, <2>6 DEF Exact
  <2>. QED
    BY <1>0, <1>2, <2>5, <2>7
<1>3. CASE m.kind = "Have" /\ ~bitfield.some
  <2>1. Learned(m) = bitfield
    BY <1>3 DEF Learned
  <2>. QED
    BY <1>3, <2>1
<1>4. CASE m.kind \notin {"Bitfield", "Have"}
  <2>1. Learned(m) = bitfield /\ x.has = had
    BY <1>4, LoggedMessage DEF Learned
  <2>. QED
    BY <1>4, <2>1
<1>. QED
  BY <1>1, <1>2, <1>3, <1>4

LEMMA WholeStream ==
  ASSUME NEW bytes \in Seq(Nat), NEW log, NEW base \in Nat, NEW n,
         OnTheWay(bytes, log, FALSE, base, n)
  PROVE  Len(bytes) >= base
<1>0. PICK size \in Nat : \E off, num \in [0 .. size -> Nat] :
        Layout(bytes, log, FALSE, base, n, size, off, num)
  BY DEF OnTheWay
<1>1. PICK off \in [0 .. size -> Nat], num \in [0 .. size -> Nat] :
        Layout(bytes, log, FALSE, base, n, size, off, num)
  BY <1>0
<1>2. 0 \in 0 .. size /\ size \in 0 .. size
  OBVIOUS
<1>3. off[0] = base /\ off[0] <= off[size] /\ Len(bytes) = off[size] /\ off[size] \in Nat
  BY <1>1, <1>2 DEF Layout
<1>. QED
  BY <1>3

LEMMA InitInv == WireInit => WireInv
<1>. SUFFICES ASSUME WireInit PROVE WireInv
  OBVIOUS
<1>. DEFINE h == Handshake(greeting.pstr, greeting.infohash, greeting.ext)
<1>1. /\ greeting \in Greetings /\ extensions = FALSE /\ sent = <<>> /\ keepAlives = 0
      /\ peerHas \in {{}, Had} /\ stream = h /\ broken = FALSE /\ reader = "handshake"
      /\ received = <<>> /\ bitfield = None
  BY DEF WireInit
<1>2. h \in Seq(Nat) /\ Len(h) = 68
  BY <1>1, HandshakeRead
<1>. HIDE DEF h
<1>3. Had \subseteq Torrent!Pieces
  BY WireAssumption DEF Torrent!Pieces
<1>4. WireTypeOK
  <2>1. /\ greeting \in Greetings /\ keepAlives \in Nat /\ broken \in BOOLEAN
        /\ reader \in {"handshake", "reading", "refused", "error", "eof"}
        /\ extensions \in BOOLEAN /\ bitfield = None
    BY <1>1
  <2>2. sent \in Seq(Entry) /\ received \in Seq(Framed)
    BY <1>1, EmptySeq
  <2>3. stream \in Seq(Nat)
    BY <1>1, <1>2
  <2>4. peerHas \in SUBSET Torrent!Pieces
    BY <1>1, <1>3
  <2>. QED
    BY <2>1, <2>2, <2>3, <2>4 DEF WireTypeOK
<1>5. SentOK /\ ReceivedOK
  BY <1>1 DEF SentOK, ReceivedOK
<1>6. KnownOK
  <2>1. ~bitfield.some /\ Len(received) = 0
    BY <1>1 DEF None
  <2>. QED
    BY <2>1 DEF KnownOK
<1>7. GreetedOK
  <2>1. At(stream, h, 0)
    BY <1>1, <1>2 DEF At
  <2>. QED
    BY <1>1, <2>1 DEF GreetedOK, h
<1>8. FramesOK
  <2>1. OnTheWay(h, <<>>, FALSE, Len(h), 0)
    BY <1>2, NothingOnTheWay
  <2>2. OnTheWay(stream, sent, broken, 68, 0)
    BY <1>1, <1>2, <2>1
  <2>. QED
    BY <1>1, <2>2 DEF FramesOK
<1>. QED
  BY <1>4, <1>5, <1>6, <1>7, <1>8 DEF WireInv

LEMMA Parts ==
  ASSUME NEW bytes \in Seq(Nat), NEW k \in Nat, k <= Len(bytes)
  PROVE  /\ SubSeq(bytes, 1, k) \in Seq(Nat) /\ Len(SubSeq(bytes, 1, k)) = k
         /\ \A j \in 1 .. k : SubSeq(bytes, 1, k)[j] = bytes[j]
         /\ SubSeq(bytes, k + 1, Len(bytes)) \in Seq(Nat)
  OBVIOUS

-----------------------------------------------------------------------------
(* The steps *)

\* A message added to the log, and its frame to the stream.
LEMMA SendStep ==
  ASSUME WireInv, NEW m, NEW has, Send(m, has), Logged(peerHas, [message |-> m, has |-> has])
  PROVE  WireInv'
<1>. DEFINE e == [message |-> m, has |-> has]
            h == Handshake(greeting.pstr, greeting.infohash, greeting.ext)
<1>1. WireTypeOK /\ SentOK /\ ReceivedOK /\ KnownOK /\ GreetedOK /\ FramesOK
  BY DEF WireInv
<1>2. /\ sent' = Append(sent, e) /\ peerHas' = has /\ stream' = stream \o Frame(m)
      /\ greeting' = greeting /\ keepAlives' = keepAlives /\ broken' = broken
      /\ reader' = reader /\ extensions' = extensions /\ received' = received
      /\ bitfield' = bitfield /\ ~broken /\ reader \in {"handshake", "reading"}
  BY DEF Send, MaySend
<1>3. /\ greeting \in Greetings
      /\ sent \in Seq(Entry) /\ keepAlives \in Nat /\ peerHas \in SUBSET Torrent!Pieces
      /\ stream \in Seq(Nat) /\ broken \in BOOLEAN /\ extensions \in BOOLEAN
      /\ received \in Seq(Framed) /\ (bitfield = None \/ \E bits : bitfield = Some(bits))
  BY <1>1 DEF WireTypeOK
<1>4. e.message = m /\ e.has = has /\ Logged(peerHas, e)
  OBVIOUS
<1>. HIDE DEF e
<1>5. m \in Framed \cup {Unknown} /\ has \in SUBSET Torrent!Pieces
  BY <1>3, <1>4, LoggedMessage
<1>6. e \in Entry
  BY <1>5 DEF Entry, e
<1>7. /\ Len(sent) \in Nat /\ sent' \in Seq(Entry) /\ Len(sent') = Len(sent) + 1
      /\ \A i \in 1 .. Len(sent) : sent'[i] = sent[i]
      /\ sent'[Len(sent) + 1] = e
  BY <1>2, <1>3, <1>6
<1>8. Frame(m) \in Seq(Nat)
  BY <1>5, FrameFacts
<1>9. /\ stream' \in Seq(Nat) /\ Len(stream) \in Nat /\ Len(stream') >= Len(stream)
      /\ \A i \in 1 .. Len(stream) : stream'[i] = stream[i]
  <2>1. /\ stream' \in Seq(Nat) /\ Len(stream') = Len(stream) + Len(Frame(m))
        /\ \A i \in 1 .. Len(stream) : stream'[i] = stream[i]
    BY <1>2, <1>3, <1>8, ConcatProperties
  <2>2. Len(stream) \in Nat /\ Len(Frame(m)) \in Nat
    BY <1>3, <1>8
  <2>. QED
    BY <2>1, <2>2
<1>10. WireTypeOK'
  BY <1>1, <1>2, <1>3, <1>5, <1>7, <1>9 DEF WireTypeOK
<1>11. SentOK'
  <2>1. ASSUME NEW i \in 1 .. Len(sent')
        PROVE  \E had \in SUBSET Torrent!Pieces :
                 Logged(had, sent'[i]) /\ (i > 1 => had = sent'[i - 1].has)
    <3>1. CASE i \in 1 .. Len(sent)
      <4>1. PICK had \in SUBSET Torrent!Pieces :
              Logged(had, sent[i]) /\ (i > 1 => had = sent[i - 1].has)
        BY <1>1, <3>1 DEF SentOK
      <4>2. sent'[i] = sent[i] /\ (i > 1 => sent'[i - 1] = sent[i - 1])
        BY <1>7, <3>1
      <4>. QED
        BY <4>1, <4>2
    <3>2. CASE i = Len(sent) + 1
      <4>1. Logged(peerHas, sent'[i])
        BY <1>4, <1>7, <3>2
      <4>2. ASSUME i > 1 PROVE peerHas = sent'[i - 1].has
        <5>1. i - 1 = Len(sent) /\ Len(sent) \in 1 .. Len(sent) /\ Len(sent) > 0
          BY <1>7, <3>2, <4>2
        <5>. QED
          BY <1>1, <1>7, <5>1 DEF SentOK
      <4>. QED
        BY <1>3, <4>1, <4>2
    <3>. QED
      BY <1>7, <3>1, <3>2
  <2>2. peerHas' = sent'[Len(sent')].has
    BY <1>2, <1>4, <1>7
  <2>. QED
    BY <2>1, <2>2 DEF SentOK
<1>12. Len(received) \in Nat /\ Len(received) <= Len(sent)
  BY <1>1, <1>3 DEF ReceivedOK
<1>13. ReceivedOK'
  <2>1. \A i \in 1 .. Len(received) : i \in 1 .. Len(sent) /\ received[i] = sent[i].message
    BY <1>1, <1>7, <1>12 DEF ReceivedOK
  <2>. QED
    BY <1>2, <1>7, <1>12, <2>1 DEF ReceivedOK
<1>14. KnownOK'
  <2>1. Len(received) > 0 => sent'[Len(received)] = sent[Len(received)]
    BY <1>7, <1>12
  <2>. QED
    BY <1>1, <1>2, <2>1 DEF KnownOK
<1>15. GreetedOK'
  <2>1. ASSUME reader = "handshake" PROVE At(stream', h, 0)
    <3>1. h \in Seq(Nat) /\ Len(h) = 68
      BY <1>3, HandshakeRead
    <3>2. At(stream, h, 0) /\ OnTheWay(stream, sent, FALSE, 68, 0)
      BY <1>1, <1>2, <1>3, <2>1 DEF GreetedOK, FramesOK
    <3>. HIDE DEF h
    <3>3. Len(stream) >= 68
      BY <1>3, <3>2, WholeStream
    <3>4. ASSUME NEW j \in 1 .. Len(h) PROVE stream'[0 + j] = h[j]
      <4>1. j \in 1 .. Len(stream) /\ 0 + j = j /\ 0 + j <= Len(stream)
        BY <1>9, <3>1, <3>3
      <4>. QED
        BY <1>9, <3>2, <4>1 DEF At
    <3>. QED
      BY <3>4 DEF At
  <2>. QED
    BY <1>1, <1>2, <2>1 DEF GreetedOK
<1>16. ASSUME NEW base, NEW n, OnTheWay(stream, sent, FALSE, base, n)
       PROVE  OnTheWay(stream', sent', FALSE, base, n)
  <2>1. \A i \in 1 .. Len(sent) : i <= Len(sent') /\ sent'[i] = sent[i]
    BY <1>7
  <2>2. Len(sent') = Len(sent) + 1 /\ Frame(m) = Frame(sent'[Len(sent')].message)
    BY <1>4, <1>7
  <2>3. OnTheWay(stream \o Frame(m), sent', FALSE, base, n)
    BY <1>3, <1>7, <1>8, <1>16, <2>1, <2>2, FrameAdded
  <2>. QED
    BY <1>2, <2>3
<1>17. FramesOK'
  <2>1. broken = FALSE
    BY <1>2, <1>3
  <2>2. /\ reader = "handshake" => received = <<>> /\ OnTheWay(stream, sent, FALSE, 68, 0)
        /\ reader = "reading" => OnTheWay(stream, sent, FALSE, 0, Len(received))
    BY <1>1, <2>1 DEF FramesOK
  <2>3. /\ reader = "handshake" => OnTheWay(stream', sent', FALSE, 68, 0)
        /\ reader = "reading" => OnTheWay(stream', sent', FALSE, 0, Len(received))
    BY <1>16, <2>2
  <2>. QED
    BY <1>2, <2>1, <2>2, <2>3 DEF FramesOK
<1>. QED
  BY <1>10, <1>11, <1>13, <1>14, <1>15, <1>17 DEF WireInv

LEMMA SendHaveStep ==
  ASSUME WireInv, SendHave
  PROVE  WireInv'
<1>1. PICK p \in News : Send(Message("Have", U32(p)), peerHas \cup {p})
  BY DEF SendHave
<1>2. p \in Torrent!Pieces
  BY WireAssumption DEF Torrent!Pieces
<1>3. Logged(peerHas, [message |-> Message("Have", U32(p)), has |-> peerHas \cup {p}])
  BY <1>2 DEF Logged
<1>. QED
  BY <1>1, <1>3, SendStep

LEMMA SendBitfieldStep ==
  ASSUME WireInv, SendBitfield
  PROVE  WireInv'
<1>1. Logged(peerHas, [message |-> Message("Bitfield", build_bitfield(peerHas)),
                       has |-> peerHas])
  BY DEF Logged
<1>. QED
  BY <1>1, SendStep DEF SendBitfield

LEMMA SendRequestStep ==
  ASSUME WireInv, SendRequest
  PROVE  WireInv'
<1>1. PICK r \in Requests : Send(request_block(r), peerHas)
  BY DEF SendRequest
<1>2. Logged(peerHas, [message |-> request_block(r), has |-> peerHas])
  BY DEF Logged
<1>. QED
  BY <1>1, <1>2, SendStep

LEMMA SendOtherStep ==
  ASSUME WireInv, SendOther
  PROVE  WireInv'
<1>1. PICK m \in {Message("Unchoke", <<>>), Unknown} : Send(m, peerHas)
  BY DEF SendOther
<1>2. Logged(peerHas, [message |-> m, has |-> peerHas])
  BY <1>1 DEF Logged
<1>. QED
  BY <1>1, <1>2, SendStep

\* A keep-alive lengthens the stream and not the log.
LEMMA KeepAliveStep ==
  ASSUME WireInv, SendKeepAlive
  PROVE  WireInv'
<1>. DEFINE h == Handshake(greeting.pstr, greeting.infohash, greeting.ext)
<1>1. WireTypeOK /\ SentOK /\ ReceivedOK /\ KnownOK /\ GreetedOK /\ FramesOK
  BY DEF WireInv
<1>2. /\ sent' = sent /\ peerHas' = peerHas /\ stream' = stream \o KeepAlive
      /\ greeting' = greeting /\ keepAlives' = keepAlives + 1 /\ broken' = broken
      /\ reader' = reader /\ extensions' = extensions /\ received' = received
      /\ bitfield' = bitfield /\ ~broken
  BY DEF SendKeepAlive, MaySend
<1>3. /\ greeting \in Greetings /\ sent \in Seq(Entry) /\ keepAlives \in Nat
      /\ stream \in Seq(Nat) /\ broken \in BOOLEAN
  BY <1>1 DEF WireTypeOK
<1>4. KeepAlive \in Seq(Nat) /\ Len(KeepAlive) = 4
  BY KeepAliveFrame
<1>5. /\ stream' \in Seq(Nat) /\ Len(stream) \in Nat
      /\ \A i \in 1 .. Len(stream) : stream'[i] = stream[i]
  BY <1>2, <1>3, <1>4, ConcatProperties
<1>6. WireTypeOK'
  BY <1>1, <1>2, <1>3, <1>5 DEF WireTypeOK
<1>7. SentOK' /\ ReceivedOK' /\ KnownOK'
  BY <1>1, <1>2 DEF SentOK, ReceivedOK, KnownOK
<1>8. GreetedOK'
  <2>1. ASSUME reader = "handshake" PROVE At(stream', h, 0)
    <3>1. h \in Seq(Nat) /\ Len(h) = 68
      BY <1>3, HandshakeRead
    <3>2. At(stream, h, 0) /\ OnTheWay(stream, sent, FALSE, 68, 0)
      BY <1>1, <1>2, <1>3, <2>1 DEF GreetedOK, FramesOK
    <3>. HIDE DEF h
    <3>3. Len(stream) >= 68
      BY <1>3, <3>2, WholeStream
    <3>4. ASSUME NEW j \in 1 .. Len(h) PROVE stream'[0 + j] = h[j]
      <4>1. j \in 1 .. Len(stream) /\ 0 + j = j /\ 0 + j <= Len(stream)
        BY <1>5, <3>1, <3>3
      <4>. QED
        BY <1>5, <3>2, <4>1 DEF At
    <3>. QED
      BY <3>4 DEF At
  <2>. QED
    BY <1>1, <1>2, <2>1 DEF GreetedOK
<1>9. ASSUME NEW base, NEW n, OnTheWay(stream, sent, FALSE, base, n)
      PROVE  OnTheWay(stream', sent', FALSE, base, n)
  <2>1. \A i \in 1 .. Len(sent) : i <= Len(sent) /\ sent[i] = sent[i]
    BY <1>3
  <2>2. OnTheWay(stream \o KeepAlive, sent, FALSE, base, n)
    BY <1>3, <1>4, <1>9, <2>1, FrameAdded
  <2>. QED
    BY <1>2, <2>2
<1>10. FramesOK'
  <2>1. broken = FALSE
    BY <1>2, <1>3
  <2>2. /\ reader = "handshake" => received = <<>> /\ OnTheWay(stream, sent, FALSE, 68, 0)
        /\ reader = "reading" => OnTheWay(stream, sent, FALSE, 0, Len(received))
    BY <1>1, <2>1 DEF FramesOK
  <2>3. /\ reader = "handshake" => OnTheWay(stream', sent', FALSE, 68, 0)
        /\ reader = "reading" => OnTheWay(stream', sent', FALSE, 0, Len(received))
    BY <1>9, <2>2
  <2>. QED
    BY <1>1, <1>2, <2>1, <2>2, <2>3 DEF FramesOK
<1>. QED
  BY <1>6, <1>7, <1>8, <1>10 DEF WireInv

\* The stream breaks at any byte.
LEMMA BreakStep ==
  ASSUME WireInv, Break
  PROVE  WireInv'
<1>. DEFINE h == Handshake(greeting.pstr, greeting.infohash, greeting.ext)
<1>1. WireTypeOK /\ SentOK /\ ReceivedOK /\ KnownOK /\ GreetedOK /\ FramesOK
  BY DEF WireInv
<1>2. PICK k \in 0 .. Len(stream) : stream' = SubSeq(stream, 1, k)
  BY DEF Break
<1>3. /\ sent' = sent /\ peerHas' = peerHas /\ greeting' = greeting
      /\ keepAlives' = keepAlives /\ broken' = TRUE /\ reader' = reader
      /\ extensions' = extensions /\ received' = received /\ bitfield' = bitfield
      /\ reader \in {"handshake", "reading"}
  BY DEF Break
<1>4. /\ greeting \in Greetings /\ sent \in Seq(Entry)
      /\ stream \in Seq(Nat) /\ broken \in BOOLEAN
  BY <1>1 DEF WireTypeOK
<1>5. /\ Len(stream) \in Nat /\ k \in Nat /\ k <= Len(stream)
      /\ stream' \in Seq(Nat) /\ Len(stream') = k
      /\ \A i \in 1 .. k : stream'[i] = stream[i]
  BY <1>2, <1>4
<1>6. WireTypeOK'
  BY <1>1, <1>3, <1>5 DEF WireTypeOK
<1>7. SentOK' /\ ReceivedOK' /\ KnownOK'
  BY <1>1, <1>3 DEF SentOK, ReceivedOK, KnownOK
<1>8. GreetedOK'
  <2>1. ASSUME reader = "handshake" PROVE At(stream', h, 0)
    <3>1. h \in Seq(Nat) /\ Len(h) = 68
      BY <1>4, HandshakeRead
    <3>2. At(stream, h, 0)
      BY <1>1, <2>1 DEF GreetedOK
    <3>. HIDE DEF h
    <3>3. ASSUME NEW j \in 1 .. Len(h), 0 + j <= Len(stream') PROVE stream'[0 + j] = h[j]
      <4>1. j \in Nat /\ j >= 1 /\ 0 + j = j
        BY <3>1
      <4>2. j <= k
        BY <1>5, <3>3, <4>1
      <4>3. j \in 1 .. k /\ 0 + j <= Len(stream)
        BY <1>5, <4>1, <4>2
      <4>. QED
        BY <1>5, <3>2, <4>1, <4>3 DEF At
    <3>. QED
      BY <3>3 DEF At
  <2>. QED
    BY <1>1, <1>3, <2>1 DEF GreetedOK
<1>9. ASSUME NEW base, NEW n, OnTheWay(stream, sent, broken, base, n)
      PROVE  OnTheWay(stream', sent', TRUE, base, n)
  <2>1. OnTheWay(SubSeq(stream, 1, k), sent, TRUE, base, n)
    BY <1>4, <1>9, StreamCut
  <2>. QED
    BY <1>2, <1>3, <2>1
<1>10. FramesOK'
  <2>1. /\ reader = "handshake" => received = <<>> /\ OnTheWay(stream', sent', TRUE, 68, 0)
        /\ reader = "reading" => OnTheWay(stream', sent', TRUE, 0, Len(received))
    BY <1>1, <1>9 DEF FramesOK
  <2>. QED
    BY <1>3, <2>1 DEF FramesOK
<1>. QED
  BY <1>6, <1>7, <1>8, <1>10 DEF WireInv

\* The handshake read: the frames start behind it, and none is read yet.
LEMMA ReadHandshakeStep ==
  ASSUME WireInv, ReadHandshake
  PROVE  WireInv'
<1>. DEFINE h == Handshake(greeting.pstr, greeting.infohash, greeting.ext)
            front == SubSeq(stream, 1, 68)
<1>1. WireTypeOK /\ SentOK /\ ReceivedOK /\ KnownOK /\ GreetedOK /\ FramesOK
  BY DEF WireInv
<1>2. /\ sent' = sent /\ peerHas' = peerHas /\ greeting' = greeting
      /\ keepAlives' = keepAlives /\ broken' = broken
      /\ received' = received /\ bitfield' = bitfield /\ reader = "handshake"
  BY DEF ReadHandshake
<1>3. /\ greeting \in Greetings /\ sent \in Seq(Entry)
      /\ stream \in Seq(Nat) /\ broken \in BOOLEAN /\ Len(stream) \in Nat
  BY <1>1 DEF WireTypeOK
<1>4. SentOK' /\ ReceivedOK' /\ KnownOK'
  BY <1>1, <1>2 DEF SentOK, ReceivedOK, KnownOK
<1>5. CASE Len(stream) >= 68 /\ Accepts(front)
  <2>1. /\ reader' = "reading" /\ extensions' = ((stream[26] \div 16) % 2 = 1)
        /\ stream' = SubSeq(stream, 69, Len(stream))
    BY <1>5 DEF ReadHandshake
  <2>2. h \in Seq(Nat) /\ Len(h) = 68
    BY <1>3, HandshakeRead
  <2>3. At(stream, h, 0) /\ received = <<>> /\ OnTheWay(stream, sent, broken, 68, 0)
    BY <1>1, <1>2 DEF GreetedOK, FramesOK
  <2>4. h = h /\ (Accepts(h) => greeting.pstr = PSTR /\ greeting.infohash = Infohash)
        /\ ((h[26] \div 16) % 2 = 1 <=> greeting.ext) /\ greeting.ext \in BOOLEAN
    BY <1>3, HandshakeRead
  <2>. HIDE DEF h
  <2>5. \A j \in 1 .. 68 : stream[j] = h[j]
    <3>. TAKE j \in 1 .. 68
    <3>1. j \in 1 .. Len(h) /\ 0 + j = j /\ 0 + j <= Len(stream)
      BY <1>3, <1>5, <2>2
    <3>. QED
      BY <2>3, <3>1 DEF At
  <2>6. 68 \in Nat /\ 68 <= Len(stream) /\ 68 + 1 = 69
    BY <1>3, <1>5
  <2>7. front = h
    <3>. DEFINE k == 68
    <3>0. k \in Nat /\ k <= Len(stream) /\ k = 68
      BY <2>6
    <3>. HIDE DEF k
    <3>1. front \in Seq(Nat) /\ Len(front) = k /\ \A j \in 1 .. k : front[j] = stream[j]
      BY <1>3, <3>0, Parts
    <3>. HIDE DEF front
    <3>2. Len(front) = Len(h) /\ \A j \in 1 .. Len(front) : front[j] = h[j]
      BY <2>2, <2>5, <3>0, <3>1
    <3>. QED
      BY <2>2, <3>1, <3>2, SeqEqual
  <2>8. /\ greeting.pstr = PSTR /\ greeting.infohash = Infohash
        /\ extensions' = greeting.ext /\ extensions' \in BOOLEAN
    <3>1. greeting.pstr = PSTR /\ greeting.infohash = Infohash
      BY <1>5, <2>4, <2>7
    <3>2. stream[26] = h[26]
      BY <2>5
    <3>3. extensions' = greeting.ext
      BY <2>1, <2>4, <3>2
    <3>. QED
      BY <2>4, <3>1, <3>3
  <2>9. OnTheWay(stream', sent, broken, 0, 0)
    <3>0. PICK size \in Nat : \E off, num \in [0 .. size -> Nat] :
            Layout(stream, sent, broken, 68, 0, size, off, num)
      BY <2>3 DEF OnTheWay
    <3>1. PICK off \in [0 .. size -> Nat], num \in [0 .. size -> Nat] :
            Layout(stream, sent, broken, 68, 0, size, off, num)
      BY <3>0
    <3>2. off[0] = 68 /\ num[0] = 0 /\ 0 \in 0 .. size /\ off[0] <= Len(stream)
      BY <1>5, <3>1 DEF Layout
    <3>3. OnTheWay(SubSeq(stream, off[0] + 1, Len(stream)), sent, broken, 0, num[0])
      BY <1>3, <3>1, <3>2, FramesRead, ZenonT(60)
    <3>4. off[0] + 1 = 69
      BY <3>2
    <3>. QED
      BY <2>1, <3>2, <3>3, <3>4
  <2>10. stream' \in Seq(Nat)
    <3>1. SubSeq(stream, 68 + 1, Len(stream)) \in Seq(Nat)
      BY <1>3, <2>6, Parts
    <3>. QED
      BY <2>1, <2>6, <3>1
  <2>11. WireTypeOK'
    BY <1>1, <1>2, <2>1, <2>8, <2>10 DEF WireTypeOK
  <2>12. GreetedOK'
    BY <1>2, <2>1, <2>8 DEF GreetedOK
  <2>13. FramesOK'
    <3>1. Len(received) = 0
      BY <2>3
    <3>. QED
      BY <1>2, <2>1, <2>9, <3>1 DEF FramesOK
  <2>. QED
    BY <1>4, <2>11, <2>12, <2>13 DEF WireInv
<1>6. CASE ~(Len(stream) >= 68 /\ Accepts(front))
  <2>1. reader' = "refused" /\ stream' = <<>> /\ extensions' = extensions
    BY <1>6 DEF ReadHandshake
  <2>2. stream' \in Seq(Nat)
    BY <2>1, EmptySeq
  <2>3. WireTypeOK'
    BY <1>1, <1>2, <2>1, <2>2 DEF WireTypeOK
  <2>4. GreetedOK' /\ FramesOK'
    BY <2>1 DEF GreetedOK, FramesOK
  <2>. QED
    BY <1>4, <2>3, <2>4 DEF WireInv
<1>. QED
  BY <1>5, <1>6

\* A keep-alive read is the first frame, and no message.
LEMMA SkipStep ==
  ASSUME WireInv, SkipKeepAlive
  PROVE  WireInv'
<1>1. WireTypeOK /\ SentOK /\ ReceivedOK /\ KnownOK /\ GreetedOK /\ FramesOK
  BY DEF WireInv
<1>2. /\ sent' = sent /\ peerHas' = peerHas /\ greeting' = greeting
      /\ keepAlives' = keepAlives /\ broken' = broken /\ reader' = reader
      /\ extensions' = extensions /\ received' = received /\ bitfield' = bitfield
      /\ reader = "reading" /\ Len(stream) >= 4 /\ Len(stream) >= FrameLength
      /\ FrameLength = 4 /\ stream' = SubSeq(stream, FrameLength + 1, Len(stream))
  BY DEF SkipKeepAlive, Complete, Rest
<1>3. /\ sent \in Seq(Entry) /\ stream \in Seq(Nat) /\ broken \in BOOLEAN
      /\ Len(stream) \in Nat /\ received \in Seq(Framed) /\ Len(received) \in Nat
  BY <1>1 DEF WireTypeOK
<1>4. OnTheWay(stream, sent, broken, 0, Len(received))
  BY <1>1, <1>2 DEF FramesOK
<1>5. OnTheWay(stream', sent, broken, 0, Len(received))
  <2>1. \/ OnTheWay(Rest, sent, broken, 0, Len(received))
        \/ FrameLength > 4
    BY <1>2, <1>3, <1>4, NextFrame
  <2>. QED
    BY <1>2, <2>1 DEF Rest
<1>6. stream' \in Seq(Nat)
  BY <1>2, <1>3
<1>7. WireTypeOK'
  BY <1>1, <1>2, <1>6 DEF WireTypeOK
<1>8. SentOK' /\ ReceivedOK' /\ KnownOK' /\ GreetedOK'
  BY <1>1, <1>2 DEF SentOK, ReceivedOK, KnownOK, GreetedOK
<1>9. FramesOK'
  BY <1>2, <1>5 DEF FramesOK
<1>. QED
  BY <1>7, <1>8, <1>9 DEF WireInv

\* The end of the stream read.
LEMMA EndStep ==
  ASSUME WireInv, ReadEnd
  PROVE  WireInv'
<1>1. WireTypeOK /\ SentOK /\ ReceivedOK /\ KnownOK /\ GreetedOK /\ FramesOK
  BY DEF WireInv
<1>2. /\ sent' = sent /\ peerHas' = peerHas /\ greeting' = greeting
      /\ keepAlives' = keepAlives /\ broken' = broken /\ reader' = "eof"
      /\ extensions' = extensions /\ received' = received /\ bitfield' = bitfield
      /\ reader = "reading" /\ broken /\ stream' = <<>>
  BY DEF ReadEnd
<1>3. stream' \in Seq(Nat)
  BY <1>2, EmptySeq
<1>4. WireTypeOK'
  BY <1>1, <1>2, <1>3 DEF WireTypeOK
<1>5. SentOK' /\ ReceivedOK' /\ KnownOK' /\ GreetedOK'
  BY <1>1, <1>2 DEF SentOK, ReceivedOK, KnownOK, GreetedOK
<1>6. FramesOK'
  BY <1>2 DEF FramesOK
<1>. QED
  BY <1>4, <1>5, <1>6 DEF WireInv

\* A message read is the next of the log, or one that ends the reading.
LEMMA ReadMessageStep ==
  ASSUME WireInv, ReadMessage
  PROVE  WireInv'
<1>. DEFINE n == Len(received)
            x == sent[n + 1]
            d == deserialize(SubSeq(stream, 1, FrameLength))
<1>1. WireTypeOK /\ SentOK /\ ReceivedOK /\ KnownOK /\ GreetedOK /\ FramesOK
  BY DEF WireInv
<1>2. /\ sent' = sent /\ peerHas' = peerHas /\ greeting' = greeting
      /\ keepAlives' = keepAlives /\ broken' = broken /\ extensions' = extensions
      /\ reader = "reading" /\ Len(stream) >= 4 /\ Len(stream) >= FrameLength
      /\ FrameLength > 4
  BY DEF ReadMessage, Complete
<1>3. /\ sent \in Seq(Entry) /\ stream \in Seq(Nat) /\ broken \in BOOLEAN
      /\ Len(stream) \in Nat /\ received \in Seq(Framed) /\ n \in Nat /\ Len(sent) \in Nat
      /\ (bitfield = None \/ \E bits : bitfield = Some(bits))
  BY <1>1 DEF WireTypeOK
<1>4. OnTheWay(stream, sent, broken, 0, n)
  BY <1>1, <1>2 DEF FramesOK
<1>5. FrameLength \in Nat
  <2>1. \A i \in 1 .. Len(stream) : stream[i] \in Nat
    BY <1>3
  <2>2. 1 + 1 = 2 /\ 1 + 2 = 3 /\ 1 + 3 = 4
    OBVIOUS
  <2>3. stream[1] \in Nat /\ stream[1 + 1] \in Nat /\ stream[1 + 2] \in Nat /\ stream[1 + 3] \in Nat
    BY <1>2, <1>3, <2>1, <2>2
  <2>. QED
    BY <2>3, SMT DEF FrameLength, FromU32
<1>6. /\ n + 1 \in 1 .. Len(sent)
      /\ SubSeq(stream, 1, FrameLength) = Frame(x.message)
      /\ OnTheWay(Rest, sent, broken, 0, n + 1)
  <2>1. FrameLength # 4 /\ FrameLength <= Len(stream)
    BY <1>2, <1>3, <1>5
  <2>. HIDE DEF n
  <2>2. \/ FrameLength = 4 /\ OnTheWay(Rest, sent, broken, 0, n)
        \/ /\ FrameLength > 4 /\ n + 1 \in 1 .. Len(sent)
           /\ SubSeq(stream, 1, FrameLength) = Frame(sent[n + 1].message)
           /\ OnTheWay(Rest, sent, broken, 0, n + 1)
    BY <1>2, <1>3, <1>4, <2>1, NextFrame
  <2>. QED
    BY <2>1, <2>2
<1>7. PICK had \in SUBSET Torrent!Pieces :
        Logged(had, x) /\ (n + 1 > 1 => had = sent[(n + 1) - 1].has)
  BY <1>1, <1>6 DEF SentOK
<1>8. /\ x.message \in Framed \cup {Unknown}
      /\ x.message = Unknown => ~d.some
      /\ x.message # Unknown => x.message \in Framed /\ d = Some(x.message)
  <2>1. x.message \in Framed \cup {Unknown}
    BY <1>7, LoggedMessage
  <2>2. d = deserialize(Frame(x.message))
    BY <1>6
  <2>. HIDE DEF d
  <2>3. /\ x.message = Unknown => ~deserialize(Frame(x.message)).some
        /\ x.message # Unknown =>
              x.message \in Framed /\ deserialize(Frame(x.message)) = Some(x.message)
    BY <2>1, FrameFacts
  <2>. QED
    BY <2>1, <2>2, <2>3
<1>9. SentOK'
  BY <1>1, <1>2 DEF SentOK
<1>10. GreetedOK' \/ reader' \notin {"reading", "error"}
  BY <1>1, <1>2 DEF GreetedOK
<1>. HIDE DEF d
<1>11. CASE x.message # Unknown
  <2>. DEFINE m == x.message
  <2>1. m \in Framed /\ d.some /\ d.it = m
    BY <1>8, <1>11 DEF Some
  <2>2. /\ received' = Append(received, m) /\ bitfield' = Learned(m)
        /\ stream' = Rest /\ reader' = "reading"
    BY <1>2, <2>1 DEF ReadMessage, d
  <2>3. /\ received' \in Seq(Framed) /\ Len(received') = n + 1
        /\ \A i \in 1 .. n : received'[i] = received[i]
        /\ received'[n + 1] = m
    BY <1>3, <2>1, <2>2
  <2>4. stream' \in Seq(Nat)
    BY <1>2, <1>3, <1>5, <2>2, Parts DEF Rest
  <2>5. bitfield.some => Exact(bitfield.it, had)
    <3>1. ASSUME bitfield.some PROVE Exact(bitfield.it, had)
      <4>1. n > 0 /\ Exact(bitfield.it, sent[n].has)
        BY <1>1, <3>1 DEF KnownOK
      <4>2. had = sent[n].has
        <5>1. n + 1 > 1 /\ (n + 1) - 1 = n
          BY <1>3, <4>1
        <5>. QED
          BY <1>7, <5>1
      <4>. QED
        BY <4>1, <4>2
    <3>. QED
      BY <3>1
  <2>6. /\ Learned(m) = None \/ \E bits : Learned(m) = Some(bits)
        /\ Learned(m).some <=> bitfield.some \/ m.kind = "Bitfield"
        /\ Learned(m).some => Exact(Learned(m).it, x.has)
    <3>. HIDE DEF x
    <3>. QED
      BY <1>3, <1>7, <1>11, <2>5, LearnedFacts
  <2>7. WireTypeOK'
    BY <1>1, <1>2, <2>2, <2>3, <2>4, <2>6 DEF WireTypeOK
  <2>8. ReceivedOK'
    <3>1. ASSUME NEW i \in 1 .. (n + 1) PROVE received'[i] = sent[i].message
      <4>1. i \in 1 .. n \/ i = n + 1
        BY <1>3
      <4>2. i \in 1 .. n => received[i] = sent[i].message
        BY <1>1 DEF ReceivedOK
      <4>. QED
        BY <2>3, <4>1, <4>2
    <3>2. n + 1 <= Len(sent)
      BY <1>6
    <3>. QED
      BY <1>2, <2>3, <3>1, <3>2 DEF ReceivedOK
  <2>9. KnownOK'
    <3>1. bitfield'.some <=> \E i \in 1 .. (n + 1) : received'[i].kind = "Bitfield"
      <4>1. bitfield.some <=> \E i \in 1 .. n : received[i].kind = "Bitfield"
        BY <1>1 DEF KnownOK
      <4>2. \A i \in 1 .. (n + 1) : i \in 1 .. n \/ i = n + 1
        BY <1>3
      <4>3. n + 1 \in 1 .. (n + 1) /\ \A i \in 1 .. n : i \in 1 .. (n + 1)
        BY <1>3
      <4>. HIDE DEF n
      <4>. QED
        BY <2>2, <2>3, <2>6, <4>1, <4>2, <4>3
    <3>2. bitfield'.some => Exact(bitfield'.it, sent[n + 1].has)
      BY <2>2, <2>6
    <3>3. n + 1 > 0
      BY <1>3
    <3>. QED
      BY <1>2, <2>3, <3>1, <3>2, <3>3 DEF KnownOK
  <2>10. FramesOK'
    BY <1>2, <1>6, <2>2, <2>3 DEF FramesOK
  <2>. QED
    BY <1>9, <1>10, <2>2, <2>7, <2>8, <2>9, <2>10 DEF WireInv
<1>12. CASE x.message = Unknown
  <2>1. ~d.some
    BY <1>8, <1>12
  <2>2. /\ reader' = "error" /\ stream' = <<>> /\ received' = received
        /\ bitfield' = bitfield
    BY <1>2, <2>1 DEF ReadMessage, d
  <2>3. stream' \in Seq(Nat)
    BY <2>2, EmptySeq
  <2>4. WireTypeOK'
    BY <1>1, <1>2, <2>2, <2>3 DEF WireTypeOK
  <2>5. ReceivedOK' /\ KnownOK'
    BY <1>1, <1>2, <2>2 DEF ReceivedOK, KnownOK
  <2>6. FramesOK'
    <3>1. n < Len(sent)
      BY <1>3, <1>6
    <3>. QED
      BY <1>2, <1>12, <2>2, <3>1 DEF FramesOK
  <2>. QED
    BY <1>9, <1>10, <2>2, <2>4, <2>5, <2>6 DEF WireInv
<1>. QED
  BY <1>11, <1>12

LEMMA StutterStep ==
  ASSUME WireInv, UNCHANGED wireVars
  PROVE  WireInv'
  BY DEF WireInv, WireTypeOK, SentOK, ReceivedOK, KnownOK, GreetedOK, FramesOK, wireVars

-----------------------------------------------------------------------------
(* What an answer holds *)

LEMMA ContentFacts ==
  ASSUME NEW p \in Kept
  PROVE  /\ IsU32(p) /\ Content(p) \in Seq(Nat)
         /\ Len(Content(p)) = Torrent!get_actual_piece_length(p)
         /\ Len(Content(p)) \in Nat
<1>. DEFINE k == p * piece_length
            l == Torrent!get_actual_piece_length(p)
<1>1. p \in Torrent!Pieces /\ p \in Nat /\ p \in 0 .. (total_pieces - 1)
  BY WireAssumption DEF Torrent!Pieces
<1>2. piece_length \in Nat /\ total_size \in Nat
      /\ (p = total_pieces - 1 => total_size >= k)
  BY WireAssumption
<1>3. k \in Nat
  BY <1>1, <1>2
<1>. HIDE DEF k
<1>4. l \in Nat
  BY <1>2, <1>3 DEF Torrent!get_actual_piece_length, k
<1>. HIDE DEF l
<1>5. Content(p) = [i \in 1 .. l |-> k + i]
  BY DEF Content, k, l
<1>6. Content(p) \in Seq(Nat) /\ Len(Content(p)) = l
  BY <1>3, <1>4, <1>5
<1>. QED
  BY <1>1, <1>4, <1>6, PiecesU32 DEF l

Block(p, b, l) == SubSeq(Content(p), b + 1, b + l)

\* The bytes of a block, and its answer as it is read.
LEMMA BlockRead ==
  ASSUME NEW p \in Kept, NEW b, IsU32(b), NEW l, IsU32(l),
         b + l <= Len(Content(p)), l <= PIECE_BLOCK_SIZE
  PROVE  /\ Len(Block(p, b, l)) = l
         /\ \A k \in 1 .. l : Block(p, b, l)[k] = Content(p)[b + k]
         /\ LET m == deserialize(serialize(build_piece_response(p, b, Block(p, b, l))))
            IN  /\ PieceBlock(m.it).it.piece_index = p
                /\ PieceBlock(m.it).it.begin = b
                /\ PieceBlock(m.it).it.data = Block(p, b, l)
<1>. DEFINE c == Content(p)
            d == SubSeq(c, b + 1, b + l)
<1>1. IsU32(p) /\ c \in Seq(Nat) /\ Len(c) \in Nat
  BY ContentFacts
<1>2. b \in Nat /\ l \in Nat /\ b + l <= Len(c)
  BY DEF IsU32
<1>. HIDE DEF c
<1>3. /\ d \in Seq(Nat) /\ Len(d) = l
      /\ \A k \in 1 .. l : d[k] = c[b + k]
  <2>1. \A i \in (b + 1) .. (b + l) : c[i] \in Nat
    BY <1>1, <1>2, ElementOfSeq
  <2>2. b + 1 \in Int /\ b + l \in Int
    BY <1>2
  <2>3. /\ d \in Seq(Nat)
        /\ Len(d) = IF b + 1 <= b + l THEN (b + l) - (b + 1) + 1 ELSE 0
        /\ \A i \in 1 .. ((b + l) - (b + 1) + 1) : d[i] = c[(b + 1) + i - 1]
    BY <2>1, <2>2, SubSeqProperties
  <2>. HIDE DEF d
  <2>4. (b + l) - (b + 1) + 1 = l
    BY <1>2
  <2>5. \A i \in 1 .. l : (b + 1) + i - 1 = b + i
    BY <1>2
  <2>6. Len(d) = l
    <3>1. CASE l = 0
      <4>1. ~(b + 1 <= b + l)
        BY <1>2, <3>1
      <4>. QED
        BY <2>3, <3>1, <4>1
    <3>2. CASE l > 0
      <4>1. b + 1 <= b + l
        BY <1>2, <3>2
      <4>. QED
        BY <2>3, <2>4, <4>1
    <3>. QED
      BY <1>2, <3>1, <3>2
  <2>7. ASSUME NEW i \in 1 .. l PROVE d[i] = c[b + i]
    <3>1. d[i] = c[(b + 1) + i - 1]
      BY <2>3, <2>4
    <3>. QED
      BY <2>5, <3>1
  <2>. QED
    BY <2>3, <2>6, <2>7
<1>4. IsU32(9 + Len(d))
  <2>1. 9 + l \in Nat /\ PIECE_BLOCK_SIZE + 9 \in Nat /\ 9 + l <= PIECE_BLOCK_SIZE + 9
    BY <1>2, WireAssumption
  <2>2. IsU32(PIECE_BLOCK_SIZE + 9)
    BY WireAssumption
  <2>3. IsU32(9 + l)
    BY <2>1, <2>2, SmallU32
  <2>. QED
    BY <1>3, <2>3
<1>5. LET m == deserialize(serialize(build_piece_response(p, b, d)))
      IN  /\ PieceBlock(m.it).it.piece_index = p
          /\ PieceBlock(m.it).it.begin = b
          /\ PieceBlock(m.it).it.data = d
  <2>. HIDE DEF d
  <2>. QED
    BY <1>1, <1>3, <1>4, PieceRead
<1>. QED
  BY <1>3, <1>5 DEF c, Block

\* What is answered to a request, and with what.
LEMMA AnswerFacts ==
  ASSUME NEW q \in Requests
  PROVE  LET r == PieceRequest(request_block(q)).it
             a == Answer(request_block(q))
         IN  /\ a.some <=> /\ r.piece_index \in Kept /\ r.length <= PIECE_BLOCK_SIZE
                           /\ r.begin + r.length
                                 <= Torrent!get_actual_piece_length(r.piece_index)
             /\ a.some => LET b == PieceBlock(deserialize(serialize(a.it)).it).it
                          IN  /\ b.piece_index = r.piece_index /\ b.begin = r.begin
                              /\ Len(b.data) = r.length
                              /\ \A k \in 1 .. r.length :
                                     b.data[k] = Content(r.piece_index)[r.begin + k]
<1>. DEFINE m == request_block(q)
            p == q.piece_index
            b == q.begin
            l == q.length
            d == get_piece_block(p, b, l)
            s == Block(p, b, l)
<1>1. /\ PieceRequest(m).some /\ PieceRequest(m).it.piece_index = p
      /\ PieceRequest(m).it.begin = b /\ PieceRequest(m).it.length = l
  BY RequestRead
<1>2. IsU32(p) /\ IsU32(b) /\ IsU32(l)
  BY WireAssumption
<1>3. /\ \A x : Some(x).some /\ Some(x).it = x
      /\ ~None.some
  BY DEF Some, None
<1>. HIDE DEF m, p, b, l, d
<1>4. Answer(m) = IF l <= PIECE_BLOCK_SIZE /\ d.some
                  THEN Some(build_piece_response(p, b, d.it)) ELSE None
  BY <1>1 DEF Answer, d
<1>5. b \in Nat /\ l \in Nat /\ PIECE_BLOCK_SIZE \in Nat
  BY <1>2, WireAssumption DEF IsU32
<1>6. CASE p \in Kept /\ b + l <= Len(Content(p)) /\ l <= PIECE_BLOCK_SIZE
  <2>1. d = Some(s)
    <3>1. ~(b + l > Len(Content(p)))
      BY <1>5, <1>6, ContentFacts
    <3>. QED
      BY <1>6, <3>1 DEF d, get_piece_block, Block
  <2>. HIDE DEF s
  <2>2. Answer(m) = Some(build_piece_response(p, b, s))
    BY <1>3, <1>4, <1>6, <2>1
  <2>3. Answer(m).some /\ Answer(m).it = build_piece_response(p, b, s)
    BY <1>3, <2>2
  <2>4. Len(Content(p)) = Torrent!get_actual_piece_length(p)
    BY <1>6, ContentFacts
  <2>5. /\ Len(s) = l
        /\ \A k \in 1 .. l : s[k] = Content(p)[b + k]
        /\ PieceBlock(deserialize(serialize(build_piece_response(p, b, s))).it).it.piece_index = p
        /\ PieceBlock(deserialize(serialize(build_piece_response(p, b, s))).it).it.begin = b
        /\ PieceBlock(deserialize(serialize(build_piece_response(p, b, s))).it).it.data = s
    <3>1. p \in Kept /\ b + l <= Len(Content(p)) /\ l <= PIECE_BLOCK_SIZE
      BY <1>6
    <3>2. /\ Len(Block(p, b, l)) = l
          /\ \A k \in 1 .. l : Block(p, b, l)[k] = Content(p)[b + k]
      BY <1>2, <3>1, BlockRead
    <3>3. LET w == deserialize(serialize(build_piece_response(p, b, Block(p, b, l))))
          IN  /\ PieceBlock(w.it).it.piece_index = p
              /\ PieceBlock(w.it).it.begin = b
              /\ PieceBlock(w.it).it.data = Block(p, b, l)
      BY <1>2, <3>1, BlockRead
    <3>. QED
      BY <3>2, <3>3 DEF s
  <2>. QED
    BY <1>1, <1>6, <2>3, <2>4, <2>5 DEF m
<1>7. CASE ~(p \in Kept /\ b + l <= Len(Content(p)) /\ l <= PIECE_BLOCK_SIZE)
  <2>1. ~(p \in Kept /\ b + l <= Torrent!get_actual_piece_length(p) /\ l <= PIECE_BLOCK_SIZE)
    BY <1>7, ContentFacts
  <2>2. ~Answer(m).some
    <3>1. CASE ~(l <= PIECE_BLOCK_SIZE)
      BY <1>3, <1>4, <3>1
    <3>2. CASE p \notin Kept
      <4>1. d = None
        BY <3>2 DEF d, get_piece_block
      <4>. QED
        BY <1>3, <1>4, <4>1
    <3>3. CASE p \in Kept /\ ~(b + l <= Len(Content(p)))
      <4>1. b + l > Len(Content(p))
        BY <1>5, <3>3, ContentFacts
      <4>2. d = None
        BY <4>1 DEF d, get_piece_block
      <4>. QED
        BY <1>3, <1>4, <4>2
    <3>. QED
      BY <1>7, <3>1, <3>2, <3>3
  <2>. QED
    BY <1>1, <2>1, <2>2 DEF m
<1>. QED
  BY <1>6, <1>7

-----------------------------------------------------------------------------
(* The theorems *)

\* The invariant of the stream: what is on the way is always the frames of what the peer
\* sent and the reader has not passed on, and what the connection knows of the peer's
\* pieces is what they were when it sent the last message read.
THEOREM WireInvariant == WireSpec => []WireInv
<1>1. WireInv /\ [WireNext]_wireVars => WireInv'
  <2>. SUFFICES ASSUME WireInv, [WireNext]_wireVars PROVE WireInv'
    OBVIOUS
  <2>. QED
    BY SendHaveStep, SendBitfieldStep, SendRequestStep, SendOtherStep, KeepAliveStep,
       BreakStep, ReadHandshakeStep, SkipStep, ReadMessageStep, EndStep, StutterStep
       DEF WireNext
<1>. QED
  BY InitInv, <1>1, PTL DEF WireSpec

LEMMA AllRead ==
  ASSUME NEW log \in Seq(Entry), NEW n, OnTheWay(<<>>, log, FALSE, 0, n)
  PROVE  n = Len(log)
<1>0. PICK size \in Nat : \E off, num \in [0 .. size -> Nat] :
        Layout(<<>>, log, FALSE, 0, n, size, off, num)
  BY DEF OnTheWay
<1>1. PICK off \in [0 .. size -> Nat], num \in [0 .. size -> Nat] :
        Layout(<<>>, log, FALSE, 0, n, size, off, num)
  BY <1>0
<1>2. /\ off[0] = 0 /\ num[0] = n /\ num[size] = Len(log) /\ Len(<<>>) = off[size]
      /\ \A i, j \in 0 .. size : i <= j => off[i] <= off[j] /\ num[i] <= num[j]
      /\ \A i \in 1 .. size : Item(<<>>, log, off, num, i)
      /\ \A i \in 0 .. size : off[i] \in Nat /\ num[i] \in Nat
  BY <1>1 DEF Layout
<1>3. size = 0
  <2>. SUFFICES ASSUME size # 0 PROVE FALSE
    OBVIOUS
  <2>1. 1 \in 1 .. size /\ 1 \in 0 .. size /\ size \in 0 .. size /\ 1 - 1 = 0 /\ 1 <= size
    OBVIOUS
  <2>2. off[1] = 0 /\ num[1] \in Nat /\ num[1] <= Len(log)
    BY <1>2, <2>1
  <2>3. Item(<<>>, log, off, num, 1)
    BY <1>2, <2>1
  <2>4. num[1] = num[0] + 1 /\ off[1] = off[0] + Len(Frame(log[num[1]].message))
    BY <1>2, <2>1, <2>2, <2>3 DEF Item
  <2>5. num[1] \in 1 .. Len(log)
    BY <1>2, <2>2, <2>4
  <2>6. log[num[1]].message \in Framed \cup {Unknown}
    <3>1. log[num[1]] \in Entry
      BY <2>5, ElementOfSeq
    <3>. QED
      BY <3>1 DEF Entry
  <2>. DEFINE l == Len(Frame(log[num[1]].message))
  <2>7. l > 4 /\ l \in Nat
    BY <2>6, FrameFacts
  <2>8. 0 = 0 + l
    BY <1>2, <2>2, <2>4
  <2>. HIDE DEF l
  <2>. QED
    BY <2>7, <2>8
<1>. QED
  BY <1>2, <1>3

\* The reader never loses the frame: what it passes on is what the peer sent, in order, all
\* of it when nothing is left to read, and the pieces it knows are exactly the peer's
\* (read_raw_message, perform_handshake and process_message of src/peer/client.rs).
THEOREM ReaderFollowsHolds == WireSpec => []ReaderFollows
<1>1. WireInv => ReaderFollows
  <2>. SUFFICES ASSUME WireInv PROVE ReaderFollows
    OBVIOUS
  <2>. DEFINE n == Len(received)
  <2>1. WireTypeOK /\ ReceivedOK /\ KnownOK /\ GreetedOK /\ FramesOK
    BY DEF WireInv
  <2>2. sent \in Seq(Entry) /\ received \in Seq(Framed) /\ n \in Nat
    BY <2>1 DEF WireTypeOK
  <2>3. /\ reader \in {"reading", "error", "eof"} =>
              /\ greeting.pstr = PSTR /\ greeting.infohash = Infohash
              /\ extensions = greeting.ext
        /\ n <= Len(sent)
        /\ reader = "error" => n < Len(sent) /\ sent[n + 1].message = Unknown
        /\ reader = "eof" => broken
        /\ bitfield.some <=> \E i \in 1 .. n : received[i].kind = "Bitfield"
    BY <2>1 DEF ReceivedOK, KnownOK, GreetedOK, FramesOK
  <2>4. ASSUME NEW i \in 1 .. n
        PROVE  received[i] = sent[i].message /\ received[i] # Unknown
    <3>1. received[i] \in Framed
      BY <2>2, ElementOfSeq
    <3>2. received[i].kind # "unknown"
      BY <3>1, Kinds DEF Framed
    <3>3. Unknown.kind = "unknown"
      BY DEF Unknown, Message
    <3>4. received[i] # Unknown
      BY <3>2, <3>3
    <3>. QED
      BY <2>1, <3>4 DEF ReceivedOK
  <2>5. ASSUME reader = "reading", stream = <<>>, ~broken PROVE n = Len(sent)
    <3>1. OnTheWay(<<>>, sent, FALSE, 0, n)
      <4>1. broken = FALSE
        BY <2>1, <2>5 DEF WireTypeOK
      <4>2. OnTheWay(stream, sent, broken, 0, n)
        BY <2>1, <2>5 DEF FramesOK
      <4>. QED
        BY <2>5, <4>1, <4>2
    <3>. HIDE DEF n
    <3>. QED
      BY <2>2, <3>1, AllRead
  <2>6. bitfield.some =>
           \A p \in Torrent!Pieces : has_piece(bitfield.it, p) <=> p \in sent[n].has
    BY <2>1 DEF KnownOK, Exact
  <2>. QED
    BY <2>3, <2>4, <2>5, <2>6 DEF ReaderFollows
<1>. QED
  BY <1>1, WireInvariant, PTL

\* Every request for a block of a piece that is there is answered with exactly the bytes
\* asked for, and no other is answered (handle_piece_request of src/peer/client.rs,
\* get_piece_block of src/peer/state.rs).
THEOREM BlocksServedHolds == WireSpec => []BlocksServed
<1>1. WireInv => BlocksServed
  <2>. SUFFICES ASSUME WireInv,
                       NEW i \in {j \in 1 .. Len(received) : received[j].kind = "Request"}
                PROVE  LET r == PieceRequest(received[i]).it
                           a == Answer(received[i])
                       IN  /\ a.some <=> /\ r.piece_index \in Kept
                                         /\ r.length <= PIECE_BLOCK_SIZE
                                         /\ r.begin + r.length
                                               <= Torrent!get_actual_piece_length(r.piece_index)
                           /\ a.some => LET b == PieceBlock(deserialize(serialize(a.it)).it).it
                                        IN  /\ b.piece_index = r.piece_index /\ b.begin = r.begin
                                            /\ Len(b.data) = r.length
                                            /\ \A k \in 1 .. r.length :
                                                 b.data[k] = Content(r.piece_index)[r.begin + k]
    BY DEF BlocksServed
  <2>1. WireTypeOK /\ SentOK /\ ReceivedOK
    BY DEF WireInv
  <2>2. i \in 1 .. Len(sent) /\ received[i] = sent[i].message /\ received[i].kind = "Request"
    BY <2>1 DEF WireTypeOK, ReceivedOK
  <2>3. PICK had \in SUBSET Torrent!Pieces : Logged(had, sent[i])
    BY <2>1, <2>2 DEF SentOK
  <2>4. PICK q \in Requests : received[i] = request_block(q)
    BY <2>2, <2>3, LoggedMessage
  <2>. QED
    BY <2>4, AnswerFacts
<1>. QED
  BY <1>1, WireInvariant, PTL

=============================================================================
