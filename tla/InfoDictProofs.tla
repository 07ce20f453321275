--------------------------- MODULE InfoDictProofs ---------------------------
(***************************************************************************)
(* Theorems about what becomes of an info dictionary, for integers of any  *)
(* width: a client serves it in pieces from which a fetch puts the same    *)
(* bytes together (MetadataMessages), and the geometry of the download is  *)
(* taken from it (TorrentFile).                                            *)
(***************************************************************************)
EXTENDS TorrentFile, MetadataMessages, BencodeProofs

\* Integers have some width, and hashes some length.
Widths == W32 \in Nat \ {0} /\ W64 \in Nat \ {0} /\ HashLength \in Nat \ {0}

\* What a field may hold, the entry of a list first.
Plain ==
  {Absent, Text} \cup {Integer(n) : n \in Int} \cup {Bytes(n) : n \in Nat}

Field == Plain \cup {Files(lengths) : lengths \in Seq(Plain)}

Decoded ==
  [announce : Field, creation_date : Field,
   info : [name : Field, piece_length : Field, length : Field, pieces : Field,
           files : Field]]

-----------------------------------------------------------------------------
(* The size of a list of files *)

\* A sum that wraps round at each step is the sum taken at the end.
LEMMA ModAdd ==
  ASSUME NEW w \in Nat \ {0}, NEW x \in Nat, NEW y \in Nat
  PROVE  ((x % w) + (y % w)) % w = (x + y) % w
<1>. DEFINE a == x \div w
            b == y \div w
            r == x % w
            s == y % w
            c == (r + s) \div w
            t == (r + s) % w
            d == (x + y) \div w
            u == (x + y) % w
<1>1. /\ a \in Int /\ r \in 0 .. (w - 1) /\ x = w * a + r
      /\ b \in Int /\ s \in 0 .. (w - 1) /\ y = w * b + s
      /\ d \in Int /\ u \in 0 .. (w - 1) /\ x + y = w * d + u
  OBVIOUS
<1>2. c \in Int /\ t \in 0 .. (w - 1) /\ r + s = w * c + t
  BY <1>1
<1>. HIDE DEF a, b, c, d, r, s, t, u
<1>. DEFINE e == d - (a + b + c)
<1>3. w * e = t - u
  <2>1. w * e = w * d - (w * a + w * b + w * c)
    BY <1>1, <1>2
  <2>. QED
    BY <1>1, <1>2, <2>1
<1>4. e \in Int /\ t - u < w /\ t - u > -w
  BY <1>1, <1>2
<1>. HIDE DEF e
<1>5. e = 0
  <2>1. CASE e >= 1
    <3>1. w * e >= w
      BY <1>4, <2>1
    <3>. QED
      BY <1>3, <1>4, <3>1
  <2>2. CASE e <= -1
    <3>1. w * e <= -w
      BY <1>4, <2>2
    <3>. QED
      BY <1>3, <1>4, <3>1
  <2>. QED
    BY <1>4, <2>1, <2>2
<1>6. t = u
  BY <1>1, <1>2, <1>3, <1>5
<1>. QED
  BY <1>6 DEF r, s, t, u

\* The files' lengths taken as u64 and summed up with a carry that is lost.
Total(lengths) ==
  LET sum[n \in 0 .. Len(lengths)] == IF n = 0 THEN 0 ELSE sum[n - 1] + lengths[n].n
  IN  sum[Len(lengths)]

LEMMA ListSize ==
  ASSUME Widths, NEW L \in Seq(Plain),
         \A i \in 1 .. Len(L) : L[i].kind = "integer" /\ L[i].n \in Nat
  PROVE  Total(L) \in Nat /\ FilesSize(Files(L)) = Total(L) % W64
<1>. DEFINE N == Len(L)
            P(f) == f = [n \in 0 .. N |->
                           IF n = 0 THEN 0 ELSE (f[n - 1] + FileLength(L[n])) % W64]
            Q(f) == f = [n \in 0 .. N |-> IF n = 0 THEN 0 ELSE f[n - 1] + L[n].n]
            size == CHOOSE f : P(f)
            sum == CHOOSE f : Q(f)
<1>1. N \in Nat /\ W64 \in Nat \ {0}
  BY DEF Widths
<1>2. \A i \in 1 .. N : L[i].n \in Nat /\ FileLength(L[i]) = L[i].n % W64
  BY DEF FileLength, get_u64, Some
<1>3. FilesSize(Files(L)) = size[N] /\ Total(L) = sum[N]
  BY DEF FilesSize, Total, Files
<1>. HIDE DEF N
<1>4. \E f : P(f)
  <2>. DEFINE step == [x \in Nat \X (1 .. N) |-> (x[1] + FileLength(L[x[2]])) % W64]
  <2>1. step \in [Nat \X (1 .. N) -> Nat]
    <3>1. ASSUME NEW x \in Nat \X (1 .. N) PROVE (x[1] + FileLength(L[x[2]])) % W64 \in Nat
      BY <1>1, <1>2
    <3>. QED
      BY <3>1
  <2>2. \A m \in Nat, k \in 1 .. N : step[<<m, k>>] = (m + FileLength(L[k])) % W64
    OBVIOUS
  <2>. HIDE DEF step
  <2>3. PICK f \in [0 .. N -> Nat] : f[0] = 0 /\ \A k \in 1 .. N : f[k] = step[<<f[k - 1], k>>]
    <3>. DEFINE V == Nat
                v == 0
    <3>1. N \in Nat /\ v \in V /\ step \in [V \X (1 .. N) -> V]
      BY <1>1, <2>1
    <3>. HIDE DEF V, v
    <3>2. \E f \in [0 .. N -> V] : Recursive(f, N, v, step)
      BY <3>1, Recursion
    <3>. QED
      BY <3>2 DEF V, v, Recursive
  <2>4. ASSUME NEW n \in 0 .. N, n # 0 PROVE f[n] = (f[n - 1] + FileLength(L[n])) % W64
    <3>1. n \in 1 .. N /\ n - 1 \in 0 .. N
      BY <1>1, <2>4
    <3>. QED
      BY <2>2, <2>3, <3>1
  <2>5. P(f)
    BY <2>3, <2>4
  <2>. QED
    BY <2>5
<1>5. \E f : Q(f)
  <2>. DEFINE step == [x \in Nat \X (1 .. N) |-> x[1] + L[x[2]].n]
  <2>1. step \in [Nat \X (1 .. N) -> Nat]
    <3>1. ASSUME NEW x \in Nat \X (1 .. N) PROVE x[1] + L[x[2]].n \in Nat
      BY <1>1, <1>2
    <3>. QED
      BY <3>1
  <2>2. \A m \in Nat, k \in 1 .. N : step[<<m, k>>] = m + L[k].n
    OBVIOUS
  <2>. HIDE DEF step
  <2>3. PICK f \in [0 .. N -> Nat] : f[0] = 0 /\ \A k \in 1 .. N : f[k] = step[<<f[k - 1], k>>]
    <3>. DEFINE V == Nat
                v == 0
    <3>1. N \in Nat /\ v \in V /\ step \in [V \X (1 .. N) -> V]
      BY <1>1, <2>1
    <3>. HIDE DEF V, v
    <3>2. \E f \in [0 .. N -> V] : Recursive(f, N, v, step)
      BY <3>1, Recursion
    <3>. QED
      BY <3>2 DEF V, v, Recursive
  <2>4. ASSUME NEW n \in 0 .. N, n # 0 PROVE f[n] = f[n - 1] + L[n].n
    <3>1. n \in 1 .. N /\ n - 1 \in 0 .. N
      BY <1>1, <2>4
    <3>. QED
      BY <2>2, <2>3, <3>1
  <2>5. Q(f)
    BY <2>3, <2>4
  <2>. QED
    BY <2>5
<1>6. P(size) /\ Q(sum)
  <2>. HIDE DEF P, Q
  <2>. QED
    BY <1>4, <1>5
<1>7. /\ size[0] = 0 /\ sum[0] = 0
      /\ \A n \in 1 .. N : /\ size[n] = (size[n - 1] + FileLength(L[n])) % W64
                           /\ sum[n] = sum[n - 1] + L[n].n
  <2>. HIDE DEF size, sum
  <2>. QED
    BY <1>1, <1>6
<1>. HIDE DEF size, sum
<1>. DEFINE S == {n \in 0 .. N : sum[n] \in Nat /\ size[n] = sum[n] % W64}
<1>8. 0 \in S
  BY <1>1, <1>7
<1>9. ASSUME NEW n \in 0 .. (N - 1), n \in S PROVE n + 1 \in S
  <2>1. n + 1 \in 1 .. N /\ (n + 1) - 1 = n /\ n + 1 \in 0 .. N
    BY <1>1
  <2>2. /\ size[n + 1] = (size[n] + FileLength(L[n + 1])) % W64
        /\ sum[n + 1] = sum[n] + L[n + 1].n
    BY <1>7, <2>1
  <2>3. L[n + 1].n \in Nat /\ FileLength(L[n + 1]) = L[n + 1].n % W64
    BY <1>2, <2>1
  <2>4. sum[n] \in Nat /\ size[n] = sum[n] % W64
    BY <1>9
  <2>5. size[n + 1] = sum[n + 1] % W64
    <3>1. ((sum[n] % W64) + (L[n + 1].n % W64)) % W64 = (sum[n] + L[n + 1].n) % W64
      BY <1>1, <2>3, <2>4, ModAdd
    <3>. QED
      BY <2>2, <2>3, <2>4, <3>1, Zenon
  <2>. QED
    BY <2>1, <2>2, <2>3, <2>4, <2>5
<1>. HIDE DEF S
<1>10. N \in S
  <2>1. N \in 0 .. N /\ N \in Nat
    BY <1>1
  <2>. QED
    BY <1>8, <1>9, <2>1, UpTo
<1>. QED
  BY <1>3, <1>10 DEF S

-----------------------------------------------------------------------------
(* The geometry *)

\* A number below the width is kept.
LEMMA SmallMod ==
  ASSUME NEW w \in Nat \ {0}, NEW x \in Nat, x < w
  PROVE  x % w = x
OBVIOUS

\* As many whole lengths n as cover s: one less does not.
LEMMA RoundUp ==
  ASSUME NEW s \in Nat \ {0}, NEW n \in Nat \ {0}
  PROVE  LET q == (s + n - 1) \div n
         IN  q \in Nat /\ q > 0 /\ (q - 1) * n < s /\ s <= q * n
<1>. DEFINE q == (s + n - 1) \div n
            r == (s + n - 1) % n
<1>1. q \in Int /\ r \in 0 .. (n - 1) /\ s + n - 1 = n * q + r
  OBVIOUS
<1>. HIDE DEF q, r
<1>2. (q - 1) * n = n * q - n /\ q * n = n * q
  BY <1>1
<1>3. (q - 1) * n < s /\ s <= q * n
  BY <1>1, <1>2
<1>4. q > 0
  <2>. SUFFICES ASSUME q <= 0 PROVE FALSE
    BY <1>1
  <2>1. n * q <= 0
    BY <1>1
  <2>. QED
    BY <1>1, <2>1
<1>. QED
  BY <1>1, <1>3, <1>4 DEF q

\* As many hashes as their bytes hold.
LEMMA WholeMultiple ==
  ASSUME NEW h \in Nat \ {0}, NEW q \in Nat
  PROVE  (h * q) \div h = q
<1>. QED
  OBVIOUS

\* The size that a well-formed dictionary describes is the one taken from it.
LEMMA SizeTaken ==
  ASSUME Widths, file \in Decoded, WellFormed(file.info)
  PROVE  /\ Described(file.info) \in 1 .. W64 - 1
         /\ TotalSize(file.info) = Some(Described(file.info))
<1>. DEFINE length == file.info.length
            files == file.info.files
            s == Described(file.info)
<1>1. length \in Field /\ files \in Field /\ s \in 1 .. W64 - 1 /\ W64 \in Nat \ {0}
  BY DEF Decoded, WellFormed, Widths
<1>2. CASE length.kind = "integer"
  <2>1. s = length.n
    BY <1>2 DEF Described
  <2>2. s % W64 = s
    BY <1>1
  <2>3. get_u64(length) = Some(s)
    BY <1>2, <2>1, <2>2 DEF get_u64
  <2>. QED
    BY <1>1, <2>3 DEF TotalSize, Some
<1>3. CASE length.kind # "integer"
  <2>1. ~get_u64(length).some
    BY <1>3 DEF get_u64, None
  <2>2. files.kind = "list"
    <3>. SUFFICES ASSUME files.kind # "list" PROVE FALSE
      OBVIOUS
    <3>1. s = 0
      BY <1>3 DEF Described
    <3>. QED
      BY <1>1, <3>1
  <2>3. PICK L \in Seq(Plain) : files = Files(L)
    <3>1. ASSUME files \in Plain PROVE FALSE
      BY <2>2, <3>1 DEF Plain, Absent, Text, Integer, Bytes
    <3>2. files \in {Files(lengths) : lengths \in Seq(Plain)}
      BY <1>1, <3>1 DEF Field
    <3>. QED
      BY <3>2
  <2>4. files.lengths = L
    BY <2>3 DEF Files
  <2>5. ASSUME NEW i \in 1 .. Len(L) PROVE L[i].kind = "integer" /\ L[i].n \in Nat
    <3>1. L[i].kind = "integer" /\ L[i].n >= 0
      BY <2>2, <2>4 DEF WellFormed
    <3>2. L[i] \in Plain
      BY ElementOfSeq
    <3>3. L[i].n \in Int
      BY <3>1, <3>2 DEF Plain, Absent, Text, Integer, Bytes
    <3>. QED
      BY <3>1, <3>3
  <2>6. s = Total(L)
    BY <1>3, <2>2, <2>4 DEF Described, Total
  <2>7. FilesSize(files) = s % W64
    BY <2>3, <2>5, <2>6, ListSize
  <2>8. s % W64 = s
    BY <1>1
  <2>. QED
    BY <1>1, <2>1, <2>2, <2>7, <2>8 DEF TotalSize
<1>. QED
  BY <1>2, <1>3

\* A well-formed dictionary, of one file or of a list of any length and also of a size or a
\* piece length at the edge of its width, gives the size it describes and a geometry in
\* which the subtraction for the last piece never goes below one (src/torrent.rs:136-192,
\* src/peer/state.rs:114-122).
THEOREM DescribedGeometry ==
  ASSUME Widths, file \in Decoded, WellFormed(file.info)
  PROVE  LET u == parse_info_dict_bytes(file.info)
         IN  u.some /\ u.it.total_size = Described(file.info) /\ IsGeometry(u.it)
<1>. DEFINE info == file.info
            s == Described(info)
            n == info.piece_length.n
            q == (s + n - 1) \div n
            g == [piece_length |-> n, total_pieces |-> q, total_size |-> s]
<1>1. /\ s \in 1 .. W64 - 1 /\ TotalSize(info) = Some(s)
      /\ info.piece_length.kind = "integer" /\ n \in 1 .. W32 - 1
      /\ info.pieces = Bytes(HashLength * q) /\ info.name = Text
  BY SizeTaken DEF WellFormed
<1>. HIDE DEF s
<1>2. s \in Nat \ {0} /\ n \in Nat \ {0} /\ n % W32 = n
  <2>. HIDE DEF n
  <2>1. s \in Nat \ {0} /\ n \in Nat \ {0} /\ W32 \in Nat \ {0} /\ n < W32
    BY <1>1 DEF Widths
  <2>. QED
    BY <2>1, SmallMod
<1>3. q \in Nat /\ q > 0 /\ (q - 1) * n < s /\ s <= q * n
  BY <1>2, RoundUp
<1>. HIDE DEF q
<1>4. info.pieces.kind = "bytes" /\ info.pieces.length \div HashLength = q
  <2>1. (HashLength * q) \div HashLength = q
    BY <1>3, WholeMultiple DEF Widths
  <2>. QED
    BY <1>1, <2>1 DEF Bytes
<1>5. get_u32(info.piece_length) = Some(n)
  BY <1>1, <1>2 DEF get_u32
<1>6. parse_info_dict_bytes(info) = Some(g)
  <2>1. /\ get_u32(info.piece_length).some /\ get_u32(info.piece_length).it = n
        /\ TotalSize(info).some /\ TotalSize(info).it = s
    BY <1>1, <1>5 DEF Some
  <2>2. info.name.kind = "text"
    BY <1>1 DEF Text
  <2>. QED
    BY <1>4, <2>1, <2>2 DEF parse_info_dict_bytes, Geometry
<1>7. IsGeometry(g)
  BY <1>2, <1>3 DEF IsGeometry
<1>. QED
  BY <1>6, <1>7 DEF Some, s

\* The same torrent comes to the same download by file and by magnet link, whatever the
\* file holds (src/torrent.rs:69-192).
THEOREM SameTorrentHolds ==
  ASSUME Widths, file \in Decoded
  PROVE  SameTorrent
<1>1. parse_torrent_bytes.some => parse_info_dict_bytes(file.info) = parse_torrent_bytes
  BY DEF parse_torrent_bytes, parse_info_dict_bytes, None
<1>2. ASSUME parse_info_dict_bytes(file.info).some, ~parse_torrent_bytes.some
      PROVE  \/ file.info.length.kind # "integer" \/ file.creation_date.kind # "integer"
             \/ file.announce # Text
  BY <1>2 DEF parse_torrent_bytes, parse_info_dict_bytes, None, Some, get_u32, Text
<1>. QED
  BY <1>1, <1>2, DescribedGeometry DEF SameTorrent

-----------------------------------------------------------------------------
(* Digits *)

\* t is how n is written.
Writes(t, n) ==
  /\ t \in Seq(Digits) /\ t # <<>> /\ Number(t) = n /\ Len(t) <= n + 1
  /\ t[1] = "0" => n = 0 /\ Len(t) = 1

LEMMA OneDigit ==
  ASSUME NEW k \in 0 .. 9
  PROVE  Writes(<<Numerals[k + 1]>>, k)
<1>. DEFINE c == Numerals[k + 1]
            t == <<c>>
<1>1. c \in Digits /\ Digit[c] = k
  BY DigitIs
<1>2. c = "0" => k = 0
  <2>1. Digit[Numerals[0 + 1]] = 0 /\ Numerals[0 + 1] = "0"
    BY DigitIs DEF Numerals
  <2>. QED
    BY <1>1, <2>1
<1>. HIDE DEF c
<1>3. /\ <<>> \in Seq(Digits) /\ Append(<<>>, c) = t /\ \A j \in 1 .. Len(<<>>) : FALSE
      /\ t \in Seq(Digits) /\ t # <<>> /\ Len(t) = 1 /\ t[1] = c
  BY <1>1
<1>4. Number(Append(<<>>, c)) = 10 * Number(<<>>) + Digit[c]
  BY <1>1, <1>3, NextDigit
<1>5. Number(t) = k
  BY <1>1, <1>3, <1>4, EmptyNumber
<1>. QED
  BY <1>2, <1>3, <1>5 DEF Writes, c

LEMMA MoreDigits ==
  ASSUME NEW k \in Nat, k >= 10, NEW t, Writes(t, k \div 10)
  PROVE  Writes(Append(t, Numerals[(k % 10) + 1]), k)
<1>. DEFINE q == k \div 10
            d == k % 10
            c == Numerals[d + 1]
            u == Append(t, c)
<1>1. q \in Nat /\ q >= 1 /\ d \in 0 .. 9 /\ k = 10 * q + d /\ q + 1 <= k
  OBVIOUS
<1>2. Writes(t, q)
  OBVIOUS
<1>. HIDE DEF q, d
<1>3. c \in Digits /\ Digit[c] = d
  BY <1>1, DigitIs
<1>. HIDE DEF c
<1>4. /\ t \in Seq(Digits) /\ t # <<>> /\ Number(t) = q /\ Len(t) <= q + 1 /\ t[1] # "0"
  BY <1>1, <1>2 DEF Writes
<1>5. /\ u \in Seq(Digits) /\ u # <<>> /\ Len(u) = Len(t) + 1 /\ u[1] = t[1] /\ Len(t) \in Nat
      /\ \A j \in 1 .. Len(t) : t[j] \in Digits
  BY <1>3, <1>4
<1>6. Number(u) = 10 * q + d
  BY <1>3, <1>4, <1>5, NextDigit
<1>. HIDE DEF u
<1>7. Writes(u, k)
  BY <1>1, <1>4, <1>5, <1>6 DEF Writes
<1>. QED
  BY <1>7 DEF u, c, d

\* format! writes a number.
LEMMA DecimalWrites ==
  ASSUME NEW n \in Nat
  PROVE  Writes(Decimal(n), n)
<1>. DEFINE Next(f, k) == IF k < 10 THEN <<Numerals[k + 1]>>
                          ELSE Append(f[k \div 10], Numerals[(k % 10) + 1])
            P(f) == f = [k \in 0 .. n |-> Next(f, k)]
            d == CHOOSE f : P(f)
            Goes(f, m) == \A k \in 0 .. m : f[k] = Next(f, k)
            S == {m \in 0 .. n : \E f : f = [k \in 0 .. m |-> f[k]] /\ Goes(f, m)}
<1>1. Decimal(n) = d[n]
  BY DEF Decimal
<1>2. ASSUME NEW k \in Nat, k >= 10 PROVE k \div 10 \in 0 .. (k - 1)
  BY <1>2
<1>3. 0 \in S
  <2>. DEFINE f == [k \in 0 .. 0 |-> <<Numerals[k + 1]>>]
  <2>1. f[0] = <<Numerals[0 + 1]>> /\ f = [k \in 0 .. 0 |-> f[k]]
    OBVIOUS
  <2>. HIDE DEF f
  <2>2. Goes(f, 0)
    BY <2>1
  <2>. QED
    BY <2>1, <2>2
<1>4. ASSUME NEW m \in 0 .. (n - 1), m \in S PROVE m + 1 \in S
  <2>1. PICK f : f = [k \in 0 .. m |-> f[k]] /\ Goes(f, m)
    BY <1>4
  <2>. DEFINE x == Next(f, m + 1)
  <2>. HIDE DEF x, Next
  <2>2. PICK g : g = [k \in 0 .. (m + 1) |-> IF k <= m THEN f[k] ELSE x]
    OBVIOUS
  <2>3. /\ \A k \in 0 .. m : g[k] = f[k]
        /\ g[m + 1] = x /\ g = [k \in 0 .. (m + 1) |-> g[k]]
    BY <2>2
  <2>4. ASSUME NEW k \in 0 .. (m + 1) PROVE Next(g, k) = Next(f, k)
    <3>1. CASE k < 10
      BY <3>1 DEF Next
    <3>2. CASE k >= 10
      <4>1. k \div 10 \in 0 .. m
        BY <1>2, <3>2
      <4>. QED
        BY <2>3, <4>1 DEF Next
    <3>. QED
      BY <3>1, <3>2
  <2>5. Goes(g, m + 1)
    <3>1. \A k \in 0 .. (m + 1) : k \in 0 .. m \/ k = m + 1
      OBVIOUS
    <3>. QED
      BY <2>1, <2>3, <2>4, <3>1 DEF x
  <2>. QED
    BY <2>3, <2>5
<1>5. \E f : P(f)
  <2>. HIDE DEF S
  <2>1. n \in 0 .. n
    OBVIOUS
  <2>2. n \in S
    BY <1>3, <1>4, <2>1, UpTo
  <2>3. PICK f : f = [k \in 0 .. n |-> f[k]] /\ Goes(f, n)
    BY <2>2 DEF S
  <2>. HIDE DEF Next
  <2>. QED
    BY <2>3
<1>6. \A k \in 0 .. n : d[k] = Next(d, k)
  <2>1. P(d)
    <3>. HIDE DEF P
    <3>. QED
      BY <1>5
  <2>. HIDE DEF d, Next
  <2>. QED
    BY <2>1
<1>. HIDE DEF d, S
<1>. DEFINE T == {m \in 0 .. n : \A k \in 0 .. m : Writes(d[k], k)}
<1>7. ASSUME NEW m \in 0 .. n, \A k \in 0 .. (m - 1) : Writes(d[k], k) PROVE Writes(d[m], m)
  <2>1. CASE m < 10
    BY <1>6, <2>1, OneDigit
  <2>2. CASE m >= 10
    <3>1. m \div 10 \in 0 .. (m - 1)
      BY <1>2, <2>2
    <3>2. Writes(d[m \div 10], m \div 10)
      BY <1>7, <3>1
    <3>3. d[m] = Append(d[m \div 10], Numerals[(m % 10) + 1])
      <4>1. ~(m < 10)
        BY <2>2
      <4>2. d[m] = Next(d, m)
        <5>. HIDE DEF Next
        <5>. QED
          BY <1>6
      <4>. QED
        BY <4>1, <4>2, Zenon
    <3>4. Writes(Append(d[m \div 10], Numerals[(m % 10) + 1]), m)
      BY <2>2, <3>2, MoreDigits
    <3>. QED
      BY <3>3, <3>4
  <2>. QED
    BY <2>1, <2>2
<1>8. 0 \in T
  BY <1>7
<1>9. ASSUME NEW m \in 0 .. (n - 1), m \in T PROVE m + 1 \in T
  <2>1. \A k \in 0 .. ((m + 1) - 1) : Writes(d[k], k)
    BY <1>9
  <2>2. m + 1 \in 0 .. n /\ \A k \in 0 .. (m + 1) : k \in 0 .. m \/ k = m + 1
    OBVIOUS
  <2>3. Writes(d[m + 1], m + 1)
    BY <1>7, <2>1, <2>2
  <2>. QED
    BY <1>9, <2>2, <2>3
<1>. HIDE DEF T
<1>10. n \in T
  <2>1. n \in 0 .. n
    OBVIOUS
  <2>. QED
    BY <1>8, <1>9, <2>1, UpTo
<1>. QED
  BY <1>1, <1>10 DEF T

-----------------------------------------------------------------------------
(* What is written is read *)

\* t stands in s at i.
At(s, t, i) ==
  i + Len(t) <= Len(s) + 1 /\ \A k \in 1 .. Len(t) : s[i + k - 1] = t[k]

LEMMA AtParts ==
  ASSUME NEW B, NEW s \in Seq(B), NEW t \in Seq(B), NEW u \in Seq(B), NEW i \in Nat,
         At(s, t \o u, i)
  PROVE  At(s, t, i) /\ At(s, u, i + Len(t))
<1>. DEFINE x == t \o u
            m == Len(t)
            n == Len(u)
<1>1. /\ m \in Nat /\ n \in Nat /\ Len(x) = m + n /\ Len(s) \in Nat
      /\ \A k \in 1 .. m : x[k] = t[k]
      /\ \A k \in 1 .. n : x[m + k] = u[k]
  OBVIOUS
<1>2. i + Len(x) <= Len(s) + 1 /\ \A k \in 1 .. Len(x) : s[i + k - 1] = x[k]
  BY DEF At
<1>. HIDE DEF x, m, n
<1>3. At(s, t, i)
  <2>1. i + m <= Len(s) + 1
    BY <1>1, <1>2
  <2>2. ASSUME NEW k \in 1 .. m PROVE s[i + k - 1] = t[k]
    <3>1. k \in 1 .. Len(x)
      BY <1>1
    <3>. QED
      BY <1>1, <1>2, <3>1
  <2>. QED
    BY <2>1, <2>2 DEF At, m
<1>4. At(s, u, i + m)
  <2>1. i + m + n <= Len(s) + 1
    BY <1>1, <1>2
  <2>2. ASSUME NEW k \in 1 .. n PROVE s[i + m + k - 1] = u[k]
    <3>1. m + k \in 1 .. Len(x) /\ i + (m + k) - 1 = i + m + k - 1
      BY <1>1
    <3>2. s[i + (m + k) - 1] = x[m + k]
      BY <1>2, <3>1
    <3>. QED
      BY <1>1, <3>1, <3>2
  <2>. QED
    BY <2>1, <2>2 DEF At, n
<1>. QED
  BY <1>3, <1>4 DEF m

LEMMA AtSub ==
  ASSUME NEW B, NEW s \in Seq(B), NEW t \in Seq(B), NEW i \in Nat \ {0}, At(s, t, i)
  PROVE  SubSeq(s, i, i + Len(t) - 1) = t
<1>. DEFINE u == SubSeq(s, i, i + Len(t) - 1)
<1>1. /\ Len(s) \in Nat /\ Len(t) \in Nat /\ i + Len(t) <= Len(s) + 1
      /\ \A k \in 1 .. Len(t) : s[i + k - 1] = t[k]
  BY DEF At
<1>2. u \in Seq(B) /\ Len(u) = Len(t) /\ \A k \in 1 .. Len(t) : u[k] = s[i + k - 1]
  <2>. DEFINE j == i + Len(t) - 1
  <2>1. j \in (i - 1) .. Len(s) /\ j - i + 1 = Len(t) /\ i \in 1 .. (Len(s) + 1)
    BY <1>1
  <2>. HIDE DEF j
  <2>2. /\ SubSeq(s, i, j) \in Seq(B) /\ Len(SubSeq(s, i, j)) = j - i + 1
        /\ \A k \in 1 .. (j - i + 1) : SubSeq(s, i, j)[k] = s[i + k - 1]
    BY <1>1, <2>1
  <2>. QED
    BY <2>1, <2>2 DEF j
<1>. HIDE DEF u
<1>3. u = t
  BY <1>1, <1>2, SeqEqual
<1>. QED
  BY <1>3 DEF u

LEMMA StringRead ==
  ASSUME NEW B, NEW s \in Seq(B), NEW i \in Nat \ {0}, NEW length \in Seq(B),
         NEW key \in Seq(B), ":" \in B, IsNumeral(length), Number(length) = Len(key),
         Len(key) <= MaxLength, At(s, BenString(length, key), i)
  PROVE  parse_bytes(s, i) = Ok([kind |-> "bytes", bytes |-> key],
                                i + Len(length) + 1 + Len(key))
<1>. DEFINE colon == i + Len(length)
<1>1. /\ Len(length) \in Nat \ {0} /\ Len(key) \in Nat /\ Len(s) \in Nat /\ colon \in Nat
      /\ <<":">> \in Seq(B) /\ Len(<<":">>) = 1 /\ length \o <<":">> \in Seq(B)
      /\ Len(length \o <<":">>) = Len(length) + 1
  BY DEF IsNumeral
<1>2. At(s, length \o <<":">>, i) /\ At(s, key, i + (Len(length) + 1))
  BY <1>1, AtParts DEF BenString
<1>3. At(s, length, i) /\ At(s, <<":">>, colon)
  BY <1>1, <1>2, AtParts
<1>4. colon <= Len(s) /\ s[colon] = ":"
  <2>1. 1 \in 1 .. 1 /\ colon + 1 - 1 = colon
    BY <1>1
  <2>. QED
    BY <1>1, <1>3, <2>1 DEF At
<1>5. ASSUME NEW k \in i .. (colon - 1) PROVE HoldsDigit(s, k)
  <2>1. k - i + 1 \in 1 .. Len(length) /\ i + (k - i + 1) - 1 = k /\ k <= Len(s)
    BY <1>1, <1>4
  <2>2. s[k] = length[k - i + 1]
    BY <1>3, <2>1 DEF At
  <2>. QED
    BY <2>1, <2>2 DEF IsNumeral, HoldsDigit
<1>6. AfterDigits(s, i) = colon
  <2>1. i \in 1 .. (Len(s) + 1) /\ colon \in i .. (Len(s) + 1)
    BY <1>1, <1>4
  <2>2. ~HoldsDigit(s, colon)
    BY <1>4, OtherBytes DEF HoldsDigit
  <2>. HIDE DEF colon
  <2>. QED
    BY <1>5, <2>1, <2>2, AfterDigitsIs
<1>7. SubSeq(s, i, colon - 1) = length
  BY <1>3, AtSub
<1>8. SubSeq(s, colon + 1, colon + Len(key)) = key /\ colon + Len(key) <= Len(s)
  <2>1. At(s, key, colon + 1) /\ colon + 1 \in Nat \ {0}
        /\ (colon + 1) + Len(key) - 1 = colon + Len(key)
    BY <1>1, <1>2
  <2>. HIDE DEF colon
  <2>2. SubSeq(s, colon + 1, (colon + 1) + Len(key) - 1) = key
    BY <2>1, AtSub
  <2>3. colon + Len(key) <= Len(s)
    BY <1>1, <2>1 DEF At
  <2>. QED
    BY <2>1, <2>2, <2>3
<1>9. i < colon /\ colon + Len(key) + 1 = i + Len(length) + 1 + Len(key)
  BY <1>1
<1>. HIDE DEF colon
<1>. QED
  BY <1>4, <1>6, <1>7, <1>8, <1>9 DEF parse_bytes, Holds

LEMMA IntegerRead ==
  ASSUME NEW B, NEW s \in Seq(B), NEW i \in Nat \ {0}, NEW t \in Seq(B), {"i", "e"} \subseteq B,
         NEW n \in Nat, Writes(t, n), n <= MaxInteger, MaxInteger \in Nat,
         At(s, BenInteger(t), i)
  PROVE  /\ parse_integer(s, i) = Ok([kind |-> "integer", n |-> n], i + Len(t) + 2)
         /\ i <= Len(s) /\ s[i] = "i"
<1>. DEFINE after == i + 1 + Len(t)
<1>1. /\ Len(t) \in Nat \ {0} /\ Len(s) \in Nat /\ after \in Nat /\ Number(t) = n
      /\ \A k \in 1 .. Len(t) : t[k] \in Digits
      /\ <<"i">> \in Seq(B) /\ Len(<<"i">>) = 1 /\ <<"e">> \in Seq(B) /\ Len(<<"e">>) = 1
      /\ <<"i">> \o t \in Seq(B) /\ Len(<<"i">> \o t) = 1 + Len(t)
  BY DEF Writes
<1>2. At(s, <<"i">> \o t, i) /\ At(s, <<"e">>, i + (1 + Len(t)))
  BY <1>1, AtParts DEF BenInteger
<1>3. At(s, <<"i">>, i) /\ At(s, t, i + 1)
  BY <1>1, <1>2, AtParts
<1>4. i <= Len(s) /\ s[i] = "i" /\ after <= Len(s) /\ s[after] = "e"
  <2>1. 1 \in 1 .. 1 /\ i + 1 - 1 = i /\ after + 1 - 1 = after /\ i + (1 + Len(t)) = after
    BY <1>1
  <2>2. i <= Len(s) /\ s[i] = "i"
    BY <1>1, <1>3, <2>1 DEF At
  <2>3. At(s, <<"e">>, after)
    BY <1>2, <2>1
  <2>. HIDE DEF after
  <2>4. after <= Len(s) /\ s[after] = "e"
    BY <1>1, <2>1, <2>3 DEF At
  <2>. QED
    BY <2>2, <2>4
<1>5. ASSUME NEW k \in (i + 1) .. (after - 1) PROVE HoldsDigit(s, k) /\ s[k] = t[k - i]
  <2>1. k - i \in 1 .. Len(t) /\ i + 1 + (k - i) - 1 = k /\ k <= Len(s)
    BY <1>1, <1>4
  <2>2. s[k] = t[k - i]
    BY <1>3, <2>1 DEF At
  <2>. QED
    BY <1>1, <2>1, <2>2 DEF HoldsDigit
<1>6. AfterDigits(s, i + 1) = after
  <2>1. i + 1 \in 1 .. (Len(s) + 1) /\ after \in (i + 1) .. (Len(s) + 1)
    BY <1>1, <1>4
  <2>2. ~HoldsDigit(s, after)
    BY <1>4, OtherBytes DEF HoldsDigit
  <2>. HIDE DEF after
  <2>. QED
    BY <1>5, <2>1, <2>2, AfterDigitsIs
<1>7. ~Holds(s, i + 1, "+") /\ ~Holds(s, i + 1, "-")
  <2>1. i + 1 \in (i + 1) .. (after - 1)
    BY <1>1
  <2>2. s[i + 1] \in Digits
    BY <1>5, <2>1 DEF HoldsDigit
  <2>. QED
    BY <2>2, OtherBytes DEF Holds
<1>8. SubSeq(s, i + 1, after - 1) = t
  <2>1. i + 1 \in Nat \ {0} /\ (i + 1) + Len(t) - 1 = after - 1
    BY <1>1
  <2>. HIDE DEF after
  <2>. QED
    BY <1>3, <2>1, AtSub
<1>9. i + 1 < after /\ after + 1 = i + Len(t) + 2
  BY <1>1
<1>10. Canonical("", t) /\ InRange("", n)
  BY DEF Canonical, InRange, Writes
<1>. HIDE DEF after
<1>11. parse_integer(s, i) = Ok([kind |-> "integer", n |-> n], after + 1)
  BY <1>1, <1>4, <1>6, <1>7, <1>8, <1>9, <1>10 DEF parse_integer, Holds
<1>. QED
  BY <1>4, <1>9, <1>11

-----------------------------------------------------------------------------
(* Dictionaries *)

\* The bytes a message is made of, beside those it carries.
Syntax ==
  Digits \cup {"d", "e", "i", ":"}
         \cup {"a", "c", "g", "l", "m", "o", "p", "s", "t", "u", "y", "z", "_"}

HasSyntax(B) == Syntax \subseteq B

LEMMA KeyTypes ==
  /\ Key.m \in Seq(Syntax) /\ Len(Key.m) = 1
  /\ Key.ut_metadata \in Seq(Syntax) /\ Len(Key.ut_metadata) = 11
  /\ Key.metadata_size \in Seq(Syntax) /\ Len(Key.metadata_size) = 13
  /\ Key.msg_type \in Seq(Syntax) /\ Len(Key.msg_type) = 8
  /\ Key.piece \in Seq(Syntax) /\ Len(Key.piece) = 5
  /\ Key.total_size \in Seq(Syntax) /\ Len(Key.total_size) = 10
  BY DEF Key, Syntax

LEMMA WiderSeq ==
  ASSUME NEW A, NEW B, A \subseteq B, NEW s \in Seq(A)
  PROVE  s \in Seq(B)
  OBVIOUS

LEMMA SyntaxHas ==
  ASSUME NEW B, HasSyntax(B)
  PROVE  /\ Digits \subseteq B /\ {"d", "e"} \subseteq B /\ {"i", "e"} \subseteq B /\ ":" \in B
         /\ Key.m \in Seq(B) /\ Key.ut_metadata \in Seq(B) /\ Key.metadata_size \in Seq(B)
         /\ Key.msg_type \in Seq(B) /\ Key.piece \in Seq(B) /\ Key.total_size \in Seq(B)
<1>1. Digits \subseteq B /\ {"d", "e"} \subseteq B /\ {"i", "e"} \subseteq B /\ ":" \in B
  <2>1. /\ Digits \subseteq Syntax /\ {"d", "e"} \subseteq Syntax /\ {"i", "e"} \subseteq Syntax
        /\ ":" \in Syntax
    BY DEF Syntax
  <2>. QED
    BY <2>1 DEF HasSyntax
<1>2. /\ Key.m \in Seq(B) /\ Key.ut_metadata \in Seq(B) /\ Key.metadata_size \in Seq(B)
      /\ Key.msg_type \in Seq(B) /\ Key.piece \in Seq(B) /\ Key.total_size \in Seq(B)
  BY KeyTypes, WiderSeq DEF HasSyntax
<1>. QED
  BY <1>1, <1>2

\* The value of an integer field.
Num(n) == [kind |-> "integer", n |-> n]

\* The entries e with one more before them: the last of equal keys counts.
Put(key, v, e) ==
  [k \in DOMAIN e \cup {key} |-> IF k \in DOMAIN e THEN e[k] ELSE v]

LEMMA StringSize ==
  ASSUME NEW B, NEW length \in Seq(B), NEW key \in Seq(B), ":" \in B
  PROVE  /\ BenString(length, key) \in Seq(B)
         /\ Len(BenString(length, key)) = Len(length) + 1 + Len(key)
<1>1. <<":">> \in Seq(B) /\ Len(<<":">>) = 1
  OBVIOUS
<1>2. length \o <<":">> \in Seq(B) /\ Len(length \o <<":">>) = Len(length) + 1
  BY <1>1
<1>. QED
  BY <1>2 DEF BenString

LEMMA IntegerSize ==
  ASSUME NEW B, NEW digits \in Seq(B), {"i", "e"} \subseteq B
  PROVE  /\ BenInteger(digits) \in Seq(B)
         /\ Len(BenInteger(digits)) = Len(digits) + 2
<1>1. <<"i">> \in Seq(B) /\ Len(<<"i">>) = 1 /\ <<"e">> \in Seq(B) /\ Len(<<"e">>) = 1
  OBVIOUS
<1>2. <<"i">> \o digits \in Seq(B) /\ Len(<<"i">> \o digits) = 1 + Len(digits)
  BY <1>1
<1>. QED
  BY <1>1, <1>2 DEF BenInteger

LEMMA DictSize ==
  ASSUME NEW B, NEW fields \in Seq(B), {"d", "e"} \subseteq B
  PROVE  /\ BenDict(fields) \in Seq(B)
         /\ Len(BenDict(fields)) = Len(fields) + 2
<1>1. <<"d">> \in Seq(B) /\ Len(<<"d">>) = 1 /\ <<"e">> \in Seq(B) /\ Len(<<"e">>) = 1
  OBVIOUS
<1>2. <<"d">> \o fields \in Seq(B) /\ Len(<<"d">> \o fields) = 1 + Len(fields)
  BY <1>1
<1>. QED
  BY <1>1, <1>2 DEF BenDict

LEMMA AtDict ==
  ASSUME NEW B, NEW s \in Seq(B), NEW fields \in Seq(B), {"d", "e"} \subseteq B,
         NEW i \in Nat, At(s, BenDict(fields), i)
  PROVE  /\ Holds(s, i, "d") /\ At(s, fields, i + 1)
         /\ Holds(s, i + 1 + Len(fields), "e")
<1>. DEFINE last == i + 1 + Len(fields)
<1>1. /\ <<"d">> \in Seq(B) /\ Len(<<"d">>) = 1 /\ <<"e">> \in Seq(B) /\ Len(<<"e">>) = 1
      /\ Len(s) \in Nat /\ Len(fields) \in Nat /\ last \in Nat
  OBVIOUS
<1>2. <<"d">> \o fields \in Seq(B) /\ Len(<<"d">> \o fields) = 1 + Len(fields)
  BY <1>1
<1>3. At(s, <<"d">> \o fields, i) /\ At(s, <<"e">>, i + (1 + Len(fields)))
  BY <1>1, <1>2, AtParts DEF BenDict
<1>4. At(s, <<"d">>, i) /\ At(s, fields, i + 1)
  BY <1>1, <1>3, AtParts
<1>5. At(s, <<"e">>, last) /\ 1 \in 1 .. 1 /\ i + 1 - 1 = i /\ last + 1 - 1 = last
  BY <1>1, <1>3
<1>. HIDE DEF last
<1>6. i <= Len(s) /\ s[i] = "d"
  BY <1>1, <1>4, <1>5 DEF At
<1>7. last <= Len(s) /\ s[last] = "e"
  BY <1>1, <1>5 DEF At
<1>. QED
  BY <1>4, <1>6, <1>7 DEF Holds, last

\* A key and its value are read before the rest of the dictionary.
LEMMA PairRead ==
  ASSUME NEW B, NEW s \in Seq(B), NEW i \in Places(s), NEW key, NEW j, NEW v, NEW k, NEW e,
         NEW m, HoldsDigit(s, i),
         parse_bytes(s, i) = Ok([kind |-> "bytes", bytes |-> key], j),
         Parser(s)[<<"value", j>>] = Ok(v, k), Parser(s)[<<"pairs", k>>] = Ok(e, m)
  PROVE  Parser(s)[<<"pairs", i>>] = Ok(Put(key, v, e), m)
<1>. DEFINE f == Parser(s)
<1>1. f[<<"pairs", i>>] = Pairs(f, s, i)
  BY ParserIs DEF Steps
<1>. HIDE DEF f
<1>2. ~Holds(s, i, "e")
  BY OtherBytes DEF HoldsDigit, Holds
<1>3. parse_bytes(s, i).ok /\ parse_bytes(s, i).at = j /\ parse_bytes(s, i).value.bytes = key
  BY DEF Ok
<1>4. f[<<"value", j>>].ok /\ f[<<"value", j>>].value = v /\ f[<<"value", j>>].at = k
  BY DEF Ok, f
<1>5. f[<<"pairs", k>>].ok /\ f[<<"pairs", k>>].value = e /\ f[<<"pairs", k>>].at = m
  BY DEF Ok, f
<1>6. f[<<"pairs", i>>] = Under(key, v, f[<<"pairs", k>>])
  BY <1>1, <1>2, <1>3, <1>4 DEF Pairs
<1>. QED
  BY <1>5, <1>6 DEF Under, Put, f

\* A key stands in s from i up to before j.
KeyAt(s, i, j, key, length) ==
  /\ Len(key) <= MaxLength /\ Writes(length, Len(key))
  /\ At(s, BenString(length, key), i)
  /\ j = i + Len(BenString(length, key))

LEMMA KeyRead ==
  ASSUME NEW B, HasSyntax(B), NEW s \in Seq(B), NEW i \in Nat \ {0}, NEW key \in Seq(B),
         NEW length, NEW j, KeyAt(s, i, j, key, length)
  PROVE  /\ parse_bytes(s, i) = Ok([kind |-> "bytes", bytes |-> key], j)
         /\ i \in Places(s) /\ HoldsDigit(s, i) /\ j \in Nat \ {0}
<1>. DEFINE x == BenString(length, key)
<1>0. /\ Len(key) <= MaxLength /\ Writes(length, Len(key)) /\ At(s, x, i) /\ j = i + Len(x)
  BY DEF KeyAt
<1>1. /\ length \in Seq(Digits) /\ Len(length) \in Nat \ {0} /\ Number(length) = Len(key)
      /\ IsNumeral(length) /\ length \in Seq(B) /\ ":" \in B
  <2>1. length \in Seq(Digits) /\ length # <<>> /\ Number(length) = Len(key)
    BY <1>0 DEF Writes
  <2>2. (\A k \in 1 .. Len(length) : length[k] \in Digits) /\ Len(length) \in Nat \ {0}
    BY <2>1
  <2>3. Digits \subseteq B /\ ":" \in B
    BY SyntaxHas
  <2>4. length \in Seq(B)
    BY <2>1, <2>3, WiderSeq
  <2>. QED
    BY <2>1, <2>2, <2>3, <2>4 DEF IsNumeral
<1>2. x \in Seq(B) /\ Len(x) = Len(length) + 1 + Len(key) /\ At(s, x, i)
  BY <1>0, <1>1, StringSize
<1>3. parse_bytes(s, i) = Ok([kind |-> "bytes", bytes |-> key], j)
  <2>1. j = i + Len(length) + 1 + Len(key)
    BY <1>0, <1>1, <1>2
  <2>2. /\ At(s, BenString(length, key), i) /\ ":" \in B /\ IsNumeral(length)
        /\ Number(length) = Len(key) /\ length \in Seq(B) /\ Len(key) <= MaxLength
    BY <1>0, <1>1
  <2>3. parse_bytes(s, i) = Ok([kind |-> "bytes", bytes |-> key], i + Len(length) + 1 + Len(key))
    BY <2>2, StringRead
  <2>. QED
    BY <2>1, <2>3
<1>4. i \in Places(s) /\ HoldsDigit(s, i)
  <2>1. /\ length \o <<":">> \in Seq(B) /\ <<":">> \in Seq(B) /\ Len(s) \in Nat
        /\ Len(key) \in Nat
    BY <1>1
  <2>2. At(s, length, i)
    <3>1. At(s, length \o <<":">>, i)
      BY <1>2, <2>1, AtParts DEF BenString
    <3>. QED
      BY <1>1, <2>1, <3>1, AtParts
  <2>3. s[i] = length[1] /\ length[1] \in Digits /\ i <= Len(s)
    <3>1. 1 \in 1 .. Len(length) /\ i + 1 - 1 = i
      BY <1>1
    <3>. QED
      BY <1>1, <2>1, <2>2, <3>1 DEF At
  <2>. QED
    BY <2>1, <2>3 DEF Places, HoldsDigit
<1>5. j \in Nat \ {0}
  <2>1. Len(key) \in Nat /\ Len(length) \in Nat
    BY <1>1
  <2>. QED
    BY <1>0, <1>2, <2>1
<1>. QED
  BY <1>3, <1>4, <1>5, Zenon

\* A field with a number stands in s from i up to before j.
FieldAt(s, i, j, key, length, t, n) ==
  \E k : /\ KeyAt(s, i, k, key, length)
         /\ At(s, BenInteger(t), k) /\ j = k + Len(BenInteger(t))
         /\ n \in Nat /\ n <= MaxInteger /\ Writes(t, n)

LEMMA FieldRead ==
  ASSUME NEW B, HasSyntax(B), NEW s \in Seq(B), NEW i \in Nat \ {0}, NEW key \in Seq(B),
         NEW length, NEW t, NEW n, MaxInteger \in Nat,
         NEW k, FieldAt(s, i, k, key, length, t, n),
         NEW e, NEW m, Parser(s)[<<"pairs", k>>] = Ok(e, m)
  PROVE  Parser(s)[<<"pairs", i>>] = Ok(Put(key, Num(n), e), m)
<1>1. PICK j : /\ KeyAt(s, i, j, key, length)
               /\ At(s, BenInteger(t), j) /\ k = j + Len(BenInteger(t))
               /\ n \in Nat /\ n <= MaxInteger /\ Writes(t, n)
  BY DEF FieldAt
<1>2. /\ parse_bytes(s, i) = Ok([kind |-> "bytes", bytes |-> key], j)
      /\ i \in Places(s) /\ HoldsDigit(s, i) /\ j \in Nat \ {0}
  BY <1>1, KeyRead
<1>3. {"i", "e"} \subseteq B /\ t \in Seq(B) /\ Len(s) \in Nat
  <2>1. t \in Seq(Digits)
    BY <1>1 DEF Writes
  <2>. QED
    BY <2>1, SyntaxHas, WiderSeq
<1>4. k = j + Len(t) + 2
  <2>1. Len(BenInteger(t)) = Len(t) + 2
    BY <1>3, IntegerSize
  <2>. QED
    BY <1>1, <1>2, <1>3, <2>1
<1>5. /\ parse_integer(s, j) = Ok([kind |-> "integer", n |-> n], j + Len(t) + 2)
      /\ j <= Len(s) /\ s[j] = "i"
  BY <1>1, <1>2, <1>3, IntegerRead
<1>6. parse_integer(s, j) = Ok(Num(n), k)
  BY <1>4, <1>5 DEF Num
<1>7. j \in Places(s)
  BY <1>2, <1>3, <1>5 DEF Places
<1>8. Parser(s)[<<"value", j>>] = Ok(Num(n), k)
  <2>1. Parser(s)[<<"value", j>>] = parse_value(Parser(s), s, j)
    BY <1>7, ParserIs DEF Steps
  <2>2. ~HoldsDigit(s, j) /\ Holds(s, j, "i")
    BY <1>5, OtherBytes DEF HoldsDigit, Holds
  <2>. QED
    BY <1>6, <2>1, <2>2 DEF parse_value
<1>. QED
  BY <1>2, <1>8, PairRead

\* The end of a dictionary.
LEMMA EndRead ==
  ASSUME NEW B, NEW s \in Seq(B), NEW i \in Nat \ {0}, Holds(s, i, "e")
  PROVE  Parser(s)[<<"pairs", i>>] = Ok(<<>>, i + 1)
<1>1. i \in Places(s)
  BY DEF Places, Holds
<1>2. Parser(s)[<<"pairs", i>>] = Pairs(Parser(s), s, i)
  BY <1>1, ParserIs DEF Steps
<1>. QED
  BY <1>2 DEF Pairs

\* A dictionary.
LEMMA DictIs ==
  ASSUME NEW B, NEW s \in Seq(B), NEW i \in Nat \ {0}, Holds(s, i, "d"), NEW e, NEW m,
         Parser(s)[<<"pairs", i + 1>>] = Ok(e, m)
  PROVE  Parser(s)[<<"value", i>>]
           = Ok([kind |-> "dict", entries |-> e, raw |-> Raw(s, i, m)], m)
<1>. DEFINE f == Parser(s)
<1>1. i \in Places(s)
  BY DEF Places, Holds
<1>2. f[<<"value", i>>] = parse_value(f, s, i)
  BY <1>1, ParserIs DEF Steps
<1>3. f[<<"pairs", i + 1>>].ok /\ f[<<"pairs", i + 1>>].value = e /\ f[<<"pairs", i + 1>>].at = m
  BY DEF Ok
<1>. HIDE DEF f
<1>4. ~HoldsDigit(s, i) /\ ~Holds(s, i, "i") /\ ~Holds(s, i, "l")
  BY OtherBytes DEF Holds, HoldsDigit
<1>5. f[<<"value", i>>] = parse_dict(f, s, i)
  BY <1>2, <1>4 DEF parse_value
<1>. QED
  BY <1>3, <1>5 DEF parse_dict, f

-----------------------------------------------------------------------------
(* Metadata messages *)

LEMMA TwoBytes ==
  ASSUME NEW a, NEW b
  PROVE  Append(<<a>>, b) = <<a, b>>
<1>. DEFINE S == {a, b}
            s == Append(<<a>>, b)
            t == <<a, b>>
<1>1. s \in Seq(S) /\ Len(s) = 2 /\ s[1] = a /\ s[2] = b
  <2>1. <<a>> \in Seq(S) /\ Len(<<a>>) = 1 /\ b \in S /\ <<a>>[1] = a
    OBVIOUS
  <2>. HIDE DEF S
  <2>. QED
    BY <2>1
<1>2. t \in Seq(S) /\ Len(t) = 2 /\ t[1] = a /\ t[2] = b
  OBVIOUS
<1>. HIDE DEF s, t, S
<1>3. \A k \in 1 .. 2 : k = 1 \/ k = 2
  OBVIOUS
<1>4. s = t
  BY <1>1, <1>2, <1>3, SeqEqual
<1>. QED
  BY <1>4 DEF s, t

\* The lengths of the keys and the types of messages, as the program writes them.
LEMMA NumeralsWritten ==
  /\ Writes(<<"0">>, 0) /\ Writes(<<"1">>, 1) /\ Writes(<<"2">>, 2) /\ Writes(<<"5">>, 5)
  /\ Writes(<<"8">>, 8) /\ Writes(<<"1", "0">>, 10) /\ Writes(<<"1", "1">>, 11)
  /\ Writes(<<"1", "3">>, 13)
<1>1. /\ Numerals[0 + 1] = "0" /\ Numerals[1 + 1] = "1" /\ Numerals[2 + 1] = "2"
      /\ Numerals[3 + 1] = "3" /\ Numerals[5 + 1] = "5" /\ Numerals[8 + 1] = "8"
  BY DEF Numerals
<1>2. 0 \in 0 .. 9 /\ 1 \in 0 .. 9 /\ 2 \in 0 .. 9 /\ 5 \in 0 .. 9 /\ 8 \in 0 .. 9
  OBVIOUS
<1>3. /\ Writes(<<"0">>, 0) /\ Writes(<<"1">>, 1) /\ Writes(<<"2">>, 2) /\ Writes(<<"5">>, 5)
      /\ Writes(<<"8">>, 8)
  BY <1>1, <1>2, OneDigit, Zenon
<1>4. /\ 10 \div 10 = 1 /\ 11 \div 10 = 1 /\ 13 \div 10 = 1
      /\ 10 % 10 = 0 /\ 11 % 10 = 1 /\ 13 % 10 = 3
      /\ 10 \in Nat /\ 11 \in Nat /\ 13 \in Nat /\ 10 >= 10 /\ 11 >= 10 /\ 13 >= 10
  OBVIOUS
<1>5. /\ Append(<<"1">>, "0") = <<"1", "0">> /\ Append(<<"1">>, "1") = <<"1", "1">>
      /\ Append(<<"1">>, "3") = <<"1", "3">>
  BY TwoBytes
<1>6. Writes(<<"1", "0">>, 10)
  <2>1. Writes(Append(<<"1">>, Numerals[(10 % 10) + 1]), 10)
    BY <1>3, <1>4, MoreDigits, Zenon
  <2>. QED
    BY <1>1, <1>4, <1>5, <2>1, Zenon
<1>7. Writes(<<"1", "1">>, 11)
  <2>1. Writes(Append(<<"1">>, Numerals[(11 % 10) + 1]), 11)
    BY <1>3, <1>4, MoreDigits, Zenon
  <2>. QED
    BY <1>1, <1>4, <1>5, <2>1, Zenon
<1>8. Writes(<<"1", "3">>, 13)
  <2>1. Writes(Append(<<"1">>, Numerals[(13 % 10) + 1]), 13)
    BY <1>3, <1>4, MoreDigits, Zenon
  <2>. QED
    BY <1>1, <1>4, <1>5, <2>1, Zenon
<1>. QED
  BY <1>3, <1>6, <1>7, <1>8

\* The entries of a dictionary with one more before them.
LEMMA PutIs ==
  ASSUME NEW key, NEW v, NEW e, key \notin DOMAIN e
  PROVE  /\ DOMAIN Put(key, v, e) = DOMAIN e \cup {key}
         /\ Put(key, v, e)[key] = v
         /\ \A k \in DOMAIN e : Put(key, v, e)[k] = e[k]
  BY DEF Put

LEMMA KeysDiffer ==
  /\ Key.msg_type # Key.piece /\ Key.msg_type # Key.total_size /\ Key.piece # Key.total_size
  /\ Key.m # Key.metadata_size
<1>1. /\ Len(Key.m) = 1 /\ Len(Key.metadata_size) = 13 /\ Len(Key.msg_type) = 8
      /\ Len(Key.piece) = 5 /\ Len(Key.total_size) = 10
  BY KeyTypes
<1>2. \A a, b : a = b => Len(a) = Len(b)
  OBVIOUS
<1>3. 1 # 13 /\ 8 # 5 /\ 8 # 10 /\ 5 # 10
  OBVIOUS
<1>. QED
  BY <1>1, <1>2, <1>3, Zenon

LEMMA JoinSize ==
  ASSUME NEW B, NEW s \in Seq(B), NEW t \in Seq(B)
  PROVE  s \o t \in Seq(B) /\ Len(s \o t) = Len(s) + Len(t)
  OBVIOUS

\* How long what every metadata message begins with is.
LEMMA FieldsSize ==
  ASSUME NEW B, HasSyntax(B), NEW type, NEW c \in Nat, Writes(<<type>>, c), NEW p \in Nat
  PROVE  /\ Fields(type, p) \in Seq(B)
         /\ Len(Fields(type, p)) = 22 + Len(Decimal(p))
         /\ Decimal(p) \in Seq(B) /\ <<type>> \in Seq(B) /\ Len(Decimal(p)) \in 1 .. (p + 1)
<1>. DEFINE w == BenString(<<"8">>, Key.msg_type)
            x == BenInteger(<<type>>)
            y == BenString(<<"5">>, Key.piece)
            z == BenInteger(Decimal(p))
<1>1. /\ <<"8">> \in Seq(Digits) /\ <<"5">> \in Seq(Digits) /\ <<type>> \in Seq(Digits)
      /\ Decimal(p) \in Seq(Digits) /\ Len(Decimal(p)) \in 1 .. (p + 1)
  <2>1. Decimal(p) \in Seq(Digits) /\ Decimal(p) # <<>> /\ Len(Decimal(p)) <= p + 1
    BY DecimalWrites DEF Writes
  <2>2. Len(Decimal(p)) \in 1 .. (p + 1)
    BY <2>1
  <2>. QED
    BY <2>1, <2>2, NumeralsWritten DEF Writes
<1>2. /\ <<"8">> \in Seq(B) /\ <<"5">> \in Seq(B) /\ <<type>> \in Seq(B) /\ Decimal(p) \in Seq(B)
  BY <1>1, SyntaxHas, WiderSeq
<1>3. w \in Seq(B) /\ Len(w) = 10 /\ y \in Seq(B) /\ Len(y) = 7
  <2>1. Len(<<"8">>) = 1 /\ Len(<<"5">>) = 1
    OBVIOUS
  <2>2. w \in Seq(B) /\ Len(w) = Len(<<"8">>) + 1 + Len(Key.msg_type)
    BY <1>2, SyntaxHas, StringSize
  <2>3. y \in Seq(B) /\ Len(y) = Len(<<"5">>) + 1 + Len(Key.piece)
    BY <1>2, SyntaxHas, StringSize
  <2>. QED
    BY <2>1, <2>2, <2>3, KeyTypes
<1>4. x \in Seq(B) /\ Len(x) = 3 /\ z \in Seq(B) /\ Len(z) = Len(Decimal(p)) + 2
  <2>1. x \in Seq(B) /\ Len(x) = Len(<<type>>) + 2 /\ z \in Seq(B) /\ Len(z) = Len(Decimal(p)) + 2
    BY <1>2, SyntaxHas, IntegerSize
  <2>. QED
    BY <2>1
<1>5. Fields(type, p) = w \o x \o y \o z
  BY DEF Fields
<1>. HIDE DEF w, x, y, z
<1>6. w \o x \in Seq(B) /\ Len(w \o x) = Len(w) + Len(x)
  BY <1>3, <1>4, JoinSize
<1>7. w \o x \o y \in Seq(B) /\ Len(w \o x \o y) = Len(w \o x) + Len(y)
  BY <1>3, <1>6, JoinSize
<1>8. w \o x \o y \o z \in Seq(B) /\ Len(w \o x \o y \o z) = Len(w \o x \o y) + Len(z)
  BY <1>4, <1>7, JoinSize
<1>9. Len(w \o x \o y \o z) = 22 + Len(Decimal(p))
  BY <1>1, <1>3, <1>4, <1>6, <1>7, <1>8
<1>. QED
  BY <1>1, <1>2, <1>5, <1>8, <1>9

\* And what is read of it.
LEMMA FieldsRead ==
  ASSUME NEW B, HasSyntax(B), NEW s \in Seq(B), NEW i \in Nat \ {0},
         NEW type, NEW c \in Nat, Writes(<<type>>, c), c <= MaxInteger,
         NEW p \in Nat, p <= MaxInteger, MaxInteger \in Nat, MaxLength \in Nat, 13 <= MaxLength,
         At(s, Fields(type, p), i), NEW e, NEW m,
         Parser(s)[<<"pairs", i + Len(Fields(type, p))>>] = Ok(e, m)
  PROVE  Parser(s)[<<"pairs", i>>] = Ok(Put(Key.msg_type, Num(c), Put(Key.piece, Num(p), e)), m)
<1>. DEFINE w == BenString(<<"8">>, Key.msg_type)
            x == BenInteger(<<type>>)
            y == BenString(<<"5">>, Key.piece)
            z == BenInteger(Decimal(p))
<1>1. /\ <<"8">> \in Seq(B) /\ <<"5">> \in Seq(B) /\ <<type>> \in Seq(B) /\ Decimal(p) \in Seq(B)
  <2>1. <<"8">> \in Seq(Digits) /\ <<"5">> \in Seq(Digits)
    BY NumeralsWritten DEF Writes
  <2>. QED
    BY <2>1, FieldsSize, SyntaxHas, WiderSeq
<1>2. w \in Seq(B) /\ y \in Seq(B) /\ x \in Seq(B) /\ z \in Seq(B)
  BY <1>1, SyntaxHas, StringSize, IntegerSize
<1>3. Fields(type, p) = w \o x \o y \o z
  BY DEF Fields
<1>4. At(s, w \o x \o y \o z, i)
  BY <1>3
<1>. DEFINE j == i + Len(w)
            k == i + Len(w) + Len(x)
            l == i + Len(w) + Len(x) + Len(y)
<1>5. /\ At(s, w, i) /\ At(s, x, j) /\ At(s, y, k) /\ At(s, z, l)
      /\ i + Len(Fields(type, p)) = l + Len(z) /\ k \in Nat \ {0}
  <2>. HIDE DEF w, x, y, z
  <2>1. w \o x \in Seq(B) /\ w \o x \o y \in Seq(B) /\ i \in Nat
    BY <1>2
  <2>2. Len(w \o x) = Len(w) + Len(x) /\ Len(w \o x \o y) = Len(w) + Len(x) + Len(y)
        /\ Len(w \o x \o y \o z) = Len(w) + Len(x) + Len(y) + Len(z)
    BY <1>2, <2>1
  <2>3. At(s, w \o x \o y, i) /\ At(s, z, i + Len(w \o x \o y))
    BY <1>2, <1>4, <2>1, AtParts
  <2>4. At(s, w \o x, i) /\ At(s, y, i + Len(w \o x))
    BY <1>2, <2>1, <2>3, AtParts
  <2>5. At(s, w, i) /\ At(s, x, i + Len(w))
    BY <1>2, <2>1, <2>4, AtParts
  <2>6. Len(w) \in Nat /\ Len(x) \in Nat /\ Len(y) \in Nat /\ Len(z) \in Nat
    BY <1>2
  <2>7. i + Len(w \o x \o y) = l /\ i + Len(w \o x) = k
        /\ i + Len(w \o x \o y \o z) = l + Len(z) /\ k \in Nat \ {0}
    BY <2>2, <2>6
  <2>. QED
    BY <1>3, <2>3, <2>4, <2>5, <2>7
<1>. DEFINE rest == Put(Key.piece, Num(p), e)
<1>6. Parser(s)[<<"pairs", k>>] = Ok(rest, m)
  <2>. DEFINE last == i + Len(Fields(type, p))
  <2>1. Key.piece \in Seq(B) /\ Len(Key.piece) <= MaxLength /\ Writes(<<"5">>, Len(Key.piece))
    BY SyntaxHas, KeyTypes, NumeralsWritten
  <2>2. Writes(Decimal(p), p)
    BY DecimalWrites
  <2>3. At(s, z, k + Len(y)) /\ At(s, y, k) /\ k \in Nat \ {0} /\ last = k + Len(y) + Len(z)
    BY <1>5
  <2>4. Parser(s)[<<"pairs", last>>] = Ok(e, m)
    OBVIOUS
  <2>. HIDE DEF k, last
  <2>5. KeyAt(s, k, k + Len(y), Key.piece, <<"5">>)
    BY <2>1, <2>3 DEF KeyAt
  <2>6. FieldAt(s, k, last, Key.piece, <<"5">>, Decimal(p), p)
    BY <2>2, <2>3, <2>5 DEF FieldAt
  <2>. QED
    BY <2>1, <2>3, <2>4, <2>6, FieldRead
<1>7. Parser(s)[<<"pairs", i>>] = Ok(Put(Key.msg_type, Num(c), rest), m)
  <2>1. /\ Key.msg_type \in Seq(B) /\ Len(Key.msg_type) <= MaxLength
        /\ Writes(<<"8">>, Len(Key.msg_type))
    BY SyntaxHas, KeyTypes, NumeralsWritten
  <2>2. At(s, w, i) /\ At(s, x, i + Len(w)) /\ k = i + Len(w) + Len(x)
    BY <1>5
  <2>. HIDE DEF rest, k
  <2>3. KeyAt(s, i, i + Len(w), Key.msg_type, <<"8">>)
    BY <2>1, <2>2 DEF KeyAt
  <2>4. FieldAt(s, i, k, Key.msg_type, <<"8">>, <<type>>, c)
    BY <2>2, <2>3 DEF FieldAt
  <2>. QED
    BY <1>6, <2>1, <2>4, FieldRead
<1>. QED
  BY <1>7

-----------------------------------------------------------------------------
(* The dictionary that a message begins with *)

\* It ends where the scanner says, and what it holds is parsed from the bytes up to there.
LEMMA DictFound ==
  ASSUME NEW B, HasSyntax(B), NEW s \in Seq(B), MaxLength \in Nat, Len(s) <= MaxLength,
         NEW fields \in Seq(B), At(s, BenDict(fields), 1),
         NEW e, Parser(s)[<<"pairs", 2>>] = Ok(e, Len(fields) + 3)
  PROVE  LET h == Len(fields) + 2
             r == parse(SubSeq(s, 1, h))
         IN  find_bencode_end(s) = h /\ h \in 1 .. Len(s) /\ r.ok /\ Entries(r) = Some(e)
<1>. DEFINE h == Len(fields) + 2
            t == SubSeq(s, 1, h)
            v == [kind |-> "dict", entries |-> e, raw |-> Raw(s, 1, h + 1)]
<1>1. Len(fields) \in Nat /\ Len(s) \in Nat /\ {"d", "e"} \subseteq B
  BY SyntaxHas
<1>2. Holds(s, 1, "d") /\ Holds(s, h, "e")
  <2>1. Holds(s, 1, "d") /\ Holds(s, 1 + 1 + Len(fields), "e")
    BY <1>1, AtDict
  <2>2. 1 + 1 + Len(fields) = h
    BY <1>1
  <2>. QED
    BY <2>1, <2>2
<1>3. h \in 1 .. Len(s) /\ h + 1 \in 2 .. (Len(s) + 1) /\ Len(fields) + 3 = h + 1
  BY <1>1, <1>2 DEF Holds
<1>. HIDE DEF h
<1>4. Parser(s)[<<"value", 1>>] = Ok(v, h + 1)
  <2>1. Parser(s)[<<"pairs", 1 + 1>>] = Ok(e, h + 1) /\ 1 \in Nat \ {0}
    BY <1>3
  <2>. QED
    BY <1>2, <2>1, DictIs
<1>. HIDE DEF v
<1>5. find_bencode_end(s) = h
  <2>1. 1 \in Places(s) /\ h + 1 \in Places(s)
    BY <1>3 DEF Places
  <2>2. Reads(Parser(s)[<<"value", 1>>], h + 1)
    BY <1>4 DEF Reads, Ok
  <2>3. Grammar(s)[<<"value", 1, h + 1>>]
    BY <2>1, <2>2, ParserAgrees DEF Agree
  <2>4. find_bencode_end(s) = (h + 1) - 1
    BY <1>3, <2>3, EndFound
  <2>. QED
    BY <1>3, <2>4
<1>6. t \in Seq(B) /\ Part(t, s, 0, h) /\ Len(t) = h
  BY <1>1, <1>3 DEF Part
<1>. HIDE DEF t
<1>7. Parser(t)[<<"value", 1>>] = Ok(v, h + 1)
  <2>1. 1 \in Places(t)
    BY <1>3, <1>6 DEF Places
  <2>2. Moved(Parser(s)[<<"value", 1 + 0>>], Parser(t)[<<"value", 1>>], 0, h)
    BY <1>6, <2>1, ParserMoved DEF Moving
  <2>3. 1 + 0 = 1 /\ (h + 1) - 0 = h + 1 /\ h + 1 <= h + 1
    BY <1>3
  <2>4. Parser(s)[<<"value", 1>>].ok /\ Parser(s)[<<"value", 1>>].at = h + 1
        /\ Parser(s)[<<"value", 1>>].value = v
    BY <1>4 DEF Ok
  <2>. QED
    BY <2>2, <2>3, <2>4 DEF Moved
<1>8. parse(t) = Ok(<<v>>, h + 1)
  BY <1>6, <1>7, ParsesAlone
<1>9. parse(t).ok /\ Entries(parse(t)) = Some(e)
  <2>1. parse(t).ok /\ parse(t).value = <<v>>
    BY <1>8 DEF Ok
  <2>2. <<v>> # <<>> /\ <<v>>[1] = v /\ v.kind = "dict" /\ v.entries = e
    BY DEF v
  <2>. QED
    BY <2>1, <2>2 DEF Entries
<1>. QED
  BY <1>3, <1>5, <1>9 DEF h, t

LEMMA AtStart ==
  ASSUME NEW B, NEW s \in Seq(B), NEW t \in Seq(B)
  PROVE  /\ At(s \o t, s, 1) /\ At(s, s, 1)
         /\ SubSeq(s \o t, Len(s) + 1, Len(s \o t)) = t
<1>. DEFINE u == s \o t
<1>1. /\ Len(s) \in Nat /\ Len(t) \in Nat /\ u \in Seq(B) /\ Len(u) = Len(s) + Len(t)
      /\ \A k \in 1 .. Len(s) : u[k] = s[k]
      /\ \A k \in 1 .. Len(t) : u[Len(s) + k] = t[k]
  OBVIOUS
<1>. HIDE DEF u
<1>2. At(u, s, 1) /\ At(s, s, 1)
  <2>1. \A k \in 1 .. Len(s) : 1 + k - 1 = k
    OBVIOUS
  <2>. QED
    BY <1>1, <2>1 DEF At
<1>3. At(u, t, Len(s) + 1)
  <2>1. \A k \in 1 .. Len(t) : (Len(s) + 1) + k - 1 = Len(s) + k
    BY <1>1
  <2>. QED
    BY <1>1, <2>1 DEF At
<1>4. SubSeq(u, Len(s) + 1, Len(u)) = t
  <2>1. Len(s) + 1 \in Nat \ {0} /\ (Len(s) + 1) + Len(t) - 1 = Len(u)
    BY <1>1
  <2>2. SubSeq(u, Len(s) + 1, (Len(s) + 1) + Len(t) - 1) = t
    BY <1>1, <1>3, <2>1, AtSub
  <2>. QED
    BY <2>1, <2>2
<1>. QED
  BY <1>2, <1>4 DEF u

\* What the entries hold under a key.
LEMMA NumberAt ==
  ASSUME NEW e, NEW key \in DOMAIN e, NEW n, e[key] = Num(n)
  PROVE  IntegerAt(Some(e), key) = Some(n)
<1>1. e[key].kind = "integer" /\ e[key].n = n
  BY DEF Num
<1>2. ValueAt(Some(e), key, "integer") = Some(e[key])
  BY <1>1 DEF ValueAt, Some
<1>. DEFINE x == e[key]
<1>. HIDE DEF x
<1>3. Some(x).some /\ Some(x).it = x
  BY DEF Some
<1>. QED
  BY <1>1, <1>2, <1>3 DEF IntegerAt, x

LEMMA HeaderHolds ==
  ASSUME NEW c, NEW p, NEW e, Key.msg_type \notin DOMAIN e, Key.piece \notin DOMAIN e
  PROVE  LET entries == Some(Put(Key.msg_type, Num(c), Put(Key.piece, Num(p), e)))
         IN  IntegerAt(entries, Key.msg_type) = Some(c) /\ IntegerAt(entries, Key.piece) = Some(p)
<1>. DEFINE a == Put(Key.piece, Num(p), e)
            b == Put(Key.msg_type, Num(c), a)
<1>1. /\ DOMAIN a = DOMAIN e \cup {Key.piece} /\ a[Key.piece] = Num(p)
  BY DEF Put
<1>. HIDE DEF a
<1>2. Key.msg_type \notin DOMAIN a /\ Key.piece \in DOMAIN a
  BY <1>1, KeysDiffer
<1>3. /\ DOMAIN b = DOMAIN a \cup {Key.msg_type} /\ b[Key.msg_type] = Num(c)
      /\ \A k \in DOMAIN a : b[k] = a[k]
  BY <1>2, PutIs DEF Put
<1>. HIDE DEF b
<1>4. Key.msg_type \in DOMAIN b /\ Key.piece \in DOMAIN b /\ b[Key.piece] = Num(p)
  BY <1>1, <1>2, <1>3
<1>. QED
  BY <1>3, <1>4, NumberAt DEF a, b

-----------------------------------------------------------------------------
(* Metadata messages *)

\* The widest integers hold the types of messages, and the lengths of their keys.
Bounds ==
  MaxInteger \in Nat /\ 2 <= MaxInteger /\ MaxLength \in Nat /\ 13 <= MaxLength

\* s begins with a message with these fields, of which those after the first two, or
\* their end, are read as e.
Message(s, type, c, p, fields, e) ==
  /\ Len(s) <= MaxLength /\ Writes(<<type>>, c) /\ p <= MaxInteger
  /\ At(s, BenDict(fields), 1) /\ At(s, Fields(type, p), 2)
  /\ Key.msg_type \notin DOMAIN e /\ Key.piece \notin DOMAIN e
  /\ Parser(s)[<<"pairs", 2 + Len(Fields(type, p))>>] = Ok(e, Len(fields) + 3)

\* The header of s ends at h and holds this type and piece.
HeaderIs(s, h, c, p) ==
  LET r == parse(SubSeq(s, 1, h))
  IN  /\ find_bencode_end(s) = h /\ h \in 1 .. Len(s) /\ r.ok
      /\ IntegerAt(Entries(r), Key.msg_type) = Some(c)
      /\ IntegerAt(Entries(r), Key.piece) = Some(p)

LEMMA MessageRead ==
  ASSUME NEW B, HasSyntax(B), Bounds, NEW s \in Seq(B), NEW type, NEW c \in 0 .. 2,
         NEW p \in Nat, NEW fields \in Seq(B), NEW e, Message(s, type, c, p, fields, e)
  PROVE  HeaderIs(s, Len(fields) + 2, c, p)
<1>. DEFINE h == Len(fields) + 2
            r == parse(SubSeq(s, 1, h))
            b == Put(Key.msg_type, Num(c), Put(Key.piece, Num(p), e))
            m == Len(fields) + 3
<1>0. /\ Len(s) <= MaxLength /\ Writes(<<type>>, c) /\ p <= MaxInteger
      /\ At(s, BenDict(fields), 1) /\ At(s, Fields(type, p), 2)
      /\ Key.msg_type \notin DOMAIN e /\ Key.piece \notin DOMAIN e
      /\ Parser(s)[<<"pairs", 2 + Len(Fields(type, p))>>] = Ok(e, m)
  BY DEF Message
<1>1. /\ MaxInteger \in Nat /\ c <= MaxInteger /\ MaxLength \in Nat /\ 13 <= MaxLength
      /\ c \in Nat /\ 2 \in Nat \ {0}
  BY DEF Bounds
<1>2. Parser(s)[<<"pairs", 2>>] = Ok(b, m)
  <2>. HIDE DEF m
  <2>. QED
    BY <1>0, <1>1, FieldsRead
<1>. HIDE DEF b
<1>3. find_bencode_end(s) = h /\ h \in 1 .. Len(s) /\ r.ok /\ Entries(r) = Some(b)
  BY <1>0, <1>1, <1>2, DictFound
<1>4. /\ IntegerAt(Some(b), Key.msg_type) = Some(c)
      /\ IntegerAt(Some(b), Key.piece) = Some(p)
  BY <1>0, HeaderHolds DEF b
<1>5. IntegerAt(Entries(r), Key.msg_type) = Some(c) /\ IntegerAt(Entries(r), Key.piece) = Some(p)
  BY <1>3, <1>4
<1>. QED
  BY <1>3, <1>5 DEF HeaderIs

\* A message with no other fields and nothing behind them.
LEMMA ShortRead ==
  ASSUME NEW B, HasSyntax(B), Bounds, NEW type, NEW c \in 0 .. 2, Writes(<<type>>, c),
         NEW p \in Nat, p <= MaxInteger, p + 25 <= MaxLength
  PROVE  HeaderIs(BenDict(Fields(type, p)), Len(BenDict(Fields(type, p))), c, p)
<1>. DEFINE fields == Fields(type, p)
            s == BenDict(fields)
<1>1. fields \in Seq(B) /\ Len(fields) <= 23 + p /\ Len(fields) \in Nat
  <2>1. /\ fields \in Seq(B) /\ Len(fields) = 22 + Len(Decimal(p))
        /\ Len(Decimal(p)) \in 1 .. (p + 1)
    BY FieldsSize
  <2>. HIDE DEF fields
  <2>. QED
    BY <2>1
<1>2. s \in Seq(B) /\ Len(s) = Len(fields) + 2
  BY <1>1, SyntaxHas, DictSize
<1>3. Len(s) <= MaxLength
  <2>. HIDE DEF s, fields
  <2>. QED
    BY <1>1, <1>2 DEF Bounds
<1>4. At(s, s, 1)
  <2>. HIDE DEF s
  <2>. QED
    BY <1>2, AtStart
<1>5. At(s, fields, 2) /\ Holds(s, 2 + Len(fields), "e")
  <2>. HIDE DEF fields
  <2>1. At(s, BenDict(fields), 1) /\ 1 \in Nat /\ {"d", "e"} \subseteq B
    BY <1>4, SyntaxHas
  <2>2. At(s, fields, 1 + 1) /\ Holds(s, 1 + 1 + Len(fields), "e")
    <3>. HIDE DEF s
    <3>. QED
      BY <1>1, <1>2, <2>1, AtDict
  <2>. QED
    BY <2>2
<1>6. Parser(s)[<<"pairs", 2 + Len(fields)>>] = Ok(<<>>, Len(fields) + 3)
  <2>. HIDE DEF s, fields
  <2>1. 2 + Len(fields) \in Nat \ {0} /\ (2 + Len(fields)) + 1 = Len(fields) + 3
    BY <1>1
  <2>. QED
    BY <1>2, <1>5, <2>1, EndRead
<1>7. At(s, BenDict(fields), 1) /\ Key.msg_type \notin DOMAIN <<>> /\ Key.piece \notin DOMAIN <<>>
  BY <1>4
<1>. HIDE DEF s
<1>8. HeaderIs(s, Len(fields) + 2, c, p)
  <2>1. Message(s, type, c, p, fields, <<>>)
    BY <1>3, <1>5, <1>6, <1>7 DEF Message
  <2>. HIDE DEF fields
  <2>. QED
    BY <1>1, <1>2, <2>1, MessageRead
<1>. QED
  BY <1>2, <1>8 DEF s

\* A message with the size of the dictionary, and data behind it.
LEMMA LongRead ==
  ASSUME NEW B, HasSyntax(B), Bounds, NEW p \in Nat, p <= MaxInteger,
         NEW size \in Nat, size <= MaxInteger, NEW data \in Seq(B),
         p + size + Len(data) + 41 <= MaxLength
  PROVE  LET dict == BenDict(Fields("1", p) \o BenString(<<"1", "0">>, Key.total_size)
                                            \o BenInteger(Decimal(size)))
         IN  /\ HeaderIs(dict \o data, Len(dict), 1, p)
             /\ SubSeq(dict \o data, Len(dict) + 1, Len(dict \o data)) = data
<1>. DEFINE f == Fields("1", p)
            x == BenString(<<"1", "0">>, Key.total_size)
            y == BenInteger(Decimal(size))
            fields == f \o x \o y
            dict == BenDict(fields)
            s == dict \o data
<1>1. f \in Seq(B) /\ Len(f) <= 23 + p /\ Len(f) \in Nat /\ Writes(<<"1">>, 1)
  <2>1. /\ f \in Seq(B) /\ Len(f) = 22 + Len(Decimal(p)) /\ Len(Decimal(p)) \in 1 .. (p + 1)
    BY NumeralsWritten, FieldsSize
  <2>. HIDE DEF f
  <2>. QED
    BY <2>1, NumeralsWritten
<1>2. x \in Seq(B) /\ Len(x) = 13 /\ Writes(<<"1", "0">>, Len(Key.total_size))
  <2>1. Writes(<<"1", "0">>, Len(Key.total_size)) /\ Len(Key.total_size) = 10
    BY NumeralsWritten, KeyTypes
  <2>2. <<"1", "0">> \in Seq(Digits)
    BY <2>1 DEF Writes
  <2>3. <<"1", "0">> \in Seq(B) /\ Len(<<"1", "0">>) = 2
    BY <2>2, SyntaxHas, WiderSeq
  <2>4. x \in Seq(B) /\ Len(x) = Len(<<"1", "0">>) + 1 + Len(Key.total_size)
    BY <2>3, SyntaxHas, StringSize
  <2>. HIDE DEF x
  <2>. QED
    BY <2>1, <2>3, <2>4
<1>3. y \in Seq(B) /\ Len(y) <= size + 3 /\ Len(y) \in Nat /\ Writes(Decimal(size), size)
  <2>1. Writes(Decimal(size), size)
    BY DecimalWrites
  <2>2. Decimal(size) \in Seq(Digits) /\ Len(Decimal(size)) <= size + 1
    BY <2>1 DEF Writes
  <2>3. Decimal(size) \in Seq(B) /\ Len(Decimal(size)) \in Nat
    BY <2>2, SyntaxHas, WiderSeq
  <2>4. y \in Seq(B) /\ Len(y) = Len(Decimal(size)) + 2
    BY <2>3, SyntaxHas, IntegerSize
  <2>. HIDE DEF y
  <2>. QED
    BY <2>1, <2>2, <2>3, <2>4
<1>. HIDE DEF f, x, y
<1>4. f \o x \in Seq(B) /\ Len(f \o x) = Len(f) + 13
  BY <1>1, <1>2, JoinSize
<1>5. fields \in Seq(B) /\ Len(fields) = Len(f) + 13 + Len(y) /\ Len(fields) \in Nat
  <2>1. f \o x \o y \in Seq(B) /\ Len(f \o x \o y) = Len(f \o x) + Len(y)
    BY <1>3, <1>4, JoinSize
  <2>. QED
    BY <1>1, <1>3, <1>4, <2>1
<1>6. At(s, BenDict(fields), 1) /\ SubSeq(s, Len(dict) + 1, Len(s)) = data
      /\ s \in Seq(B) /\ Len(s) <= MaxLength /\ Len(dict) = Len(fields) + 2
  <2>. HIDE DEF fields
  <2>1. dict \in Seq(B) /\ Len(dict) = Len(fields) + 2
    BY <1>5, SyntaxHas, DictSize
  <2>. HIDE DEF dict
  <2>2. s \in Seq(B) /\ Len(s) = Len(dict) + Len(data)
    BY <2>1, JoinSize
  <2>3. At(s, dict, 1) /\ SubSeq(s, Len(dict) + 1, Len(s)) = data
    BY <2>1, AtStart
  <2>. HIDE DEF s
  <2>4. Len(s) <= MaxLength
    <3>1. Len(data) \in Nat /\ MaxLength \in Nat
      BY DEF Bounds
    <3>. QED
      BY <1>1, <1>3, <1>5, <2>1, <2>2, <3>1
  <2>. QED
    BY <2>1, <2>2, <2>3, <2>4 DEF dict
<1>. HIDE DEF s
<1>. DEFINE k == 2 + Len(f)
            j == 2 + Len(f) + Len(x)
            l == 2 + Len(fields)
<1>7. At(s, fields, 2) /\ Holds(s, l, "e")
  <2>. HIDE DEF fields
  <2>1. At(s, fields, 1 + 1) /\ Holds(s, 1 + 1 + Len(fields), "e")
    BY <1>5, <1>6, SyntaxHas, AtDict
  <2>. QED
    BY <2>1
<1>8. /\ At(s, f, 2) /\ At(s, x, k) /\ At(s, y, j) /\ j = k + Len(x) /\ l = j + Len(y)
      /\ k \in Nat \ {0} /\ l \in Nat \ {0} /\ l + 1 = Len(fields) + 3
  <2>1. At(s, f \o x, 2) /\ At(s, y, 2 + Len(f \o x))
    BY <1>3, <1>4, <1>6, <1>7, AtParts
  <2>2. At(s, f, 2) /\ At(s, x, 2 + Len(f))
    BY <1>1, <1>2, <1>6, <2>1, AtParts
  <2>3. 2 + Len(f \o x) = j
    BY <1>1, <1>2, <1>4
  <2>. HIDE DEF fields
  <2>. QED
    BY <1>1, <1>2, <1>3, <1>5, <2>1, <2>2, <2>3, SMTT(30)
<1>. HIDE DEF k, j, l
<1>. DEFINE e == Put(Key.total_size, Num(size), <<>>)
            m == Len(fields) + 3
<1>9. Parser(s)[<<"pairs", l>>] = Ok(<<>>, m)
  <2>. HIDE DEF fields
  <2>. QED
    BY <1>6, <1>7, <1>8, EndRead
<1>10. Parser(s)[<<"pairs", k>>] = Ok(e, m)
  <2>. HIDE DEF m, fields
  <2>1. KeyAt(s, k, j, Key.total_size, <<"1", "0">>)
    <3>1. Len(Key.total_size) <= MaxLength
      BY KeyTypes DEF Bounds
    <3>. QED
      BY <1>2, <1>8, <3>1 DEF KeyAt, x
  <2>2. FieldAt(s, k, l, Key.total_size, <<"1", "0">>, Decimal(size), size)
    BY <1>3, <1>8, <2>1 DEF FieldAt, y
  <2>3. MaxInteger \in Nat /\ Key.total_size \in Seq(B)
    BY SyntaxHas DEF Bounds
  <2>. QED
    BY <1>6, <1>8, <1>9, <2>2, <2>3, FieldRead, SMTT(30)
<1>11. Key.msg_type \notin DOMAIN e /\ Key.piece \notin DOMAIN e
  BY KeysDiffer DEF Put
<1>. HIDE DEF e
<1>12. HeaderIs(s, Len(fields) + 2, 1, p)
  <2>1. Message(s, "1", 1, p, fields, e)
    <3>. HIDE DEF fields
    <3>. QED
      BY <1>1, <1>6, <1>8, <1>10, <1>11 DEF Message, f, k
  <2>. HIDE DEF fields
  <2>2. 1 \in 0 .. 2
    OBVIOUS
  <2>. QED
    BY <1>5, <1>6, <2>1, <2>2, MessageRead, ZenonT(30)
<1>. QED
  BY <1>6, <1>12 DEF s, f, x, y

\* A request is understood as one for its piece.
LEMMA RequestRead ==
  ASSUME NEW B, HasSyntax(B), Bounds, NEW p \in Nat, p <= MaxInteger, p + 25 <= MaxLength,
         NEW id, W32 \in Nat, p < W32
  PROVE  LET m == create_metadata_request(id, p)
         IN  m.id = id /\ ~Panics(m) /\ parse_metadata_request(m, id) = Some(p)
<1>. DEFINE s == BenDict(Fields("0", p))
            m == create_metadata_request(id, p)
            h == Len(s)
<1>1. m.id = id /\ m.data = s
  BY DEF create_metadata_request, Extended
<1>2. HeaderIs(s, h, 0, p)
  <2>1. 0 \in 0 .. 2 /\ Writes(<<"0">>, 0)
    BY NumeralsWritten
  <2>. QED
    BY <2>1, ShortRead
<1>. HIDE DEF s, m, h
<1>3. /\ find_bencode_end(s) = h /\ h \in 1 .. Len(s)
      /\ IntegerAt(Header(m), Key.msg_type) = Some(0)
      /\ IntegerAt(Header(m), Key.piece) = Some(p)
  BY <1>1, <1>2 DEF HeaderIs, Header
<1>4. ~Panics(m)
  <2>1. Panics(m) <=> h > Len(s)
    BY <1>1, <1>3 DEF Panics
  <2>. QED
    BY <1>3, <2>1
<1>5. parse_metadata_request(m, id) = Some(p % W32)
  <2>1. Some(p).some /\ Some(p).it = p
    BY DEF Some
  <2>. QED
    BY <1>1, <1>3, <2>1 DEF parse_metadata_request
<1>6. p % W32 = p
  BY SmallMod
<1>. QED
  BY <1>1, <1>4, <1>5, <1>6 DEF m

\* A rejection ends the attempt.
LEMMA RejectRead ==
  ASSUME NEW B, HasSyntax(B), Bounds, NEW p \in Nat, p <= MaxInteger, p + 25 <= MaxLength,
         NEW id
  PROVE  parse_metadata_piece(create_metadata_reject(id, p), id) = Failed
<1>. DEFINE s == BenDict(Fields("2", p))
            m == create_metadata_reject(id, p)
            h == Len(s)
            r == parse(SubSeq(s, 1, h))
<1>1. m.id = id /\ m.data = s
  BY DEF create_metadata_reject, Extended
<1>2. HeaderIs(s, h, 2, p)
  <2>1. 2 \in 0 .. 2 /\ Writes(<<"2">>, 2)
    BY NumeralsWritten
  <2>. QED
    BY <2>1, ShortRead
<1>. HIDE DEF s, m, h
<1>3. /\ find_bencode_end(s) = h /\ h \in 1 .. Len(s) /\ r.ok
      /\ IntegerAt(Entries(r), Key.msg_type) = Some(2)
  BY <1>2 DEF HeaderIs
<1>. HIDE DEF r
<1>4. h # NoEnd /\ ~Panics(m)
  <2>1. Panics(m) <=> h > Len(s)
    BY <1>1, <1>3 DEF Panics
  <2>. QED
    BY <1>3, <2>1 DEF NoEnd
<1>5. parse_metadata_piece(m, id) = Failed
  BY <1>1, <1>3, <1>4 DEF parse_metadata_piece, r
<1>. QED
  BY <1>5 DEF m

\* A piece is taken for what it is.
LEMMA DataRead ==
  ASSUME NEW B, HasSyntax(B), Bounds, NEW p \in Nat, p <= MaxInteger,
         NEW size \in Nat, size <= MaxInteger, NEW data \in Seq(B),
         p + size + Len(data) + 41 <= MaxLength, NEW id, W64 \in Nat, p < W64
  PROVE  parse_metadata_piece(create_metadata_data_response(id, p, data, size), id)
           = [is |-> "piece", piece |-> p, data |-> data]
<1>. DEFINE dict == BenDict(Fields("1", p) \o BenString(<<"1", "0">>, Key.total_size)
                                           \o BenInteger(Decimal(size)))
            s == dict \o data
            m == create_metadata_data_response(id, p, data, size)
            h == Len(dict)
            r == parse(SubSeq(s, 1, h))
<1>1. m.id = id /\ m.data = s
  BY DEF create_metadata_data_response, Extended
<1>2. HeaderIs(s, h, 1, p) /\ SubSeq(s, h + 1, Len(s)) = data
  BY LongRead
<1>. HIDE DEF s, m, h
<1>3. /\ find_bencode_end(s) = h /\ h \in 1 .. Len(s) /\ r.ok
      /\ IntegerAt(Entries(r), Key.msg_type) = Some(1)
      /\ IntegerAt(Entries(r), Key.piece) = Some(p)
  BY <1>2 DEF HeaderIs
<1>. HIDE DEF r
<1>4. h # NoEnd /\ ~Panics(m)
  <2>1. Panics(m) <=> h > Len(s)
    BY <1>1, <1>3 DEF Panics
  <2>. QED
    BY <1>3, <2>1 DEF NoEnd
<1>5. Some(1) # Some(2) /\ Some(p).some /\ Some(p).it = p
  <2>1. Some(1).it = 1 /\ Some(2).it = 2 /\ 1 # 2
    BY DEF Some
  <2>. QED
    BY <2>1 DEF Some
<1>6. parse_metadata_piece(m, id)
        = [is |-> "piece", piece |-> p % W64, data |-> SubSeq(s, h + 1, Len(s))]
  BY <1>1, <1>3, <1>4, <1>5 DEF parse_metadata_piece, r
<1>7. p % W64 = p
  BY SmallMod
<1>. QED
  BY <1>2, <1>6, <1>7 DEF m

-----------------------------------------------------------------------------
(* Handshakes *)

\* The dictionary with the id of ut_metadata, and its key.
Named == BenString(<<"1", "1">>, Key.ut_metadata) \o BenInteger(Decimal(OUR_UT_METADATA_ID))

NameKey == BenString(<<"1">>, Key.m)

Names == Put(Key.ut_metadata, Num(1), <<>>)

LEMMA NameTypes ==
  ASSUME NEW B, HasSyntax(B)
  PROVE  /\ BenString(<<"1", "1">>, Key.ut_metadata) \in Seq(B)
         /\ BenInteger(Decimal(1)) \in Seq(B) /\ Named \in Seq(B)
         /\ Len(Named) = Len(BenString(<<"1", "1">>, Key.ut_metadata)) + Len(BenInteger(Decimal(1)))
         /\ BenDict(Named) \in Seq(B) /\ Len(BenDict(Named)) = Len(Named) + 2
         /\ NameKey \in Seq(B)
<1>. DEFINE x == BenString(<<"1", "1">>, Key.ut_metadata)
            y == BenInteger(Decimal(1))
<1>1. <<"1", "1">> \in Seq(Digits) /\ <<"1">> \in Seq(Digits) /\ Decimal(1) \in Seq(Digits)
  <2>1. Writes(Decimal(1), 1)
    <3>1. 1 \in Nat
      OBVIOUS
    <3>. QED
      BY <3>1, DecimalWrites
  <2>. QED
    BY <2>1, NumeralsWritten DEF Writes
<1>2. <<"1", "1">> \in Seq(B) /\ <<"1">> \in Seq(B) /\ Decimal(1) \in Seq(B)
  BY <1>1, SyntaxHas, WiderSeq
<1>3. x \in Seq(B) /\ y \in Seq(B) /\ NameKey \in Seq(B)
  BY <1>2, SyntaxHas, StringSize, IntegerSize DEF NameKey
<1>4. Named = x \o y
  BY DEF Named, OUR_UT_METADATA_ID
<1>. HIDE DEF x, y
<1>5. Named \in Seq(B) /\ Len(Named) = Len(x) + Len(y)
  BY <1>3, <1>4, JoinSize
<1>6. BenDict(Named) \in Seq(B) /\ Len(BenDict(Named)) = Len(Named) + 2
  BY <1>5, SyntaxHas, DictSize
<1>. QED
  BY <1>3, <1>5, <1>6 DEF x, y

LEMMA NamedRead ==
  ASSUME NEW B, HasSyntax(B), Bounds, NEW s \in Seq(B), NEW i \in Nat \ {0},
         At(s, BenDict(Named), i)
  PROVE  \E raw : Parser(s)[<<"value", i>>]
                    = Ok([kind |-> "dict", entries |-> Names, raw |-> raw],
                         i + Len(BenDict(Named)))
<1>. DEFINE x == BenString(<<"1", "1">>, Key.ut_metadata)
            y == BenInteger(Decimal(1))
            j == i + 1
            k == i + 1 + Len(x)
            l == i + 1 + Len(Named)
            m == i + Len(BenDict(Named))
<1>1. /\ x \in Seq(B) /\ y \in Seq(B) /\ Named \in Seq(B) /\ Len(Named) = Len(x) + Len(y)
      /\ Len(BenDict(Named)) = Len(Named) + 2
  BY NameTypes
<1>2. Named = x \o y
  BY DEF Named, OUR_UT_METADATA_ID
<1>3. Holds(s, i, "d") /\ At(s, Named, j) /\ Holds(s, l, "e")
  BY <1>1, SyntaxHas, AtDict
<1>4. At(s, x, j) /\ At(s, y, k)
  <2>. HIDE DEF x, y
  <2>1. j \in Nat
    OBVIOUS
  <2>2. At(s, x, j) /\ At(s, y, j + Len(x))
    <3>. HIDE DEF j
    <3>. QED
      BY <1>1, <1>2, <1>3, <2>1, AtParts
  <2>. QED
    BY <2>2
<1>5. /\ j \in Nat \ {0} /\ k = j + Len(x) /\ l = k + Len(y) /\ l \in Nat \ {0} /\ m = l + 1
  <2>. HIDE DEF x, y
  <2>1. Len(x) \in Nat /\ Len(y) \in Nat
    BY <1>1
  <2>. QED
    BY <1>1, <2>1
<1>6. j = i + 1
  OBVIOUS
<1>. HIDE DEF j, k, l, m
<1>7. Parser(s)[<<"pairs", l>>] = Ok(<<>>, m)
  BY <1>3, <1>5, EndRead
<1>8. Parser(s)[<<"pairs", j>>] = Ok(Names, m)
  <2>1. Writes(<<"1", "1">>, Len(Key.ut_metadata)) /\ Len(Key.ut_metadata) <= MaxLength
        /\ Key.ut_metadata \in Seq(B)
    BY NumeralsWritten, KeyTypes, SyntaxHas DEF Bounds
  <2>2. KeyAt(s, j, k, Key.ut_metadata, <<"1", "1">>)
    BY <1>4, <1>5, <2>1 DEF KeyAt
  <2>3. 1 \in Nat /\ 1 <= MaxInteger /\ MaxInteger \in Nat
    BY DEF Bounds
  <2>4. Writes(Decimal(1), 1)
    BY <2>3, DecimalWrites
  <2>5. FieldAt(s, j, l, Key.ut_metadata, <<"1", "1">>, Decimal(1), 1)
    BY <1>4, <1>5, <2>2, <2>3, <2>4 DEF FieldAt
  <2>6. Parser(s)[<<"pairs", j>>] = Ok(Put(Key.ut_metadata, Num(1), <<>>), m)
    BY <1>5, <1>7, <2>1, <2>3, <2>5, FieldRead
  <2>. QED
    BY <2>6 DEF Names
<1>9. Parser(s)[<<"value", i>>]
        = Ok([kind |-> "dict", entries |-> Names, raw |-> Raw(s, i, m)], m)
  BY <1>3, <1>6, <1>8, DictIs
<1>. QED
  BY <1>9 DEF m

\* What a handshake holds when what follows the name of ut_metadata is read as e.
LEMMA HandshakeEntries ==
  ASSUME NEW B, HasSyntax(B), Bounds, NEW more \in Seq(B), NEW e,
         LET fields == NameKey \o BenDict(Named) \o more
             i == 2 + Len(NameKey) + Len(BenDict(Named))
         IN  At(BenDict(fields), more, i) =>
                Parser(BenDict(fields))[<<"pairs", i>>] = Ok(e, Len(fields) + 3)
  PROVE  LET s == BenDict(NameKey \o BenDict(Named) \o more)
         IN  \E raw : Entries(parse(s))
                = Some(Put(Key.m, [kind |-> "dict", entries |-> Names, raw |-> raw], e))
<1>. DEFINE d == BenDict(Named)
            fields == NameKey \o d \o more
            s == BenDict(fields)
            j == 2 + Len(NameKey)
            i == 2 + Len(NameKey) + Len(d)
            m == Len(fields) + 3
<1>1. d \in Seq(B) /\ NameKey \in Seq(B)
  BY NameTypes
<1>. HIDE DEF d
<1>2. NameKey \o d \in Seq(B) /\ Len(NameKey \o d) = Len(NameKey) + Len(d)
  BY <1>1, JoinSize
<1>3. fields \in Seq(B)
  BY <1>2, JoinSize
<1>. HIDE DEF fields
<1>4. s \in Seq(B) /\ Len(s) = Len(fields) + 2
  BY <1>3, SyntaxHas, DictSize
<1>5. At(s, s, 1)
  <2>. HIDE DEF s
  <2>. QED
    BY <1>4, AtStart
<1>6. Holds(s, 1, "d") /\ At(s, fields, 2)
  <2>1. At(s, BenDict(fields), 1) /\ 1 \in Nat /\ 1 + 1 = 2
    BY <1>5
  <2>. HIDE DEF s
  <2>. QED
    BY <1>3, <1>4, <2>1, SyntaxHas, AtDict
<1>. HIDE DEF s
<1>7. /\ At(s, NameKey, 2) /\ At(s, d, j) /\ At(s, more, i)
      /\ j \in Nat \ {0} /\ i = j + Len(d) /\ Len(d) \in Nat
  <2>1. At(s, NameKey \o d, 2) /\ At(s, more, 2 + Len(NameKey \o d))
    BY <1>2, <1>4, <1>6, AtParts DEF fields
  <2>2. At(s, NameKey, 2) /\ At(s, d, 2 + Len(NameKey))
    BY <1>1, <1>4, <2>1, AtParts
  <2>3. 2 + Len(NameKey \o d) = i /\ i = j + Len(d) /\ j \in Nat \ {0} /\ Len(d) \in Nat
    BY <1>1, <1>2
  <2>. QED
    BY <2>1, <2>2, <2>3
<1>8. Parser(s)[<<"pairs", i>>] = Ok(e, m)
  BY <1>7 DEF s, fields, d
<1>. HIDE DEF i, j, m
<1>9. PICK raw : Parser(s)[<<"value", j>>]
                   = Ok([kind |-> "dict", entries |-> Names, raw |-> raw], i)
  BY <1>4, <1>7, NamedRead DEF d
<1>. DEFINE v == [kind |-> "dict", entries |-> Names, raw |-> raw]
            b == Put(Key.m, v, e)
<1>10. Parser(s)[<<"pairs", 2>>] = Ok(b, m)
  <2>. HIDE DEF v
  <2>1. KeyAt(s, 2, j, Key.m, <<"1">>)
    <3>1. Len(Key.m) <= MaxLength /\ Writes(<<"1">>, Len(Key.m))
      BY KeyTypes, NumeralsWritten DEF Bounds
    <3>. QED
      BY <1>7, <3>1 DEF KeyAt, NameKey, j
  <2>2. /\ parse_bytes(s, 2) = Ok([kind |-> "bytes", bytes |-> Key.m], j)
        /\ 2 \in Places(s) /\ HoldsDigit(s, 2)
    <3>1. 2 \in Nat \ {0} /\ Key.m \in Seq(B)
      BY SyntaxHas
    <3>. QED
      BY <1>4, <2>1, <3>1, KeyRead
  <2>3. Parser(s)[<<"value", j>>] = Ok(v, i)
    BY <1>9 DEF v
  <2>. QED
    BY <1>4, <1>8, <2>2, <2>3, PairRead
<1>. HIDE DEF b
<1>11. Parser(s)[<<"value", 1>>] = Ok([kind |-> "dict", entries |-> b, raw |-> Raw(s, 1, m)], m)
  <2>1. 1 \in Nat \ {0} /\ 1 + 1 = 2
    OBVIOUS
  <2>. QED
    BY <1>4, <1>6, <1>10, <2>1, DictIs
<1>. DEFINE w == [kind |-> "dict", entries |-> b, raw |-> Raw(s, 1, m)]
<1>12. Entries(parse(s)) = Some(b)
  <2>. HIDE DEF w
  <2>1. Parser(s)[<<"value", 1>>] = Ok(w, Len(s) + 1)
    <3>1. m = Len(s) + 1
      BY <1>3, <1>4 DEF m
    <3>. QED
      BY <1>11, <3>1 DEF w
  <2>2. parse(s) = Ok(<<w>>, Len(s) + 1)
    BY <1>4, <2>1, ParsesAlone
  <2>3. parse(s).ok /\ parse(s).value = <<w>>
    BY <2>2 DEF Ok
  <2>4. <<w>> # <<>> /\ <<w>>[1] = w /\ w.kind = "dict" /\ w.entries = b
    BY DEF w
  <2>. QED
    BY <2>3, <2>4 DEF Entries
<1>. QED
  BY <1>12 DEF b, s, fields, d

LEMMA NameFound ==
  ASSUME NEW raw, NEW e, Key.m \notin DOMAIN e
  PROVE  LET v == [kind |-> "dict", entries |-> Names, raw |-> raw]
             entries == Some(Put(Key.m, v, e))
         IN  IntegerAt(Sub(entries, Key.m), Key.ut_metadata) = Some(1)
<1>. DEFINE v == [kind |-> "dict", entries |-> Names, raw |-> raw]
            b == Put(Key.m, v, e)
<1>1. v.kind = "dict" /\ v.entries = Names
  OBVIOUS
<1>. HIDE DEF v
<1>2. DOMAIN b = DOMAIN e \cup {Key.m} /\ b[Key.m] = v
  BY DEF Put
<1>. HIDE DEF b
<1>3. Key.m \in DOMAIN b
  BY <1>2
<1>4. ValueAt(Some(b), Key.m, "dict") = Some(v)
  BY <1>1, <1>2, <1>3 DEF ValueAt, Some
<1>5. Some(v).some /\ Some(v).it = v
  BY DEF Some
<1>6. Sub(Some(b), Key.m) = Some(Names)
  BY <1>1, <1>4, <1>5 DEF Sub
<1>7. Key.ut_metadata \in DOMAIN Names /\ Names[Key.ut_metadata] = Num(1)
  BY DEF Names, Put
<1>8. IntegerAt(Some(Names), Key.ut_metadata) = Some(1)
  BY <1>7, NumberAt
<1>. QED
  BY <1>6, <1>8 DEF b, v

\* Where the fields of a handshake end.
LEMMA HandshakeEnd ==
  ASSUME NEW B, HasSyntax(B), NEW more \in Seq(B)
  PROVE  LET fields == NameKey \o BenDict(Named) \o more
             i == 2 + Len(NameKey) + Len(BenDict(Named))
         IN  /\ BenDict(fields) \in Seq(B) /\ i \in Nat \ {0}
             /\ i + Len(more) = 2 + Len(fields)
             /\ Parser(BenDict(fields))[<<"pairs", i + Len(more)>>] = Ok(<<>>, Len(fields) + 3)
<1>. DEFINE d == BenDict(Named)
            fields == NameKey \o d \o more
            s == BenDict(fields)
            i == 2 + Len(NameKey) + Len(d)
            l == i + Len(more)
<1>1. d \in Seq(B) /\ NameKey \in Seq(B)
  BY NameTypes
<1>. HIDE DEF d
<1>2. NameKey \o d \in Seq(B) /\ Len(NameKey \o d) = Len(NameKey) + Len(d)
  BY <1>1, JoinSize
<1>3. fields \in Seq(B) /\ Len(fields) = Len(NameKey \o d) + Len(more)
  BY <1>2, JoinSize
<1>. HIDE DEF fields
<1>4. s \in Seq(B) /\ Len(s) = Len(fields) + 2
  BY <1>3, SyntaxHas, DictSize
<1>5. At(s, s, 1)
  <2>. HIDE DEF s
  <2>. QED
    BY <1>4, AtStart
<1>6. Holds(s, 1 + 1 + Len(fields), "e")
  <2>1. At(s, BenDict(fields), 1) /\ 1 \in Nat
    BY <1>5
  <2>. HIDE DEF s
  <2>. QED
    BY <1>3, <1>4, <2>1, SyntaxHas, AtDict
<1>. HIDE DEF s
<1>7. /\ i \in Nat \ {0} /\ l \in Nat \ {0} /\ l = 2 + Len(fields) /\ l = 1 + 1 + Len(fields)
      /\ l + 1 = Len(fields) + 3
  <2>1. Len(NameKey) \in Nat /\ Len(d) \in Nat /\ Len(more) \in Nat
    BY <1>1
  <2>. QED
    BY <1>2, <1>3, <2>1
<1>. HIDE DEF i, l
<1>8. Parser(s)[<<"pairs", l>>] = Ok(<<>>, Len(fields) + 3)
  BY <1>4, <1>6, <1>7, EndRead
<1>. QED
  BY <1>4, <1>7, <1>8 DEF d, fields, s, i, l

\* The handshake of a fetch names the id to answer with.
LEMMA FetchNamed ==
  ASSUME NEW B, HasSyntax(B), Bounds
  PROVE  LET m == create_extension_handshake(None)
         IN  m.id = 0 /\ parse_handshake_ut_metadata_id(m) = Some(1)
<1>. DEFINE m == create_extension_handshake(None)
            fields == NameKey \o BenDict(Named) \o <<>>
            s == BenDict(fields)
            i == 2 + Len(NameKey) + Len(BenDict(Named))
<1>1. m.id = 0 /\ m.data = s
  BY DEF create_extension_handshake, Extended, None, NameKey, Named
<1>2. <<>> \in Seq(B) /\ Len(<<>>) = 0 /\ Key.m \notin DOMAIN <<>>
  OBVIOUS
<1>3. Parser(s)[<<"pairs", i>>] = Ok(<<>>, Len(fields) + 3)
  <2>1. i \in Nat /\ Parser(s)[<<"pairs", i + Len(<<>>)>>] = Ok(<<>>, Len(fields) + 3)
    BY <1>2, HandshakeEnd
  <2>. HIDE DEF i, s
  <2>2. i + Len(<<>>) = i
    BY <1>2, <2>1
  <2>. QED
    BY <2>1, <2>2
<1>4. PICK raw : Entries(parse(s))
                   = Some(Put(Key.m, [kind |-> "dict", entries |-> Names, raw |-> raw], <<>>))
  BY <1>2, <1>3, HandshakeEntries
<1>. HIDE DEF m, s
<1>5. IntegerAt(Sub(Entries(parse(m.data)), Key.m), Key.ut_metadata) = Some(1)
  BY <1>1, <1>2, <1>4, NameFound
<1>6. Some(1).some /\ Some(1).it = 1 /\ AsU8(1) = 1
  BY DEF Some, AsU8
<1>7. parse_handshake_ut_metadata_id(m) = Some(1)
  BY <1>1, <1>5, <1>6 DEF parse_handshake_ut_metadata_id
<1>. QED
  BY <1>1, <1>7 DEF m

\* The handshake of a client with the dictionary names the id and the size.
LEMMA SizeNamed ==
  ASSUME NEW B, HasSyntax(B), Bounds, NEW size \in Nat, size <= MaxInteger
  PROVE  receive_extension_handshake(create_extension_handshake(Some(size)))
           = Some([ut_metadata |-> 1, metadata_size |-> size])
<1>. DEFINE m == create_extension_handshake(Some(size))
            x == BenString(<<"1", "3">>, Key.metadata_size)
            y == BenInteger(Decimal(size))
            more == x \o y
            fields == NameKey \o BenDict(Named) \o more
            s == BenDict(fields)
            i == 2 + Len(NameKey) + Len(BenDict(Named))
            j == i + Len(x)
            l == i + Len(more)
            e == Put(Key.metadata_size, Num(size), <<>>)
            last == Len(fields) + 3
<1>1. m.data = s
  <2>1. Some(size).some /\ Some(size).it = size
    BY DEF Some
  <2>. QED
    BY <2>1 DEF create_extension_handshake, Extended, NameKey, Named
<1>2. /\ x \in Seq(B) /\ y \in Seq(B) /\ more \in Seq(B) /\ Len(more) = Len(x) + Len(y)
      /\ Writes(Decimal(size), size) /\ Writes(<<"1", "3">>, Len(Key.metadata_size))
  <2>1. Writes(Decimal(size), size) /\ Writes(<<"1", "3">>, Len(Key.metadata_size))
    BY DecimalWrites, NumeralsWritten, KeyTypes
  <2>2. Decimal(size) \in Seq(Digits) /\ <<"1", "3">> \in Seq(Digits)
    BY <2>1 DEF Writes
  <2>3. Decimal(size) \in Seq(B) /\ <<"1", "3">> \in Seq(B)
    BY <2>2, SyntaxHas, WiderSeq
  <2>4. x \in Seq(B) /\ y \in Seq(B)
    BY <2>3, SyntaxHas, StringSize, IntegerSize
  <2>. HIDE DEF x, y
  <2>. QED
    BY <2>1, <2>4, JoinSize
<1>3. ASSUME At(s, more, i) PROVE Parser(s)[<<"pairs", i>>] = Ok(e, last)
  <2>1. /\ s \in Seq(B) /\ i \in Nat \ {0}
        /\ Parser(s)[<<"pairs", l>>] = Ok(<<>>, last)
    BY <1>2, HandshakeEnd
  <2>. HIDE DEF s, i, last
  <2>2. At(s, x, i) /\ At(s, y, j) /\ l = j + Len(y)
    <3>. HIDE DEF x, y
    <3>1. At(s, x, i) /\ At(s, y, j)
      BY <1>2, <1>3, <2>1, AtParts
    <3>2. Len(x) \in Nat /\ Len(y) \in Nat
      BY <1>2
    <3>. QED
      BY <1>2, <2>1, <3>1, <3>2
  <2>. HIDE DEF j, l
  <2>3. KeyAt(s, i, j, Key.metadata_size, <<"1", "3">>)
    <3>1. Len(Key.metadata_size) <= MaxLength
      BY KeyTypes DEF Bounds
    <3>. QED
      BY <1>2, <2>2, <3>1 DEF KeyAt, j
  <2>4. FieldAt(s, i, l, Key.metadata_size, <<"1", "3">>, Decimal(size), size)
    BY <1>2, <2>2, <2>3 DEF FieldAt
  <2>5. MaxInteger \in Nat /\ Key.metadata_size \in Seq(B)
    BY SyntaxHas DEF Bounds
  <2>. QED
    BY <2>1, <2>4, <2>5, FieldRead
<1>. HIDE DEF more
<1>4. PICK raw : Entries(parse(s))
                   = Some(Put(Key.m, [kind |-> "dict", entries |-> Names, raw |-> raw], e))
  <2>. HIDE DEF e
  <2>. QED
    BY <1>2, <1>3, HandshakeEntries
<1>. DEFINE v == [kind |-> "dict", entries |-> Names, raw |-> raw]
            b == Put(Key.m, v, e)
<1>. HIDE DEF m, s, v
<1>5. /\ Key.m \notin DOMAIN e /\ Key.metadata_size \in DOMAIN b
      /\ b[Key.metadata_size] = Num(size)
  <2>1. DOMAIN e = {Key.metadata_size} /\ e[Key.metadata_size] = Num(size)
    BY DEF Put
  <2>2. Key.m \notin DOMAIN e
    BY <2>1, KeysDiffer
  <2>. HIDE DEF e
  <2>3. DOMAIN b = DOMAIN e \cup {Key.m} /\ \A k \in DOMAIN e : b[k] = e[k]
    BY DEF Put
  <2>. HIDE DEF b
  <2>. QED
    BY <2>1, <2>2, <2>3
<1>. HIDE DEF e
<1>6. IntegerAt(Sub(Some(b), Key.m), Key.ut_metadata) = Some(1)
  BY <1>5, NameFound DEF v
<1>. HIDE DEF b
<1>7. IntegerAt(Some(b), Key.metadata_size) = Some(size)
  BY <1>5, NumberAt
<1>8. Entries(parse(m.data)) = Some(b)
  BY <1>1, <1>4 DEF b, v
<1>9. /\ Some(1).some /\ Some(1).it = 1 /\ AsU8(1) = 1
      /\ Some(size).some /\ Some(size).it = size
  BY DEF Some, AsU8
<1>10. receive_extension_handshake(m) = Some([ut_metadata |-> 1, metadata_size |-> size])
  BY <1>6, <1>7, <1>8, <1>9 DEF receive_extension_handshake
<1>. QED
  BY <1>10 DEF m

-----------------------------------------------------------------------------
(* A client and a fetch *)

LEMMA OneMore ==
  ASSUME NEW k \in Nat, NEW g
  PROVE  Append([i \in 1 .. k |-> g[i]], g[k + 1]) = [i \in 1 .. (k + 1) |-> g[i]]
<1>. DEFINE S == {g[i] : i \in 1 .. (k + 1)}
            s == [i \in 1 .. k |-> g[i]]
            t == [i \in 1 .. (k + 1) |-> g[i]]
            u == Append(s, g[k + 1])
<1>1. \A i \in 1 .. (k + 1) : g[i] \in S
  OBVIOUS
<1>. HIDE DEF S
<1>2. /\ s \in Seq(S) /\ Len(s) = k /\ (\A i \in 1 .. k : s[i] = g[i]) /\ g[k + 1] \in S
      /\ t \in Seq(S) /\ Len(t) = k + 1 /\ \A i \in 1 .. (k + 1) : t[i] = g[i]
  BY <1>1
<1>. HIDE DEF s, t
<1>3. u \in Seq(S) /\ Len(u) = k + 1 /\ u[k + 1] = g[k + 1] /\ \A i \in 1 .. k : u[i] = s[i]
  BY <1>2
<1>. HIDE DEF u
<1>4. \A i \in 1 .. (k + 1) : u[i] = t[i]
  <2>1. \A i \in 1 .. (k + 1) : i \in 1 .. k \/ i = k + 1
    OBVIOUS
  <2>. QED
    BY <1>2, <1>3, <2>1
<1>5. u = t
  BY <1>2, <1>3, <1>4, SeqEqual
<1>. QED
  BY <1>5 DEF u, s, t

\* A client answers every request, in the order they come.
LEMMA AnswersAre ==
  ASSUME NEW B, HasSyntax(B), Bounds, NEW info, NEW n \in Nat,
         W32 \in Nat, n <= W32, n <= MaxInteger, n + 25 <= MaxLength
  PROVE  Answers(info, n) = [i \in 1 .. n |-> Response(1, info, i - 1)]
<1>. DEFINE g == [i \in 1 .. n |-> Response(1, info, i - 1)]
            State(k) == [peer_ut_metadata_id |-> Some(1),
                         pending_metadata_responses |-> [i \in 1 .. k |-> g[i]],
                         panicked |-> FALSE]
            first == handle_extended_message(NewConnection, info,
                                             create_extension_handshake(None))
            Then(c, k) == handle_extended_message(
                             c, info, create_metadata_request(OUR_UT_METADATA_ID, k - 1))
            P(f) == f = [k \in 0 .. n |-> IF k = 0 THEN first ELSE Then(f[k - 1], k)]
            conn == CHOOSE f : P(f)
<1>1. first = State(0)
  <2>. DEFINE m == create_extension_handshake(None)
  <2>1. m.id = 0 /\ parse_handshake_ut_metadata_id(m) = Some(1)
    BY FetchNamed
  <2>. HIDE DEF m
  <2>2. Some(1).some /\ [i \in 1 .. 0 |-> g[i]] = <<>>
    BY DEF Some
  <2>3. first = [NewConnection EXCEPT !.peer_ut_metadata_id = Some(1)]
    BY <2>1, <2>2 DEF handle_extended_message, m
  <2>. HIDE DEF g
  <2>. QED
    BY <2>2, <2>3 DEF NewConnection
<1>2. ASSUME NEW k \in 1 .. n PROVE Then(State(k - 1), k) = State(k)
  <2>. DEFINE m == create_metadata_request(OUR_UT_METADATA_ID, k - 1)
  <2>1. m.id = 1 /\ ~Panics(m) /\ parse_metadata_request(m, 1) = Some(k - 1)
    <3>1. k - 1 \in Nat /\ k - 1 <= MaxInteger /\ (k - 1) + 25 <= MaxLength /\ k - 1 < W32
      BY DEF Bounds
    <3>2. OUR_UT_METADATA_ID = 1
      BY DEF OUR_UT_METADATA_ID
    <3>. QED
      BY <3>1, <3>2, RequestRead
  <2>. HIDE DEF m
  <2>2. Some(1).some /\ Some(1).it = 1 /\ Some(k - 1).some /\ Some(k - 1).it = k - 1 /\ 1 # 0
    BY DEF Some
  <2>. DEFINE c == State(k - 1)
  <2>3. /\ c.peer_ut_metadata_id = Some(1) /\ c.panicked = FALSE
        /\ c.pending_metadata_responses = [i \in 1 .. (k - 1) |-> g[i]]
        /\ c = [peer_ut_metadata_id |-> Some(1),
                pending_metadata_responses |-> c.pending_metadata_responses, panicked |-> FALSE]
    BY Zenon
  <2>. HIDE DEF c
  <2>4. Then(c, k) = [c EXCEPT !.pending_metadata_responses =
                        Append(c.pending_metadata_responses, Response(1, info, k - 1))]
    BY <2>1, <2>2, <2>3 DEF handle_extended_message, OUR_UT_METADATA_ID, m
  <2>5. Append([i \in 1 .. (k - 1) |-> g[i]], Response(1, info, k - 1)) = [i \in 1 .. k |-> g[i]]
    <3>1. k - 1 \in Nat /\ (k - 1) + 1 = k /\ g[k] = Response(1, info, k - 1)
      OBVIOUS
    <3>. HIDE DEF g
    <3>. QED
      BY <3>1, OneMore
  <2>. HIDE DEF g
  <2>6. [c EXCEPT !.pending_metadata_responses = [i \in 1 .. k |-> g[i]]] = State(k)
    <3>. DEFINE old == [i \in 1 .. (k - 1) |-> g[i]]
                new == [i \in 1 .. k |-> g[i]]
    <3>1. c = [peer_ut_metadata_id |-> Some(1), pending_metadata_responses |-> old,
               panicked |-> FALSE]
      BY DEF c
    <3>. HIDE DEF old, new, c
    <3>2. PICK d : d = [c EXCEPT !.pending_metadata_responses = new]
      OBVIOUS
    <3>3. d = [peer_ut_metadata_id |-> Some(1), pending_metadata_responses |-> new,
               panicked |-> FALSE]
      BY <3>1, <3>2
    <3>. QED
      BY <3>2, <3>3 DEF new
  <2>7. Then(c, k) = State(k)
    BY <2>3, <2>4, <2>5, <2>6
  <2>. QED
    BY <2>7 DEF c
<1>3. Answers(info, n) = conn[n].pending_metadata_responses
  BY DEF Answers
<1>. HIDE DEF first, Then, State
<1>4. P(conn)
  <2>1. PICK f : f = [k \in 0 .. n |-> State(k)]
    OBVIOUS
  <2>2. P(f)
    <3>1. \A k \in 0 .. n : f[k] = State(k)
      BY <2>1
    <3>2. ASSUME NEW k \in 0 .. n
          PROVE  State(k) = IF k = 0 THEN first ELSE Then(f[k - 1], k)
      <4>1. CASE k = 0
        BY <1>1, <4>1
      <4>2. CASE k # 0
        <5>1. k \in 1 .. n /\ k - 1 \in 0 .. n
          BY <4>2
        <5>2. f[k - 1] = State(k - 1)
          BY <3>1, <5>1
        <5>. QED
          BY <1>2, <4>2, <5>1, <5>2
      <4>. QED
        BY <4>1, <4>2
    <3>3. f = [k \in 0 .. n |-> IF k = 0 THEN first ELSE Then(f[k - 1], k)]
      BY <2>1, <3>2
    <3>. QED
      BY <3>3
  <2>. HIDE DEF P
  <2>. QED
    BY <2>2
<1>. HIDE DEF conn
<1>5. conn[0] = first /\ \A k \in 1 .. n : conn[k] = Then(conn[k - 1], k)
  <2>1. \A k \in 0 .. n : conn[k] = IF k = 0 THEN first ELSE Then(conn[k - 1], k)
    BY <1>4
  <2>2. 0 \in 0 .. n /\ \A k \in 1 .. n : k \in 0 .. n /\ k # 0
    OBVIOUS
  <2>. HIDE DEF P
  <2>. QED
    BY <2>1, <2>2
<1>. HIDE DEF P
<1>. DEFINE T == {k \in 0 .. n : conn[k] = State(k)}
<1>6. n \in T
  <2>1. 0 \in T
    BY <1>1, <1>5
  <2>2. ASSUME NEW k \in 0 .. (n - 1), k \in T PROVE k + 1 \in T
    <3>1. k + 1 \in 1 .. n /\ k + 1 \in 0 .. n /\ (k + 1) - 1 = k /\ conn[k] = State(k)
      BY <2>2
    <3>2. conn[k + 1] = Then(State(k), k + 1)
      BY <1>5, <3>1
    <3>3. Then(State(k), k + 1) = State(k + 1)
      BY <1>2, <3>1
    <3>. QED
      BY <3>1, <3>2, <3>3
  <2>3. n \in 0 .. n
    OBVIOUS
  <2>. HIDE DEF T
  <2>. QED
    BY <2>1, <2>2, <2>3, UpTo
<1>7. conn[n].pending_metadata_responses = [i \in 1 .. n |-> g[i]]
  <2>. HIDE DEF g
  <2>. QED
    BY <1>6 DEF State
<1>. QED
  BY <1>3, <1>7

LEMMA JoinParts ==
  ASSUME NEW B, NEW t \in Seq(B), NEW a \in 0 .. Len(t), NEW b \in a .. Len(t)
  PROVE  SubSeq(t, 1, a) \o SubSeq(t, a + 1, b) = SubSeq(t, 1, b)
<1>. DEFINE u == SubSeq(t, 1, a)
            v == SubSeq(t, a + 1, b)
            w == SubSeq(t, 1, b)
            x == u \o v
<1>1. /\ Len(t) \in Nat /\ a \in Nat /\ b \in Nat /\ a <= b
      /\ u \in Seq(B) /\ Len(u) = a /\ \A k \in 1 .. a : u[k] = t[k]
  OBVIOUS
<1>2. v \in Seq(B) /\ Len(v) = b - a /\ \A k \in 1 .. (b - a) : v[k] = t[a + k]
  OBVIOUS
<1>3. w \in Seq(B) /\ Len(w) = b /\ \A k \in 1 .. b : w[k] = t[k]
  OBVIOUS
<1>. HIDE DEF u, v, w
<1>4. x \in Seq(B) /\ Len(x) = Len(u) + Len(v)
  BY <1>1, <1>2, JoinSize, Zenon
<1>5. ASSUME NEW k \in 1 .. a PROVE x[k] = u[k]
  BY <1>1, <1>2
<1>6. ASSUME NEW k \in 1 .. (b - a) PROVE x[a + k] = v[k]
  BY <1>1, <1>2
<1>. HIDE DEF x
<1>7. ASSUME NEW k \in 1 .. b PROVE x[k] = w[k]
  <2>1. CASE k <= a
    <3>1. k \in 1 .. a
      BY <1>1, <2>1
    <3>. QED
      BY <1>1, <1>3, <1>5, <3>1, Zenon
  <2>2. CASE k > a
    <3>1. k - a \in 1 .. (b - a) /\ a + (k - a) = k
      BY <1>1, <2>2
    <3>2. x[k] = v[k - a]
      BY <1>6, <3>1
    <3>3. v[k - a] = t[k]
      BY <1>2, <3>1
    <3>. QED
      BY <1>3, <3>2, <3>3, Zenon
  <2>. QED
    BY <1>1, <2>1, <2>2
<1>8. x = w
  <2>1. Len(x) = b
    BY <1>1, <1>2, <1>4
  <2>. QED
    BY <1>3, <1>4, <1>7, <2>1, SeqEqual
<1>. QED
  BY <1>8 DEF x, u, v, w

LEMMA PartType ==
  ASSUME NEW B, NEW t \in Seq(B), NEW a \in 1 .. (Len(t) + 1), NEW b \in (a - 1) .. Len(t)
  PROVE  SubSeq(t, a, b) \in Seq(B)
  OBVIOUS

\* seqs are the N parts of t between the places cut[0], ..., cut[N].
Parts(t, N, cut, seqs) ==
  /\ \E S : seqs \in [1 .. N -> S]
  /\ \A i \in 1 .. N : seqs[i] = SubSeq(t, cut[i - 1] + 1, cut[i])

\* These places go from one end of t to the other.
Cuts(t, N, cut) ==
  /\ \A i \in 0 .. N : cut[i] \in 0 .. Len(t)
  /\ \A i \in 1 .. N : cut[i - 1] <= cut[i]
  /\ cut[0] = 0 /\ cut[N] = Len(t)

\* What is cut into pieces and put together again is the same.
LEMMA Flattened ==
  ASSUME NEW B, NEW t \in Seq(B), NEW N \in Nat, NEW cut, NEW seqs,
         Cuts(t, N, cut), Parts(t, N, cut, seqs)
  PROVE  FlattenSeq(seqs) = t
<1>0. /\ \A i \in 0 .. N : cut[i] \in 0 .. Len(t)
      /\ \A i \in 1 .. N : cut[i - 1] <= cut[i]
      /\ cut[0] = 0 /\ cut[N] = Len(t) /\ Len(t) \in Nat
      /\ \A i \in 1 .. N : seqs[i] = SubSeq(t, cut[i - 1] + 1, cut[i])
  BY DEF Cuts, Parts
<1>1. ASSUME NEW i \in 1 .. N
      PROVE  /\ cut[i - 1] \in 0 .. Len(t) /\ cut[i] \in cut[i - 1] .. Len(t) /\ i - 1 \in 0 .. N
             /\ seqs[i] = SubSeq(t, cut[i - 1] + 1, cut[i])
  <2>1. i - 1 \in 0 .. N /\ i \in 0 .. N
    OBVIOUS
  <2>2. cut[i - 1] \in 0 .. Len(t) /\ cut[i] \in 0 .. Len(t) /\ cut[i - 1] <= cut[i]
    BY <1>0, <2>1
  <2>3. cut[i] \in cut[i - 1] .. Len(t)
    BY <1>0, <2>2
  <2>4. seqs[i] = SubSeq(t, cut[i - 1] + 1, cut[i])
    BY <1>0
  <2>. QED
    BY <2>1, <2>2, <2>3, <2>4
<1>2. seqs \in Seq(Seq(B)) /\ Len(seqs) = N
  <2>1. ASSUME NEW i \in 1 .. N PROVE SubSeq(t, cut[i - 1] + 1, cut[i]) \in Seq(B)
    <3>1. PICK a, b : a = cut[i - 1] + 1 /\ b = cut[i] /\ a \in 1 .. (Len(t) + 1) /\ b \in (a - 1) .. Len(t)
      <4>1. cut[i - 1] \in 0 .. Len(t) /\ cut[i] \in cut[i - 1] .. Len(t)
        BY <1>1
      <4>. QED
        BY <1>0, <4>1
    <3>2. SubSeq(t, a, b) \in Seq(B)
      BY <1>0, <3>1, PartType
    <3>. QED
      BY <3>1, <3>2
  <2>. DEFINE V == Seq(B)
  <2>. HIDE DEF V
  <2>2. seqs \in [1 .. N -> V]
    BY <1>1, <2>1 DEF V, Parts
  <2>3. seqs \in Seq(V) /\ Len(seqs) = N
    BY <2>2
  <2>. QED
    BY <2>3 DEF V
<1>3. CASE N = 0
  <2>1. Len(seqs) = 0 /\ Len(t) = 0
    BY <1>0, <1>2, <1>3
  <2>2. FlattenSeq(seqs) = seqs
    BY <2>1 DEF FlattenSeq
  <2>3. seqs = <<>> /\ t = <<>>
    BY <1>2, <2>1
  <2>. QED
    BY <2>2, <2>3
<1>4. CASE N # 0
  <2>. DEFINE Next(f, i) == IF i = 1 THEN seqs[i] ELSE f[i - 1] \o seqs[i]
              P(f) == f = [i \in 1 .. Len(seqs) |-> Next(f, i)]
              flatten == CHOOSE f : P(f)
              Start(i) == SubSeq(t, 1, cut[i])
  <2>1. FlattenSeq(seqs) = flatten[N]
    BY <1>2, <1>4 DEF FlattenSeq
  <2>2. Start(1) = seqs[1] /\ 1 \in 1 .. N
    <3>1. 1 \in 1 .. N /\ 1 - 1 = 0
      BY <1>4
    <3>2. seqs[1] = SubSeq(t, cut[0] + 1, cut[1])
      BY <1>1, <3>1
    <3>3. cut[0] + 1 = 1
      BY <1>0
    <3>. QED
      BY <3>1, <3>2, <3>3
  <2>3. ASSUME NEW i \in 1 .. N PROVE Start(i - 1) \o seqs[i] = Start(i)
    BY <1>1, JoinParts
  <2>. HIDE DEF Start
  <2>4. P(flatten)
    <3>1. PICK f : f = [i \in 1 .. N |-> Start(i)]
      OBVIOUS
    <3>2. ASSUME NEW i \in 1 .. N PROVE Start(i) = Next(f, i)
      <4>1. CASE i = 1
        BY <2>2, <4>1
      <4>2. CASE i # 1
        <5>1. i - 1 \in 1 .. N
          BY <4>2
        <5>2. f[i - 1] = Start(i - 1)
          BY <3>1, <5>1
        <5>. QED
          BY <2>3, <4>2, <5>2
      <4>. QED
        BY <4>1, <4>2
    <3>. HIDE DEF Next
    <3>3. P(f)
      BY <1>2, <3>1, <3>2
    <3>. HIDE DEF P
    <3>. QED
      BY <3>3
  <2>. HIDE DEF flatten
  <2>5. \A i \in 1 .. N : flatten[i] = Next(flatten, i)
    <3>. HIDE DEF Next
    <3>. QED
      BY <1>2, <2>4
  <2>. HIDE DEF P
  <2>. DEFINE T == {i \in 0 .. N : i = 0 \/ flatten[i] = Start(i)}
  <2>6. N \in T
    <3>1. 0 \in T /\ N \in 0 .. N
      OBVIOUS
    <3>2. ASSUME NEW i \in 0 .. (N - 1), i \in T PROVE i + 1 \in T
      <4>1. i + 1 \in 1 .. N /\ i + 1 \in 0 .. N /\ (i + 1) - 1 = i
        OBVIOUS
      <4>2. CASE i = 0
        <5>1. flatten[1] = seqs[1]
          BY <2>2, <2>5
        <5>2. i + 1 = 1
          BY <4>2
        <5>. QED
          BY <2>2, <4>1, <5>1, <5>2
      <4>3. CASE i # 0
        <5>1. flatten[i] = Start(i)
          BY <3>2, <4>3
        <5>2. flatten[i + 1] = flatten[i] \o seqs[i + 1]
          <6>1. i + 1 # 1
            BY <4>3
          <6>. QED
            BY <2>5, <4>1, <6>1
        <5>3. Start(i) \o seqs[i + 1] = Start(i + 1)
          BY <2>3, <4>1
        <5>. QED
          BY <4>1, <5>1, <5>2, <5>3
      <4>. QED
        BY <4>2, <4>3
    <3>. HIDE DEF T
    <3>. QED
      BY <3>1, <3>2, UpTo
  <2>7. flatten[N] = Start(N)
    BY <1>4, <2>6
  <2>8. SubSeq(t, 1, Len(t)) = t
    <3>1. At(t, t, 1)
      BY AtStart
    <3>2. 1 \in Nat \ {0} /\ 1 + Len(t) - 1 = Len(t)
      OBVIOUS
    <3>. QED
      BY <3>1, <3>2, AtSub
  <2>. QED
    BY <1>0, <2>1, <2>7, <2>8 DEF Start
<1>. QED
  BY <1>3, <1>4

\* The multiples of a size, up to the end of t, cut it from one end to the other.
LEMMA EvenCuts ==
  ASSUME NEW B, NEW t \in Seq(B), NEW n \in Nat, NEW P \in Nat, Len(t) <= n * P,
         NEW cut, \A i \in 0 .. n : cut[i] = IF i * P < Len(t) THEN i * P ELSE Len(t)
  PROVE  Cuts(t, n, cut)
<1>1. /\ Len(t) \in Nat
      /\ \A i \in Nat : i * P \in Nat /\ (i + 1) * P = i * P + P
  OBVIOUS
<1>2. ASSUME NEW i \in 0 .. n PROVE cut[i] \in 0 .. Len(t)
  BY <1>1
<1>3. cut[0] = 0
  <2>1. 0 \in 0 .. n /\ 0 * P = 0
    OBVIOUS
  <2>. QED
    BY <1>1, <2>1
<1>4. cut[n] = Len(t)
  <2>1. n \in 0 .. n /\ n * P \in Nat
    BY <1>1
  <2>. QED
    BY <1>1, <2>1
<1>5. ASSUME NEW i \in 1 .. n PROVE cut[i - 1] <= cut[i]
  <2>1. i - 1 \in 0 .. n /\ i \in 0 .. n /\ i - 1 \in Nat /\ (i - 1) + 1 = i
    OBVIOUS
  <2>2. i * P = (i - 1) * P + P /\ (i - 1) * P \in Nat
    BY <1>1, <2>1
  <2>3. /\ cut[i - 1] = IF (i - 1) * P < Len(t) THEN (i - 1) * P ELSE Len(t)
        /\ cut[i] = IF i * P < Len(t) THEN i * P ELSE Len(t)
    BY <2>1
  <2>. DEFINE x == (i - 1) * P
              y == i * P
  <2>. HIDE DEF x, y
  <2>4. y = x + P /\ x \in Nat
    BY <2>2 DEF x, y
  <2>5. /\ cut[i - 1] = IF x < Len(t) THEN x ELSE Len(t)
        /\ cut[i] = IF y < Len(t) THEN y ELSE Len(t)
    BY <2>3 DEF x, y
  <2>. QED
    BY <1>1, <2>4, <2>5
<1>. QED
  BY <1>2, <1>3, <1>4, <1>5 DEF Cuts

\* The number of pieces that a dictionary of L bytes is asked for in.
LEMMA PiecesCover ==
  ASSUME NEW P \in Nat \ {0}, NEW L \in Nat, NEW n, n = (L + P - 1) \div P
  PROVE  /\ n \in Nat /\ n <= L /\ L <= n * P
         /\ \A i \in 1 .. n : (i - 1) * P < L
<1>1. CASE L = 0
  <2>1. n = 0
    BY <1>1
  <2>. QED
    BY <1>1, <2>1
<1>2. CASE L # 0
  <2>1. n \in Nat /\ n > 0 /\ (n - 1) * P < L /\ L <= n * P
    BY <1>2, RoundUp
  <2>2. \A a, b \in Nat : a <= b => a * P <= b * P
    OBVIOUS
  <2>3. ASSUME NEW i \in 1 .. n PROVE (i - 1) * P < L
    <3>1. i - 1 \in Nat /\ n - 1 \in Nat /\ i - 1 <= n - 1
      BY <2>1
    <3>2. (i - 1) * P <= (n - 1) * P
      BY <2>2, <3>1
    <3>3. (i - 1) * P \in Int /\ (n - 1) * P \in Int
      BY <3>1
    <3>. QED
      BY <2>1, <3>2, <3>3
  <2>4. n <= L
    <3>1. n - 1 \in Nat /\ \A a \in Nat : a <= a * P /\ a * P \in Nat
      BY <2>1
    <3>2. n - 1 <= (n - 1) * P
      BY <3>1
    <3>. QED
      BY <2>1, <3>1, <3>2
  <2>. QED
    BY <2>1, <2>3, <2>4
<1>. QED
  BY <1>1, <1>2

\* What a fetch reads of the answer for a piece of the dictionary.
LEMMA PieceServed ==
  ASSUME NEW B, HasSyntax(B), Bounds, NEW t \in Seq(B), Len(t) <= MaxInteger,
         3 * Len(t) + 50 <= MaxLength, METADATA_PIECE_SIZE \in Nat \ {0}, W64 \in Nat,
         NEW p \in Nat, p <= Len(t), p < W64, p * METADATA_PIECE_SIZE < Len(t),
         NEW end, end = IF (p + 1) * METADATA_PIECE_SIZE < Len(t)
                        THEN (p + 1) * METADATA_PIECE_SIZE ELSE Len(t)
  PROVE  parse_metadata_piece(Response(1, Some(t), p), 1)
           = [is |-> "piece", piece |-> p,
              data |-> SubSeq(t, p * METADATA_PIECE_SIZE + 1, end)]
<1>. DEFINE P == METADATA_PIECE_SIZE
            start == p * P
            data == SubSeq(t, start + 1, end)
<1>1. /\ P \in Nat \ {0} /\ start \in Nat /\ (p + 1) * P = start + P /\ Len(t) \in Nat
      /\ start < Len(t)
  OBVIOUS
<1>2. end \in start .. Len(t) /\ end = IF start + P < Len(t) THEN start + P ELSE Len(t)
  BY <1>1
<1>3. Some(t).some /\ Some(t).it = t
  BY DEF Some
<1>4. ~Beyond(t, start)
  BY <1>1 DEF Beyond
<1>5. Response(1, Some(t), p) = create_metadata_data_response(1, p, data, Len(t))
  BY <1>2, <1>3, <1>4 DEF Response
<1>6. data \in Seq(B) /\ Len(data) = end - start
  <2>. HIDE DEF start
  <2>. QED
    BY <1>1, <1>2
<1>. HIDE DEF data, start
<1>7. p <= MaxInteger /\ Len(t) \in Nat /\ p + Len(t) + Len(data) + 41 <= MaxLength
  <2>1. Len(data) \in Nat /\ Len(data) <= Len(t)
    BY <1>1, <1>2, <1>6
  <2>2. MaxLength \in Nat /\ MaxInteger \in Nat
    BY DEF Bounds
  <2>. QED
    BY <1>1, <2>1, <2>2
<1>8. parse_metadata_piece(create_metadata_data_response(1, p, data, Len(t)), 1)
        = [is |-> "piece", piece |-> p, data |-> data]
  BY <1>6, <1>7, DataRead, ZenonT(30)
<1>. QED
  BY <1>5, <1>8 DEF data, start

\* And of the answer for one that is not there.
LEMMA PieceRejected ==
  ASSUME NEW B, HasSyntax(B), Bounds, NEW info, NEW p \in Nat, p <= MaxInteger,
         p + 25 <= MaxLength, info = None \/ Len(info.it) <= p * METADATA_PIECE_SIZE,
         METADATA_PIECE_SIZE \in Nat, info # None => Len(info.it) \in Nat
  PROVE  parse_metadata_piece(Response(1, info, p), 1) = Failed
<1>1. ~info.some \/ Beyond(info.it, p * METADATA_PIECE_SIZE)
  BY DEF None, Beyond
<1>2. Response(1, info, p) = create_metadata_reject(1, p)
  BY <1>1 DEF Response
<1>3. parse_metadata_piece(create_metadata_reject(1, p), 1) = Failed
  BY RejectRead
<1>. QED
  BY <1>2, <1>3

\* Whatever bytes an info dictionary has, a fetch that asks a client of this program for the
\* pieces its handshake calls for puts exactly these bytes together; one piece more, or a
\* piece of a client without the dictionary, is rejected (src/peer/client.rs:396-427).  The
\* pieces have some size and are fewer than a u32 can count, i64 holds the numbers of pieces
\* and the size, and no message is longer than u64::MAX.
THEOREM MetadataServedHolds ==
  ASSUME NEW Byte, METADATA_PIECE_SIZE \in Nat \ {0},
         MaxInteger \in Nat, MaxLength \in Nat, W32 \in Nat, W64 \in Nat,
         2 <= W32, W32 <= W64, W32 <= MaxInteger, 50 <= MaxLength,
         metadata = None \/ \E t \in Seq(Byte) :
            /\ metadata = Some(t) /\ Len(t) <= MaxInteger /\ 3 * Len(t) + 50 <= MaxLength
            /\ (Len(t) + METADATA_PIECE_SIZE - 1) \div METADATA_PIECE_SIZE < W32
  PROVE  MetadataServed
<1>1. CASE metadata = None
  BY <1>1 DEF MetadataServed, None
<1>2. CASE metadata # None
  <2>1. PICK t \in Seq(Byte) :
            /\ metadata = Some(t) /\ Len(t) <= MaxInteger /\ 3 * Len(t) + 50 <= MaxLength
            /\ (Len(t) + METADATA_PIECE_SIZE - 1) \div METADATA_PIECE_SIZE < W32
    BY <1>2
  <2>. DEFINE B == Byte \cup Syntax
              L == Len(t)
              P == METADATA_PIECE_SIZE
              n == (L + P - 1) \div P
              named == receive_extension_handshake(
                          create_extension_handshake(Some(Len(metadata.it))))
              answers == Answers(metadata, n + 1)
              got == Read(answers)
              cut == [i \in 0 .. n |-> IF i * P < L THEN i * P ELSE L]
  <2>2. HasSyntax(B) /\ Bounds /\ t \in Seq(B) /\ L \in Nat
    <3>1. Byte \subseteq B /\ Syntax \subseteq B
      OBVIOUS
    <3>. HIDE DEF B
    <3>2. t \in Seq(B)
      BY <3>1, WiderSeq
    <3>3. 13 <= MaxLength /\ 2 <= MaxInteger
      OBVIOUS
    <3>. QED
      BY <3>1, <3>2, <3>3 DEF HasSyntax, Bounds
  <2>. HIDE DEF B
  <2>3. Some(t).some /\ Some(t).it = t /\ metadata = Some(t) /\ P \in Nat \ {0}
    BY <2>1 DEF Some
  <2>4. /\ n \in Nat /\ n <= L /\ L <= n * P /\ n < W32
        /\ \A i \in 1 .. n : (i - 1) * P < L
    <3>. HIDE DEF P
    <3>1. n < W32
      BY <2>1 DEF P
    <3>. QED
      BY <2>2, <2>3, <3>1, PiecesCover
  <2>5. named = Some([ut_metadata |-> 1, metadata_size |-> L])
    <3>1. L <= MaxInteger
      BY <2>1
    <3>. QED
      BY <2>2, <2>3, <3>1, SizeNamed
  <2>. HIDE DEF named
  <2>6. named.some /\ named.it.ut_metadata = 1 /\ PiecesOf(named.it) = n
    <3>. DEFINE x == [ut_metadata |-> 1, metadata_size |-> L]
    <3>1. x.ut_metadata = 1 /\ x.metadata_size = L
      OBVIOUS
    <3>. HIDE DEF x
    <3>2. named.some /\ named.it = x
      BY <2>5 DEF Some, x
    <3>. QED
      BY <3>1, <3>2 DEF PiecesOf
  <2>. HIDE DEF n
  <2>7. n + 1 \in Nat /\ n + 1 <= W32 /\ n + 1 <= MaxInteger /\ (n + 1) + 25 <= MaxLength
    BY <2>1, <2>2, <2>4
  <2>8. answers = [i \in 1 .. (n + 1) |-> Response(1, metadata, i - 1)]
    BY <2>2, <2>7, AnswersAre
  <2>9. got = [i \in 1 .. (n + 1) |-> parse_metadata_piece(Response(1, metadata, i - 1), 1)]
    <3>1. /\ Len(answers) = n + 1
          /\ \A i \in 1 .. (n + 1) : answers[i] = Response(1, metadata, i - 1)
      BY <2>7, <2>8
    <3>. HIDE DEF answers
    <3>. QED
      BY <3>1 DEF Read, OUR_UT_METADATA_ID
  <2>. HIDE DEF got
  <2>10. ASSUME NEW i \in 1 .. n
         PROVE  /\ got[i].is = "piece" /\ got[i].piece = i - 1
                /\ got[i].data = SubSeq(t, cut[i - 1] + 1, cut[i])
    <3>1. /\ i - 1 \in Nat /\ i - 1 <= L /\ i - 1 < W64 /\ (i - 1) * P < L /\ (i - 1) + 1 = i
          /\ i \in 1 .. (n + 1)
      BY <2>4
    <3>2. cut[i - 1] = (i - 1) * P /\ cut[i] = IF ((i - 1) + 1) * P < L THEN ((i - 1) + 1) * P ELSE L
      <4>1. i - 1 \in 0 .. n /\ i \in 0 .. n
        BY <2>4
      <4>. QED
        BY <3>1, <4>1
    <3>. HIDE DEF cut
    <3>3. parse_metadata_piece(Response(1, Some(t), i - 1), 1)
            = [is |-> "piece", piece |-> i - 1, data |-> SubSeq(t, (i - 1) * P + 1, cut[i])]
      BY <2>1, <2>2, <3>1, <3>2, PieceServed
    <3>4. got[i] = parse_metadata_piece(Response(1, Some(t), i - 1), 1)
      BY <2>3, <2>9, <3>1
    <3>. DEFINE data == SubSeq(t, (i - 1) * P + 1, cut[i])
                x == [is |-> "piece", piece |-> i - 1, data |-> data]
    <3>. HIDE DEF data
    <3>5. x.is = "piece" /\ x.piece = i - 1 /\ x.data = data
      OBVIOUS
    <3>6. got[i] = x
      BY <3>3, <3>4 DEF data
    <3>. HIDE DEF x
    <3>. QED
      BY <3>2, <3>5, <3>6 DEF data
  <2>11. got[n + 1] = Failed
    <3>1. got[n + 1] = parse_metadata_piece(Response(1, metadata, n), 1)
      <4>1. n + 1 \in 1 .. (n + 1) /\ (n + 1) - 1 = n
        BY <2>4
      <4>. QED
        BY <2>9, <4>1
    <3>2. /\ n \in Nat /\ n <= MaxInteger /\ n + 25 <= MaxLength
          /\ Len(metadata.it) <= n * P /\ Len(metadata.it) \in Nat
      BY <2>2, <2>3, <2>4, <2>7
    <3>. QED
      BY <2>2, <2>3, <3>1, <3>2, PieceRejected
  <2>12. FlattenSeq([i \in 1 .. n |-> got[i].data]) = t
    <3>1. \A i \in 1 .. n : got[i].data = SubSeq(t, cut[i - 1] + 1, cut[i])
      <4>. HIDE DEF cut
      <4>. QED
        BY <2>10, Zenon
    <3>2. \A i \in 0 .. n : cut[i] = IF i * P < Len(t) THEN i * P ELSE Len(t)
      OBVIOUS
    <3>. HIDE DEF cut
    <3>. DEFINE seqs == [i \in 1 .. n |-> got[i].data]
    <3>3. seqs \in [1 .. n -> {got[i].data : i \in 1 .. n}] /\ \A i \in 1 .. n : seqs[i] = got[i].data
      OBVIOUS
    <3>. HIDE DEF seqs
    <3>4. Parts(t, n, cut, seqs)
      BY <3>1, <3>3 DEF Parts
    <3>5. Cuts(t, n, cut)
      <4>. HIDE DEF P
      <4>1. P \in Nat /\ L = Len(t)
        BY <2>3
      <4>. HIDE DEF L
      <4>. QED
        BY <2>2, <2>4, <3>2, <4>1, EvenCuts
    <3>6. FlattenSeq(seqs) = t
      BY <2>2, <2>4, <3>4, <3>5, Flattened
    <3>. QED
      BY <3>6 DEF seqs
  <2>13. Read(Answers(None, 1)) = <<Failed>>
    <3>1. Answers(None, 1) = [i \in 1 .. 1 |-> Response(1, None, i - 1)]
      <4>1. 1 \in Nat /\ 1 <= W32 /\ 1 <= MaxInteger /\ 1 + 25 <= MaxLength
        OBVIOUS
      <4>. QED
        BY <2>2, <4>1, AnswersAre
    <3>2. parse_metadata_piece(Response(1, None, 0), 1) = Failed
      <4>1. 0 \in Nat /\ 0 <= MaxInteger /\ 0 + 25 <= MaxLength /\ P \in Nat
        BY <2>3
      <4>. QED
        BY <2>2, <4>1, PieceRejected
    <3>. DEFINE a == Answers(None, 1)
    <3>3. Len(a) = 1 /\ a[1] = Response(1, None, 0)
      BY <3>1
    <3>. HIDE DEF a
    <3>4. Read(a) = [i \in 1 .. 1 |-> parse_metadata_piece(a[i], 1)]
      BY <3>3 DEF Read, OUR_UT_METADATA_ID
    <3>5. Read(a) = [i \in 1 .. 1 |-> Failed]
      BY <3>2, <3>3, <3>4
    <3>6. [i \in 1 .. 1 |-> Failed] = <<Failed>>
      OBVIOUS
    <3>. QED
      BY <3>5, <3>6 DEF a
  <2>14. \A i \in 1 .. n : got[i].is = "piece" /\ got[i].piece = i - 1
    <3>. HIDE DEF cut
    <3>. QED
      BY <2>10, Zenon
  <2>. QED
    BY <2>3, <2>6, <2>11, <2>12, <2>13, <2>14, ZenonT(30)
    DEF MetadataServed, named, got, answers, OUR_UT_METADATA_ID
<1>. QED
  BY <1>1, <1>2

=============================================================================
