-------------------------- MODULE Scrollback_proof --------------------------
(* Lemmas and theorems about the ring operators of Scrollback.             *)
EXTENDS Scrollback, TLAPS, SequenceTheorems

USE SizeAssumption

\* The mask only ever sees sums below twice the capacity.
LEMMA MaskLow == \A x \in Index : Mask(x) = x
  BY DEF Index, Mask

\* From the capacity on the mask wraps once.
LEMMA MaskHigh == \A x \in Size .. 2 * Size - 1 : Mask(x) = x - Size
  BY DEF Mask

\* Both cases in one, with the range of the result.
LEMMA MaskValue ==
  \A x \in 0 .. 2 * Size - 1 :
     /\ Mask(x) \in Index
     /\ Mask(x) = IF x < Size THEN x ELSE x - Size
<1> SUFFICES ASSUME NEW x \in 0 .. 2 * Size - 1
             PROVE  /\ Mask(x) \in Index
                    /\ Mask(x) = IF x < Size THEN x ELSE x - Size
  OBVIOUS
<1>1. CASE x \in Index
  BY <1>1, MaskLow DEF Index
<1>2. CASE x \in Size .. 2 * Size - 1
  BY <1>2, MaskHigh DEF Index
<1> QED
  BY <1>1, <1>2 DEF Index

\* An append of n bytes to a ring at head with len bytes: wp is where it
\* writes, ahead and alen are the new head and length, and q is the place of
\* the new ring's k-th oldest byte in the old content followed by the data.
Appends(head, len, n, wp, ahead, alen, k, q) ==
    /\ head \in Index /\ len \in 0 .. Size /\ n \in 0 .. Size
    /\ wp = Mask(head + len)
    /\ ahead = IF len + n <= Size THEN head ELSE Mask(head + len + n - Size)
    /\ alen = IF len + n <= Size THEN len + n ELSE Size
    /\ k \in Nat /\ 1 <= k /\ k <= alen
    /\ q = len + n - alen + k

\* That byte is in a cell the copy wrote, or in the cell it already had.
LEMMA WrapArithmetic ==
  ASSUME NEW head, NEW len, NEW n, NEW wp, NEW ahead, NEW alen, NEW k, NEW q,
         Appends(head, len, n, wp, ahead, alen, k, q)
  PROVE  /\ q \in 1 .. len + n
         /\ q > len => /\ q - len - 1 \in 0 .. n - 1
                       /\ Mask(wp + (q - len - 1)) = Mask(ahead + k - 1)
         /\ q <= len => /\ Size - len + q - 1 \in n .. Size - 1
                        /\ Mask(wp + (Size - len + q - 1)) = Mask(ahead + k - 1)
                        /\ Mask(wp + (Size - len + q - 1)) = Mask(head + q - 1)
<1>0. /\ head \in Index /\ len \in 0 .. Size /\ n \in 0 .. Size
      /\ wp = Mask(head + len)
      /\ ahead = IF len + n <= Size THEN head ELSE Mask(head + len + n - Size)
      /\ alen = IF len + n <= Size THEN len + n ELSE Size
      /\ k \in Nat /\ 1 <= k /\ k <= alen
      /\ q = len + n - alen + k
  BY DEF Appends
<1>1. /\ Size \in Nat /\ 0 < Size
      /\ head \in Nat /\ head < Size /\ len \in Nat /\ len <= Size
      /\ n \in Nat /\ n <= Size /\ alen \in Nat /\ alen <= Size
  BY <1>0 DEF Index
<1>2. wp \in Nat /\ wp < Size
      /\ wp = IF head + len < Size THEN head + len ELSE head + len - Size
  BY <1>0, <1>1, MaskValue DEF Index
<1>3. /\ ahead \in Nat /\ ahead < Size
      /\ ahead = IF len + n <= Size THEN head
                 ELSE IF head + len + n - Size < Size THEN head + len + n - Size
                 ELSE head + len + n - Size - Size
  <2>1. CASE len + n <= Size
    BY <1>0, <1>1, <2>1
  <2>2. CASE len + n > Size
    <3>1. head + len + n - Size \in 0 .. 2 * Size - 1
      BY <1>0, <1>1, <2>2
    <3> QED
      BY <1>0, <1>1, <2>2, <3>1, MaskValue DEF Index
  <2> QED
    BY <1>0, <1>1, <2>1, <2>2
<1>4. q \in 1 .. len + n
  BY <1>0, <1>1
<1>5. /\ ahead + k - 1 \in 0 .. 2 * Size - 1
      /\ Mask(ahead + k - 1) = IF ahead + k - 1 < Size THEN ahead + k - 1
                               ELSE ahead + k - 1 - Size
  BY <1>0, <1>1, <1>3, MaskValue
<1>6. ASSUME q > len
      PROVE  /\ q - len - 1 \in 0 .. n - 1
             /\ Mask(wp + (q - len - 1)) = Mask(ahead + k - 1)
  <2>1. q - len - 1 \in 0 .. n - 1
    BY <1>0, <1>1, <1>4, <1>6
  <2> DEFINE x == wp + (q - len - 1)
  <2>2. x \in 0 .. 2 * Size - 1
    BY <1>0, <1>1, <1>2, <2>1
  <2> HIDE DEF x
  <2>3. Mask(x) = IF x < Size THEN x ELSE x - Size
    BY <2>2, MaskValue
  <2>4. x = wp + (q - len - 1)
    BY DEF x
  <2>5. Mask(x) = Mask(ahead + k - 1)
    BY <1>0, <1>1, <1>2, <1>3, <1>4, <1>5, <2>1, <2>2, <2>3, <2>4
  <2> QED
    BY <2>1, <2>5 DEF x
<1>7. ASSUME q <= len
      PROVE  /\ Size - len + q - 1 \in n .. Size - 1
             /\ Mask(wp + (Size - len + q - 1)) = Mask(ahead + k - 1)
             /\ Mask(wp + (Size - len + q - 1)) = Mask(head + q - 1)
  <2>1. Size - len + q - 1 \in n .. Size - 1
    BY <1>0, <1>1, <1>4, <1>7
  <2> DEFINE x == wp + (Size - len + q - 1)
             y == head + q - 1
  <2>2. x \in 0 .. 2 * Size - 1 /\ y \in 0 .. 2 * Size - 1
    BY <1>0, <1>1, <1>2, <1>4, <1>7, <2>1
  <2> HIDE DEF x, y
  <2>3. /\ Mask(x) = IF x < Size THEN x ELSE x - Size
        /\ Mask(y) = IF y < Size THEN y ELSE y - Size
    BY <2>2, MaskValue
  <2>4. x = wp + (Size - len + q - 1) /\ y = head + q - 1
    BY DEF x, y
  <2>5. Mask(x) = Mask(y)
    BY <1>0, <1>1, <1>2, <1>4, <1>7, <2>1, <2>2, <2>3, <2>4
  <2>6. Mask(y) = Mask(ahead + k - 1)
    BY <1>0, <1>1, <1>3, <1>4, <1>5, <1>7, <2>2, <2>3, <2>4
  <2> QED
    BY <2>1, <2>5, <2>6 DEF x, y
<1> QED
  BY <1>4, <1>6, <1>7

\* LastN returns a sequence of the same kind, its length, and which elements.
LEMMA LastNType ==
  ASSUME NEW S, NEW s \in Seq(S), NEW n \in Nat
  PROVE  /\ LastN(s, n) \in Seq(S)
         /\ Len(LastN(s, n)) = Smaller(Len(s), n)
         /\ \A k \in 1 .. Len(LastN(s, n)) :
               LastN(s, n)[k] = s[Len(s) - Len(LastN(s, n)) + k]
<1>0. Len(s) \in Nat
  OBVIOUS
<1>1. CASE Len(s) <= n
  BY <1>0, <1>1 DEF LastN, Smaller
<1>2. CASE Len(s) > n
  <2> DEFINE t == SubSeq(s, Len(s) - n + 1, Len(s))
  <2>1. /\ t \in Seq(S)
        /\ Len(t) = n
        /\ \A k \in 1 .. n : t[k] = s[Len(s) - n + k]
    BY <1>0, <1>2, SubSeqProperties
  <2>2. LastN(s, n) = t
    BY <1>0, <1>2 DEF LastN
  <2>3. Smaller(Len(s), n) = n
    BY <1>0, <1>2 DEF Smaller
  <2> QED
    BY <2>1, <2>2, <2>3
<1> QED
  BY <1>0, <1>1, <1>2

\* The content of a ring is a sequence of len bytes, each at its place.
LEMMA ContentType ==
  ASSUME NEW r \in Ring
  PROVE  /\ Content(r) \in Seq(Byte)
         /\ Len(Content(r)) = r.len
         /\ \A k \in 1 .. r.len : Content(r)[k] = r.buf[Mask(r.head + k - 1)]
<1>1. \A k \in 1 .. r.len : r.buf[Mask(r.head + k - 1)] \in Byte
  BY MaskValue DEF Ring, Index
<1>2. r.len \in Nat
  BY DEF Ring
<1> QED
  BY <1>1, <1>2 DEF Content

\* Which cell of the buffer a copy writes, and with what: the data lies on
\* consecutive cells from wp on, and every other cell keeps its byte.
LEMMA CopiedCells ==
  ASSUME NEW buf \in [Index -> Byte], NEW wp \in Index,
         NEW data \in Seq(Byte), Len(data) <= Size
  PROVE  /\ Copied(buf, wp, data) \in [Index -> Byte]
         /\ \A j \in 0 .. Len(data) - 1 :
               Copied(buf, wp, data)[Mask(wp + j)] = data[j + 1]
         /\ \A j \in Len(data) .. Size - 1 :
               Copied(buf, wp, data)[Mask(wp + j)] = buf[Mask(wp + j)]
<1> DEFINE n == Len(data)
           n1 == Smaller(Size - wp, n)
           c == Copied(buf, wp, data)
<1>1. /\ Size \in Nat /\ 0 < Size
      /\ n \in Nat /\ n <= Size /\ wp \in Int /\ 0 <= wp /\ wp < Size
      /\ n1 \in 0 .. n /\ wp + n1 <= Size
      /\ (n1 = n \/ wp + n1 = Size)
  BY DEF Index, Smaller
<1>2. \A i \in 1 .. n : data[i] \in Byte
  OBVIOUS
<1>3. c = [i \in Index |-> IF wp <= i /\ i < wp + n1 THEN data[i - wp + 1]
                           ELSE IF i < n - n1 THEN data[n1 + i + 1]
                           ELSE buf[i]]
  BY DEF Copied
<1>4. c \in [Index -> Byte]
  <2> SUFFICES ASSUME NEW i \in Index
               PROVE  (IF wp <= i /\ i < wp + n1 THEN data[i - wp + 1]
                       ELSE IF i < n - n1 THEN data[n1 + i + 1]
                       ELSE buf[i]) \in Byte
    BY <1>3
  <2>1. i \in Int /\ 0 <= i
    BY DEF Index
  <2> HIDE DEF n, n1
  <2> QED
    BY <1>1, <1>2, <2>1
<1>5. ASSUME NEW j \in 0 .. Size - 1
      PROVE  /\ Mask(wp + j) \in Index
             /\ Mask(wp + j) = IF wp + j < Size THEN wp + j ELSE wp + j - Size
  BY <1>1, MaskLow, MaskHigh DEF Index
<1>6. ASSUME NEW j \in 0 .. n - 1
      PROVE  c[Mask(wp + j)] = data[j + 1]
  <2>1. j \in 0 .. Size - 1 /\ j \in Int /\ 0 <= j /\ j < n
    BY <1>1
  <2>2. /\ Mask(wp + j) \in Index
        /\ Mask(wp + j) = IF wp + j < Size THEN wp + j ELSE wp + j - Size
    BY <1>5, <2>1
  <2> DEFINE m == Mask(wp + j)
  <2> HIDE DEF n, n1, c, m
  <2>3. c[m] = IF wp <= m /\ m < wp + n1 THEN data[m - wp + 1]
               ELSE IF m < n - n1 THEN data[n1 + m + 1]
               ELSE buf[m]
    BY <1>3, <2>2 DEF m
  <2>4. CASE wp + j < Size
    <3>1. m = wp + j /\ wp <= m /\ m < wp + n1 /\ m - wp + 1 = j + 1
      BY <1>1, <2>1, <2>2, <2>4 DEF m
    <3> QED
      BY <2>3, <3>1 DEF m
  <2>5. CASE wp + j >= Size
    <3>1. m = wp + j - Size /\ wp + n1 = Size
      BY <1>1, <2>1, <2>2, <2>5 DEF m
    <3>2. m < wp /\ m < n - n1 /\ n1 + m + 1 = j + 1 /\ m \in Int
      BY <1>1, <2>1, <3>1
    <3> QED
      BY <1>1, <2>3, <3>2 DEF m
  <2> QED
    BY <1>1, <2>1, <2>4, <2>5
<1>7. ASSUME NEW j \in n .. Size - 1
      PROVE  c[Mask(wp + j)] = buf[Mask(wp + j)]
  <2>1. j \in 0 .. Size - 1
    BY <1>1
  <2> HIDE DEF n, n1, c
  <2> QED
    BY <1>1, <1>3, <1>5, <2>1
<1> QED
  BY <1>4, <1>6, <1>7

\* Appending data that fits keeps the representation invariant, and the cells
\* from the new head on hold the tail of the old content followed by data.
LEMMA AppendClampedContent ==
  ASSUME NEW r \in Ring, NEW data \in Seq(Byte), Len(data) <= Size
  PROVE  /\ AppendClamped(r, data) \in Ring
         /\ Content(AppendClamped(r, data)) = LastN(Content(r) \o data, Size)
<1> DEFINE n == Len(data)
           a == AppendClamped(r, data)
           wp == Mask(r.head + r.len)
           old == Content(r)
           cat == old \o data
<1>1. /\ Size \in Nat /\ 0 < Size
      /\ n \in Nat /\ n <= Size
      /\ r.head \in Int /\ 0 <= r.head /\ r.head < Size
      /\ r.len \in Nat /\ r.len <= Size
      /\ r.buf \in [Index -> Byte]
  BY DEF Ring, Index
<1>2. wp \in Index /\ wp = IF r.head + r.len < Size THEN r.head + r.len
                                                  ELSE r.head + r.len - Size
  <2> DEFINE x == r.head + r.len
  <2>1. x \in 0 .. 2 * Size - 1
    BY <1>1
  <2> HIDE DEF n, a, old, cat, x
  <2>2. Mask(x) \in Index /\ Mask(x) = IF x < Size THEN x ELSE x - Size
    BY <2>1, MaskValue, ZenonT(30)
  <2>3. x = r.head + r.len /\ x - Size = r.head + r.len - Size
    BY <1>1 DEF x
  <2>4. wp = Mask(x)
    BY Zenon DEF x
  <2> QED
    BY <2>2, <2>3, <2>4, ZenonT(30)
<1>3. /\ a.buf = Copied(r.buf, wp, data)
      /\ a.head = IF r.len + n <= Size THEN r.head ELSE Mask(r.head + r.len + n - Size)
      /\ a.len = Smaller(r.len + n, Size)
      /\ a = [buf |-> a.buf, head |-> a.head, len |-> a.len]
  <2>1. r.head + (r.len + n) - Size = r.head + r.len + n - Size
    BY <1>1
  <2> QED
    BY <2>1 DEF AppendClamped
<1>4. /\ a.buf \in [Index -> Byte]
      /\ \A j \in 0 .. n - 1 : a.buf[Mask(wp + j)] = data[j + 1]
      /\ \A j \in n .. Size - 1 : a.buf[Mask(wp + j)] = r.buf[Mask(wp + j)]
  BY <1>1, <1>2, <1>3, CopiedCells
<1>5. a.len \in 0 .. Size /\ a.len = (IF r.len + n <= Size THEN r.len + n ELSE Size)
  BY <1>1, <1>3 DEF Smaller
<1>6. a.head \in Index
  <2>1. CASE r.len + n <= Size
    BY <1>1, <1>3, <2>1 DEF Index
  <2>2. CASE r.len + n > Size
    <3>1. r.head + r.len + n - Size \in 0 .. 2 * Size - 1
      BY <1>1, <2>2
    <3> QED
      BY <1>1, <1>3, <2>2, <3>1, MaskValue
  <2> QED
    BY <1>1, <2>1, <2>2
<1>7. a \in Ring
  BY <1>3, <1>4, <1>5, <1>6 DEF Ring
<1>8. /\ old \in Seq(Byte) /\ Len(old) = r.len
      /\ \A k \in 1 .. r.len : old[k] = r.buf[Mask(r.head + k - 1)]
  BY ContentType
<1>9. /\ cat \in Seq(Byte) /\ Len(cat) = r.len + n
      /\ \A k \in 1 .. r.len + n : cat[k] = IF k <= r.len THEN old[k] ELSE data[k - r.len]
  BY <1>8, ConcatProperties
<1>10. /\ Content(a) \in Seq(Byte) /\ Len(Content(a)) = a.len
       /\ \A k \in 1 .. a.len : Content(a)[k] = a.buf[Mask(a.head + k - 1)]
  BY <1>7, ContentType
<1> HIDE DEF n, a, wp, old, cat
<1>11. /\ LastN(cat, Size) \in Seq(Byte)
       /\ Len(LastN(cat, Size)) = a.len
       /\ \A k \in 1 .. a.len : LastN(cat, Size)[k] = cat[r.len + n - a.len + k]
  <2> DEFINE t == LastN(cat, Size)
  <2>1. /\ t \in Seq(Byte) /\ Len(t) = Smaller(Len(cat), Size)
        /\ \A k \in 1 .. Len(t) : t[k] = cat[Len(cat) - Len(t) + k]
    <3>1. cat \in Seq(Byte) /\ Size \in Nat
      BY <1>1, <1>9
    <3> QED
      BY <3>1, LastNType, ZenonT(60)
  <2> HIDE DEF t
  <2>2. Len(t) = a.len
    BY <1>3, <1>9, <2>1
  <2>3. ASSUME NEW k \in 1 .. a.len
        PROVE  t[k] = cat[r.len + n - a.len + k]
    <3>1. t[k] = cat[Len(cat) - Len(t) + k]
      BY <2>1, <2>2
    <3>2. Len(cat) = r.len + n
      BY <1>9
    <3>3. Len(cat) - Len(t) + k = r.len + n - a.len + k
      BY <1>1, <1>5, <2>2, <3>2
    <3> QED
      BY <3>1, <3>3, ZenonT(30)
  <2> QED
    BY <2>1, <2>2, <2>3 DEF t
<1>12. ASSUME NEW k \in 1 .. a.len
       PROVE  a.buf[Mask(a.head + k - 1)] = cat[r.len + n - a.len + k]
  <2> DEFINE q == r.len + n - a.len + k
  <2>1. k \in Nat /\ 1 <= k /\ k <= a.len /\ n \in 0 .. Size /\ r.len \in 0 .. Size
        /\ r.head \in Index
    BY <1>1, <1>5 DEF Index
  <2>2. wp = Mask(r.head + r.len)
    BY DEF wp
  <2>3. /\ q \in 1 .. r.len + n
        /\ q > r.len => /\ q - r.len - 1 \in 0 .. n - 1
                        /\ Mask(wp + (q - r.len - 1)) = Mask(a.head + k - 1)
        /\ q <= r.len => /\ Size - r.len + q - 1 \in n .. Size - 1
                         /\ Mask(wp + (Size - r.len + q - 1)) = Mask(a.head + k - 1)
                         /\ Mask(wp + (Size - r.len + q - 1)) = Mask(r.head + q - 1)
    <3> DEFINE h == r.head
               l == r.len
               ah == a.head
               al == a.len
    <3>1. Appends(h, l, n, wp, ah, al, k, q)
      BY <1>3, <1>5, <2>1, <2>2 DEF Appends
    <3> HIDE DEF h, l, ah, al, q
    <3>2. /\ q \in 1 .. l + n
          /\ q > l => /\ q - l - 1 \in 0 .. n - 1
                      /\ Mask(wp + (q - l - 1)) = Mask(ah + k - 1)
          /\ q <= l => /\ Size - l + q - 1 \in n .. Size - 1
                       /\ Mask(wp + (Size - l + q - 1)) = Mask(ah + k - 1)
                       /\ Mask(wp + (Size - l + q - 1)) = Mask(h + q - 1)
      BY <3>1, WrapArithmetic
    <3> QED
      BY <3>2 DEF h, l, ah
  <2> HIDE DEF q
  <2>4. CASE q > r.len
    <3>1. a.buf[Mask(wp + (q - r.len - 1))] = data[(q - r.len - 1) + 1]
      BY <1>4, <2>3, <2>4
    <3>2. cat[q] = data[q - r.len] /\ (q - r.len - 1) + 1 = q - r.len
      BY <1>1, <1>9, <2>3, <2>4
    <3> QED
      BY <2>3, <2>4, <3>1, <3>2 DEF q
  <2>5. CASE q <= r.len
    <3>1. a.buf[Mask(wp + (Size - r.len + q - 1))] = r.buf[Mask(r.head + q - 1)]
      BY <1>4, <2>3, <2>5
    <3>2. cat[q] = r.buf[Mask(r.head + q - 1)]
      <4>1. q \in 1 .. r.len
        BY <1>1, <2>3, <2>5
      <4>2. old[q] = r.buf[Mask(r.head + q - 1)]
        BY <1>8, <4>1
      <4> QED
        BY <1>9, <2>3, <2>5, <4>2
    <3> QED
      BY <2>3, <2>5, <3>1, <3>2 DEF q
  <2> QED
    BY <1>1, <2>3, <2>4, <2>5
<1>13. Content(a) = LastN(cat, Size)
  <2>1. \A k \in 1 .. Len(Content(a)) : Content(a)[k] = LastN(cat, Size)[k]
    BY <1>10, <1>11, <1>12
  <2> QED
    BY <1>10, <1>11, <2>1, SeqEqual
<1> QED
  BY <1>7, <1>13 DEF a, cat, old

\* Clamping the data first does not change what the last n elements are.
LEMMA LastNConcat ==
  ASSUME NEW S, NEW s \in Seq(S), NEW d \in Seq(S), NEW n \in Nat
  PROVE  LastN(s \o LastN(d, n), n) = LastN(s \o d, n)
<1> DEFINE e == LastN(d, n)
           x == s \o e
           y == s \o d
<1>0. Len(s) \in Nat /\ Len(d) \in Nat
  OBVIOUS
<1>1. /\ e \in Seq(S) /\ Len(e) = Smaller(Len(d), n)
      /\ \A k \in 1 .. Len(e) : e[k] = d[Len(d) - Len(e) + k]
  BY LastNType, ZenonT(60)
<1> HIDE DEF e
<1>2. /\ x \in Seq(S) /\ Len(x) = Len(s) + Len(e)
      /\ \A i \in 1 .. Len(s) + Len(e) : x[i] = IF i <= Len(s) THEN s[i] ELSE e[i - Len(s)]
  BY <1>1, ConcatProperties
<1>3. /\ y \in Seq(S) /\ Len(y) = Len(s) + Len(d)
      /\ \A i \in 1 .. Len(s) + Len(d) : y[i] = IF i <= Len(s) THEN s[i] ELSE d[i - Len(s)]
  BY ConcatProperties
<1> HIDE DEF x, y
<1>4. /\ LastN(x, n) \in Seq(S) /\ Len(LastN(x, n)) = Smaller(Len(x), n)
      /\ \A k \in 1 .. Len(LastN(x, n)) : LastN(x, n)[k] = x[Len(x) - Len(LastN(x, n)) + k]
  BY <1>2, LastNType, ZenonT(60)
<1>5. /\ LastN(y, n) \in Seq(S) /\ Len(LastN(y, n)) = Smaller(Len(y), n)
      /\ \A k \in 1 .. Len(LastN(y, n)) : LastN(y, n)[k] = y[Len(y) - Len(LastN(y, n)) + k]
  BY <1>3, LastNType, ZenonT(60)
<1> DEFINE u == LastN(x, n)
           v == LastN(y, n)
<1> HIDE DEF u, v
<1>6. /\ u \in Seq(S) /\ Len(u) = Smaller(Len(x), n)
      /\ v \in Seq(S) /\ Len(v) = Smaller(Len(y), n)
      /\ \A k \in 1 .. Len(u) : u[k] = x[Len(x) - Len(u) + k]
      /\ \A k \in 1 .. Len(v) : v[k] = y[Len(y) - Len(v) + k]
  BY <1>4, <1>5 DEF u, v
<1>7. Len(u) = Len(v) /\ Len(u) \in Nat /\ Len(u) <= Len(s) + Len(e)
  BY <1>0, <1>1, <1>2, <1>3, <1>6 DEF Smaller
<1>8. ASSUME NEW k \in 1 .. Len(u)
      PROVE  u[k] = v[k]
  <2>1. CASE Len(e) = Len(d)
    <3>1. e = d
      BY <1>0, <1>1, <2>1, SeqEqual
    <3>2. x = y
      BY <3>1 DEF x, y
    <3> QED
      BY <3>2 DEF u, v
  <2>2. CASE Len(e) # Len(d)
    <3> DEFINE ls == Len(s)
               ld == Len(d)
    <3>1. /\ ls \in Nat /\ ld \in Nat /\ n \in Nat /\ n < ld
          /\ Len(e) = n
      BY <1>0, <1>1, <2>2 DEF Smaller
    <3>2. Len(x) = ls + n /\ Len(y) = ls + ld /\ Len(u) = n /\ Len(v) = n
      <4>1. Len(x) = ls + n /\ Len(y) = ls + ld
        BY <1>2, <1>3, <3>1
      <4>2. Smaller(ls + n, n) = n /\ Smaller(ls + ld, n) = n
        BY <3>1 DEF Smaller
      <4>3. Len(u) = Smaller(ls + n, n) /\ Len(v) = Smaller(ls + ld, n)
        BY <1>6, <4>1
      <4> QED
        BY <4>1, <4>2, <4>3
    <3>3. k \in 1 .. n /\ (ls + n) - n + k = ls + k
          /\ ls + k \in 1 .. ls + n /\ (ls + k) - ls = k /\ ~(ls + k <= ls)
      BY <3>1, <3>2
    <3>4. (ls + ld) - n + k \in 1 .. ls + ld /\ ((ls + ld) - n + k) - ls = ld - n + k
          /\ ~((ls + ld) - n + k <= ls)
      BY <3>1, <3>3
    <3>5. u[k] = x[ls + k] /\ v[k] = y[(ls + ld) - n + k]
      BY <1>6, <3>2, <3>3
    <3>6. x[ls + k] = e[k]
      BY <1>2, <3>1, <3>3
    <3>7. y[(ls + ld) - n + k] = d[ld - n + k]
      BY <1>3, <3>4
    <3>8. e[k] = d[ld - n + k]
      BY <1>1, <3>1, <3>3
    <3> QED
      BY <3>5, <3>6, <3>7, <3>8
  <2> QED
    BY <2>1, <2>2
<1>9. u = v
  BY <1>6, <1>7, <1>8, SeqEqual
<1> QED
  BY <1>9 DEF u, v, x, y, e

\* The new ring is a ring and holds nothing.
LEMMA NewRingEmpty == NewRing \in Ring /\ Content(NewRing) = << >>
<1>1. NewRing \in Ring
  BY ByteAssumption DEF NewRing, Ring, Index
<1>2. Content(NewRing) \in Seq(Byte) /\ Len(Content(NewRing)) = 0
  BY <1>1, ContentType DEF NewRing
<1> QED
  BY <1>1, <1>2

\* For every capacity and every chunk, Scrollback::append keeps the ring well
\* formed, and the ring then holds exactly the last SCROLLBACK_SIZE bytes of
\* what it held followed by the chunk, whichever way the chunk wraps.
THEOREM AppendContent ==
  ASSUME NEW r \in Ring, NEW d \in Seq(Byte)
  PROVE  /\ AppendData(r, d) \in Ring
         /\ Content(AppendData(r, d)) = LastN(Content(r) \o d, Size)
<1>1. Content(r) \in Seq(Byte) /\ Len(Content(r)) = r.len /\ r.len \in 0 .. Size
  BY ContentType DEF Ring
<1>2. CASE d = << >>
  <2>1. Content(r) \o d = Content(r)
    BY <1>1, <1>2
  <2>2. LastN(Content(r), Size) = Content(r)
    BY <1>1 DEF LastN
  <2> QED
    BY <1>2, <2>1, <2>2 DEF AppendData
<1>3. CASE d # << >>
  <2> DEFINE data == LastN(d, Size)
  <2>1. data \in Seq(Byte) /\ Len(data) <= Size
    <3>1. Size \in Nat /\ Len(d) \in Nat
      OBVIOUS
    <3>2. data \in Seq(Byte) /\ Len(data) = Smaller(Len(d), Size)
      BY <3>1, LastNType, ZenonT(60)
    <3> QED
      BY <3>1, <3>2 DEF Smaller
  <2>2. AppendData(r, d) = AppendClamped(r, data)
    BY <1>3 DEF AppendData
  <2>3. LastN(Content(r) \o data, Size) = LastN(Content(r) \o d, Size)
    <3>1. Size \in Nat
      OBVIOUS
    <3> QED
      BY <1>1, <3>1, LastNConcat, ZenonT(60)
  <2> HIDE DEF data
  <2> QED
    BY <2>1, <2>2, <2>3, AppendClampedContent
<1> QED
  BY <1>2, <1>3

\* A number is so many turns and a place in the ring in one way only.
LEMMA Turns ==
  ASSUME NEW a \in Nat
  PROVE  \E p \in Int, r \in 0 .. Size - 1 : r = Mask(a) /\ a = p * Size + r
<1>1. a \div Size \in Int /\ (a % Size) \in 0 .. Size - 1
      /\ a = (a \div Size) * Size + (a % Size)
  OBVIOUS
<1> QED
  BY <1>1 DEF Mask

\* Two such numbers are equal only with the same place.
LEMMA SamePlace ==
  ASSUME NEW p \in Int, NEW q \in Int, NEW r \in 0 .. Size - 1, NEW s \in 0 .. Size - 1,
         p * Size + r = q * Size + s
  PROVE  r = s
<1>1. ASSUME NEW a \in Int, NEW b \in Int, a >= b + 1
      PROVE  a * Size >= b * Size + Size
  BY <1>1
<1>2. p = q
  <2>1. CASE p >= q + 1
    BY <1>1, <2>1
  <2>2. CASE q >= p + 1
    BY <1>1, <2>2
  <2> QED
    BY <2>1, <2>2
<1> QED
  BY <1>2

\* Masking a part of a sum first changes nothing.
LEMMA MaskAdd == \A a, b \in Nat : Mask(Mask(a) + b) = Mask(a + b)
<1> SUFFICES ASSUME NEW a \in Nat, NEW b \in Nat
             PROVE  Mask(Mask(a) + b) = Mask(a + b)
  OBVIOUS
<1>1. PICK p \in Int, r \in 0 .. Size - 1 : r = Mask(a) /\ a = p * Size + r
  BY Turns
<1>2. PICK q \in Int, s \in 0 .. Size - 1 : s = Mask(r + b) /\ r + b = q * Size + s
  <2>1. r + b \in Nat
    OBVIOUS
  <2> QED
    BY <2>1, Turns
<1>3. PICK o \in Int, t \in 0 .. Size - 1 : t = Mask(a + b) /\ a + b = o * Size + t
  <2>1. a + b \in Nat
    OBVIOUS
  <2> QED
    BY <2>1, Turns
<1>4. (p + q) * Size + s = o * Size + t /\ p + q \in Int
  <2>1. (p + q) * Size = p * Size + q * Size
    OBVIOUS
  <2> QED
    BY <1>1, <1>2, <1>3, <2>1
<1>5. s = t
  BY <1>4, SamePlace
<1> QED
  BY <1>1, <1>2, <1>3, <1>5

\* A mask is always in the ring.
LEMMA MaskRange == \A x \in Nat : Mask(x) \in Index
  BY Turns DEF Index

\* The ring holds the last of t bytes of output, each of which is its position.
Window(r, t) == /\ r \in Ring /\ r.len = Smaller(t, Size)
                /\ \A k \in 1 .. r.len : Content(r)[k] = t - r.len + k

\* The new ring is a window on no output.
LEMMA WindowNew == Window(NewRing, 0)
  BY NewRingEmpty DEF Window, NewRing, Smaller

\* What is behind position t goes on behind it in the ring, and pushes out the oldest.
LEMMA WindowAppend ==
  ASSUME NEW r, NEW t \in Nat, Window(r, t), NEW d \in Seq(Byte),
         \A k \in 1 .. Len(d) : d[k] = t + k
  PROVE  Window(AppendData(r, d), t + Len(d))
<1> DEFINE old == Content(r)
           cat == old \o d
           n == Len(d)
           m == Smaller(t + n, Size)
           a == AppendData(r, d)
           w == LastN(cat, Size)
<1>1. /\ r \in Ring /\ n \in Nat /\ Size \in Nat /\ 0 < Size
      /\ r.len \in Nat /\ r.len <= t /\ (r.len = t \/ r.len = Size) /\ r.len <= Size
  BY DEF Window, Smaller, Ring
<1>2. /\ old \in Seq(Byte) /\ Len(old) = r.len
      /\ \A k \in 1 .. r.len : old[k] = t - r.len + k
  BY <1>1, ContentType DEF Window
<1>3. a \in Ring /\ Content(a) = w
  BY <1>1, AppendContent
<1> HIDE DEF old, a
<1>4. /\ cat \in Seq(Byte) /\ Len(cat) = r.len + n
      /\ \A k \in 1 .. r.len + n : cat[k] = IF k <= r.len THEN old[k] ELSE d[k - r.len]
  <2>1. /\ old \o d \in Seq(Byte) /\ Len(old \o d) = Len(old) + Len(d)
        /\ \A k \in 1 .. Len(old) + Len(d) :
              (old \o d)[k] = IF k <= Len(old) THEN old[k] ELSE d[k - Len(old)]
    BY <1>2, ConcatProperties
  <2> QED
    BY <1>2, <2>1
<1> HIDE DEF cat, n
<1>5. ASSUME NEW k \in 1 .. r.len + n
      PROVE  cat[k] = t - r.len + k
  <2>1. CASE k <= r.len
    BY <1>1, <1>2, <1>4, <2>1
  <2>2. CASE k > r.len
    <3>1. k - r.len \in 1 .. n /\ cat[k] = d[k - r.len]
      BY <1>1, <1>4, <2>2
    <3> QED
      BY <1>1, <3>1 DEF n
  <2> QED
    BY <1>1, <2>1, <2>2
<1>6. /\ w \in Seq(Byte) /\ Len(w) = Smaller(Len(cat), Size)
      /\ \A k \in 1 .. Len(w) : w[k] = cat[Len(cat) - Len(w) + k]
  <2>1. cat \in Seq(Byte) /\ Size \in Nat
    BY <1>1, <1>4
  <2> QED
    BY <2>1, LastNType, ZenonT(60)
<1> HIDE DEF w
<1>7. /\ m \in Nat /\ m <= r.len + n /\ m = Smaller(r.len + n, Size)
  BY <1>1 DEF Smaller
<1> HIDE DEF m
<1>8. Len(w) = m /\ a.len = m
  BY <1>3, <1>4, <1>6, <1>7, ContentType
<1>9. ASSUME NEW k \in 1 .. m
      PROVE  w[k] = t + n - m + k
  <2>1. Len(cat) - Len(w) + k = r.len + n - m + k /\ r.len + n - m + k \in 1 .. r.len + n
    BY <1>1, <1>4, <1>7, <1>8
  <2>2. w[k] = cat[r.len + n - m + k]
    BY <1>6, <1>8, <2>1
  <2>3. cat[r.len + n - m + k] = t - r.len + (r.len + n - m + k)
    BY <1>5, <2>1
  <2> QED
    BY <1>1, <1>7, <2>2, <2>3
<1> QED
  BY <1>3, <1>8, <1>9 DEF Window, m, a, n

\* The head moves on by as many bytes as are pushed out.
LEMMA HeadAppend ==
  ASSUME NEW r \in Ring, NEW d \in Seq(Byte), d # << >>, Len(d) <= Size
  PROVE  AppendData(r, d).head = IF r.len + Len(d) <= Size THEN r.head
                                 ELSE Mask(r.head + (r.len + Len(d) - Size))
<1>1. Len(d) \in Nat /\ r.len \in Nat /\ r.head \in Nat /\ Size \in Nat
  BY DEF Ring, Index
<1>2. AppendData(r, d) = AppendClamped(r, d)
  BY DEF AppendData, LastN
<1>3. r.head + (r.len + Len(d)) - Size = r.head + (r.len + Len(d) - Size)
  BY <1>1
<1> QED
  BY <1>2, <1>3 DEF AppendClamped
=============================================================================
