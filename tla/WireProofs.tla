------------------------------ MODULE WireProofs ------------------------------
(* However the stream is cut, Read returns what Write was given, or has made *)
(* a GENERIC_NACK of three bytes of a length.                                *)
EXTENDS Wire, PduProofs

-------------------------------------------------------------------------------
(* The PDUs that are written.                                                *)

Numbered(p, n) == SetLength([p EXCEPT !.seq = n])

Frames == {Numbered(pn[1], pn[2]) : pn \in AllPdus \X (1..MaxSent)}

\* The frame of a PDU, as the reader needs it.
Good(p) ==
  /\ IsFrame(Writer(p), p) /\ IsWord(Len(Writer(p))) /\ Len(Writer(p)) <= MaxPdu + 4

LEMMA SentGood ==
  ASSUME NEW p \in AllPdus, NEW n \in 1..MaxSent
  PROVE  LET q == [p EXCEPT !.seq = n]
         IN  Good(Numbered(p, n)) /\ Writer(Numbered(p, n)) = Writer(q)
<1>1. PICK q : q = [p EXCEPT !.seq = n]
  OBVIOUS
<1>2. Sendable(q)
  BY <1>1, WireAssumption
<1>3. Fits(q) /\ Len(Writer(q)) <= MaxPdu + 4
  BY ONLY <1>2 DEF Sendable
<1>4. Writer(SetLength(q)) = Writer(q) /\ IsFrame(Writer(q), SetLength(q))
  BY ONLY <1>3, RoundTrip
<1>5. IsWord(Len(Writer(q)))
  <2>1. Len(Writer(q)) \in Nat /\ MaxPdu \in Nat
    <3>1. Writer(q) \in Seq(Byte)
      BY ONLY <1>4 DEF IsFrame
    <3> QED BY <3>1, LenProperties, WireAssumption
  <2> QED BY ONLY <1>3, <2>1, WireAssumption, SMT DEF IsWord
<1>6. Good(SetLength(q))
  BY ONLY <1>3, <1>4, <1>5 DEF Good
<1>7. Numbered(p, n) = SetLength(q)
  BY ONLY <1>1 DEF Numbered
<1> QED BY ONLY <1>1, <1>4, <1>6, <1>7

LEMMA FramesGood == \A p \in Frames : Good(p)
<1> SUFFICES ASSUME NEW q \in Frames PROVE Good(q)
  OBVIOUS
<1>1. PICK p \in AllPdus, n \in 1..MaxSent : q = Numbered(p, n)
  BY DEF Frames
<1>2. Good(Numbered(p, n))
  BY SentGood
<1> QED BY ONLY <1>1, <1>2

\* What Good says of the string itself.
LEMMA GoodString ==
  ASSUME NEW p, Good(p)
  PROVE  /\ Writer(p) \in Seq(Byte) /\ Len(Writer(p)) \in Nat /\ 16 <= Len(Writer(p))
         /\ Len(Writer(p)) <= MaxPdu + 4
<1>1. Writer(p) \in Seq(Byte) /\ 16 <= Len(Writer(p)) /\ Len(Writer(p)) <= MaxPdu + 4
  BY DEF Good, IsFrame
<1> QED BY <1>1, LenProperties

-------------------------------------------------------------------------------
(* The frames behind one another.                                            *)

\* s is made of the frames of ps behind the first k; frame i ends at at[i].
FramedAt(s, ps, k, at) ==
  /\ at \in [k..Len(ps) -> Nat] /\ at[k] = 0 /\ at[Len(ps)] = Len(s)
  /\ \A i, j \in k..Len(ps) : i <= j => at[i] <= at[j]
  /\ \A i \in (k + 1)..Len(ps) : /\ at[i] = at[i - 1] + Len(Writer(ps[i]))
                               /\ Stands(Writer(ps[i]), s, at[i - 1])

Framed(s, ps, k) == s \in Seq(Byte) /\ \E at : FramedAt(s, ps, k, at)

LEMMA FramedEmpty == Framed(<<>>, <<>>, 0)
<1> DEFINE at == [i \in 0..0 |-> 0]
<1>1. FramedAt(<<>>, <<>>, 0, at)
  BY DEF FramedAt
<1> HIDE DEF at
<1> QED BY <1>1 DEF Framed

\* A frame more.
LEMMA FramedMore ==
  ASSUME NEW ps \in Seq(Frames), NEW k \in 0..Len(ps), NEW s, Framed(s, ps, k),
         NEW p \in Frames
  PROVE  Framed(s \o Writer(p), Append(ps, p), k)
<1>1. PICK n \in Nat : n = Len(ps)
  BY LenProperties
<1>2. PICK at : FramedAt(s, ps, k, at)
  BY DEF Framed
<1>3. PICK b \in Seq(Byte), x \in Seq(Byte) : b = s /\ x = Writer(p)
  BY FramesGood, GoodString DEF Framed
<1>4. PICK l \in Nat, m \in Nat : l = Len(b) /\ m = Len(x)
  BY LenProperties
<1>5. IsJoin(b \o x, b, l, x, m)
  BY ONLY b \in Seq(Byte), x \in Seq(Byte), <1>4, JoinIs
<1>6. PICK c : c = b \o x
  OBVIOUS
<1>7. c \in Seq(Byte) /\ Len(c) = l + m /\ \A j \in 1..m : c[l + j] = x[j]
  BY ONLY <1>5, <1>6 DEF IsJoin
<1>8. PICK ps1 : ps1 = Append(ps, p)
  OBVIOUS
<1>9. Len(ps1) = n + 1 /\ ps1[n + 1] = p /\ \A i \in 1..n : ps1[i] = ps[i]
  BY ONLY ps \in Seq(Frames), p \in Frames, <1>1, <1>8, AppendProperties
<1>10. /\ at \in [k..n -> Nat] /\ at[k] = 0 /\ at[n] = l
       /\ \A i, j \in k..n : i <= j => at[i] <= at[j]
       /\ \A i \in (k + 1)..n : /\ at[i] = at[i - 1] + Len(Writer(ps[i]))
                              /\ Stands(Writer(ps[i]), b, at[i - 1])
  BY ONLY <1>1, <1>2, <1>3, <1>4 DEF FramedAt
<1> DEFINE at1 == [i \in k..(n + 1) |-> IF i = n + 1 THEN l + m ELSE at[i]]
<1>11. at1 \in [k..(n + 1) -> Nat] /\ at1[n + 1] = l + m /\ \A i \in k..n : at1[i] = at[i]
  BY ONLY n \in Nat, l \in Nat, m \in Nat, k \in 0..Len(ps), <1>1, <1>10
<1> HIDE DEF at1
<1>12. at1[k] = 0
  BY ONLY n \in Nat, k \in 0..Len(ps), <1>1, <1>10, <1>11
<1>13. ASSUME NEW i \in (k + 1)..(n + 1)
       PROVE  /\ at1[i] = at1[i - 1] + Len(Writer(ps1[i]))
              /\ Stands(Writer(ps1[i]), c, at1[i - 1])
  <2>1. CASE i = n + 1
    <3>1. i - 1 = n /\ n \in k..n
      BY ONLY n \in Nat, k \in 0..Len(ps), <1>1, <2>1
    <3>2. at1[i - 1] = l /\ Writer(ps1[i]) = x /\ at1[i] = l + m
      BY ONLY <1>3, <1>9, <1>10, <1>11, <2>1, <3>1
    <3>3. Stands(x, c, l)
      BY ONLY l \in Nat, m \in Nat, <1>4, <1>7 DEF Stands
    <3> QED BY ONLY <1>4, <3>2, <3>3
  <2>2. CASE i # n + 1
    <3>1. i \in (k + 1)..n /\ i \in k..n /\ i - 1 \in k..n /\ i \in 1..n
      BY ONLY n \in Nat, k \in 0..Len(ps), <1>1, i \in (k + 1)..(n + 1), <2>2
    <3>2. at1[i] = at[i] /\ at1[i - 1] = at[i - 1] /\ ps1[i] = ps[i] /\ at[i - 1] \in Nat
      BY ONLY <1>9, <1>10, <1>11, <3>1
    <3>3. Writer(ps[i]) \in Seq(Byte)
      <4>1. ps[i] \in Frames
        BY ONLY ps \in Seq(Frames), <1>1, <3>1, ElementOfSeq
      <4> QED BY ONLY <4>1, FramesGood, GoodString
    <3>4. Stands(Writer(ps[i]), b, at[i - 1]) /\ at[i] = at[i - 1] + Len(Writer(ps[i]))
      BY ONLY <1>10, <3>1
    <3>5. Stands(Writer(ps[i]), c, at[i - 1])
      BY ONLY b \in Seq(Byte), x \in Seq(Byte), <1>6, <3>2, <3>3, <3>4, StandsBefore
    <3> QED BY ONLY <3>2, <3>4, <3>5
  <2> QED BY ONLY <2>1, <2>2
<1>14. \A i, j \in k..(n + 1) : i <= j => at1[i] <= at1[j]
  <2> SUFFICES ASSUME NEW i \in k..(n + 1), NEW j \in k..(n + 1), i <= j
               PROVE  at1[i] <= at1[j]
    OBVIOUS
  <2>1. CASE j = n + 1 /\ i # n + 1
    <3>1. i \in k..n /\ n \in k..n /\ i <= n
      BY ONLY n \in Nat, k \in 0..Len(ps), <1>1, <2>1, i \in k..(n + 1)
    <3>2. at1[i] = at[i] /\ at[i] <= l /\ at[i] \in Nat
      BY ONLY <1>10, <1>11, <3>1
    <3> QED BY ONLY l \in Nat, m \in Nat, <1>11, <2>1, <3>2
  <2>2. CASE j # n + 1
    <3>1. i \in k..n /\ j \in k..n
      BY ONLY n \in Nat, k \in 0..Len(ps), <1>1, <2>2, i \in k..(n + 1), j \in k..(n + 1), i <= j
    <3> QED BY ONLY <1>10, <1>11, <3>1, i <= j
  <2>3. CASE i = n + 1 /\ j = n + 1
    BY ONLY l \in Nat, m \in Nat, <1>11, <2>3
  <2> QED BY ONLY <2>1, <2>2, <2>3
<1>15. FramedAt(c, ps1, k, at1)
  BY ONLY <1>7, <1>9, <1>11, <1>12, <1>13, <1>14 DEF FramedAt
<1> QED BY ONLY <1>3, <1>6, <1>7, <1>8, <1>15 DEF Framed

\* What has bytes begins with a frame.
LEMMA FramedFront ==
  ASSUME NEW ps \in Seq(Frames), NEW k \in 0..Len(ps), NEW s, Framed(s, ps, k), s # <<>>
  PROVE  k + 1 \in 1..Len(ps) /\ ps[k + 1] \in Frames /\ Stands(Writer(ps[k + 1]), s, 0)
<1>1. PICK n \in Nat : n = Len(ps)
  BY LenProperties
<1>2. PICK at : FramedAt(s, ps, k, at)
  BY DEF Framed
<1>3. k # n
  <2>1. Len(s) # 0
    BY EmptySeq DEF Framed
  <2> QED BY ONLY <1>1, <1>2, <2>1 DEF FramedAt
<1>4. k + 1 \in (k + 1)..n /\ k + 1 \in 1..n /\ (k + 1) - 1 = k
  BY ONLY n \in Nat, k \in 0..Len(ps), <1>1, <1>3
<1>5. at[k] = 0 /\ Stands(Writer(ps[k + 1]), s, at[(k + 1) - 1])
  BY ONLY <1>1, <1>2, <1>4 DEF FramedAt
<1>6. ps[k + 1] \in Frames
  BY ONLY ps \in Seq(Frames), <1>1, <1>4, ElementOfSeq
<1> QED BY ONLY <1>1, <1>4, <1>5, <1>6

LEMMA FramedDone ==
  ASSUME NEW ps \in Seq(Frames), NEW k \in 0..Len(ps), Framed(<<>>, ps, k)
  PROVE  k = Len(ps)
<1>1. PICK n \in Nat : n = Len(ps)
  BY LenProperties
<1> SUFFICES ASSUME k # n PROVE FALSE
  BY <1>1
<1>2. PICK at : FramedAt(<<>>, ps, k, at)
  BY DEF Framed
<1>3. k + 1 \in (k + 1)..n /\ k + 1 \in 1..n /\ (k + 1) - 1 = k
  BY ONLY n \in Nat, k \in 0..Len(ps), <1>1, k # n
<1>4. at[k] = 0 /\ Stands(Writer(ps[k + 1]), <<>>, at[(k + 1) - 1])
  BY ONLY <1>1, <1>2, <1>3 DEF FramedAt
<1>5. ps[k + 1] \in Frames
  BY ONLY ps \in Seq(Frames), <1>1, <1>3, ElementOfSeq
<1>6. Len(Writer(ps[k + 1])) \in Nat /\ 16 <= Len(Writer(ps[k + 1]))
  BY ONLY <1>5, FramesGood, GoodString
<1>7. 0 + Len(Writer(ps[k + 1])) <= Len(<<>>)
  BY ONLY <1>3, <1>4 DEF Stands
<1> QED BY ONLY <1>6, <1>7

\* The first frame is taken away.
LEMMA FramedNext ==
  ASSUME NEW ps \in Seq(Frames), NEW k \in 0..Len(ps), NEW s, Framed(s, ps, k), s # <<>>
  PROVE  Framed(Drop(s, Len(Writer(ps[k + 1]))), ps, k + 1)
<1>1. PICK n \in Nat : n = Len(ps)
  BY LenProperties
<1>2. PICK at : FramedAt(s, ps, k, at)
  BY DEF Framed
<1>3. /\ at \in [k..n -> Nat] /\ at[k] = 0 /\ at[n] = Len(s)
      /\ \A i, j \in k..n : i <= j => at[i] <= at[j]
      /\ \A i \in (k + 1)..n : /\ at[i] = at[i - 1] + Len(Writer(ps[i]))
                             /\ Stands(Writer(ps[i]), s, at[i - 1])
  BY ONLY <1>1, <1>2 DEF FramedAt
<1>4. k + 1 \in 1..n /\ ps[k + 1] \in Frames
  BY <1>1, FramedFront
<1>5. PICK x \in Seq(Byte), l \in Nat : x = Writer(ps[k + 1]) /\ l = Len(x)
  BY <1>4, FramesGood, GoodString
<1>6. k + 1 \in (k + 1)..n /\ k + 1 \in k..n /\ (k + 1) - 1 = k
      /\ \A i \in (k + 1)..n : i \in k..n /\ k + 1 <= i
  BY ONLY n \in Nat, k \in 0..Len(ps), <1>1, <1>4
<1>7. at[k + 1] = l
  BY ONLY l \in Nat, <1>3, <1>5, <1>6
<1>8. \A i \in (k + 1)..n : at[i] \in Nat /\ l <= at[i]
  BY ONLY <1>3, <1>6, <1>7
<1>9. PICK m \in Nat : m = Len(s) /\ l <= m
  <2>1. n \in (k + 1)..n
    BY ONLY n \in Nat, k \in 0..Len(ps), <1>1, <1>4
  <2> QED BY ONLY <1>3, <1>8, <2>1
<1>10. PICK t : t = Drop(s, l)
  OBVIOUS
<1>11. t \in Seq(Byte) /\ Len(t) = m - l /\ \A j \in 1..(m - l) : t[j] = s[l + j]
  <2>1. s \in Seq(Byte) /\ l \in 0..Len(s)
    BY <1>9 DEF Framed
  <2> QED BY ONLY <1>9, <1>10, <2>1, DropIs
<1> DEFINE at1 == [i \in (k + 1)..n |-> at[i] - l]
<1>12. /\ at1 \in [(k + 1)..n -> Nat] /\ at1[k + 1] = 0 /\ at1[n] = m - l
       /\ \A i \in (k + 1)..n : at1[i] = at[i] - l
  <2>1. n \in (k + 1)..n /\ at[n] = m
    BY ONLY n \in Nat, k \in 0..Len(ps), <1>1, <1>3, <1>4, <1>9
  <2>2. \A i \in (k + 1)..n : at[i] - l \in Nat
    BY ONLY l \in Nat, <1>8
  <2> QED BY ONLY l \in Nat, <1>6, <1>7, <2>1, <2>2
<1> HIDE DEF at1
<1>13. ASSUME NEW i \in (k + 1)..n, NEW j \in (k + 1)..n, i <= j PROVE at1[i] <= at1[j]
  <2>1. at[i] <= at[j] /\ at[i] \in Nat /\ at[j] \in Nat
    BY ONLY <1>3, <1>6, <1>8, <1>13
  <2> QED BY ONLY l \in Nat, <1>12, <2>1, SMTT(30)
<1>14. ASSUME NEW i \in ((k + 1) + 1)..n
       PROVE  /\ at1[i] = at1[i - 1] + Len(Writer(ps[i]))
              /\ Stands(Writer(ps[i]), t, at1[i - 1])
  <2>1. i \in (k + 1)..n /\ i - 1 \in (k + 1)..n /\ i \in 1..n
    BY ONLY n \in Nat, k \in 0..Len(ps), <1>1, i \in ((k + 1) + 1)..n
  <2>2. ps[i] \in Frames
    BY ONLY ps \in Seq(Frames), <1>1, <2>1, ElementOfSeq
  <2>3. PICK y \in Seq(Byte), q \in Nat : y = Writer(ps[i]) /\ q = Len(y)
    BY ONLY <2>2, FramesGood, GoodString
  <2>4. PICK a \in Nat : a = at[i - 1] /\ l <= a
    BY ONLY <1>8, <2>1
  <2>5. at[i] = a + q /\ a + q <= m /\ \A j \in 1..q : s[a + j] = y[j]
    BY ONLY <1>3, <1>9, <2>1, <2>3, <2>4 DEF Stands
  <2>6. at1[i - 1] = a - l /\ at1[i] = (a + q) - l
    BY ONLY <1>12, <2>1, <2>4, <2>5
  <2>7. (a + q) - l = (a - l) + q /\ (a - l) + q <= m - l
        /\ \A j \in 1..q : (a - l) + j \in 1..(m - l) /\ l + ((a - l) + j) = a + j
    <3>1. l <= a /\ a + q <= m
      BY ONLY <2>4, <2>5
    <3> QED BY ONLY l \in Nat, m \in Nat, q \in Nat, a \in Nat, <3>1
  <2>8. \A j \in 1..q : t[(a - l) + j] = y[j]
    BY ONLY <1>11, <2>5, <2>7
  <2> QED BY ONLY <1>11, <2>3, <2>6, <2>7, <2>8 DEF Stands
<1>15. FramedAt(t, ps, k + 1, at1)
  BY ONLY <1>1, <1>11, <1>12, <1>13, <1>14 DEF FramedAt
<1> QED BY ONLY <1>5, <1>10, <1>11, <1>15 DEF Framed

-------------------------------------------------------------------------------
(* What a reader takes.                                                      *)

\* What comes later leaves alone what is there.
LEMMA DropBefore ==
  ASSUME NEW b \in Seq(Byte), NEW c \in Seq(Byte), NEW m \in 0..Len(b)
  PROVE  Drop(b \o c, m) = Drop(b, m) \o c
<1>1. PICK l \in Nat, n \in Nat : l = Len(b) /\ n = Len(c)
  BY LenProperties
<1>2. PICK x \in Seq(Byte) : x = b \o c
  BY ConcatProperties, Zenon
<1>3. Len(x) = l + n /\ (\A j \in 1..l : x[j] = b[j]) /\ (\A j \in 1..n : x[l + j] = c[j])
  BY ONLY b \in Seq(Byte), c \in Seq(Byte), <1>1, <1>2, JoinIs DEF IsJoin
<1>4. PICK d \in Seq(Byte) : d = Drop(b, m)
  BY DropIs
<1>5. PICK r \in Nat : r = l - m /\ m + r = l
  <2>1. l - m \in Nat /\ m + (l - m) = l
    BY ONLY l \in Nat, m \in 0..Len(b), <1>1
  <2> QED BY ONLY <2>1
<1>6. Len(d) = r /\ \A j \in 1..r : d[j] = b[m + j]
  BY ONLY b \in Seq(Byte), m \in 0..Len(b), <1>1, <1>4, <1>5, DropIs
<1>7. PICK e \in Seq(Byte) : e = d \o c
  BY ConcatProperties, Zenon
<1>8. Len(e) = r + n /\ (\A j \in 1..r : e[j] = d[j]) /\ \A j \in 1..n : e[r + j] = c[j]
  <2>1. IsJoin(d \o c, d, Len(d), c, Len(c))
    BY ONLY d \in Seq(Byte), c \in Seq(Byte), JoinIs
  <2>2. IsJoin(e, d, r, c, n)
    BY ONLY <1>1, <1>6, <1>7, <2>1
  <2> QED BY ONLY <2>2 DEF IsJoin
<1>9. PICK q \in Nat : q = Len(x) /\ q = m + (r + n) /\ q - m = r + n /\ m \in 0..q
  BY ONLY l \in Nat, n \in Nat, r \in Nat, m \in 0..Len(b), <1>1, <1>3, <1>5
<1>10. /\ Drop(x, m) \in Seq(Byte) /\ Len(Drop(x, m)) = r + n
       /\ \A j \in 1..(r + n) : Drop(x, m)[j] = x[m + j]
  <2>1. /\ Drop(x, m) \in Seq(Byte) /\ Len(Drop(x, m)) = Len(x) - m
        /\ \A j \in 1..(Len(x) - m) : Drop(x, m)[j] = x[m + j]
    BY ONLY x \in Seq(Byte), <1>9, DropIs, ZenonT(30)
  <2>2. Len(x) - m = r + n
    BY ONLY <1>9
  <2> QED BY ONLY <2>1, <2>2
<1>11. PICK f \in Seq(Byte) : f = Drop(x, m)
  BY ONLY <1>10
<1>12. ASSUME NEW j \in 1..(r + n) PROVE f[j] = e[j]
  <2>1. CASE j \in 1..r
    <3>1. m + j \in 1..l
      BY ONLY l \in Nat, r \in Nat, m \in 0..Len(b), <1>1, <1>5, <2>1
    <3> QED BY ONLY j \in 1..(r + n), <1>3, <1>6, <1>8, <1>10, <1>11, <2>1, <3>1, ZenonT(30)
  <2>2. CASE j \notin 1..r
    <3>1. PICK i \in 1..n : j = r + i /\ m + j = l + i
      <4>1. j - r \in 1..n /\ j = r + (j - r) /\ m + j = l + (j - r)
        BY ONLY l \in Nat, n \in Nat, r \in Nat, m \in 0..Len(b), <1>1, <1>5, j \in 1..(r + n), <2>2
      <4> QED BY ONLY <4>1
    <3> QED BY ONLY j \in 1..(r + n), <1>3, <1>8, <1>10, <1>11, <3>1
  <2> QED BY ONLY <2>1, <2>2
<1>13. f = e
  BY ONLY f \in Seq(Byte), e \in Seq(Byte), <1>8, <1>10, <1>11, <1>12, SeqEqual
<1> QED BY ONLY <1>2, <1>4, <1>7, <1>11, <1>13

LEMMA TakeIs ==
  ASSUME NEW s \in Seq(Byte), NEW k \in 0..Len(s)
  PROVE  /\ Take(s, k) \in Seq(Byte) /\ Len(Take(s, k)) = k
         /\ \A j \in 1..k : Take(s, k)[j] = s[j]
<1>1. PICK n \in Nat : n = Len(s)
  BY LenProperties
<1>2. Take(s, k) = SubSeq(s, 1, k)
  <2>1. (IF k < n THEN k ELSE n) = k
    BY ONLY n \in Nat, k \in 0..Len(s), <1>1
  <2> QED BY ONLY <1>1, <2>1 DEF Take
<1>3. \A j \in 1..k : s[j] \in Byte
  <2>1. \A j \in 1..k : j \in 1..n
    BY ONLY n \in Nat, k \in 0..Len(s), <1>1
  <2> QED BY ONLY s \in Seq(Byte), <1>1, <2>1, ElementOfSeq
<1>4. 1 \in Int /\ k \in Int /\ (k - 1) + 1 = k /\ (1 <= k \/ k = 0)
      /\ \A j \in 1..k : (1 + j) - 1 = j
  BY ONLY n \in Nat, k \in 0..Len(s), <1>1
<1>5. /\ SubSeq(s, 1, k) \in Seq(Byte) /\ Len(SubSeq(s, 1, k)) = IF 1 <= k THEN (k - 1) + 1 ELSE 0
      /\ \A i \in 1..((k - 1) + 1) : SubSeq(s, 1, k)[i] = s[(1 + i) - 1]
  BY <1>3, <1>4, SubSeqProperties
<1>6. Len(SubSeq(s, 1, k)) = k
  BY ONLY <1>4, <1>5
<1>7. ASSUME NEW j \in 1..k PROVE SubSeq(s, 1, k)[j] = s[j]
  BY ONLY j \in 1..k, <1>4, <1>5
<1> QED BY ONLY <1>2, <1>5, <1>6, <1>7

\* What fills the room for the length.
LEMMA PaddedIs ==
  ASSUME NEW s \in Seq(Byte), NEW k \in 0..Len(s), k <= 4
  PROVE  /\ Padded(Take(s, k), 4) \in Seq(Byte) /\ Len(Padded(Take(s, k), 4)) = 4
         /\ \A j \in 1..4 : Padded(Take(s, k), 4)[j] = IF j <= k THEN s[j] ELSE 0
<1>1. PICK t : t = Take(s, k)
  OBVIOUS
<1>2. Len(t) = k /\ \A j \in 1..k : t[j] = s[j]
  BY ONLY s \in Seq(Byte), k \in 0..Len(s), <1>1, TakeIs
<1>3. k \in Nat /\ \A j \in 1..k : s[j] \in Byte
  <2>1. PICK n \in Nat : n = Len(s)
    BY LenProperties
  <2>2. k \in Nat /\ \A j \in 1..k : j \in 1..n
    BY ONLY n \in Nat, k \in 0..Len(s), <2>1
  <2> QED BY ONLY s \in Seq(Byte), <2>1, <2>2, ElementOfSeq
<1>4. \A j \in 1..4 : j <= k => j \in 1..k
  BY ONLY <1>3
<1>5. Padded(t, 4) = [i \in 1..4 |-> IF i <= k THEN s[i] ELSE 0]
  <2>1. \A i \in 1..4 : (IF i <= Len(t) THEN t[i] ELSE 0) = IF i <= k THEN s[i] ELSE 0
    BY ONLY <1>2, <1>4
  <2> QED BY ONLY <2>1 DEF Padded
<1>6. \A i \in 1..4 : (IF i <= k THEN s[i] ELSE 0) \in Byte
  BY ONLY <1>3, <1>4 DEF Byte
<1> DEFINE u == [i \in 1..4 |-> IF i <= k THEN s[i] ELSE 0]
<1>7. u \in Seq(Byte) /\ Len(u) = 4 /\ \A j \in 1..4 : u[j] = IF j <= k THEN s[j] ELSE 0
  BY ONLY <1>6
<1> HIDE DEF u
<1>8. Padded(Take(s, k), 4) = u
  BY ONLY <1>1, <1>5 DEF u
<1> QED BY ONLY <1>7, <1>8

-------------------------------------------------------------------------------
(* The reader in a frame.                                                    *)

\* The string x of a frame begins with its length, in two bytes.
LEMMA GoodLength ==
  ASSUME NEW p, Good(p), NEW x, x = Writer(p)
  PROVE  /\ x[1] = 0 /\ x[2] = 0 /\ x[3] \in Byte /\ x[4] \in Byte /\ x[5] \in Byte
         /\ x[6] = 0 /\ x[7] = 0
         /\ 256 * x[3] + x[4] = Len(x)
<1>1. /\ x \in Seq(Byte) /\ 16 <= Len(x) /\ IsLong(Len(x)) /\ IsWord(Len(x))
      /\ \A j \in 1..4 : x[j] = U32(Len(x))[j]
      /\ x[6] = 0 /\ x[7] = 0
  BY DEF Good, IsFrame
<1>2. PICK n : n = Len(x)
  OBVIOUS
<1>3. U32(n)[1] = 0 /\ U32(n)[2] = 0 /\ 256 * U32(n)[3] + U32(n)[4] = n
  BY ONLY <1>1, <1>2, U32Is
<1>4. \A j \in 1..7 : x[j] \in Byte
  <2>1. n \in Nat /\ 16 <= n
    BY ONLY <1>1, <1>2, LenProperties
  <2>2. \A j \in 1..7 : j \in 1..n
    BY ONLY <2>1
  <2> QED BY ONLY <1>1, <1>2, <2>2, ElementOfSeq
<1> QED BY ONLY <1>1, <1>2, <1>3, <1>4

\* The PDU that is read next.
Coming == sent[Len(received) + 1]

\* Its length has been read, or all of it but the last byte, which counts as zero.
Whole(x, w) == /\ head \in Seq(Byte) /\ Len(head) = 4 /\ \A j \in 1..4 : head[j] = x[j]
               /\ stream = Drop(w, 4)

ButOne(x, w) == /\ head \in Seq(Byte) /\ Len(head) = 4 /\ \A j \in 1..3 : head[j] = x[j]
                /\ head[4] = 0 /\ x[3] # 0 /\ stream = Drop(w, 3) /\ short

InFrame(w) == /\ w # <<>> /\ Framed(w, sent, Len(received))
              /\ Whole(Writer(Coming), w) \/ ButOne(Writer(Coming), w)

\* What is read is the front of what is sent.
Returned == /\ sent \in Seq(Frames) /\ received \in Seq(Frames) /\ Len(received) <= Len(sent)
            /\ \A i \in 1..Len(received) : received[i] = sent[i]

\* The rest of what is sent is on its way.
Inv == /\ Returned /\ phase \in {"length", "body", "closed"} /\ stream \in Seq(Byte)
       /\ phase = "length" => Framed(stream, sent, Len(received))
       /\ phase = "body" => \E w : InFrame(w)
       /\ phase = "closed" => short

\* A GENERIC_NACK was made up, of a length that was read short.
Lost == /\ Deceived /\ short /\ sent \in Seq(Frames)
        /\ \E S : received \in Seq(S)

\* The inductive invariant.
Kept == Inv \/ Lost

LEMMA InvInit == Init => Inv
<1> SUFFICES ASSUME Init PROVE Inv
  OBVIOUS
<1>1. /\ sent = <<>> /\ stream = <<>> /\ received = <<>> /\ phase = "length"
  BY DEF Init
<1>2. Returned
  BY ONLY <1>1 DEF Returned
<1>3. Framed(stream, sent, Len(received))
  <2>1. Len(received) = 0
    BY ONLY <1>1
  <2> QED BY ONLY <1>1, <2>1, FramedEmpty
<1>4. stream \in Seq(Byte)
  BY ONLY <1>1
<1> QED BY ONLY <1>1, <1>2, <1>3, <1>4 DEF Inv

LEMMA InvWrite ==
  ASSUME Inv, NEW p \in AllPdus, NEW text, Write(p, text)
  PROVE  Inv'
<1> DEFINE N == Len(sent)
           R == Len(received)
<1>1. sent \in Seq(Frames) /\ received \in Seq(Frames) /\ stream \in Seq(Byte)
  BY DEF Inv, Returned
<1>2. N \in Nat /\ R \in 0..N
  BY <1>1, LenProperties DEF Inv, Returned
<1>3. N + 1 \in 1..MaxSent
  BY ONLY <1>2, Write(p, text), WireAssumption DEF Write
<1>4. PICK f : f = Numbered(p, N + 1)
  OBVIOUS
<1>5. sent' = Append(sent, f) /\ stream' = stream \o Writer(f)
      /\ phase' = phase /\ head' = head /\ received' = received /\ short' = short
  <2>1. /\ sent' = Append(sent, SetLength([p EXCEPT !.seq = N + 1]))
        /\ stream' = stream \o Writer([p EXCEPT !.seq = N + 1])
        /\ phase' = phase /\ head' = head /\ received' = received /\ short' = short
    BY Zenon DEF Write, NewSeqNum
  <2>2. Writer(f) = Writer([p EXCEPT !.seq = N + 1])
    BY ONLY p \in AllPdus, <1>3, <1>4, SentGood
  <2>3. f = SetLength([p EXCEPT !.seq = N + 1])
    BY ONLY <1>4 DEF Numbered
  <2> QED BY ONLY <2>1, <2>2, <2>3
<1>6. f \in Frames
  <2>1. PICK pn : pn = <<p, N + 1>>
    OBVIOUS
  <2>2. pn \in AllPdus \X (1..MaxSent) /\ pn[1] = p /\ pn[2] = N + 1
    BY ONLY p \in AllPdus, <1>3, <2>1
  <2>3. f = Numbered(pn[1], pn[2])
    BY ONLY <1>4, <2>2
  <2> QED BY ONLY <2>2, <2>3 DEF Frames
<1>7. Writer(f) \in Seq(Byte)
  BY ONLY <1>6, FramesGood, GoodString
<1>8. stream' \in Seq(Byte)
  BY ONLY <1>1, <1>5, <1>7, ConcatProperties
<1>9. /\ sent' \in Seq(Frames) /\ Len(sent') = N + 1
      /\ \A i \in 1..N : sent'[i] = sent[i]
  BY ONLY <1>1, <1>5, <1>6, AppendProperties
<1>10. \A i \in 1..R : i \in 1..N
  BY ONLY <1>2
<1>11. Returned'
  <2>1. \A i \in 1..R : received[i] = sent[i]
    BY DEF Inv, Returned
  <2>2. R <= N + 1
    BY ONLY <1>2
  <2> QED BY ONLY <1>1, <1>5, <1>9, <1>10, <2>1, <2>2 DEF Returned
<1>12. ASSUME NEW s, Framed(s, sent, R) PROVE Framed(s \o Writer(f), sent', R)
  BY ONLY <1>1, <1>2, <1>5, <1>6, <1>12, FramedMore
<1>13. ASSUME phase' = "length" PROVE Framed(stream', sent', Len(received'))
  BY ONLY Inv, <1>5, <1>12, <1>13 DEF Inv
<1>14. ASSUME phase' = "body" PROVE (\E w : InFrame(w))'
  <2>1. PICK w : InFrame(w)
    BY ONLY Inv, <1>5, <1>14 DEF Inv
  <2>2. PICK v : v = w \o Writer(f)
    OBVIOUS
  <2>3. Framed(w, sent, R) /\ w # <<>>
    BY ONLY <2>1 DEF InFrame
  <2>4. Framed(v, sent', R) /\ w \in Seq(Byte)
    BY ONLY <1>12, <2>2, <2>3 DEF Framed
  <2>5. R + 1 \in 1..N /\ sent[R + 1] \in Frames /\ Stands(Writer(sent[R + 1]), w, 0)
    BY ONLY <1>1, <1>2, <2>3, FramedFront
  <2>6. Coming' = Coming
    BY ONLY <1>5, <1>9, <2>5 DEF Coming
  <2>7. PICK l \in Nat : l = Len(w) /\ 16 <= l
    <3>1. PICK n \in Nat, l \in Nat : n = Len(Writer(sent[R + 1])) /\ 16 <= n /\ l = Len(w)
      BY ONLY <2>4, <2>5, FramesGood, GoodString, LenProperties
    <3>2. 0 + n <= l
      BY ONLY <2>5, <3>1 DEF Stands
    <3>3. 16 <= l
      BY ONLY <3>1, <3>2
    <3> QED BY ONLY <3>1, <3>3
  <2>8. 3 \in 0..Len(w) /\ 4 \in 0..Len(w)
    BY ONLY <2>7
  <2>9. Drop(v, 3) = Drop(w, 3) \o Writer(f) /\ Drop(v, 4) = Drop(w, 4) \o Writer(f)
    BY ONLY <1>7, <2>2, <2>4, <2>8, DropBefore
  <2>10. v # <<>>
    <3>1. PICK x \in Seq(Byte), m \in Nat : x = Writer(f) /\ m = Len(x)
      BY ONLY <1>7, LenProperties
    <3>2. Len(v) = l + m
      BY ONLY <2>2, <2>4, <2>7, <3>1, ConcatProperties
    <3> QED BY ONLY <2>7, <3>2
  <2>11. Whole(Writer(Coming), w) => Whole(Writer(Coming), v)'
    BY ONLY <1>5, <2>6, <2>9 DEF Whole
  <2>12. ButOne(Writer(Coming), w) => ButOne(Writer(Coming), v)'
    BY ONLY <1>5, <2>6, <2>9 DEF ButOne
  <2>13. InFrame(v)'
    BY ONLY <1>5, <2>1, <2>4, <2>10, <2>11, <2>12 DEF InFrame
  <2> QED BY ONLY <2>13
<1>15. phase' = "closed" => short'
  BY ONLY Inv, <1>5 DEF Inv
<1>16. phase' \in {"length", "body", "closed"}
  BY ONLY Inv, <1>5 DEF Inv
<1> QED BY ONLY <1>8, <1>11, <1>13, <1>14, <1>15, <1>16 DEF Inv

\* The frame that is next, as the reader sees it in w.
Ahead(x, n, w, m) ==
  /\ w \in Seq(Byte) /\ m \in Nat /\ m = Len(w) /\ n <= m /\ \A j \in 1..n : w[j] = x[j]
  /\ x \in Seq(Byte) /\ x = Writer(Coming) /\ n \in Nat /\ n = Len(x)
  /\ 16 <= n /\ n <= MaxPdu + 4
  /\ Coming \in Frames /\ Len(received) + 1 \in 1..Len(sent)

LEMMA FrameAhead ==
  ASSUME Returned, NEW w, w # <<>>, Framed(w, sent, Len(received))
  PROVE  \E x, n, m : Ahead(x, n, w, m)
<1>1. sent \in Seq(Frames) /\ received \in Seq(Frames) /\ Len(received) \in 0..Len(sent)
  <2>1. sent \in Seq(Frames) /\ received \in Seq(Frames) /\ Len(received) <= Len(sent)
    BY DEF Returned
  <2>2. Len(received) \in Nat /\ Len(sent) \in Nat
    BY ONLY <2>1, LenProperties
  <2> QED BY ONLY <2>1, <2>2
<1>2. /\ Len(received) + 1 \in 1..Len(sent) /\ Coming \in Frames
      /\ Stands(Writer(Coming), w, 0)
  BY <1>1, FramedFront DEF Coming
<1>3. w \in Seq(Byte)
  BY DEF Framed
<1>4. PICK x \in Seq(Byte), n \in Nat :
        x = Writer(Coming) /\ n = Len(x) /\ 16 <= n /\ n <= MaxPdu + 4
  BY ONLY <1>2, FramesGood, GoodString
<1>5. PICK m \in Nat : m = Len(w)
  BY ONLY <1>3, LenProperties
<1>6. n <= m /\ \A j \in 1..n : w[j] = x[j]
  <2>1. 0 + n <= m /\ \A j \in 1..n : w[0 + j] = x[j]
    BY ONLY <1>2, <1>4, <1>5 DEF Stands
  <2>2. \A j \in 1..n : 0 + j = j
    OBVIOUS
  <2>3. \A j \in 1..n : w[j] = x[j]
    BY ONLY <2>1, <2>2
  <2> QED BY ONLY n \in Nat, m \in Nat, <2>1, <2>3
<1>7. Ahead(x, n, w, m)
  BY ONLY <1>2, <1>3, <1>4, <1>5, <1>6 DEF Ahead
<1> QED BY ONLY <1>7

\* The length, as it is read.
LEMMA LengthRead24 ==
  ASSUME NEW b, NEW c \in Byte, NEW d \in Byte, b[2] = 0, b[3] = c, b[4] = d
  PROVE  Low24(b, 1) = 256 * c + d
<1>1. Low24(b, 1) = (b[2] * 256 + b[3]) * 256 + b[4]
  BY DEF Low24
<1>2. (0 * 256 + c) * 256 + d = 256 * c + d
  BY ONLY c \in Byte, d \in Byte, SMT DEF Byte
<1> QED BY ONLY b[2] = 0, b[3] = c, b[4] = d, <1>1, <1>2

LEMMA InvClosed ==
  ASSUME Returned', phase' = "closed", short', stream' \in Seq(Byte)
  PROVE  Inv'
BY DEF Inv

LEMMA InvLength ==
  ASSUME Inv, ReadLength
  PROVE  Inv'
<1>1. PICK k \in Chunks(4) :
        /\ head' = Padded(Take(stream, k), 4) /\ stream' = Drop(stream, k)
        /\ short' = (short \/ k < 4)
  BY DEF ReadLength
<1>2. phase = "length" /\ sent' = sent /\ received' = received
  BY DEF ReadLength
<1>3. phase' = IF head'[1] = 0 /\ Low24(head', 1) \in 5..(MaxPdu + 4) THEN "body" ELSE "closed"
  BY DEF ReadLength
<1>4. PICK w : w = stream
  OBVIOUS
<1>5. Returned /\ Framed(w, sent, Len(received)) /\ w \in Seq(Byte)
  BY ONLY Inv, <1>2, <1>4 DEF Inv
<1>6. k \in 1..4 /\ k \in 0..Len(w) /\ Len(w) # 0
  <2>1. Len(w) \in Nat
    BY ONLY <1>5, LenProperties
  <2>2. k \in 1..(IF 4 < Len(w) THEN 4 ELSE Len(w))
    BY ONLY k \in Chunks(4), <1>4 DEF Chunks
  <2> QED BY ONLY <2>1, <2>2
<1>7. w # <<>>
  BY ONLY <1>6
<1>8. PICK x, n, m : Ahead(x, n, w, m)
  BY ONLY <1>5, <1>7, FrameAhead
<1>9. x = Writer(Coming) /\ Coming \in Frames /\ n \in Nat /\ 16 <= n /\ n <= MaxPdu + 4
      /\ n = Len(x) /\ \A j \in 1..n : w[j] = x[j]
  BY ONLY <1>8 DEF Ahead
<1>10. x[1] = 0 /\ x[2] = 0 /\ x[3] \in Byte /\ x[4] \in Byte /\ 256 * x[3] + x[4] = n
  BY ONLY <1>9, FramesGood, GoodLength
<1>11. /\ head' \in Seq(Byte) /\ Len(head') = 4
       /\ \A j \in 1..4 : head'[j] = IF j <= k THEN x[j] ELSE 0
  <2>1. k <= 4
    BY ONLY <1>6
  <2>2. /\ head' \in Seq(Byte) /\ Len(head') = 4
        /\ \A j \in 1..4 : head'[j] = IF j <= k THEN w[j] ELSE 0
    BY ONLY <1>1, <1>4, <1>5, <1>6, <2>1, PaddedIs
  <2>3. \A j \in 1..4 : j \in 1..n
    BY ONLY <1>9
  <2> QED BY ONLY <1>9, <2>2, <2>3
<1>12. stream' \in Seq(Byte)
  BY ONLY <1>1, <1>4, <1>5, <1>6, DropIs
<1>13. Returned' /\ Coming' = Coming
  BY ONLY <1>2, <1>5 DEF Returned, Coming
<1>s. ASSUME k < 4 PROVE short'
  BY ONLY <1>1, <1>s, Zenon
<1>14. ASSUME phase' = "body", Whole(x, w)' \/ ButOne(x, w)' PROVE Inv'
  <2>1. InFrame(w)'
    BY ONLY <1>2, <1>5, <1>7, <1>9, <1>13, <1>14 DEF InFrame
  <2>2. (\E v : InFrame(v))'
    BY ONLY <2>1
  <2> QED BY ONLY <1>12, <1>13, <1>14, <2>2 DEF Inv
<1>15. CASE k = 4
  <2>1. \A j \in 1..4 : head'[j] = x[j]
    BY ONLY <1>11, <1>15
  <2>2. head'[1] = 0 /\ head'[2] = 0 /\ head'[3] = x[3] /\ head'[4] = x[4]
    BY ONLY <1>10, <2>1
  <2>3. Low24(head', 1) = n
    BY ONLY <1>10, <2>2, LengthRead24
  <2>4. phase' = "body"
    <3>1. MaxPdu \in Nat
      BY WireAssumption
    <3>2. n \in 5..(MaxPdu + 4)
      BY ONLY <1>9, <3>1
    <3> QED BY ONLY <1>3, <2>2, <2>3, <3>2
  <2>5. Whole(x, w)'
    BY ONLY <1>1, <1>4, <1>11, <1>15, <2>1 DEF Whole
  <2> QED BY ONLY <1>14, <2>4, <2>5
<1>16. CASE k = 3
  <2>0. k < 4
    BY ONLY <1>16
  <2>a. short'
    BY ONLY <1>s, <2>0
  <2>b. (\A j \in 1..3 : head'[j] = x[j]) /\ head'[4] = 0
    BY ONLY <1>11, <1>16
  <2>1. (\A j \in 1..3 : head'[j] = x[j]) /\ head'[4] = 0 /\ short'
    BY ONLY <2>a, <2>b
  <2>2. head'[2] = 0 /\ head'[3] = x[3] /\ 0 \in Byte
    BY ONLY <1>10, <2>1 DEF Byte
  <2>3. Low24(head', 1) = 256 * x[3] + 0
    BY ONLY <1>10, <2>1, <2>2, LengthRead24
  <2>4. CASE phase' = "body"
    <3>1. Low24(head', 1) \in 5..(MaxPdu + 4)
      BY ONLY <1>3, <2>4
    <3>2. x[3] # 0
      BY ONLY <2>3, <3>1
    <3>3. ButOne(x, w)'
      BY ONLY <1>1, <1>4, <1>11, <1>16, <2>1, <3>2 DEF ButOne
    <3> QED BY ONLY <1>14, <2>4, <3>3
  <2>5. CASE phase' = "closed"
    BY ONLY <1>12, <1>13, <2>1, <2>5, InvClosed
  <2> QED BY ONLY <1>3, <2>4, <2>5
<1>17. CASE k < 3
  <2>1. head'[2] = 0 /\ head'[3] = 0 /\ head'[4] = 0 /\ 0 \in Byte
    BY ONLY <1>6, <1>10, <1>11, <1>17 DEF Byte
  <2>2. Low24(head', 1) = 256 * 0 + 0
    BY ONLY <2>1, LengthRead24
  <2>3. phase' = "closed"
    BY ONLY <1>3, <2>2
  <2>4. short'
    <3>1. k < 4
      BY ONLY <1>6, <1>17
    <3> QED BY ONLY <1>s, <3>1
  <2> QED BY ONLY <1>12, <1>13, <2>3, <2>4, InvClosed
<1> QED BY ONLY <1>6, <1>15, <1>16, <1>17

\* What is read with a length of 256 times x[3] is no PDU, or a GENERIC_NACK: the
\* number of the command stands one byte further and ends in a zero, as only that of
\* GENERIC_NACK does, which begins with 128.
LEMMA NotOne ==
  ASSUME NEW p, Good(p), NEW x, x = Writer(p), x[3] # 0, NEW b \in Seq(Byte), 8 <= Len(b),
         b[5] = x[4], b[6] = x[5], b[7] = x[6], b[8] = x[7], ParsePdu(b) # NoPdu
  PROVE  ParsePdu(b).id = "GENERIC_NACK" /\ Len(x) > 255 /\ Len(x) % 256 = 128
<1>1. /\ x[3] \in Byte /\ x[4] \in Byte /\ x[6] = 0 /\ x[7] = 0
      /\ 256 * x[3] + x[4] = Len(x)
  BY GoodLength
<1>2. Ids(b) = {id \in DOMAIN Cmd : /\ b[5] = Cmd[id][1] /\ b[6] = 0
                                   /\ b[7] = 0 /\ b[8] = Cmd[id][2]}
  BY IdsAre
<1>3. ASSUME NEW id \in Ids(b) PROVE id = "GENERIC_NACK" /\ x[4] = 128
  <2>1. id \in DOMAIN Cmd /\ Cmd[id][2] = 0 /\ Cmd[id][1] = x[4]
    BY ONLY id \in Ids(b), b[5] = x[4], b[8] = x[7], <1>1, <1>2
  <2> QED BY ONLY <2>1, Commands
<1>4. Ids(b) # {}
  BY ONLY ParsePdu(b) # NoPdu, Zenon DEF ParsePdu
<1>5. (CHOOSE id \in Ids(b) : TRUE) \in Ids(b)
  BY ONLY <1>4
<1>6. ParsePdu(b).id = CHOOSE id \in Ids(b) : TRUE
  <2>1. PICK q, i, s, n, f, t :
          /\ q = ParsePdu(b) /\ i = CHOOSE id \in Ids(b) : TRUE
          /\ q = [id |-> i, status |-> s, seq |-> n, fields |-> f, tlvs |-> t]
    BY ONLY ParsePdu(b) # NoPdu, Zenon DEF ParsePdu
  <2> QED BY ONLY <2>1
<1>7. x[4] = 128
  BY ONLY <1>3, <1>4
<1>8. Len(x) > 255 /\ Len(x) % 256 = 128
  <2>1. ASSUME NEW c \in Byte, NEW d \in Byte, NEW n, c # 0, d = 128, n = 256 * c + d
        PROVE  n > 255 /\ n % 256 = 128
    BY ONLY c \in Byte, d \in Byte, <2>1, SMT DEF Byte
  <2> QED BY ONLY x[3] # 0, <1>1, <1>7, <2>1
<1> QED BY ONLY <1>3, <1>5, <1>6, <1>8

\* A PDU behind the others that was not sent.
LEMMA Phantom ==
  ASSUME Returned, short', sent' = sent, Coming \in Frames,
         Len(received) + 1 \in 1..Len(sent), NEW p, received' = Append(received, p),
         p.id = "GENERIC_NACK", Len(Writer(Coming)) > 255, Len(Writer(Coming)) % 256 = 128
  PROVE  Lost'
<1>1. /\ sent \in Seq(Frames) /\ received \in Seq(Frames)
      /\ \A i \in 1..Len(received) : received[i] = sent[i]
  BY DEF Returned
<1>2. PICK r \in Nat, n \in Nat : r = Len(received) /\ n = Len(sent) /\ r + 1 \in 1..n
                               /\ DOMAIN sent = 1..n
  BY ONLY <1>1, Len(received) + 1 \in 1..Len(sent), LenProperties
<1>3. received \in Seq(Frames \cup {p})
  <2>1. DOMAIN received = 1..r /\ \A i \in 1..r : received[i] \in Frames
    BY ONLY <1>1, <1>2, LenProperties, ElementOfSeq
  <2>2. received = [i \in 1..r |-> received[i]]
    BY ONLY <1>1, <2>1
  <2>3. received \in [1..r -> Frames \cup {p}]
    BY ONLY <2>1, <2>2
  <2> QED BY ONLY r \in Nat, <2>3, SeqDef
<1>4. PICK q : q = Append(received, p)
  OBVIOUS
<1>5. /\ q \in Seq(Frames \cup {p}) /\ Len(q) = r + 1 /\ q[r + 1] = p
      /\ \A i \in 1..r : q[i] = received[i]
  BY ONLY p \in Frames \cup {p}, <1>2, <1>3, <1>4, AppendProperties
<1>6. DOMAIN q = 1..(r + 1)
  BY ONLY <1>5, LenProperties
<1>7. r + 1 \in DOMAIN q /\ (r + 1) - 1 = r
  BY ONLY r \in Nat, <1>6
<1>8. received' = q /\ Coming = sent[r + 1]
  BY ONLY received' = Append(received, p), <1>2, <1>4 DEF Coming
<1>9. \A j \in 1..r : q[j] = sent[j]
  BY ONLY <1>1, <1>2, <1>5
<1>10. PhantomAt(r + 1)'
  BY ONLY sent' = sent, p.id = "GENERIC_NACK", Len(Writer(Coming)) > 255,
          Len(Writer(Coming)) % 256 = 128, <1>2, <1>5, <1>7, <1>8, <1>9 DEF PhantomAt
<1>11. Deceived'
  BY ONLY <1>7, <1>8, <1>10 DEF Deceived
<1> QED BY ONLY short', sent' = sent, <1>1, <1>5, <1>8, <1>11 DEF Lost

LEMMA InvBody ==
  ASSUME Inv, ReadBody
  PROVE  Kept'
<1>0. PICK k \in Chunks(Size - 4) :
        /\ short' = (short \/ k < Size - 4) /\ stream' = Drop(stream, k)
        /\ IF k = Size - 4 /\ ParsePdu(head \o Take(stream, k)) # NoPdu
           THEN /\ phase' = "length"
                /\ received' = Append(received, ParsePdu(head \o Take(stream, k)))
           ELSE phase' = "closed" /\ received' = received
  BY DEF ReadBody
<1>p. PICK p : p = ParsePdu(head \o Take(stream, k))
  OBVIOUS
<1>1. /\ p = ParsePdu(head \o Take(stream, k))
      /\ short' = (short \/ k < Size - 4) /\ stream' = Drop(stream, k)
      /\ IF k = Size - 4 /\ p # NoPdu
         THEN phase' = "length" /\ received' = Append(received, p)
         ELSE phase' = "closed" /\ received' = received
  BY ONLY <1>0, <1>p
<1>2. phase = "body" /\ sent' = sent /\ head' = head
  BY DEF ReadBody
<1>3. PICK w : InFrame(w)
  BY ONLY Inv, <1>2 DEF Inv
<1>4. Returned /\ stream \in Seq(Byte) /\ w # <<>> /\ Framed(w, sent, Len(received))
  BY ONLY Inv, <1>3 DEF Inv, InFrame
<1>5. PICK x, n, m : Ahead(x, n, w, m)
  BY ONLY <1>4, FrameAhead
<1>6. /\ x = Writer(Coming) /\ Coming \in Frames /\ n \in Nat /\ 16 <= n /\ n <= m /\ m \in Nat
      /\ x \in Seq(Byte) /\ w \in Seq(Byte) /\ m = Len(w) /\ n = Len(x)
      /\ \A j \in 1..n : w[j] = x[j]
  BY ONLY <1>5 DEF Ahead
<1>7. /\ x[1] = 0 /\ x[2] = 0 /\ x[3] \in Byte /\ x[4] \in Byte
      /\ 256 * x[3] + x[4] = n
  BY ONLY <1>6, FramesGood, GoodLength
<1>8. Whole(x, w) \/ ButOne(x, w)
  BY ONLY <1>3, <1>6 DEF InFrame
<1>9. head \in Seq(Byte) /\ Len(head) = 4
  BY ONLY <1>8 DEF Whole, ButOne
<1>10. k \in 1..Len(stream) /\ k \in 0..Len(stream) /\ (Size - 4 \in Nat => k <= Size - 4)
  <2>1. Len(stream) \in Nat
    BY ONLY <1>4, LenProperties
  <2>2. Size \in Int
    <3>1. \A j \in 1..4 : head[j] \in Byte
      BY ONLY <1>9, ElementOfSeq
    <3>2. Size = (head[2] * 256 + head[3]) * 256 + head[4]
      BY DEF Size, Low24
    <3>3. head[2] \in Int /\ head[3] \in Int /\ head[4] \in Int
      BY ONLY <3>1, SMT DEF Byte
    <3> QED BY ONLY <3>2, <3>3, SMT
  <2>3. k \in 1..(IF Size - 4 < Len(stream) THEN Size - 4 ELSE Len(stream))
    BY ONLY k \in Chunks(Size - 4) DEF Chunks
  <2> QED BY ONLY <2>1, <2>2, <2>3
<1>11. stream' \in Seq(Byte)
  BY ONLY <1>1, <1>4, <1>10, DropIs
<1>12. PICK t \in Seq(Byte) : t = Take(stream, k)
  BY ONLY <1>4, <1>10, TakeIs
<1>13. Len(t) = k /\ \A j \in 1..k : t[j] = stream[j]
  BY ONLY <1>4, <1>10, <1>12, TakeIs
<1>14. PICK b \in Seq(Byte) : b = head \o t
  BY ONLY <1>9, t \in Seq(Byte), ConcatProperties, Zenon
<1>15. /\ Len(b) = 4 + k /\ (\A j \in 1..4 : b[j] = head[j])
       /\ \A j \in 1..k : b[4 + j] = stream[j]
  <2>1. IsJoin(head \o t, head, Len(head), t, Len(t))
    BY ONLY <1>9, t \in Seq(Byte), JoinIs
  <2>2. IsJoin(b, head, 4, t, k)
    BY ONLY <1>9, <1>13, <1>14, <2>1
  <2> QED BY ONLY <1>13, <2>2 DEF IsJoin
<1>16. p = ParsePdu(b)
  BY ONLY <1>1, <1>12, <1>14
<1>17. ASSUME phase' = "closed", received' = received, short' PROVE Kept'
  <2>1. Returned'
    BY ONLY <1>2, <1>4, <1>17 DEF Returned
  <2> QED BY ONLY <1>11, <1>17, <2>1, InvClosed DEF Kept
<1>18. ASSUME phase' = "length", received' = Append(received, Coming),
              stream' = Drop(w, n)
       PROVE  Kept'
  <2>1. /\ sent \in Seq(Frames) /\ received \in Seq(Frames) /\ Len(received) <= Len(sent)
        /\ \A i \in 1..Len(received) : received[i] = sent[i]
    BY ONLY <1>4 DEF Returned
  <2>2. Len(received) \in Nat /\ Len(sent) \in Nat
    BY ONLY <2>1, LenProperties
  <2>a. PICK q : q = Append(received, Coming)
    OBVIOUS
  <2>b. PICK r \in Nat : r = Len(received)
    BY ONLY <2>2
  <2>3. q = Append(received, Coming) /\ r = Len(received)
    BY ONLY <2>a, <2>b
  <2>4. q \in Seq(Frames) /\ Len(q) = r + 1 /\ q[r + 1] = sent[r + 1]
        /\ \A i \in 1..r : q[i] = received[i]
    BY ONLY <1>6, <2>1, <2>3, AppendProperties DEF Coming
  <2>5. Len(received) + 1 \in 1..Len(sent)
    BY ONLY <1>5 DEF Ahead
  <2>6. \A i \in 1..(r + 1) : q[i] = sent[i]
    BY ONLY <2>1, <2>3, <2>4
  <2>7. r + 1 <= Len(sent) /\ r \in 0..Len(sent)
    BY ONLY <2>2, <2>3, <2>5
  <2>8. Returned'
    BY ONLY <1>2, <1>18, <2>1, <2>3, <2>4, <2>6, <2>7 DEF Returned
  <2>9. Framed(Drop(w, n), sent, r + 1)
    <3>1. Framed(w, sent, r) /\ n = Len(Writer(sent[r + 1]))
      BY ONLY <1>4, <1>6, <2>3 DEF Coming
    <3> QED BY ONLY <1>4, <2>1, <2>7, <3>1, FramedNext
  <2> QED BY ONLY <1>2, <1>11, <1>18, <2>3, <2>4, <2>8, <2>9 DEF Inv, Kept
<1>19. CASE Whole(x, w)
  <2>1. (\A j \in 1..4 : head[j] = x[j]) /\ stream = Drop(w, 4)
    BY ONLY <1>19 DEF Whole
  <2>2. Size = n
    <3>1. head[2] = 0 /\ head[3] = x[3] /\ head[4] = x[4]
      BY ONLY <1>7, <2>1
    <3>2. Low24(head, 1) = 256 * x[3] + x[4]
      BY ONLY <1>7, <3>1, LengthRead24
    <3> QED BY ONLY <1>7, <3>2 DEF Size
  <2>3. n - 4 \in Nat /\ k \in Nat /\ k <= n - 4 /\ 4 \in 0..m
    BY ONLY <1>6, <1>10, <2>2
  <2>4. CASE k = n - 4
    <3>1. Len(b) = n /\ \A j \in 1..n : b[j] = x[j]
      <4>1. Len(b) = n
        BY ONLY <1>6, <1>15, <2>4
      <4>2. \A j \in 1..k : stream[j] = w[4 + j]
        <5>0. w \in Seq(Byte) /\ m = Len(w) /\ 4 \in 0..Len(w)
          BY ONLY <1>6, <2>3
        <5>1. \A j \in 1..(m - 4) : Drop(w, 4)[j] = w[4 + j]
          BY ONLY <5>0, DropIs
        <5>2. \A j \in 1..k : j \in 1..(m - 4)
          BY ONLY <1>6, <2>4
        <5> QED BY ONLY <2>1, <5>1, <5>2
      <4>3. ASSUME NEW j \in 1..n PROVE b[j] = x[j]
        <5>1. CASE j \in 1..4
          BY ONLY <1>15, <2>1, <5>1
        <5>2. CASE j \notin 1..4
          <6>1. j - 4 \in 1..k /\ 4 + (j - 4) = j
            BY ONLY <1>6, j \in 1..n, <2>4, <5>2
          <6> QED BY ONLY j \in 1..n, <1>6, <1>15, <4>2, <6>1
        <5> QED BY ONLY <5>1, <5>2
      <4> QED BY ONLY <4>1, <4>3
    <3>2. b = x
      BY ONLY b \in Seq(Byte), <1>6, <3>1, SeqEqual
    <3>3. p = Coming /\ p # NoPdu
      BY ONLY <1>6, <1>16, <3>2, FramesGood DEF Good, IsFrame
    <3>4. phase' = "length" /\ received' = Append(received, Coming)
      BY ONLY <1>1, <2>2, <2>4, <3>3
    <3>5. stream' = Drop(w, n)
      <4>1. 4 \in Nat /\ k \in Nat /\ 4 + k = n /\ 4 + k <= Len(w)
        BY ONLY <1>6, <2>3, <2>4
      <4>2. Drop(Drop(w, 4), k) = Drop(w, 4 + k)
        BY ONLY <1>6, <4>1, DropDrop
      <4> QED BY ONLY <1>1, <2>1, <4>1, <4>2
    <3> QED BY ONLY <1>18, <3>4, <3>5
  <2>5. CASE k < n - 4
    <3>1. phase' = "closed" /\ received' = received
      BY ONLY <1>1, <2>2, <2>3, <2>5
    <3>2. short'
      BY ONLY <1>1, <2>2, <2>5, Zenon
    <3> QED BY ONLY <1>17, <3>1, <3>2
  <2> QED BY ONLY <2>3, <2>4, <2>5
<1>20. CASE ButOne(x, w)
  <2>1. /\ (\A j \in 1..3 : head[j] = x[j]) /\ head[4] = 0 /\ x[3] # 0
        /\ stream = Drop(w, 3) /\ short
    BY ONLY <1>20 DEF ButOne
  <2>2. short'
    BY ONLY <1>1, <2>1, Zenon
  <2>3. Size = 256 * x[3] + 0
    <3>1. head[2] = 0 /\ head[3] = x[3] /\ 0 \in Byte
      BY ONLY <1>7, <2>1 DEF Byte
    <3> QED BY ONLY <1>7, <2>1, <3>1, LengthRead24 DEF Size
  <2>4. ASSUME k = Size - 4, p # NoPdu PROVE Kept'
    <3>1. 4 <= k /\ 3 \in 0..m /\ 8 <= 4 + k
      <4>1. PICK c \in Byte : c = x[3] /\ c # 0 /\ k = (256 * c + 0) - 4
        BY ONLY <1>7, <2>1, <2>3, <2>4
      <4>2. 4 <= (256 * c + 0) - 4 /\ 8 <= 4 + ((256 * c + 0) - 4)
        <5>1. ASSUME NEW d \in Byte, d # 0
              PROVE  4 <= (256 * d + 0) - 4 /\ 8 <= 4 + ((256 * d + 0) - 4)
          BY ONLY d \in Byte, <5>1, SMT DEF Byte
        <5> QED BY ONLY c \in Byte, <4>1, <5>1
      <4>3. 3 \in 0..m
        BY ONLY <1>6
      <4> QED BY ONLY <4>1, <4>2, <4>3
    <3>2. \A j \in 1..4 : b[4 + j] = x[3 + j]
      <4>1. \A j \in 1..(m - 3) : Drop(w, 3)[j] = w[3 + j]
        <5>1. w \in Seq(Byte) /\ m = Len(w) /\ 3 \in 0..Len(w)
          BY ONLY <1>6, <3>1
        <5> QED BY ONLY <5>1, DropIs
      <4>2. \A j \in 1..4 : j \in 1..k /\ j \in 1..(m - 3) /\ 3 + j \in 1..n
        <5>1. k \in Nat
          BY ONLY <1>4, <1>10, LenProperties
        <5> QED BY ONLY <1>6, <3>1, <5>1
      <4> QED BY ONLY <1>6, <1>15, <2>1, <4>1, <4>2
    <3>3. b[5] = x[4] /\ b[6] = x[5] /\ b[7] = x[6] /\ b[8] = x[7]
      BY ONLY <3>2
    <3>4. 8 <= Len(b)
      BY ONLY <1>15, <3>1
    <3>5. Good(Coming)
      BY ONLY <1>6, FramesGood
    <3>6. x = Writer(Coming) /\ x[3] # 0
      BY ONLY <1>6, <2>1
    <3>7. p.id = "GENERIC_NACK" /\ Len(x) > 255 /\ Len(x) % 256 = 128
      <4>1. ParsePdu(b) # NoPdu
        BY ONLY <1>16, <2>4
      <4>2. ParsePdu(b).id = "GENERIC_NACK" /\ Len(x) > 255 /\ Len(x) % 256 = 128
        BY ONLY b \in Seq(Byte), <3>3, <3>4, <3>5, <3>6, <4>1, NotOne
      <4> QED BY ONLY <1>16, <4>2
    <3>8. received' = Append(received, p)
      BY ONLY <1>1, <2>4
    <3>9. Len(received) + 1 \in 1..Len(sent)
      BY ONLY <1>5 DEF Ahead
    <3>10. Lost'
      BY ONLY <1>2, <1>4, <1>6, <2>2, <3>7, <3>8, <3>9, Phantom
    <3> QED BY ONLY <3>10 DEF Kept
  <2>5. ASSUME ~ (k = Size - 4 /\ p # NoPdu) PROVE Kept'
    <3>1. phase' = "closed" /\ received' = received
      BY ONLY <1>1, <2>5
    <3> QED BY ONLY <1>17, <2>2, <3>1
  <2> QED BY ONLY <2>4, <2>5
<1> QED BY ONLY <1>8, <1>19, <1>20

LEMMA InvStutters ==
  ASSUME Inv, UNCHANGED vars
  PROVE  Inv'
<1>1. /\ sent' = sent /\ stream' = stream /\ phase' = phase /\ head' = head
      /\ received' = received /\ short' = short
  BY DEF vars
<1>2. Returned'
  BY ONLY Inv, <1>1 DEF Inv, Returned
<1>3. phase' = "length" => Framed(stream', sent', Len(received'))
  BY ONLY Inv, <1>1 DEF Inv
<1>4. ASSUME phase' = "body" PROVE (\E w : InFrame(w))'
  <2>1. PICK w : InFrame(w)
    BY ONLY Inv, <1>1, <1>4 DEF Inv
  <2>2. InFrame(w)'
    BY ONLY <1>1, <2>1 DEF InFrame, Whole, ButOne, Coming
  <2> QED BY ONLY <2>2
<1>5. phase' \in {"length", "body", "closed"} /\ (phase' = "closed" => short')
  BY ONLY Inv, <1>1 DEF Inv
<1>6. stream' \in Seq(Byte)
  BY ONLY Inv, <1>1 DEF Inv
<1> QED BY ONLY <1>2, <1>3, <1>4, <1>5, <1>6 DEF Inv

\* Nothing undoes a GENERIC_NACK that was made up.
LEMMA LostKept ==
  ASSUME Lost, [Next]_vars
  PROVE  Lost'
<1>1. sent \in Seq(Frames) /\ short /\ Deceived
  BY DEF Lost
<1>2. PICK S : received \in Seq(S)
  BY DEF Lost
<1>3. PICK i \in DOMAIN received : PhantomAt(i)
  BY ONLY <1>1 DEF Deceived
<1>4. PICK r \in Nat, n \in Nat : /\ r = Len(received) /\ DOMAIN received = 1..r
                               /\ n = Len(sent) /\ DOMAIN sent = 1..n
  BY ONLY <1>1, <1>2, LenProperties
<1>5. /\ i \in 1..n /\ i \in 1..r /\ received[i].id = "GENERIC_NACK"
      /\ Len(Writer(sent[i])) > 255 /\ Len(Writer(sent[i])) % 256 = 128
      /\ \A j \in 1..(i - 1) : received[j] = sent[j] /\ j \in 1..n /\ j \in 1..r
  <2>1. \A j \in 1..(i - 1) : j \in 1..n /\ j \in 1..r
    BY ONLY <1>3, <1>4 DEF PhantomAt
  <2> QED BY ONLY <1>3, <1>4, <2>1 DEF PhantomAt
<1>6. ASSUME sent' \in Seq(Frames), \A j \in 1..n : j \in DOMAIN sent' /\ sent'[j] = sent[j],
             \E T : received' \in Seq(T), short',
             \A j \in 1..r : j \in DOMAIN received' /\ received'[j] = received[j]
      PROVE  Lost'
  <2>1. PhantomAt(i)'
    BY ONLY <1>5, <1>6 DEF PhantomAt
  <2>2. Deceived'
    BY ONLY <1>5, <1>6, <2>1 DEF Deceived
  <2> QED BY ONLY <1>6, <2>2 DEF Lost
<1>7. ASSUME NEW p \in AllPdus, NEW t, Write(p, t) PROVE Lost'
  <2>1. n < MaxSent /\ short' = short /\ received' = received
    BY ONLY Write(p, t), <1>4 DEF Write
  <2>2. PICK f : f = Numbered(p, n + 1)
    OBVIOUS
  <2>3. sent' = Append(sent, f)
    BY ONLY Write(p, t), <1>4, <2>2, Zenon DEF Write, NewSeqNum, Numbered
  <2>4. f \in Frames
    <3>1. n + 1 \in 1..MaxSent
      BY ONLY n \in Nat, <2>1, WireAssumption
    <3>2. PICK m \in 1..MaxSent : m = n + 1
      BY ONLY <3>1
    <3>3. PICK pn \in AllPdus \X (1..MaxSent) : pn = <<p, m>>
      BY ONLY p \in AllPdus, m \in 1..MaxSent
    <3>4. f = Numbered(pn[1], pn[2])
      BY ONLY <2>2, <3>2, <3>3
    <3> QED BY ONLY <3>4 DEF Frames
  <2>5. /\ Append(sent, f) \in Seq(Frames) /\ Len(Append(sent, f)) = n + 1
        /\ \A j \in 1..n : Append(sent, f)[j] = sent[j]
    BY ONLY <1>1, <1>4, <2>4, AppendProperties
  <2>6. sent' \in Seq(Frames) /\ DOMAIN sent' = 1..(n + 1)
    BY ONLY n \in Nat, <2>3, <2>5, LenProperties
  <2>7. \A j \in 1..n : j \in DOMAIN sent' /\ sent'[j] = sent[j]
    BY ONLY n \in Nat, <2>3, <2>5, <2>6
  <2> QED BY ONLY <1>1, <1>2, <1>4, <1>6, <2>1, <2>6, <2>7
<1>8. ASSUME sent' = sent, received' = received, short' PROVE Lost'
  BY ONLY <1>1, <1>2, <1>4, <1>6, <1>8
<1>9. ASSUME NEW p, sent' = sent, received' = Append(received, p), short' PROVE Lost'
  <2>1. received \in Seq(S \cup {p})
    <3>1. \A j \in 1..r : received[j] \in S
      BY ONLY <1>2, <1>4, ElementOfSeq
    <3>2. received = [j \in 1..r |-> received[j]]
      BY ONLY <1>2, <1>4
    <3>3. received \in [1..r -> S \cup {p}]
      BY ONLY <3>1, <3>2
    <3> QED BY ONLY r \in Nat, <3>3, SeqDef
  <2>2. PICK q : q = Append(received, p)
    OBVIOUS
  <2>3. q \in Seq(S \cup {p}) /\ Len(q) = r + 1 /\ \A j \in 1..r : q[j] = received[j]
    BY ONLY p \in S \cup {p}, <1>4, <2>1, <2>2, AppendProperties
  <2>4. DOMAIN q = 1..(r + 1) /\ \A j \in 1..r : j \in 1..(r + 1)
    BY ONLY r \in Nat, <2>3, LenProperties
  <2>5. received' = q
    BY ONLY <1>9, <2>2
  <2> QED BY ONLY <1>1, <1>4, <1>6, <1>9, <2>3, <2>4, <2>5
<1>10. CASE \E p \in Pdus : Write(p, <<>>)
  <2>1. PICK p \in Pdus : Write(p, <<>>)
    BY <1>10
  <2>2. p \in AllPdus
    BY DEF AllPdus
  <2> QED BY ONLY <1>7, <2>1, <2>2
<1>11. CASE \E t \in Texts : Write(Forwarded(Submitted(<<49>>, <<50>>, t)), t)
  <2>1. PICK t \in Texts : Write(Forwarded(Submitted(<<49>>, <<50>>, t)), t)
    BY <1>11
  <2>2. Forwarded(Submitted(<<49>>, <<50>>, t)) \in AllPdus
    BY ONLY t \in Texts, Zenon DEF AllPdus
  <2> QED BY ONLY <1>7, <2>1, <2>2
<1>12. CASE ReadLength
  <2>1. sent' = sent /\ received' = received /\ \E k : short' = (short \/ k < 4)
    BY ONLY <1>12, Zenon DEF ReadLength
  <2>2. short'
    BY ONLY <1>1, <2>1, Zenon
  <2> QED BY ONLY <1>8, <2>1, <2>2
<1>13. CASE ReadBody
  <2>1. sent' = sent /\ \E k : short' = (short \/ k < Size - 4)
    BY ONLY <1>13, Zenon DEF ReadBody
  <2>2. received' = received \/ \E p : received' = Append(received, p)
    BY ONLY <1>13, Zenon DEF ReadBody
  <2>3. short'
    BY ONLY <1>1, <2>1, Zenon
  <2> QED BY ONLY <1>8, <1>9, <2>1, <2>2, <2>3
<1>14. CASE UNCHANGED vars
  BY ONLY <1>1, <1>8, <1>14 DEF vars
<1> QED BY ONLY [Next]_vars, <1>10, <1>11, <1>12, <1>13, <1>14 DEF Next

LEMMA InvKept == Kept /\ [Next]_vars => Kept'
<1> SUFFICES ASSUME Kept, [Next]_vars PROVE Kept'
  OBVIOUS
<1>0. CASE Lost
  BY ONLY [Next]_vars, <1>0, LostKept DEF Kept
<1> SUFFICES ASSUME Inv PROVE Kept'
  BY <1>0 DEF Kept
<1>1. CASE \E p \in Pdus : Write(p, <<>>)
  <2>1. PICK p \in Pdus : Write(p, <<>>)
    BY <1>1
  <2>2. p \in AllPdus
    BY DEF AllPdus
  <2> QED BY ONLY Inv, <2>1, <2>2, InvWrite DEF Kept
<1>2. CASE \E t \in Texts : Write(Forwarded(Submitted(<<49>>, <<50>>, t)), t)
  <2>1. PICK t \in Texts : Write(Forwarded(Submitted(<<49>>, <<50>>, t)), t)
    BY <1>2
  <2>2. PICK p : p = Forwarded(Submitted(<<49>>, <<50>>, t))
    OBVIOUS
  <2>3. p \in AllPdus
    BY ONLY t \in Texts, <2>2, Zenon DEF AllPdus
  <2>4. Write(p, t)
    BY ONLY <2>1, <2>2
  <2> QED BY ONLY Inv, <2>3, <2>4, InvWrite DEF Kept
<1>3. CASE ReadLength
  BY ONLY Inv, <1>3, InvLength DEF Kept
<1>4. CASE ReadBody
  BY ONLY Inv, <1>4, InvBody
<1>5. CASE UNCHANGED vars
  BY ONLY Inv, <1>5, InvStutters DEF Kept
<1> QED BY ONLY [Next]_vars, <1>1, <1>2, <1>3, <1>4, <1>5 DEF Next

\* In every state what is on its way is made of the frames of the PDUs that were
\* written and not yet read, or the reader is in the first of them, or a short
\* read has closed the connection, or one has made up a GENERIC_NACK (Smpp.Read and
\* Smpp.Write, smpp.go:230-265).
THEOREM Framing == Spec => []Kept
<1>1. Init => Kept
  BY InvInit DEF Kept
<1> QED BY <1>1, InvKept, PTL DEF Spec

\* Whatever the PDUs, of any length the reader takes, and wherever the stream is cut,
\* Read returns the PDUs that Write was given, field by field and in order, up to a
\* GENERIC_NACK it makes up of a PDU of 384, 640, 896... bytes (smpp.go:230-257).
THEOREM ReadBack == Spec => []ReceivedIsSent
<1>1. Kept => ReceivedIsSent
  <2>0. Lost => ReceivedIsSent
    BY DEF Lost, ReceivedIsSent
  <2> SUFFICES ASSUME Inv PROVE ReceivedIsSent
    BY <2>0 DEF Kept
  <2>1. /\ sent \in Seq(Frames) /\ received \in Seq(Frames)
        /\ Len(received) <= Len(sent) /\ \A i \in 1..Len(received) : received[i] = sent[i]
    BY DEF Inv, Returned
  <2>2. PICK r \in Nat, n \in Nat : r = Len(received) /\ n = Len(sent) /\ r <= n
    BY ONLY <2>1, LenProperties
  <2>3. SubSeq(sent, 1, r) = received /\ SubSeq(received, 1, r) = received
    BY ONLY <2>1, <2>2, Begins
  <2> QED BY ONLY <2>2, <2>3 DEF ReceivedIsSent, IsPrefix
<1> QED BY <1>1, Framing, PTL

\* In the same generality a reader that waits between two PDUs with nothing on its
\* way has returned all that were written, or has made up a GENERIC_NACK.
THEOREM AllRead == Spec => []NothingSwallowed
<1>1. Kept => NothingSwallowed
  <2>0. Lost => NothingSwallowed
    BY DEF Lost, NothingSwallowed
  <2> SUFFICES ASSUME Inv, phase = "length", stream = <<>> PROVE received = sent
    BY <2>0 DEF NothingSwallowed, Kept
  <2>1. /\ sent \in Seq(Frames) /\ received \in Seq(Frames)
        /\ Len(received) <= Len(sent) /\ \A i \in 1..Len(received) : received[i] = sent[i]
    BY DEF Inv, Returned
  <2>2. Len(received) \in 0..Len(sent)
    <3>1. Len(received) \in Nat /\ Len(sent) \in Nat
      BY ONLY <2>1, LenProperties
    <3> QED BY ONLY <2>1, <3>1
  <2>3. Framed(<<>>, sent, Len(received))
    BY DEF Inv
  <2>4. Len(received) = Len(sent)
    BY ONLY <2>1, <2>2, <2>3, FramedDone
  <2> QED BY ONLY <2>1, <2>4, SeqEqual
<1> QED BY <1>1, Framing, PTL

\* Whatever the PDUs, the session ends only by a read that found less than was
\* asked for: what a writer makes is accepted by the parser (smpp.go:245-253).
THEOREM ClosedByCut == Spec => []ClosedMeansCut
<1>1. Kept => ClosedMeansCut
  BY DEF Inv, Lost, Kept, ClosedMeansCut
<1> QED BY <1>1, Framing, PTL

-------------------------------------------------------------------------------
(* Coding 0: what becomes of an ASCII character.                             *)

\* The characters of ASCII that take two bytes.
Doubled == {91, 92, 93, 94, 123, 124, 125, 126}

LEMMA LowIs ==
  /\ Low[1] = 64 /\ Low[3] = 36 /\ Low[18] = 95 /\ Low[11] = 0 /\ Low[14] = 0 /\ Low[16] = 0
  /\ Low[28] = 0 /\ DOMAIN Low = 1..32
  /\ \A i \in (1..32) \ {1, 3, 11, 14, 16, 18, 28} : Low[i] > 127
BY SMT DEF Low

LEMMA CodedIs ==
  /\ DOMAIN Coded = ((0..31) \ {10, 13, 15, 27}) \cup 91..96 \cup 123..127
  /\ Coded[0] = 64 /\ Coded[2] = 36 /\ Coded[17] = 95
  /\ \A b \in DOMAIN Coded : b \notin {0, 2, 17} => Coded[b] > 127
<1>1. {n \in 0..31 : Low[n + 1] # 0} = (0..31) \ {10, 13, 15, 27}
  BY LowIs, SMT
<1> DEFINE D == {n \in 0..31 : Low[n + 1] # 0} \cup 91..96 \cup 123..127
<1>2. DOMAIN Coded = D
  BY DEF Coded
<1>3. \A b \in 0..31 : b \in D => Coded[b] = Low[b + 1]
  BY SMT DEF Coded
<1>4. \A b \in 91..96 : Coded[b] = <<196, 214, 209, 220, 167, 191>>[b - 90]
  BY SMT DEF Coded
<1>5. \A b \in 123..127 : Coded[b] = <<228, 246, 241, 252, 224>>[b - 122]
  BY SMT DEF Coded
<1> HIDE DEF D
<1>6. D = ((0..31) \ {10, 13, 15, 27}) \cup 91..96 \cup 123..127
  BY <1>1 DEF D
<1>7. Coded[0] = 64 /\ Coded[2] = 36 /\ Coded[17] = 95
  BY <1>3, <1>6, LowIs, SMT
<1>8. ASSUME NEW b \in D, b \notin {0, 2, 17} PROVE Coded[b] > 127
  <2>1. CASE b \in 0..31
    BY <1>3, <1>6, <1>8, <2>1, LowIs, SMT
  <2>2. CASE b \in 91..96
    BY <1>4, <2>2, SMT
  <2>3. CASE b \in 123..127
    BY <1>5, <2>3, SMT
  <2> QED BY <1>6, <2>1, <2>2, <2>3
<1> QED BY <1>2, <1>6, <1>7, <1>8

LEMMA DecodedIs ==
  /\ DOMAIN Decoded = {14, 15, 20, 32, 36, 64, 123} \cup DOMAIN Coded
  /\ Decoded[14] = 248 /\ Decoded[15] = 229 /\ Decoded[20] = 928 /\ Decoded[32] = 32
  /\ Decoded[36] = 164 /\ Decoded[64] = 161 /\ Decoded[123] = 232
  /\ \A b \in DOMAIN Coded : b \notin {14, 15, 20, 32, 36, 64, 123} => Decoded[b] = Coded[b]
<1>1. \A b \in DOMAIN Decoded :
        Decoded[b] = CASE b = 14 -> 248 [] b = 15 -> 229 [] b = 20 -> 928 [] b = 32 -> 32
                       [] b = 36 -> 164 [] b = 64 -> 161 [] b = 123 -> 232 [] OTHER -> Coded[b]
  BY DEF Decoded
<1>2. DOMAIN Decoded = {14, 15, 20, 32, 36, 64, 123} \cup DOMAIN Coded
  BY DEF Decoded
<1>3. \A b \in DOMAIN Coded : b \notin {14, 15, 20, 32, 36, 64, 123} => Decoded[b] = Coded[b]
  BY ONLY <1>1, <1>2, SMT
<1>4. /\ Decoded[14] = 248 /\ Decoded[15] = 229 /\ Decoded[20] = 928 /\ Decoded[32] = 32
      /\ Decoded[36] = 164 /\ Decoded[64] = 161 /\ Decoded[123] = 232
  BY ONLY <1>1, <1>2, SMT
<1> QED BY <1>2, <1>3, <1>4

\* What the coder makes of a character: two bytes, or one.
Two(c) == EncodeGsm(c) \in Seq(Byte) /\ Len(EncodeGsm(c)) = 2 /\ c \in Lossy
One(c, b) == EncodeGsm(c) = <<b>> /\ (DecodeGsm(b) = c <=> c \notin Lossy)

\* Of the characters of ASCII eight are doubled; the others are one byte each, which
\* is read as the character it was made of if and only if that is not one of Lossy.
LEMMA GsmAscii ==
  ASSUME NEW c \in 0..127
  PROVE  (c \in Doubled => Two(c)) /\ (c \notin Doubled => \E b \in Byte : One(c, b))
<1>1. /\ DOMAIN Escaped = Doubled \cup {8364}
      /\ \A d \in Doubled : Escaped[d] \in Byte
  <2>1. /\ DOMAIN Escaped = 91..94 \cup 123..126 \cup {8364}
        /\ \A d \in 91..94 : Escaped[d] = <<60, 47, 62, 20>>[d - 90]
        /\ \A d \in 123..126 : Escaped[d] = <<40, 64, 41, 61>>[d - 122]
    BY SMT DEF Escaped
  <2>2. DOMAIN Escaped = Doubled \cup {8364}
    BY <2>1, SMT DEF Doubled
  <2>3. ASSUME NEW d \in Doubled PROVE Escaped[d] \in Byte
    BY <2>1, SMT DEF Doubled, Byte
  <2> QED BY <2>2, <2>3
<1>2. c \in DOMAIN Escaped <=> c \in Doubled
  BY <1>1, SMT
<1>3. CASE c \in Doubled
  <2>1. EncodeGsm(c) = <<27, Escaped[c]>>
    <3>1. {b \in DOMAIN Coded : Coded[b] = c} = {}
      BY <1>3, CodedIs, SMT DEF Doubled
    <3> QED BY <1>2, <1>3, <3>1 DEF EncodeGsm
  <2>2. Escaped[c] \in Byte /\ 27 \in Byte
    BY <1>1, <1>3 DEF Byte
  <2>3. c \in Lossy
    BY <1>3 DEF Doubled, Lossy
  <2>4. Two(c)
    BY ONLY <2>1, <2>2, <2>3 DEF Two
  <2> QED BY ONLY <1>3, <2>4
<1>4. CASE c \notin Doubled
  <2> DEFINE bytes == {b \in DOMAIN Coded : Coded[b] = c}
  <2>1. EncodeGsm(c) = IF bytes # {} THEN <<CHOOSE b \in bytes : TRUE>>
                       ELSE <<IF c > 127 THEN 63 ELSE c>>
    BY <1>2, <1>4 DEF EncodeGsm
  <2>2. CASE c \in {64, 36, 95}
    <3>1. PICK e \in {0, 2, 17} : Coded[e] = c /\ e \in DOMAIN Coded
      BY <2>2, CodedIs
    <3>2. bytes = {e}
      BY <2>2, <3>1, CodedIs, SMT
    <3>3. EncodeGsm(c) = <<e>>
      BY <2>1, <3>2
    <3>4. DecodeGsm(e) = c
      <4>1. e \in DOMAIN Decoded /\ Decoded[e] = c
        BY <3>1, DecodedIs
      <4> QED BY <4>1 DEF DecodeGsm
    <3>5. c \notin Lossy /\ e \in Byte
      BY <2>2, <3>1 DEF Lossy, Byte
    <3> QED BY ONLY <1>4, <3>3, <3>4, <3>5 DEF One
  <2>3. CASE c \notin {64, 36, 95}
    <3>1. bytes = {}
      BY <2>3, CodedIs, SMT
    <3>2. EncodeGsm(c) = <<c>>
      BY <2>1, <3>1
    <3>3. c \in Byte
      BY DEF Byte
    <3>4. DecodeGsm(c) = IF c \in DOMAIN Decoded THEN Decoded[c] ELSE c
      BY DEF DecodeGsm
    <3>5. c \in DOMAIN Coded => Coded[c] # c
      BY CodedIs, <2>3, SMT
    <3>6. DecodeGsm(c) = c <=> c \notin Lossy
      <4>1. CASE c \in {14, 15, 20, 32, 36, 64, 123}
        BY <2>3, <3>4, <4>1, DecodedIs, SMT DEF Lossy
      <4>2. CASE c \in DOMAIN Coded /\ c \notin {14, 15, 20, 32, 36, 64, 123}
        <5>1. DecodeGsm(c) # c
          BY <3>4, <3>5, <4>2, DecodedIs
        <5>2. c \in Lossy
          BY <2>3, <4>2, CodedIs, SMT DEF Lossy
        <5> QED BY <5>1, <5>2
      <4>3. CASE c \notin DOMAIN Coded /\ c \notin {14, 15, 20, 32, 36, 64, 123}
        <5>1. DecodeGsm(c) = c
          BY <3>4, <4>3, DecodedIs
        <5>2. c \notin Lossy
          BY <1>4, <2>3, <4>3, CodedIs, SMT DEF Lossy, Doubled
        <5> QED BY <5>1, <5>2
      <4> QED BY <4>1, <4>2, <4>3
    <3> QED BY ONLY <1>4, <3>2, <3>3, <3>6 DEF One
  <2> QED BY <2>2, <2>3
<1> QED BY <1>3, <1>4

-------------------------------------------------------------------------------
(* A text that is coded character by character.                              *)

\* Of a text in coding 0 the decoder makes one character of every byte, so that it is
\* the text again if and only if no character of it was lost, however long the text
\* (coder.go:90-99, 115-127).
THEOREM GsmReadBack ==
  ASSUME NEW t \in Seq(0..127), NEW e, e = FlattenSeq([i \in DOMAIN t |-> EncodeGsm(t[i])])
  PROVE  [i \in DOMAIN e |-> DecodeGsm(e[i])] = t <=> Range(t) \cap Lossy = {}
<1> DEFINE s == [i \in DOMAIN t |-> EncodeGsm(t[i])]
<1>1. PICK n \in Nat : n = Len(t) /\ DOMAIN t = 1..n
  BY LenProperties
<1>2. \A i \in 1..n : t[i] \in 0..127
  BY ONLY t \in Seq(0..127), <1>1, ElementOfSeq
<1>3. ASSUME NEW i \in 1..n
      PROVE  /\ EncodeGsm(t[i]) \in Seq(Byte)
             /\ t[i] \in Doubled => Two(t[i])
             /\ t[i] \notin Doubled => \E b \in Byte : One(t[i], b)
  <2>1. PICK c \in 0..127 : c = t[i]
    BY ONLY i \in 1..n, <1>2
  <2>2. (c \in Doubled => Two(c)) /\ (c \notin Doubled => \E b \in Byte : One(c, b))
    BY ONLY c \in 0..127, GsmAscii
  <2>3. EncodeGsm(c) \in Seq(Byte)
    <3>1. CASE c \in Doubled
      BY ONLY <2>2, <3>1 DEF Two
    <3>2. CASE c \notin Doubled
      <4>1. PICK b \in Byte : EncodeGsm(c) = <<b>>
        BY ONLY <2>2, <3>2 DEF One
      <4>2. <<b>> \in Seq(Byte)
        OBVIOUS
      <4> QED BY ONLY <4>1, <4>2
    <3> QED BY ONLY <3>1, <3>2
  <2> QED BY ONLY <2>1, <2>2, <2>3
<1>4. s \in [1..n -> Seq(Byte)] /\ \A i \in 1..n : s[i] = EncodeGsm(t[i])
  BY ONLY <1>1, <1>3
<1>5. e = FlattenSeq(s)
  OBVIOUS
<1> HIDE DEF s
<1>6. e \in Seq(Byte) /\ \E at : Laid(e, n, s, at)
  BY ONLY n \in Nat, <1>4, <1>5, FlattenLaid
<1>a. PICK at : Laid(e, n, s, at)
  BY ONLY <1>6
<1>b. /\ at \in [0..n -> Nat] /\ at[0] = 0 /\ at[n] = Len(e)
      /\ \A i \in 1..n : at[i] = at[i - 1] + Len(s[i])
      /\ \A i \in 1..n : \A j \in 1..Len(s[i]) : e[at[i - 1] + j] = s[i][j]
  BY ONLY <1>a DEF Laid, Stands
<1>7. PICK m \in Nat : m = Len(e) /\ DOMAIN e = 1..m
  BY ONLY <1>6, LenProperties
<1>8. PICK d : d = [i \in 1..m |-> DecodeGsm(e[i])]
  OBVIOUS
<1>c. [i \in DOMAIN e |-> DecodeGsm(e[i])] = d
  BY ONLY <1>7, <1>8
<1>9. CASE \A i \in 1..n : t[i] \notin Doubled
  <2>1. ASSUME NEW i \in 1..n
        PROVE  \E b \in Byte : One(t[i], b) /\ s[i] = <<b>>
    <3>1. PICK b \in Byte : One(t[i], b)
      BY ONLY i \in 1..n, <1>3, <1>9
    <3>2. s[i] = <<b>>
      BY ONLY i \in 1..n, <1>4, <3>1 DEF One
    <3> QED BY ONLY <3>1, <3>2
  <2>a. ASSUME NEW i \in 1..n PROVE Len(s[i]) = 1
    <3>1. PICK b \in Byte : s[i] = <<b>>
      BY ONLY i \in 1..n, <2>1
    <3> QED BY ONLY <3>1
  <2> DEFINE T == {i \in 0..n : at[i] = i}
  <2>2. 0 \in T
    BY ONLY n \in Nat, <1>b
  <2>3. ASSUME NEW k \in 0..(n - 1), k \in T PROVE k + 1 \in T
    <3>0. at[k] = k
      BY ONLY <2>3 DEF T
    <3>1. k + 1 \in 1..n /\ k + 1 \in 0..n /\ (k + 1) - 1 = k /\ at[k] = k
      BY ONLY n \in Nat, k \in 0..(n - 1), <3>0
    <3>2. at[k + 1] = k + 1
      BY ONLY <1>b, <2>a, <3>1
    <3> QED BY ONLY <3>1, <3>2 DEF T
  <2> HIDE DEF T
  <2>4. \A i \in 0..n : i \in T
    BY ONLY n \in Nat, <2>2, <2>3, UpTo
  <2>5. \A i \in 0..n : at[i] = i
    BY ONLY <2>4 DEF T
  <2>6. m = n
    BY ONLY n \in Nat, <1>b, <1>7, <2>5
  <2>7. ASSUME NEW i \in 1..n PROVE d[i] = t[i] <=> t[i] \notin Lossy
    <3>0. PICK b \in Byte : One(t[i], b) /\ s[i] = <<b>>
      BY ONLY i \in 1..n, <2>1
    <3>1. Len(s[i]) = 1 /\ s[i][1] = b /\ (DecodeGsm(b) = t[i] <=> t[i] \notin Lossy)
      BY ONLY <3>0 DEF One
    <3>2. i - 1 \in 0..n /\ (i - 1) + 1 = i
      BY ONLY n \in Nat, i \in 1..n
    <3>3. e[i] = b
      <4>1. 1 \in 1..Len(s[i])
        BY ONLY <3>1
      <4>2. e[at[i - 1] + 1] = s[i][1]
        BY ONLY i \in 1..n, <1>b, <4>1
      <4> QED BY ONLY <2>5, <3>1, <3>2, <4>2
    <3> QED BY ONLY i \in 1..n, <1>8, <2>6, <3>1, <3>3
  <2>8. d = t <=> \A i \in 1..n : d[i] = t[i]
    <3>1. t = [i \in 1..n |-> t[i]]
      BY ONLY t \in Seq(0..127), <1>1
    <3>2. (\A i \in 1..n : d[i] = t[i]) => d = t
      BY ONLY <1>8, <2>6, <3>1
    <3> QED BY ONLY <3>2
  <2>9. (\A i \in 1..n : t[i] \notin Lossy) <=> Range(t) \cap Lossy = {}
    <3>1. Range(t) = {t[i] : i \in 1..n}
      BY ONLY <1>1 DEF Range
    <3> QED BY ONLY <3>1
  <2>10. d = t <=> Range(t) \cap Lossy = {}
    BY ONLY <2>7, <2>8, <2>9
  <2> QED BY ONLY <1>c, <2>10
<1>10. CASE \E i \in 1..n : t[i] \in Doubled
  <2>1. PICK i \in 1..n : t[i] \in Doubled
    BY <1>10
  <2>2. Range(t) \cap Lossy # {}
    <3>1. t[i] \in Lossy
      BY ONLY i \in 1..n, <1>3, <2>1 DEF Two
    <3> QED BY ONLY i \in 1..n, <1>1, <3>1 DEF Range
  <2>3. ASSUME NEW k \in 1..n
        PROVE  Len(s[k]) \in Nat /\ Len(s[k]) >= 1 /\ (k = i => Len(s[k]) = 2)
    <3>1. CASE t[k] \in Doubled
      <4>1. Two(t[k]) /\ s[k] = EncodeGsm(t[k])
        BY ONLY k \in 1..n, <1>3, <1>4, <3>1
      <4>2. Len(s[k]) = 2
        BY ONLY <4>1, Zenon DEF Two
      <4> QED BY ONLY <4>2
    <3>2. CASE t[k] \notin Doubled
      <4>1. PICK b \in Byte : s[k] = <<b>>
        BY ONLY k \in 1..n, <1>3, <1>4, <3>2 DEF One
      <4>2. Len(s[k]) = 1 /\ k # i
        BY ONLY <2>1, <3>2, <4>1
      <4> QED BY ONLY <4>2
    <3> QED BY ONLY <3>1, <3>2
  <2> DEFINE T == {k \in 0..n : at[k] >= k /\ (k >= i => at[k] >= k + 1)}
  <2>4. 0 \in T
    BY ONLY n \in Nat, i \in 1..n, <1>b
  <2>5. ASSUME NEW k \in 0..(n - 1), k \in T PROVE k + 1 \in T
    <3>1. k + 1 \in 1..n /\ k + 1 \in 0..n /\ (k + 1) - 1 = k /\ k \in 0..n
      BY ONLY n \in Nat, k \in 0..(n - 1)
    <3>2. at[k] \in Nat /\ at[k] >= k /\ (k >= i => at[k] >= k + 1)
      BY ONLY <1>b, <2>5, <3>1
    <3>3. at[k + 1] = at[k] + Len(s[k + 1])
      BY ONLY <1>b, <3>1
    <3>4. Len(s[k + 1]) \in Nat /\ Len(s[k + 1]) >= 1 /\ (k + 1 = i => Len(s[k + 1]) = 2)
      BY ONLY <2>3, <3>1
    <3>5. at[k + 1] >= k + 1 /\ (k + 1 >= i => at[k + 1] >= (k + 1) + 1)
      <4>0. PICK q : q = at[k + 1]
        OBVIOUS
      <4>1. PICK a \in Nat, l \in Nat : a = at[k] /\ l = Len(s[k + 1])
        BY ONLY <3>2, <3>4
      <4>2. a >= k /\ (k >= i => a >= k + 1) /\ l >= 1 /\ (k + 1 = i => l = 2) /\ q = a + l
        BY ONLY <3>2, <3>3, <3>4, <4>0, <4>1
      <4>3. k \in Nat /\ i \in Nat
        BY ONLY n \in Nat, k \in 0..(n - 1), i \in 1..n
      <4>4. q >= k + 1 /\ (k + 1 >= i => q >= (k + 1) + 1)
        BY ONLY a \in Nat, l \in Nat, <4>2, <4>3
      <4> QED BY ONLY <4>0, <4>1, <4>4
    <3> QED BY ONLY <3>1, <3>5
  <2> HIDE DEF T
  <2>6. \A k \in 0..n : k \in T
    BY ONLY n \in Nat, <2>4, <2>5, UpTo
  <2>7. m > n
    <3>1. n \in 0..n /\ n >= i
      BY ONLY n \in Nat, i \in 1..n
    <3>2. at[n] >= n + 1
      BY ONLY <2>6, <3>1 DEF T
    <3> QED BY ONLY n \in Nat, m \in Nat, <1>b, <1>7, <3>2
  <2>8. d # t
    <3>1. DOMAIN d = 1..m /\ m \in 1..m /\ m \notin 1..n
      BY ONLY n \in Nat, m \in Nat, <1>8, <2>7
    <3> QED BY ONLY <1>1, <3>1
  <2> QED BY ONLY <1>c, <2>2, <2>8
<1> QED BY <1>9, <1>10

-------------------------------------------------------------------------------
(* Coding 8: one unit or a pair of them for every character.                 *)

\* The decoder has read the text o and waits for nothing.
Between(o) == [out |-> o, wait |-> 0]

LEMMA UnitRead ==
  ASSUME NEW o, NEW c, IsRune(c)
  PROVE  ReadUnit(Between(o), c) = Between(Append(o, c))
<1>1. c \notin LowHalf /\ c \notin HighHalf
  <2> HIDE DEF LowHalf, HighHalf
  <2> QED BY SMT DEF IsRune
<1>2. Between(o).out = o /\ Between(o).wait = 0
  BY DEF Between
<1>3. Flush(Between(o)) = o
  BY ONLY <1>2 DEF Flush
<1>4. ReadUnit(Between(o), c) = [out |-> Append(o, c), wait |-> 0]
  <2>1. c \notin HighHalf \cup LowHalf
    BY ONLY <1>1
  <2> QED BY ONLY <1>1, <1>3, <2>1, Zenon DEF ReadUnit
<1> QED BY ONLY <1>4 DEF Between

\* What takes a pair.
IsWide(c) == c \in Nat /\ 65536 <= c /\ c <= 1114111

LEMMA Halves ==
  ASSUME NEW c, IsWide(c)
  PROVE  /\ Upper(c) \in HighHalf /\ Lower(c) \in LowHalf /\ Joint(Upper(c), Lower(c)) = c
         /\ IsWord(Upper(c)) /\ IsWord(Lower(c)) /\ Upper(c) \notin LowHalf
         /\ 0 \notin LowHalf /\ 0 \notin HighHalf /\ Upper(c) # 0 /\ ~ IsWord(c)
<1>0. c \in Nat /\ 65536 <= c /\ c <= 1114111
  BY SMT DEF IsWide
<1>1. PICK d \in Nat : c = d + 65536 /\ d = c - 65536 /\ d < 1048576
  <2>1. c - 65536 \in Nat /\ c = (c - 65536) + 65536 /\ c - 65536 < 1048576
    BY ONLY <1>0, SMT
  <2> QED BY ONLY <2>1, SMT
<1>2. d \div 1024 \in Nat /\ d % 1024 \in Nat /\ d = 1024 * (d \div 1024) + (d % 1024)
      /\ d % 1024 < 1024
  BY ONLY d \in Nat, SMT
<1>3. PICK q \in Nat, m \in Nat :
        q = d \div 1024 /\ m = d % 1024 /\ d = 1024 * q + m /\ m < 1024
  BY ONLY <1>2, SMT
<1>4. q < 1024
  BY ONLY q \in Nat, m \in Nat, <1>1, <1>3, SMT
<1>5. Upper(c) = 55296 + q /\ Lower(c) = 56320 + m
  BY ONLY <1>1, <1>3, SMT DEF Upper, Lower
<1>6. Joint(55296 + q, 56320 + m) = c
  BY ONLY q \in Nat, m \in Nat, <1>1, <1>3, SMT DEF Joint
<1>7. ~ IsWord(c)
  BY ONLY <1>0, SMT DEF IsWord
<1>8. 0 \notin LowHalf /\ 0 \notin HighHalf
  BY ONLY SMT DEF LowHalf, HighHalf
<1>9. /\ 55296 + q \in HighHalf /\ 56320 + m \in LowHalf /\ 55296 + q \notin LowHalf
      /\ IsWord(55296 + q) /\ IsWord(56320 + m) /\ 55296 + q # 0
  BY ONLY q \in Nat, m \in Nat, <1>3, <1>4, SMT DEF HighHalf, LowHalf, IsWord
<1> QED BY ONLY <1>5, <1>6, <1>7, <1>8, <1>9, SMT

LEMMA PairRead ==
  ASSUME NEW o, NEW c, IsWide(c)
  PROVE  ReadUnit(ReadUnit(Between(o), Upper(c)), Lower(c)) = Between(Append(o, c))
<1>1. PICK h, l : h = Upper(c) /\ l = Lower(c)
  OBVIOUS
<1>2. /\ h \in HighHalf /\ l \in LowHalf /\ Joint(h, l) = c /\ h \notin LowHalf
      /\ 0 \notin LowHalf /\ 0 \notin HighHalf
  BY <1>1, Halves
<1>3. Between(o).out = o /\ Between(o).wait = 0
  BY DEF Between
<1>4. Flush(Between(o)) = o
  BY ONLY <1>3 DEF Flush
<1>5. PICK st : st = ReadUnit(Between(o), h)
  OBVIOUS
<1>6. st = [out |-> o, wait |-> h]
  <2>1. h \in HighHalf \cup LowHalf
    BY ONLY <1>2
  <2> QED BY ONLY <1>2, <1>3, <1>4, <1>5, <2>1, Zenon DEF ReadUnit
<1>7. st.out = o /\ st.wait = h
  BY ONLY <1>6
<1>8. h \notin LowHalf
  BY ONLY <1>2
<1>9. ReadUnit(st, l) = [out |-> Append(o, Joint(h, l)), wait |-> 0]
  BY ONLY <1>2, <1>7, Zenon DEF ReadUnit
<1> QED BY ONLY <1>1, <1>2, <1>5, <1>9 DEF Between

\* The units of b one after the other.
Reads(h, b, n) ==
  h = [k \in 0..n |-> IF k = 0 THEN [out |-> <<>>, wait |-> 0]
                      ELSE ReadUnit(h[k - 1], b[2 * k - 1] * 256 + b[2 * k])]

LEMMA ReadsExist == ASSUME NEW b, NEW n \in Nat PROVE \E h : Reads(h, b, n)
<1> DEFINE first == [out |-> <<>>, wait |-> 0]
           Def(h, m) == h = [k \in 0..m |-> IF k = 0 THEN first
                                            ELSE ReadUnit(h[k - 1], b[2 * k - 1] * 256 + b[2 * k])]
           T == {m \in 0..n : \E h : Def(h, m)}
<1>1. 0 \in T
  <2> DEFINE g == [k \in 0..0 |-> first]
  <2>1. Def(g, 0)
    OBVIOUS
  <2> HIDE DEF g, Def
  <2> QED BY <2>1
<1>2. ASSUME NEW m \in 0..(n - 1), m \in T PROVE m + 1 \in T
  <2>1. PICK f : Def(f, m)
    BY <1>2
  <2> DEFINE next == ReadUnit(f[m], b[2 * (m + 1) - 1] * 256 + b[2 * (m + 1)])
             g == [k \in 0..(m + 1) |-> IF k = m + 1 THEN next ELSE f[k]]
  <2>2. Def(g, m + 1)
    <3>1. ASSUME NEW k \in 0..(m + 1)
          PROVE  g[k] = IF k = 0 THEN first
                        ELSE ReadUnit(g[k - 1], b[2 * k - 1] * 256 + b[2 * k])
      <4>1. CASE k = m + 1
        <5>1. k # 0 /\ k - 1 = m /\ m \in 0..(m + 1) /\ m # m + 1
          BY <4>1
        <5>2. g[k] = next /\ g[k - 1] = f[m]
          BY <4>1, <5>1
        <5> HIDE DEF g
        <5> QED BY <4>1, <5>1, <5>2
      <4>2. CASE k # m + 1
        <5>1. k \in 0..m /\ g[k] = f[k] /\ (k # 0 => k - 1 \in 0..(m + 1) /\ k - 1 # m + 1)
          BY <4>2
        <5>2. k # 0 => g[k - 1] = f[k - 1]
          BY <5>1
        <5>3. f[k] = IF k = 0 THEN first
                     ELSE ReadUnit(f[k - 1], b[2 * k - 1] * 256 + b[2 * k])
          BY <2>1, <5>1
        <5> HIDE DEF g, first
        <5> QED BY <5>1, <5>2, <5>3
      <4> QED BY <4>1, <4>2
    <3>2. g = [k \in 0..(m + 1) |-> g[k]]
      OBVIOUS
    <3> HIDE DEF g, first
    <3> QED BY <3>1, <3>2
  <2>3. m + 1 \in 0..n
    OBVIOUS
  <2> HIDE DEF Def, g
  <2> QED BY <2>2, <2>3
<1> HIDE DEF T
<1>3. n \in T
  <2>1. \A k \in 0..n : k \in T
    BY <1>1, <1>2, UpTo
  <2> QED BY <2>1
<1>4. PICK h : Def(h, n)
  BY <1>3 DEF T
<1>5. Reads(h, b, n)
  BY <1>4 DEF Reads
<1> QED BY <1>5

LEMMA Ucs2Reads ==
  ASSUME NEW b, NEW n \in Nat, Len(b) = 2 * n
  PROVE  \E h : Reads(h, b, n) /\ DecodeUcs2(b) = Flush(h[n])
<1> DEFINE l == Len(b) \div 2
           Def(h) == h = [k \in 0..l |-> IF k = 0 THEN [out |-> <<>>, wait |-> 0]
                                        ELSE ReadUnit(h[k - 1], b[2 * k - 1] * 256 + b[2 * k])]
           c == CHOOSE h : h = [k \in 0..l |-> IF k = 0 THEN [out |-> <<>>, wait |-> 0]
                               ELSE ReadUnit(h[k - 1], b[2 * k - 1] * 256 + b[2 * k])]
<1>1. l = n /\ Len(b) % 2 # 1
  <2>1. (2 * n) \div 2 = n /\ (2 * n) % 2 # 1
    BY ONLY n \in Nat, SMT
  <2> QED BY <2>1, Zenon
<1>2. PICK h : Def(h)
  <2>1. \E h : Reads(h, b, l)
    BY ONLY <1>1, n \in Nat, ReadsExist
  <2> HIDE DEF l
  <2> QED BY ONLY <2>1 DEF Reads
<1>3. Def(c)
  <2> HIDE DEF l
  <2> QED BY <1>2, ZenonT(30)
<1>4. DecodeUcs2(b) = Flush(c[l])
  BY ONLY <1>1, Zenon DEF DecodeUcs2
<1>5. Reads(c, b, l)
  <2> HIDE DEF c, l
  <2> QED BY ONLY <1>3 DEF Reads
<1> HIDE DEF c, l
<1> QED BY ONLY <1>1, <1>4, <1>5

\* A unit as it is read at place a of b.
UnitAt(b, a) == b[a + 1] * 256 + b[a + 2]

\* A character is one unit, or two that make a pair.
Single(c, w) == IsRune(c) /\ Len(w) = 2 /\ UnitAt(w, 0) = c
Paired(c, w) == IsWide(c) /\ Len(w) = 4 /\ UnitAt(w, 0) = Upper(c) /\ UnitAt(w, 2) = Lower(c)

LEMMA Ucs2Char ==
  ASSUME NEW c, IsRune(c)
  PROVE  EncodeUcs2(c) \in Seq(Byte) /\ (Single(c, EncodeUcs2(c)) \/ Paired(c, EncodeUcs2(c)))
<1>1. CASE IsWord(c)
  <2>1. PICK w : w = U16(c)
    OBVIOUS
  <2>2. w \in Seq(Byte) /\ Len(w) = 2 /\ w[1] * 256 + w[2] = c
    BY ONLY <1>1, <2>1, U16Is
  <2>3. EncodeUcs2(c) = w
    BY ONLY <1>1, <2>1, Zenon DEF EncodeUcs2
  <2>4. 0 + 1 = 1 /\ 0 + 2 = 2
    OBVIOUS
  <2>5. UnitAt(w, 0) = c
    BY ONLY <2>2, <2>4 DEF UnitAt
  <2> QED BY ONLY IsRune(c), <2>2, <2>3, <2>5 DEF Single
<1>2. CASE ~ IsWord(c)
  <2>1. IsWide(c)
    BY <1>2, SMT DEF IsRune, IsWord, IsWide
  <2>2. PICK h, l : h = Upper(c) /\ l = Lower(c)
    OBVIOUS
  <2>3. IsWord(h) /\ IsWord(l)
    BY ONLY <2>1, <2>2, Halves
  <2>4. PICK u \in Seq(Byte), v \in Seq(Byte) : u = U16(h) /\ v = U16(l)
    BY ONLY <2>3, U16Is
  <2>5. u \in Seq(Byte) /\ Len(u) = 2 /\ u[1] * 256 + u[2] = h
    BY ONLY <2>3, <2>4, U16Is
  <2>6. v \in Seq(Byte) /\ Len(v) = 2 /\ v[1] * 256 + v[2] = l
    BY ONLY <2>3, <2>4, U16Is
  <2>7. PICK w : w = u \o v
    OBVIOUS
  <2>8. /\ w \in Seq(Byte) /\ Len(w) = Len(u) + Len(v)
        /\ \A j \in 1..Len(u) : w[j] = u[j]
        /\ \A j \in 1..Len(v) : w[Len(u) + j] = v[j]
    BY ONLY u \in Seq(Byte), v \in Seq(Byte), <2>7, Joined
  <2>9. Len(w) = 4 /\ w[1] = u[1] /\ w[2] = u[2] /\ w[3] = v[1] /\ w[4] = v[2]
    <3>1. 2 + 1 = 3 /\ 2 + 2 = 4 /\ 1 \in 1..2 /\ 2 \in 1..2
      OBVIOUS
    <3>2. /\ w[1] = u[1] /\ w[2] = u[2] /\ w[2 + 1] = v[1] /\ w[2 + 2] = v[2]
          /\ Len(w) = 2 + 2
      BY ONLY <2>5, <2>6, <2>8, <3>1, Zenon
    <3> QED BY ONLY <3>1, <3>2, Zenon
  <2>10. EncodeUcs2(c) = w
    BY ONLY <1>2, <2>2, <2>4, <2>7, Zenon DEF EncodeUcs2
  <2>11. UnitAt(w, 0) = h /\ UnitAt(w, 2) = l
    <3>1. 0 + 1 = 1 /\ 0 + 2 = 2 /\ 2 + 1 = 3 /\ 2 + 2 = 4
      OBVIOUS
    <3> QED BY ONLY <2>5, <2>6, <2>9, <3>1, ZenonT(30) DEF UnitAt
  <2> QED BY ONLY <2>1, <2>2, <2>8, <2>9, <2>10, <2>11 DEF Paired
<1> QED BY <1>1, <1>2

\* What the reader has come to behind k units of b, one or two units later.
LEMMA ReadsStep ==
  ASSUME NEW b, NEW n \in Nat, NEW h, Reads(h, b, n), NEW k \in 0..(n - 1)
  PROVE  h[k + 1] = ReadUnit(h[k], UnitAt(b, 2 * k))
<1>1. k + 1 \in 0..n /\ k + 1 # 0 /\ (k + 1) - 1 = k /\ 2 * (k + 1) - 1 = 2 * k + 1
      /\ 2 * (k + 1) = 2 * k + 2
  OBVIOUS
<1>2. h[k + 1] = IF k + 1 = 0 THEN [out |-> <<>>, wait |-> 0]
                 ELSE ReadUnit(h[(k + 1) - 1], b[2 * (k + 1) - 1] * 256 + b[2 * (k + 1)])
  BY <1>1 DEF Reads
<1>3. h[k + 1] = ReadUnit(h[k], b[2 * k + 1] * 256 + b[2 * k + 2])
  BY ONLY <1>1, <1>2, Zenon
<1> QED BY ONLY <1>3 DEF UnitAt

LEMMA UnitsStand ==
  ASSUME NEW b, NEW w, NEW a \in Nat, Stands(w, b, a)
  PROVE  /\ Len(w) \in {2, 4} => UnitAt(b, a) = UnitAt(w, 0)
         /\ Len(w) = 4 => UnitAt(b, a + 2) = UnitAt(w, 2)
<1>1. \A j \in 1..Len(w) : b[a + j] = w[j]
  BY DEF Stands
<1>2. 0 + 1 = 1 /\ 0 + 2 = 2 /\ 2 + 1 = 3 /\ 2 + 2 = 4
      /\ (a + 2) + 1 = a + 3 /\ (a + 2) + 2 = a + 4
  OBVIOUS
<1>3. ASSUME Len(w) \in {2, 4} PROVE b[a + 1] = w[1] /\ b[a + 2] = w[2]
  BY ONLY <1>1, <1>3
<1>4. ASSUME Len(w) = 4 PROVE b[a + 3] = w[3] /\ b[a + 4] = w[4]
  BY ONLY <1>1, <1>4
<1>5. ASSUME Len(w) \in {2, 4} PROVE UnitAt(b, a) = UnitAt(w, 0)
  BY ONLY <1>2, <1>3, <1>5, ZenonT(30) DEF UnitAt
<1>6. ASSUME Len(w) = 4 PROVE UnitAt(b, a + 2) = UnitAt(w, 2)
  BY ONLY <1>2, <1>4, <1>6, ZenonT(30) DEF UnitAt
<1> QED BY ONLY <1>5, <1>6

\* UTF-16 carries every text over, however its units and pairs follow each other
\* (coder.go:83-86, 107-110).
THEOREM Ucs2ReadBack ==
  ASSUME NEW t, IsText(t)
  PROVE  DecodeUcs2(FlattenSeq([i \in DOMAIN t |-> EncodeUcs2(t[i])])) = t
<1> DEFINE s == [i \in DOMAIN t |-> EncodeUcs2(t[i])]
<1>0. t \in Seq(Nat) /\ \A i \in DOMAIN t : IsRune(t[i])
  BY DEF IsText
<1>1. PICK n \in Nat : n = Len(t) /\ DOMAIN t = 1..n
  BY ONLY <1>0, LenProperties
<1>2. ASSUME NEW i \in 1..n
      PROVE  s[i] \in Seq(Byte) /\ (Single(t[i], s[i]) \/ Paired(t[i], s[i]))
  <2>1. IsRune(t[i]) /\ s[i] = EncodeUcs2(t[i])
    BY ONLY i \in 1..n, <1>0, <1>1
  <2> HIDE DEF s
  <2> QED BY ONLY <2>1, Ucs2Char
<1>3. s \in [1..n -> Seq(Byte)]
  BY ONLY <1>1, <1>2
<1>4. PICK b : b = FlattenSeq(s)
  OBVIOUS
<1> HIDE DEF s
<1>5. b \in Seq(Byte) /\ \E at : Laid(b, n, s, at)
  BY ONLY n \in Nat, <1>3, <1>4, FlattenLaid
<1>6. PICK at : Laid(b, n, s, at)
  BY ONLY <1>5
<1>7. PICK m \in Nat : m = Len(b)
  BY ONLY <1>5, LenProperties
<1>8. /\ at \in [0..n -> Nat] /\ at[0] = 0 /\ at[n] = m
      /\ \A i \in 1..n : at[i] = at[i - 1] + Len(s[i]) /\ Stands(s[i], b, at[i - 1])
  BY ONLY <1>6, <1>7 DEF Laid
\* Every character is an even number of bytes.
<1>9. PICK q \in Nat : m = 2 * q
  <2> DEFINE T == {i \in 0..n : \E k \in Nat : at[i] = 2 * k}
  <2>1. 0 \in T
    <3>1. at[0] = 2 * 0 /\ 0 \in 0..n
      BY ONLY n \in Nat, <1>8
    <3> QED BY ONLY <3>1
  <2>2. ASSUME NEW i \in 0..(n - 1), i \in T PROVE i + 1 \in T
    <3>1. PICK k \in Nat : at[i] = 2 * k
      BY <2>2
    <3>2. i + 1 \in 1..n /\ i + 1 \in 0..n /\ (i + 1) - 1 = i
      BY ONLY n \in Nat, i \in 0..(n - 1)
    <3>3. at[i + 1] = 2 * k + Len(s[i + 1])
      BY ONLY <1>8, <3>1, <3>2
    <3>4. PICK l : l = Len(s[i + 1]) /\ (l = 2 \/ l = 4)
      BY ONLY <1>2, <3>2 DEF Single, Paired
    <3>5. at[i + 1] = 2 * (k + 1) \/ at[i + 1] = 2 * (k + 2)
      <4>1. 2 * k + 2 = 2 * (k + 1) /\ 2 * k + 4 = 2 * (k + 2)
        BY ONLY k \in Nat
      <4>2. at[i + 1] = 2 * k + 2 \/ at[i + 1] = 2 * k + 4
        BY ONLY <3>3, <3>4, Zenon
      <4> QED BY ONLY <4>1, <4>2, Zenon
    <3>6. k + 1 \in Nat /\ k + 2 \in Nat
      BY ONLY k \in Nat
    <3> QED BY ONLY <3>2, <3>5, <3>6, Zenon DEF T
  <2> HIDE DEF T
  <2>3. \A i \in 0..n : i \in T
    BY ONLY n \in Nat, <2>1, <2>2, UpTo
  <2>4. n \in T
    BY ONLY n \in Nat, <2>3
  <2> QED BY ONLY <1>8, <2>4 DEF T
<1>10. PICK h : Reads(h, b, q) /\ DecodeUcs2(b) = Flush(h[q])
  BY ONLY q \in Nat, <1>7, <1>9, Ucs2Reads
<1>11. h[0] = Between(<<>>)
  <2>1. 0 \in 0..q
    BY ONLY q \in Nat
  <2> QED BY ONLY <1>10, <2>1 DEF Reads, Between
<1> DEFINE T == {i \in 0..n : \E k \in 0..q : at[i] = 2 * k /\ h[k] = Between(SubSeq(t, 1, i))}
<1>12. 0 \in T
  <2>1. SubSeq(t, 1, 0) = <<>>
    BY ONLY SubSeqEmpty
  <2>2. at[0] = 2 * 0 /\ 0 \in 0..n /\ 0 \in 0..q
    BY ONLY n \in Nat, q \in Nat, <1>8
  <2> QED BY ONLY <1>11, <2>1, <2>2
<1>13. ASSUME NEW i \in 0..(n - 1), i \in T PROVE i + 1 \in T
  <2>1. PICK k \in 0..q : at[i] = 2 * k /\ h[k] = Between(SubSeq(t, 1, i))
    BY <1>13
  <2> HIDE DEF T
  <2>2. i + 1 \in 1..n /\ i + 1 \in 0..n /\ (i + 1) - 1 = i
    BY ONLY n \in Nat, i \in 0..(n - 1)
  <2>3. PICK o, c, w : o = SubSeq(t, 1, i) /\ c = t[i + 1] /\ w = s[i + 1]
    OBVIOUS
  <2>4. Append(o, c) = SubSeq(t, 1, i + 1)
    <3>1. 1 \in 1..n /\ i + 1 \in 1..n
      BY ONLY n \in Nat, <2>2
    <3>2. SubSeq(t, 1, i + 1) = SubSeq(t, 1, (i + 1) - 1) \o <<t[i + 1]>>
      BY ONLY <1>0, <1>1, <3>1, SubSeqRecursiveSecond
    <3>3. o \in Seq(Nat) /\ c \in Nat
      <4>1. \A j \in 1..i : t[j] \in Nat
        BY ONLY n \in Nat, i \in 0..(n - 1), <1>0, <1>1, ElementOfSeq
      <4>2. o \in Seq(Nat)
        BY ONLY i \in 0..(n - 1), <2>3, <4>1, SubSeqProperties
      <4> QED BY ONLY <1>0, <1>1, <2>2, <2>3, <4>2, ElementOfSeq
    <3>4. o \o <<c>> = Append(o, c)
      BY ONLY <3>3, AppendIsConcat
    <3> QED BY ONLY <2>2, <2>3, <3>2, <3>4
  <2>5. at[i + 1] = 2 * k + Len(w) /\ Stands(w, b, 2 * k) /\ (Single(c, w) \/ Paired(c, w))
    BY ONLY <1>2, <1>8, <2>1, <2>2, <2>3
  <2>6. 2 * k + Len(w) <= 2 * q
    BY ONLY <1>7, <1>9, <2>5 DEF Stands
  <2>7. CASE Single(c, w)
    <3>1. IsRune(c) /\ Len(w) = 2 /\ UnitAt(w, 0) = c
      BY ONLY <2>7 DEF Single
    <3>2. k \in 0..(q - 1) /\ k + 1 \in 0..q /\ at[i + 1] = 2 * (k + 1)
      BY ONLY q \in Nat, k \in 0..q, <2>5, <2>6, <3>1
    <3>3. UnitAt(b, 2 * k) = c
      <4>1. PICK a \in Nat : a = 2 * k
        BY ONLY k \in 0..q
      <4>2. Stands(w, b, a)
        BY ONLY <2>5, <4>1
      <4>3. UnitAt(b, a) = UnitAt(w, 0)
        BY ONLY a \in Nat, <3>1, <4>2, UnitsStand
      <4> QED BY ONLY <3>1, <4>1, <4>3
    <3>4. h[k + 1] = ReadUnit(Between(o), c)
      BY ONLY q \in Nat, <1>10, <2>1, <2>3, <3>2, <3>3, ReadsStep
    <3>5. h[k + 1] = Between(SubSeq(t, 1, i + 1))
      BY ONLY <2>4, <3>1, <3>4, UnitRead
    <3> QED BY ONLY <2>2, <3>2, <3>5 DEF T
  <2>8. CASE Paired(c, w)
    <3>1. IsWide(c) /\ Len(w) = 4 /\ UnitAt(w, 0) = Upper(c) /\ UnitAt(w, 2) = Lower(c)
      BY ONLY <2>8 DEF Paired
    <3>2. /\ k \in 0..(q - 1) /\ k + 1 \in 0..(q - 1) /\ k + 2 \in 0..q /\ (k + 1) + 1 = k + 2
          /\ at[i + 1] = 2 * (k + 2)
      BY ONLY q \in Nat, k \in 0..q, <2>5, <2>6, <3>1
    <3>3. UnitAt(b, 2 * k) = Upper(c) /\ UnitAt(b, 2 * (k + 1)) = Lower(c)
      <4>1. PICK a \in Nat : a = 2 * k /\ 2 * (k + 1) = a + 2
        BY ONLY k \in 0..q
      <4>2. Stands(w, b, a)
        BY ONLY <2>5, <4>1
      <4>3. UnitAt(b, a) = UnitAt(w, 0) /\ UnitAt(b, a + 2) = UnitAt(w, 2)
        BY ONLY a \in Nat, <3>1, <4>2, UnitsStand
      <4> QED BY ONLY <3>1, <4>1, <4>3, Zenon
    <3>4. h[k + 1] = ReadUnit(Between(o), Upper(c))
      BY ONLY q \in Nat, <1>10, <2>1, <2>3, <3>2, <3>3, ReadsStep
    <3>5. h[k + 2] = ReadUnit(h[k + 1], Lower(c))
      BY ONLY q \in Nat, <1>10, <3>2, <3>3, ReadsStep
    <3>6. h[k + 2] = Between(SubSeq(t, 1, i + 1))
      BY ONLY <2>4, <3>1, <3>4, <3>5, PairRead
    <3> QED BY ONLY <2>2, <3>2, <3>6 DEF T
  <2> QED BY <2>5, <2>7, <2>8
<1> HIDE DEF T
<1>14. n \in T
  <2>1. \A i \in 0..n : i \in T
    BY ONLY n \in Nat, <1>12, <1>13, UpTo
  <2> QED BY ONLY n \in Nat, <2>1
<1>15. PICK k \in 0..q : at[n] = 2 * k /\ h[k] = Between(SubSeq(t, 1, n))
  BY ONLY <1>14 DEF T
<1>16. k = q
  BY ONLY q \in Nat, k \in 0..q, <1>8, <1>9, <1>15
<1>17. SubSeq(t, 1, n) = t
  BY ONLY <1>0, <1>1, SubSeqFull
<1>18. Flush(Between(t)) = t
  <2>1. Between(t).out = t /\ Between(t).wait = 0
    BY DEF Between
  <2> QED BY ONLY <2>1 DEF Flush
<1>19. DecodeUcs2(b) = t
  BY ONLY <1>10, <1>15, <1>16, <1>17, <1>18
<1> QED BY ONLY <1>4, <1>19 DEF s

-------------------------------------------------------------------------------
(* A text on its way through a SUBMIT_SM and a DELIVER_SM.                   *)

\* The fields of b one after the other.
FieldReads(h, b, names, n) ==
  h = [k \in 0..n |-> IF k = 0 THEN [rest |-> b, fields |-> <<>>, eof |-> FALSE]
                      ELSE ReadField(h[k - 1], names[k])]

LEMMA FieldReadsExist ==
  ASSUME NEW b, NEW names, NEW n \in Nat
  PROVE  \E h : FieldReads(h, b, names, n)
<1> DEFINE first == [rest |-> b, fields |-> <<>>, eof |-> FALSE]
           Def(h, m) == h = [k \in 0..m |-> IF k = 0 THEN first
                                            ELSE ReadField(h[k - 1], names[k])]
           T == {m \in 0..n : \E h : Def(h, m)}
<1>1. 0 \in T
  <2> DEFINE g == [k \in 0..0 |-> first]
  <2>1. Def(g, 0)
    OBVIOUS
  <2> HIDE DEF g, Def
  <2> QED BY <2>1
<1>2. ASSUME NEW m \in 0..(n - 1), m \in T PROVE m + 1 \in T
  <2>1. PICK f : Def(f, m)
    BY <1>2
  <2> DEFINE next == ReadField(f[m], names[m + 1])
             g == [k \in 0..(m + 1) |-> IF k = m + 1 THEN next ELSE f[k]]
  <2>2. Def(g, m + 1)
    <3>1. ASSUME NEW k \in 0..(m + 1)
          PROVE  g[k] = IF k = 0 THEN first ELSE ReadField(g[k - 1], names[k])
      <4>1. CASE k = m + 1
        <5>1. k # 0 /\ k - 1 = m /\ m \in 0..(m + 1) /\ m # m + 1
          BY <4>1
        <5>2. g[k] = next /\ g[k - 1] = f[m]
          BY <4>1, <5>1
        <5> HIDE DEF g
        <5> QED BY <4>1, <5>1, <5>2
      <4>2. CASE k # m + 1
        <5>1. k \in 0..m /\ g[k] = f[k] /\ (k # 0 => k - 1 \in 0..(m + 1) /\ k - 1 # m + 1)
          BY <4>2
        <5>2. k # 0 => g[k - 1] = f[k - 1]
          BY <5>1
        <5>3. f[k] = IF k = 0 THEN first ELSE ReadField(f[k - 1], names[k])
          BY <2>1, <5>1
        <5> HIDE DEF g, first
        <5> QED BY <5>1, <5>2, <5>3
      <4> QED BY <4>1, <4>2
    <3>2. g = [k \in 0..(m + 1) |-> g[k]]
      OBVIOUS
    <3> HIDE DEF g, first
    <3> QED BY <3>1, <3>2
  <2>3. m + 1 \in 0..n
    OBVIOUS
  <2> HIDE DEF Def, g
  <2> QED BY <2>2, <2>3
<1> HIDE DEF T
<1>3. n \in T
  <2>1. \A k \in 0..n : k \in T
    BY <1>1, <1>2, UpTo
  <2> QED BY <2>1
<1>4. PICK h : Def(h, n)
  BY <1>3 DEF T
<1>5. FieldReads(h, b, names, n)
  BY <1>4 DEF FieldReads
<1> QED BY <1>5

LEMMA FieldNamed ==
  ASSUME NEW st, NEW f
  PROVE  DOMAIN ReadField(st, f).fields = DOMAIN st.fields \cup {f}
<1>1. ASSUME NEW v, NEW r, NEW e
      PROVE  DOMAIN Got(st, f, v, r, e).fields = DOMAIN st.fields \cup {f}
  BY DEF Got
<1>2. \E v, r, e : ReadField(st, f) = Got(st, f, v, r, e)
  <2>1. CASE f \in Variable /\ Zeros(st.rest) # {}
    BY ONLY <2>1, Zenon DEF ReadField
  <2>2. CASE f \in Variable /\ Zeros(st.rest) = {}
    BY ONLY <2>2, Zenon DEF ReadField
  <2>3. CASE f \notin Variable
    BY ONLY <2>3, Zenon DEF ReadField
  <2> QED BY ONLY <2>1, <2>2, <2>3, Zenon
<1> QED BY ONLY <1>1, <1>2

\* Whatever the buffer, every field of the layout gets a value.
LEMMA FieldsNamed ==
  ASSUME NEW b, NEW names, NEW n \in Nat, DOMAIN names = 1..n, Len(names) = n
  PROVE  DOMAIN ReadFields(names, b).fields = Range(names)
<1> DEFINE Def(h) == h = [k \in 0..Len(names) |->
                            IF k = 0 THEN [rest |-> b, fields |-> <<>>, eof |-> FALSE]
                            ELSE ReadField(h[k - 1], names[k])]
           c == CHOOSE h : h = [k \in 0..Len(names) |->
                            IF k = 0 THEN [rest |-> b, fields |-> <<>>, eof |-> FALSE]
                            ELSE ReadField(h[k - 1], names[k])]
<1>1. PICK h : Def(h)
  <2>1. \E h : FieldReads(h, b, names, Len(names))
    BY ONLY Len(names) = n, n \in Nat, FieldReadsExist
  <2> QED BY ONLY <2>1 DEF FieldReads
<1>2. Def(c)
  BY <1>1
<1>3. ReadFields(names, b) = c[Len(names)]
  BY ONLY Zenon DEF ReadFields
<1> HIDE DEF c
<1> DEFINE T == {k \in 0..n : DOMAIN c[k].fields = {names[i] : i \in 1..k}}
<1>4. 0 \in T
  <2>1. c[0] = [rest |-> b, fields |-> <<>>, eof |-> FALSE]
    BY ONLY Len(names) = n, n \in Nat, <1>2
  <2>2. c[0].fields = <<>> /\ DOMAIN <<>> = {}
    BY ONLY <2>1
  <2>3. {names[i] : i \in 1..0} = {}
    OBVIOUS
  <2> QED BY <2>2, <2>3
<1>5. ASSUME NEW k \in 0..(n - 1), k \in T PROVE k + 1 \in T
  <2>1. k + 1 \in 0..n /\ k + 1 # 0 /\ (k + 1) - 1 = k
    BY ONLY n \in Nat, k \in 0..(n - 1)
  <2>2. c[k + 1] = ReadField(c[k], names[k + 1])
    BY ONLY Len(names) = n, <1>2, <2>1
  <2>3. DOMAIN c[k + 1].fields = {names[i] : i \in 1..k} \cup {names[k + 1]}
    BY <1>5, <2>2, FieldNamed
  <2>4. \A i : i \in 1..(k + 1) <=> (i \in 1..k \/ i = k + 1)
    BY ONLY n \in Nat, k \in 0..(n - 1)
  <2>5. {names[i] : i \in 1..k} \cup {names[k + 1]} = {names[i] : i \in 1..(k + 1)}
    BY ONLY <2>4
  <2> QED BY ONLY <2>1, <2>3, <2>5
<1> HIDE DEF T
<1>6. n \in T
  <2>1. \A k \in 0..n : k \in T
    BY ONLY n \in Nat, <1>4, <1>5, UpTo
  <2> QED BY ONLY n \in Nat, <2>1
<1>7. Range(names) = {names[i] : i \in 1..n}
  BY DEF Range
<1> QED BY ONLY Len(names) = n, <1>3, <1>6, <1>7 DEF T

\* A PDU with its five parts.
IsRecord(p) == p = [id |-> p.id, status |-> p.status, seq |-> p.seq, tlvs |-> p.tlvs,
                    fields |-> p.fields]

LEMMA NewIs ==
  ASSUME NEW id
  PROVE  IsRecord(New(id)) /\ DOMAIN New(id).fields = Range(FieldsOf(id))
<1>1. PICK n \in Nat : DOMAIN FieldsOf(id) = 1..n /\ Len(FieldsOf(id)) = n
  BY Layouts
<1>2. DOMAIN ReadFields(FieldsOf(id), <<>>).fields = Range(FieldsOf(id))
  BY ONLY n \in Nat, <1>1, FieldsNamed
<1>3. PICK v : v = ReadFields(FieldsOf(id), <<>>).fields
  OBVIOUS
<1>4. New(id) = [id |-> id, status |-> 0, seq |-> 0, tlvs |-> <<>>, fields |-> v]
  BY ONLY <1>3 DEF New
<1> QED BY ONLY <1>2, <1>3, <1>4 DEF IsRecord

LEMMA SetFieldsIs ==
  ASSUME NEW p, NEW v, IsRecord(p)
  PROVE  /\ IsRecord(SetFields(p, v)) /\ DOMAIN SetFields(p, v).fields = DOMAIN p.fields
         /\ \A f \in DOMAIN p.fields :
              SetFields(p, v).fields[f] = IF f \in DOMAIN v THEN v[f] ELSE p.fields[f]
<1>1. PICK w : w = [f \in DOMAIN p.fields |-> IF f \in DOMAIN v THEN v[f] ELSE p.fields[f]]
  OBVIOUS
<1>2. SetFields(p, v) = [p EXCEPT !.fields = w]
  BY ONLY <1>1 DEF SetFields
<1>3. [p EXCEPT !.fields = w] = [id |-> p.id, status |-> p.status, seq |-> p.seq,
                                 tlvs |-> p.tlvs, fields |-> w]
  BY DEF IsRecord
<1> QED BY ONLY <1>1, <1>2, <1>3 DEF IsRecord

LEMMA NumberedIs ==
  ASSUME NEW p, NEW n, IsRecord(p)
  PROVE  \A f \in DOMAIN p.fields : f # "sm_length" => Numbered(p, n).fields[f] = p.fields[f]
<1>1. PICK q : q = [p EXCEPT !.seq = n]
  OBVIOUS
<1>2. IsRecord(q) /\ q.fields = p.fields
  <2>1. q = [id |-> p.id, status |-> p.status, seq |-> n, tlvs |-> p.tlvs, fields |-> p.fields]
    BY <1>1 DEF IsRecord
  <2> QED BY ONLY <2>1 DEF IsRecord
<1>3. ASSUME NEW f \in DOMAIN p.fields, f # "sm_length"
      PROVE  SetLength(q).fields[f] = p.fields[f]
  <2>1. PICK l : l = <<Len(q.fields["short_message"]) % 256>>
    OBVIOUS
  <2>2. SetLength(q) = q \/ SetLength(q) = [q EXCEPT !.fields["sm_length"] = l]
    BY ONLY <2>1 DEF SetLength
  <2>3. [q EXCEPT !.fields["sm_length"] = l].fields = [q.fields EXCEPT !["sm_length"] = l]
    BY ONLY <1>2 DEF IsRecord
  <2>4. [q.fields EXCEPT !["sm_length"] = l][f] = q.fields[f]
    BY ONLY f \in DOMAIN p.fields, f # "sm_length", <1>2
  <2> QED BY ONLY <1>2, <2>2, <2>3, <2>4
<1> QED BY ONLY <1>1, <1>3 DEF Numbered

\* The DELIVER_SM that brings a text.
Incoming(t) == Forwarded(Submitted(<<49>>, <<50>>, t))

LEMMA TextSent ==
  ASSUME NEW t, NEW n
  PROVE  TextOf(Numbered(Incoming(t), n)) = Decode(CodingOf(t), Encode(CodingOf(t), t))
<1>1. PICK c, x : c = CodingOf(t) /\ x = Encode(c, t)
  OBVIOUS
<1> DEFINE v == [source_addr |-> <<49>>, destination_addr |-> <<50>>, short_message |-> x]
           w == [dest_addr_ton |-> <<1>>, dest_addr_npi |-> <<1>>, data_coding |-> <<c>>,
                 registered_delivery |-> <<1>>]
<1>2. {"data_coding", "short_message"} \subseteq Range(MessageFields)
  <2>1. DOMAIN MessageFields = 1..18 /\ MessageFields[15] = "data_coding"
        /\ MessageFields[18] = "short_message"
    BY DEF MessageFields
  <2> HIDE DEF MessageFields
  <2> QED BY <2>1 DEF Range
<1>3. FieldsOf("SUBMIT_SM") = MessageFields /\ FieldsOf("DELIVER_SM") = MessageFields
  BY ONLY Zenon DEF FieldsOf
<1>4. PICK p0 : p0 = New("SUBMIT_SM") /\ IsRecord(p0) /\ DOMAIN p0.fields = Range(MessageFields)
  BY ONLY <1>3, NewIs
<1>5. PICK p1 : p1 = SetFields(p0, v) /\ IsRecord(p1) /\ DOMAIN p1.fields = Range(MessageFields)
                /\ p1.fields["short_message"] = x
  <2>1. "short_message" \in DOMAIN v /\ v["short_message"] = x
    OBVIOUS
  <2> HIDE DEF v
  <2> QED BY ONLY <1>2, <1>4, <2>1, SetFieldsIs
<1>6. PICK p2 : p2 = SetFields(p1, w) /\ IsRecord(p2)
                /\ p2.fields["short_message"] = x /\ p2.fields["data_coding"] = <<c>>
  <2>1. "short_message" \notin DOMAIN w /\ "data_coding" \in DOMAIN w /\ w["data_coding"] = <<c>>
    OBVIOUS
  <2> HIDE DEF w
  <2> QED BY ONLY <1>2, <1>5, <2>1, SetFieldsIs
<1>7. Submitted(<<49>>, <<50>>, t) = p2
  BY ONLY <1>1, <1>4, <1>5, <1>6 DEF Submitted, SubmitSm
<1>8. PICK d0 : d0 = New("DELIVER_SM") /\ IsRecord(d0) /\ DOMAIN d0.fields = Range(MessageFields)
  BY ONLY <1>3, NewIs
<1> DEFINE u == [f \in {"source_addr", "destination_addr", "data_coding", "short_message"} |->
                   p2.fields[f]]
<1>9. PICK d1 : d1 = SetFields(d0, u) /\ IsRecord(d1) /\ DOMAIN d1.fields = Range(MessageFields)
                /\ d1.fields["short_message"] = x /\ d1.fields["data_coding"] = <<c>>
  <2>1. /\ "short_message" \in DOMAIN u /\ u["short_message"] = x
        /\ "data_coding" \in DOMAIN u /\ u["data_coding"] = <<c>>
    BY ONLY <1>6
  <2> HIDE DEF u
  <2> QED BY ONLY <1>2, <1>8, <2>1, SetFieldsIs
<1>10. Incoming(t) = d1
  BY ONLY <1>7, <1>8, <1>9 DEF Incoming, Forwarded
<1>11. PICK m : m = Numbered(d1, n)
  OBVIOUS
<1>12. m.fields["short_message"] = x /\ m.fields["data_coding"] = <<c>>
  <2>1. "short_message" # "sm_length" /\ "data_coding" # "sm_length"
    OBVIOUS
  <2> QED BY ONLY <1>2, <1>9, <1>11, <2>1, NumberedIs
<1>13. TextOf(m) = Decode(c, x)
  <2>1. <<c>>[1] = c
    OBVIOUS
  <2> QED BY ONLY <1>12, <2>1, Zenon DEF TextOf
<1> QED BY ONLY <1>1, <1>10, <1>11, <1>13

\* What the receiver makes of a text.
LEMMA TextBack ==
  ASSUME NEW t, IsText(t)
  PROVE  Decode(CodingOf(t), Encode(CodingOf(t), t)) = t
           <=> Beyond(t) \/ Range(t) \cap Lossy = {}
<1>1. CASE Beyond(t)
  <2>1. CodingOf(t) = 8
    BY ONLY <1>1 DEF CodingOf
  <2>2. Encode(8, t) = FlattenSeq([i \in DOMAIN t |-> EncodeUcs2(t[i])])
    BY ONLY Zenon DEF Encode
  <2>3. Decode(8, Encode(8, t)) = DecodeUcs2(Encode(8, t))
    BY ONLY Zenon DEF Decode
  <2>4. DecodeUcs2(Encode(8, t)) = t
    BY <2>2, Ucs2ReadBack
  <2> QED BY ONLY <1>1, <2>1, <2>3, <2>4
<1>2. CASE ~ Beyond(t)
  <2>1. CodingOf(t) = 0
    BY ONLY <1>2 DEF CodingOf
  <2>2. t \in Seq(0..127)
    <3>1. t \in Seq(Nat) /\ \A i \in DOMAIN t : ~ (t[i] > 127)
      BY <1>2 DEF IsText, Beyond
    <3>2. PICK n \in Nat : n = Len(t) /\ DOMAIN t = 1..n
      BY ONLY <3>1, LenProperties
    <3>3. ASSUME NEW i \in 1..n PROVE t[i] \in 0..127
      <4>1. t[i] \in Nat
        BY ONLY i \in 1..n, <3>1, <3>2, ElementOfSeq
      <4>2. PICK c \in Nat : c = t[i]
        BY ONLY <4>1
      <4>3. ~ (c > 127)
        BY ONLY i \in 1..n, <3>1, <3>2, <4>2
      <4>4. c \in 0..127
        BY ONLY c \in Nat, <4>3
      <4> QED BY ONLY <4>2, <4>4
    <3>4. t \in [1..n -> 0..127]
      <4>1. t = [i \in 1..n |-> t[i]]
        BY ONLY <3>1, <3>2
      <4> QED BY ONLY <3>3, <4>1
    <3> QED BY ONLY n \in Nat, <3>4, SeqDef
  <2>3. Encode(0, t) = FlattenSeq([i \in DOMAIN t |-> EncodeGsm(t[i])])
    <3>1. 0 # 8
      OBVIOUS
    <3> QED BY ONLY <3>1, Zenon DEF Encode
  <2>4. ASSUME NEW e PROVE Decode(0, e) = [i \in DOMAIN e |-> DecodeGsm(e[i])]
    <3>1. 0 # 8 /\ 0 # 3
      OBVIOUS
    <3>2. \A i \in DOMAIN e : (CASE 0 = 3 -> DecodeLatin(e[i]) [] 0 = 0 -> DecodeGsm(e[i])
                                 [] OTHER -> Raw(e[i])) = DecodeGsm(e[i])
      BY ONLY <3>1, Zenon
    <3> QED BY ONLY <3>1, <3>2, Zenon DEF Decode
  <2>5. PICK e : e = FlattenSeq([i \in DOMAIN t |-> EncodeGsm(t[i])])
    OBVIOUS
  <2>6. [i \in DOMAIN e |-> DecodeGsm(e[i])] = t <=> Range(t) \cap Lossy = {}
    BY ONLY <2>2, <2>5, GsmReadBack
  <2> QED BY ONLY <1>2, <2>1, <2>3, <2>4, <2>5, <2>6
<1> QED BY <1>1, <1>2

\* The text is what the PDU of the same place was made of.
Carries(p, t) == t = <<>> \/ (t \in Texts /\ \E n : p = Numbered(Incoming(t), n))

TextInv == /\ texts \in Seq(Texts \cup {<<>>}) /\ Len(texts) = Len(sent)
           /\ \A i \in 1..Len(sent) : Carries(sent[i], texts[i])

LEMMA TextInvWrite ==
  ASSUME sent \in Seq(Frames), TextInv, NEW p, NEW t \in Texts \cup {<<>>}, Write(p, t),
         \A n : Carries(Numbered(p, n), t)
  PROVE  TextInv'
<1>1. sent \in Seq(Frames) /\ texts \in Seq(Texts \cup {<<>>}) /\ Len(texts) = Len(sent)
      /\ \A i \in 1..Len(sent) : Carries(sent[i], texts[i])
  BY DEF TextInv
<1>2. PICK n \in Nat : n = Len(sent) /\ n = Len(texts)
  BY ONLY <1>1, LenProperties
<1>3. PICK f : f = Numbered(p, n + 1)
  OBVIOUS
<1>4. sent' = Append(sent, f) /\ texts' = Append(texts, t)
  BY ONLY Write(p, t), <1>2, <1>3, Zenon DEF Write, NewSeqNum, Numbered
<1>5. Len(sent') = n + 1 /\ sent'[n + 1] = f /\ \A i \in 1..n : sent'[i] = sent[i]
  <2>1. sent \in Seq(Frames \cup {f})
    <3>1. DOMAIN sent = 1..n /\ \A i \in 1..n : sent[i] \in Frames
      BY ONLY <1>1, <1>2, LenProperties, ElementOfSeq
    <3>2. sent = [i \in 1..n |-> sent[i]]
      BY ONLY <1>1, <3>1
    <3>3. sent \in [1..n -> Frames \cup {f}]
      BY ONLY <3>1, <3>2
    <3> QED BY ONLY n \in Nat, <3>3, SeqDef
  <2>2. /\ Len(Append(sent, f)) = Len(sent) + 1 /\ Append(sent, f)[Len(sent) + 1] = f
        /\ \A i \in 1..Len(sent) : Append(sent, f)[i] = sent[i]
    BY ONLY f \in Frames \cup {f}, <2>1, AppendProperties
  <2> QED BY ONLY <1>2, <1>4, <2>2
<1>6. /\ texts' \in Seq(Texts \cup {<<>>}) /\ Len(texts') = n + 1 /\ texts'[n + 1] = t
      /\ \A i \in 1..n : texts'[i] = texts[i]
  BY ONLY t \in Texts \cup {<<>>}, <1>1, <1>2, <1>4, AppendProperties
<1>7. ASSUME NEW i \in 1..(n + 1) PROVE Carries(sent'[i], texts'[i])
  <2>1. CASE i = n + 1
    <3>1. Carries(f, t)
      BY <1>3
    <3> QED BY ONLY <1>5, <1>6, <2>1, <3>1
  <2>2. CASE i # n + 1
    <3>1. i \in 1..n
      BY ONLY n \in Nat, i \in 1..(n + 1), <2>2
    <3> QED BY ONLY <1>1, <1>2, <1>5, <1>6, <3>1
  <2> QED BY ONLY <2>1, <2>2
<1>8. Len(texts') = Len(sent') /\ \A i \in 1..Len(sent') : Carries(sent'[i], texts'[i])
  BY ONLY <1>5, <1>6, <1>7
<1> QED BY ONLY <1>6, <1>8 DEF TextInv, Carries

LEMMA TextInvKept == Kept /\ TextInv /\ [Next]_vars => TextInv'
<1> SUFFICES ASSUME Kept, TextInv, [Next]_vars PROVE TextInv'
  OBVIOUS
<1>0. sent \in Seq(Frames)
  BY DEF Kept, Lost, Inv, Returned
<1>1. CASE \E p \in Pdus : Write(p, <<>>)
  <2>1. PICK p \in Pdus : Write(p, <<>>)
    BY <1>1
  <2>2. <<>> \in Texts \cup {<<>>} /\ \A n : Carries(Numbered(p, n), <<>>)
    BY DEF Carries
  <2> QED BY ONLY TextInv, <1>0, <2>1, <2>2, TextInvWrite
<1>2. CASE \E t \in Texts : Write(Forwarded(Submitted(<<49>>, <<50>>, t)), t)
  <2>1. PICK t \in Texts : Write(Forwarded(Submitted(<<49>>, <<50>>, t)), t)
    BY <1>2
  <2>2. PICK p : p = Incoming(t)
    OBVIOUS
  <2>3. Write(p, t)
    BY ONLY <2>1, <2>2 DEF Incoming
  <2>4. t \in Texts \cup {<<>>} /\ \A n : Carries(Numbered(p, n), t)
    BY <2>2 DEF Carries
  <2> QED BY ONLY TextInv, <1>0, <2>3, <2>4, TextInvWrite
<1>3. CASE sent' = sent /\ texts' = texts
  BY ONLY TextInv, <1>3 DEF TextInv, Carries
<1>4. ReadLength \/ ReadBody \/ UNCHANGED vars => sent' = sent /\ texts' = texts
  BY ONLY Zenon DEF ReadLength, ReadBody, vars
<1> QED BY ONLY [Next]_vars, <1>1, <1>2, <1>3, <1>4 DEF Next

\* Whatever the texts and wherever the stream is cut, as long as no GENERIC_NACK has
\* been made up, a text is read as it was
\* written exactly when a character outside ASCII makes all of it UTF-16, or it has
\* none of the characters that data coding 0 loses (coder.go:12-131,
\* sms/tranceiver.go:66-78, 200-201, 252).
THEOREM CodedBack == Spec => []TextReadBack
<1>1. Init => TextInv
  <2> SUFFICES ASSUME Init PROVE TextInv
    OBVIOUS
  <2>1. sent = <<>> /\ texts = <<>>
    BY DEF Init
  <2> QED BY ONLY <2>1 DEF TextInv
<1>2. Kept /\ TextInv => TextReadBack
  <2>0. Lost => TextReadBack
    BY DEF Lost, TextReadBack
  <2> SUFFICES ASSUME Inv, TextInv, NEW i \in DOMAIN received, texts[i] # <<>>
               PROVE  TextOf(received[i]) = texts[i]
                        <=> Beyond(texts[i]) \/ Range(texts[i]) \cap Lossy = {}
    BY <2>0 DEF TextReadBack, Kept
  <2>1. /\ sent \in Seq(Frames) /\ received \in Seq(Frames)
        /\ Len(received) <= Len(sent) /\ \A j \in 1..Len(received) : received[j] = sent[j]
    BY DEF Inv, Returned
  <2>2. PICK r \in Nat, n \in Nat : r = Len(received) /\ n = Len(sent) /\ r <= n
                                    /\ DOMAIN received = 1..r
    BY ONLY <2>1, LenProperties
  <2>3. i \in 1..n /\ received[i] = sent[i]
    BY ONLY i \in DOMAIN received, <2>1, <2>2
  <2>4. PICK t : t = texts[i]
    OBVIOUS
  <2>5. t \in Texts /\ \E m : sent[i] = Numbered(Incoming(t), m)
    BY ONLY TextInv, texts[i] # <<>>, <2>2, <2>3, <2>4 DEF TextInv, Carries
  <2>6. TextOf(received[i]) = Decode(CodingOf(t), Encode(CodingOf(t), t))
    BY ONLY <2>3, <2>5, TextSent
  <2>7. IsText(t)
    BY <2>5, WireAssumption
  <2>8. Decode(CodingOf(t), Encode(CodingOf(t), t)) = t
          <=> Beyond(t) \/ Range(t) \cap Lossy = {}
    BY ONLY <2>7, TextBack
  <2> QED BY ONLY <2>4, <2>6, <2>8
<1>3. Kept /\ TextInv /\ [Next]_vars => TextInv'
  BY TextInvKept
<1> QED BY <1>1, <1>2, <1>3, Framing, PTL DEF Spec
===============================================================================
