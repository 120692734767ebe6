------------------------------- MODULE PduProofs -------------------------------
(* What a writer and the parser do to a PDU, for every PDU that its layout   *)
(* can hold.                                                                 *)
EXTENDS Pdu, FiniteSetTheorems, SequenceTheorems, TLAPS

-------------------------------------------------------------------------------
(* Induction, with a set for the predicate.                                  *)

Smaller == {ss \in Nat \X Nat : ss[1] < ss[2]}

LEMMA SmallerWellFounded == IsWellFoundedOn(Smaller, Nat)
<1>1. IsWellFoundedOn({ss \in Nat \X Nat : ss[1] < ss[2]}, Nat)
  BY NatLessThanWellFounded, Zenon DEF OpToRel
<1> QED BY <1>1 DEF Smaller

\* What holds of 0 and, below n, of the successor of every number it holds of,
\* holds up to n.
LEMMA UpTo ==
  ASSUME NEW n \in Nat, NEW T, 0 \in T, \A k \in 0..(n - 1) : k \in T => k + 1 \in T
  PROVE  \A k \in 0..n : k \in T
<1> SUFFICES ASSUME NEW k \in 0..n, k \notin T PROVE FALSE
  OBVIOUS
<1> DEFINE Out == {m \in 0..n : m \notin T}
<1>1. Out \subseteq Nat /\ Out # {}
  OBVIOUS
<1> HIDE DEF Out
<1>2. PICK m \in Out : \A x \in Out : ~ (<<x, m>> \in Smaller)
  BY <1>1, SmallerWellFounded, WFMin
<1>3. m \in 0..n /\ m \notin T /\ m # 0
  BY DEF Out
<1>4. m - 1 \in 0..(n - 1) /\ m - 1 \in 0..n /\ (m - 1) + 1 = m
  BY <1>3
<1>5. m - 1 \in T
  <2> SUFFICES ASSUME m - 1 \notin T PROVE FALSE
    OBVIOUS
  <2>1. m - 1 \in Out
    BY <1>4 DEF Out
  <2>2. <<m - 1, m>> \in Smaller
    BY <1>3, <1>4 DEF Smaller
  <2> QED BY <1>2, <2>1, <2>2
<1> QED BY <1>3, <1>4, <1>5

-------------------------------------------------------------------------------
(* Concatenation.                                                            *)

\* The elements of a concatenation.
LEMMA Joined ==
  ASSUME NEW S, NEW a \in Seq(S), NEW b \in Seq(S)
  PROVE  /\ a \o b \in Seq(S) /\ Len(a) \in Nat /\ Len(b) \in Nat
         /\ Len(a \o b) = Len(a) + Len(b)
         /\ \A j \in 1..Len(a) : (a \o b)[j] = a[j]
         /\ \A j \in 1..Len(b) : (a \o b)[Len(a) + j] = b[j]
<1>1. Len(a) \in Nat /\ Len(b) \in Nat
  BY LenProperties
<1>2. /\ a \o b \in Seq(S) /\ Len(a \o b) = Len(a) + Len(b)
      /\ \A i \in 1..(Len(a) + Len(b)) :
           (a \o b)[i] = IF i <= Len(a) THEN a[i] ELSE b[i - Len(a)]
  BY ConcatProperties
<1>3. ASSUME NEW p \in Nat, NEW q \in Nat
      PROVE  /\ \A j \in 1..p : j \in 1..(p + q) /\ j <= p
             /\ \A j \in 1..q : p + j \in 1..(p + q) /\ ~ (p + j <= p) /\ (p + j) - p = j
  OBVIOUS
<1>4. ASSUME NEW j \in 1..Len(a) PROVE (a \o b)[j] = a[j]
  BY <1>1, <1>2, <1>3
<1>5. ASSUME NEW j \in 1..Len(b) PROVE (a \o b)[Len(a) + j] = b[j]
  BY <1>1, <1>2, <1>3
<1> QED BY <1>1, <1>2, <1>4, <1>5

\* FlattenSeq by its prefixes.
LEMMA FlattenDef ==
  ASSUME NEW S, NEW s \in Seq(Seq(S)), Len(s) # 0
  PROVE  \E f : /\ f = [i \in 1..Len(s) |-> IF i = 1 THEN s[i] ELSE f[i - 1] \o s[i]]
                /\ FlattenSeq(s) = f[Len(s)]
<1> DEFINE n == Len(s)
           Def(f, m) == f = [i \in 1..m |-> IF i = 1 THEN s[i] ELSE f[i - 1] \o s[i]]
           T == {d \in Nat : \E f : Def(f, d + 1)}
<1>1. n \in Nat /\ n >= 1
  OBVIOUS
<1>2. 0 \in T
  <2>1. Def([i \in 1..(0 + 1) |-> s[1]], 0 + 1)
    OBVIOUS
  <2> HIDE DEF Def
  <2>2. \E f : Def(f, 0 + 1)
    BY <2>1
  <2> QED BY <2>2
<1>3. ASSUME NEW d \in 0..(n - 2), d \in T PROVE d + 1 \in T
  <2>1. PICK f : Def(f, d + 1)
    BY <1>3
  <2> DEFINE g == [i \in 1..(d + 2) |-> IF i = d + 2 THEN f[d + 1] \o s[d + 2] ELSE f[i]]
  <2>2. Def(g, d + 2)
    <3> SUFFICES ASSUME NEW i \in 1..(d + 2)
                 PROVE  g[i] = IF i = 1 THEN s[i] ELSE g[i - 1] \o s[i]
      OBVIOUS
    <3>1. CASE i = d + 2
      <4>1. i # 1 /\ i - 1 = d + 1 /\ d + 1 \in 1..(d + 2) /\ d + 1 # d + 2
        BY <3>1
      <4>2. g[i] = f[d + 1] \o s[d + 2] /\ g[d + 1] = f[d + 1]
        BY <3>1, <4>1
      <4> QED BY <3>1, <4>1, <4>2
    <3>2. CASE i # d + 2
      <4>1. i \in 1..(d + 1) /\ g[i] = f[i] /\ (i # 1 => g[i - 1] = f[i - 1])
        BY <3>2
      <4>2. f[i] = IF i = 1 THEN s[i] ELSE f[i - 1] \o s[i]
        BY <2>1, <4>1
      <4> QED BY <4>1, <4>2
    <3> QED BY <3>1, <3>2
  <2>3. d + 1 \in Nat /\ (d + 1) + 1 = d + 2
    OBVIOUS
  <2> QED BY <2>2, <2>3
<1>4. n - 1 \in T
  <2> HIDE DEF T
  <2>1. n - 1 \in Nat /\ (n - 1) - 1 = n - 2 /\ n - 1 \in 0..(n - 1)
    BY <1>1
  <2>2. \A d \in 0..((n - 1) - 1) : d \in T => d + 1 \in T
    BY <1>3, <2>1
  <2> HIDE DEF n
  <2> QED BY <1>2, <2>1, <2>2, UpTo
<1>5. (n - 1) + 1 = n
  BY <1>1
<1>6. \E f : Def(f, n)
  BY <1>4, <1>5
<1> DEFINE c == CHOOSE f : f = [i \in 1..n |-> IF i = 1 THEN s[i] ELSE f[i - 1] \o s[i]]
<1>7. Def(c, n)
  BY <1>6
<1>8. FlattenSeq(s) = c[n]
  BY DEF FlattenSeq
<1> QED BY <1>7, <1>8

\* What FlattenSeq returns is every sequence of s at a place of its own.
LEMMA FlattenAt ==
  ASSUME NEW S, NEW s \in Seq(Seq(S))
  PROVE  /\ FlattenSeq(s) \in Seq(S)
         /\ \E at \in [0..Len(s) -> Nat] :
              /\ at[0] = 0 /\ at[Len(s)] = Len(FlattenSeq(s))
              /\ \A i \in 1..Len(s) :
                   /\ at[i] = at[i - 1] + Len(s[i]) /\ at[i] <= Len(FlattenSeq(s))
                   /\ \A j \in 1..Len(s[i]) : FlattenSeq(s)[at[i - 1] + j] = s[i][j]
<1>1. PICK n \in Nat : n = Len(s)
  OBVIOUS
<1>2. \A i \in 1..n : s[i] \in Seq(S)
  BY <1>1
<1>3. PICK F : /\ DOMAIN F = 0..n /\ F[0] = <<>> /\ F[n] = FlattenSeq(s)
               /\ \A i \in 1..n : F[i] = F[i - 1] \o s[i]
  <2>1. CASE n = 0
    <3>1. FlattenSeq(s) = <<>>
      <4>1. FlattenSeq(s) = s
        BY <1>1, <2>1, Zenon DEF FlattenSeq
      <4>2. s = <<>>
        BY <1>1, <2>1, EmptySeq
      <4> QED BY <4>1, <4>2
    <3> DEFINE G == [i \in 0..0 |-> <<>>]
    <3>2. DOMAIN G = 0..n /\ G[0] = <<>> /\ G[n] = FlattenSeq(s) /\ 1..n = {}
      BY <2>1, <3>1
    <3> HIDE DEF G
    <3> QED BY <3>2
  <2>2. CASE n # 0
    <3>1. PICK f : /\ f = [i \in 1..n |-> IF i = 1 THEN s[i] ELSE f[i - 1] \o s[i]]
                   /\ FlattenSeq(s) = f[n]
      BY <1>1, <2>2, FlattenDef
    <3> DEFINE G == [i \in 0..n |-> IF i = 0 THEN <<>> ELSE f[i]]
    <3>2. DOMAIN G = 0..n /\ G[0] = <<>> /\ G[n] = FlattenSeq(s)
      BY <2>2, <3>1
    <3>3. ASSUME NEW i \in 1..n PROVE G[i] = G[i - 1] \o s[i]
      <4>a. f[i] = IF i = 1 THEN s[i] ELSE f[i - 1] \o s[i]
        BY <3>1
      <4>b. i \in 0..n /\ i # 0
        OBVIOUS
      <4>1. G[i] = f[i] /\ f[i] = IF i = 1 THEN s[i] ELSE f[i - 1] \o s[i]
        BY <4>a, <4>b
      <4>2. CASE i = 1
        <5>1. G[i - 1] = <<>> /\ s[i] \in Seq(S)
          BY <1>2, <4>2
        <5>2. <<>> \o s[i] = s[i]
          BY <5>1, ConcatEmptySeq
        <5> QED BY <4>1, <4>2, <5>1, <5>2
      <4>3. CASE i # 1
        <5>1. i - 1 \in 0..n /\ i - 1 # 0
          BY <4>3
        <5>2. G[i - 1] = f[i - 1]
          BY <5>1
        <5> QED BY <4>1, <4>3, <5>2
      <4> QED BY <4>2, <4>3
    <3> HIDE DEF G
    <3> QED BY <3>2, <3>3
  <2> QED BY <2>1, <2>2
<1>4. \A k \in 0..n : F[k] \in Seq(S)
  <2> DEFINE T == {k \in 0..n : F[k] \in Seq(S)}
  <2>1. 0 \in T
    BY <1>3
  <2>2. ASSUME NEW k \in 0..(n - 1), k \in T PROVE k + 1 \in T
    <3>1. k + 1 \in 1..n /\ (k + 1) - 1 = k /\ k + 1 \in 0..n
      OBVIOUS
    <3>2. F[k + 1] = F[k] \o s[k + 1] /\ F[k] \in Seq(S) /\ s[k + 1] \in Seq(S)
      BY <1>2, <1>3, <2>2, <3>1
    <3>3. F[k + 1] \in Seq(S)
      BY <3>2, ConcatProperties
    <3> QED BY <3>1, <3>3
  <2> HIDE DEF T
  <2>3. \A k \in 0..n : k \in T
    BY <2>1, <2>2, UpTo
  <2> QED BY <2>3 DEF T
<1>5. ASSUME NEW i \in 1..n
      PROVE  /\ Len(F[i]) = Len(F[i - 1]) + Len(s[i]) /\ Len(F[i]) \in Nat
             /\ Len(F[i - 1]) \in Nat /\ Len(s[i]) \in Nat
             /\ \A j \in 1..Len(F[i - 1]) : F[i][j] = F[i - 1][j]
             /\ \A j \in 1..Len(s[i]) : F[i][Len(F[i - 1]) + j] = s[i][j]
  <2>1. F[i] = F[i - 1] \o s[i] /\ F[i - 1] \in Seq(S) /\ s[i] \in Seq(S)
    <3>1. i - 1 \in 0..n
      OBVIOUS
    <3> QED BY <1>2, <1>3, <1>4, <3>1
  <2>2. PICK x \in Seq(S), y \in Seq(S) : x = F[i - 1] /\ y = s[i]
    BY <2>1
  <2>3. F[i] = x \o y
    BY <2>1, <2>2
  <2>4. PICK p \in Nat, q \in Nat : p = Len(x) /\ q = Len(y)
    BY LenProperties
  <2>5. /\ Len(F[i]) = p + q
        /\ \A k \in 1..p : F[i][k] = x[k]
        /\ \A k \in 1..q : F[i][p + k] = y[k]
    BY <2>3, <2>4, Joined
  <2>6. p + q \in Nat
    OBVIOUS
  <2> QED BY ONLY <2>2, <2>4, <2>5, <2>6
<1>6. ASSUME NEW i \in 0..n
      PROVE  \A k \in 0..(n - i) :
               /\ Len(F[i]) <= Len(F[i + k])
               /\ \A j \in 1..Len(F[i]) : F[i + k][j] = F[i][j]
  <2> DEFINE T == {k \in 0..(n - i) : /\ Len(F[i]) <= Len(F[i + k])
                                      /\ \A j \in 1..Len(F[i]) : F[i + k][j] = F[i][j]}
  <2>0. F[i] \in Seq(S) /\ Len(F[i]) \in Nat /\ n - i \in Nat
    BY <1>4
  <2>1. 0 \in T
    BY <2>0
  <2>2. ASSUME NEW k \in 0..((n - i) - 1), k \in T PROVE k + 1 \in T
    <3>1. i + k + 1 \in 1..n /\ (i + k + 1) - 1 = i + k /\ k + 1 \in 0..(n - i)
          /\ i + (k + 1) = i + k + 1
      OBVIOUS
    <3>2. /\ Len(F[i]) <= Len(F[i + k])
          /\ \A j \in 1..Len(F[i]) : F[i + k][j] = F[i][j]
      BY <2>2
    <3>a. PICK l \in 1..n : l = i + k + 1 /\ l - 1 = i + k
      BY <3>1
    <3>b. /\ Len(F[l]) = Len(F[l - 1]) + Len(s[l])
          /\ Len(F[l - 1]) \in Nat /\ Len(s[l]) \in Nat
          /\ \A j \in 1..Len(F[l - 1]) : F[l][j] = F[l - 1][j]
      BY <1>5
    <3>c. \A p, q \in Nat : p <= p + q /\ p + q \in Nat
      OBVIOUS
    <3>3. /\ Len(F[i + k]) \in Nat /\ Len(F[i + k]) <= Len(F[l])
          /\ Len(F[l]) \in Nat
          /\ \A j \in 1..Len(F[i + k]) : F[l][j] = F[i + k][j]
      BY <3>a, <3>b, <3>c
    <3>4. \A j \in 1..Len(F[i]) : F[l][j] = F[i][j]
      BY <2>0, <3>2, <3>3
    <3> QED BY <2>0, <3>1, <3>2, <3>a, <3>3, <3>4
  <2> HIDE DEF T
  <2>3. \A k \in 0..(n - i) : k \in T
    BY <2>0, <2>1, <2>2, UpTo
  <2> QED BY <2>3 DEF T
<1> DEFINE at == [i \in 0..n |-> Len(F[i])]
<1>7. at \in [0..n -> Nat] /\ at[0] = 0 /\ at[n] = Len(FlattenSeq(s))
  BY <1>3, <1>4
<1>8. ASSUME NEW i \in 1..n
      PROVE  /\ at[i] = at[i - 1] + Len(s[i]) /\ at[i] <= Len(FlattenSeq(s))
             /\ \A j \in 1..Len(s[i]) : FlattenSeq(s)[at[i - 1] + j] = s[i][j]
  <2>1. i \in 0..n /\ i - 1 \in 0..n /\ n - i \in 0..(n - i) /\ i + (n - i) = n
    OBVIOUS
  <2>2. /\ Len(F[i]) <= Len(F[n])
        /\ \A j \in 1..Len(F[i]) : F[n][j] = F[i][j]
    BY <1>6, <2>1
  <2>3. \A j \in 1..Len(s[i]) : Len(F[i - 1]) + j \in 1..Len(F[i])
    <3>1. /\ Len(F[i]) = Len(F[i - 1]) + Len(s[i])
          /\ Len(F[i - 1]) \in Nat /\ Len(s[i]) \in Nat
      BY <1>5
    <3>2. \A p, q \in Nat : \A j \in 1..q : p + j \in 1..(p + q)
      OBVIOUS
    <3> QED BY <3>1, <3>2
  <2> QED BY <1>3, <1>5, <2>1, <2>2, <2>3
<1>9. FlattenSeq(s) \in Seq(S)
  BY <1>3, <1>4
<1> HIDE DEF at
<1> QED BY <1>1, <1>7, <1>8, <1>9

-------------------------------------------------------------------------------
(* One field.                                                                *)

\* A string that begins with another.
LEMMA Begins ==
  ASSUME NEW S, NEW r \in Seq(S), NEW w \in Seq(S), Len(w) <= Len(r),
         \A j \in 1..Len(w) : r[j] = w[j]
  PROVE  SubSeq(r, 1, Len(w)) = w
<1>1. PICK m \in Nat, n \in Nat : m = Len(w) /\ n = Len(r) /\ m <= n
  BY LenProperties
<1>2. \A j \in 1..m : r[j] \in S
  BY <1>1, ElementOfSeq
<1>3. 1 \in Int /\ m \in Int /\ (m - 1) + 1 = m /\ (1 <= m \/ m = 0)
  OBVIOUS
<1>4. /\ SubSeq(r, 1, m) \in Seq(S) /\ Len(SubSeq(r, 1, m)) = IF 1 <= m THEN (m - 1) + 1 ELSE 0
      /\ \A i \in 1..((m - 1) + 1) : SubSeq(r, 1, m)[i] = r[(1 + i) - 1]
  BY <1>2, <1>3, SubSeqProperties
<1>5. Len(SubSeq(r, 1, m)) = m /\ \A i \in 1..m : SubSeq(r, 1, m)[i] = r[i]
  BY <1>3, <1>4
<1> QED BY <1>1, <1>4, <1>5, SeqEqual

\* What is left of a string.
LEMMA DropIs ==
  ASSUME NEW S, NEW r \in Seq(S), NEW m \in 0..Len(r)
  PROVE  /\ Drop(r, m) \in Seq(S) /\ Len(Drop(r, m)) = Len(r) - m
         /\ \A j \in 1..(Len(r) - m) : Drop(r, m)[j] = r[m + j]
<1>1. PICK n \in Nat : n = Len(r)
  BY LenProperties
<1>2. \A j \in (m + 1)..n : r[j] \in S
  <2>1. \A j \in (m + 1)..n : j \in 1..n
    BY <1>1
  <2> QED BY <1>1, <2>1, ElementOfSeq
<1>3. m + 1 \in Int /\ n \in Int /\ (n - (m + 1)) + 1 = n - m
      /\ (m + 1 <= n \/ n = m) /\ (n = m => ~ (m + 1 <= n) /\ n - m = 0)
      /\ \A j \in 1..(n - m) : ((m + 1) + j) - 1 = m + j
  BY <1>1
<1>4. /\ SubSeq(r, m + 1, n) \in Seq(S)
      /\ Len(SubSeq(r, m + 1, n)) = IF m + 1 <= n THEN (n - (m + 1)) + 1 ELSE 0
      /\ \A i \in 1..((n - (m + 1)) + 1) : SubSeq(r, m + 1, n)[i] = r[((m + 1) + i) - 1]
  BY <1>2, <1>3, SubSeqProperties
<1>5. Len(SubSeq(r, m + 1, n)) = n - m
  BY <1>3, <1>4
<1>6. \A j \in 1..(n - m) : SubSeq(r, m + 1, n)[j] = r[m + j]
  BY <1>3, <1>4
<1>7. Drop(r, m) = SubSeq(r, m + 1, n)
  BY <1>1 DEF Drop
<1> QED BY <1>1, <1>4, <1>5, <1>6, <1>7

LEMMA DropDrop ==
  ASSUME NEW S, NEW r \in Seq(S), NEW m \in Nat, NEW k \in Nat, m + k <= Len(r)
  PROVE  Drop(Drop(r, m), k) = Drop(r, m + k)
<1>1. PICK n \in Nat : n = Len(r)
  BY LenProperties
<1>2. m \in 0..n /\ m + k \in 0..n /\ k \in 0..(n - m) /\ (n - m) - k = n - (m + k)
  BY <1>1
<1>3. PICK t \in Seq(S) : t = Drop(r, m)
  BY <1>1, <1>2, DropIs
<1>4. k \in 0..Len(t) /\ Len(t) = n - m /\ \A j \in 1..(n - m) : t[j] = r[m + j]
  BY <1>1, <1>2, <1>3, DropIs
<1>a. PICK d \in Nat : d = Len(t)
  BY LenProperties
<1>b. k \in 0..d
  BY <1>4, <1>a
<1>c. /\ Drop(t, k) \in Seq(S) /\ Len(Drop(t, k)) = d - k
      /\ \A j \in 1..(d - k) : Drop(t, k)[j] = t[k + j]
  BY <1>a, <1>b, DropIs
<1>5. /\ Drop(t, k) \in Seq(S) /\ Len(Drop(t, k)) = (n - m) - k
      /\ \A j \in 1..((n - m) - k) : Drop(t, k)[j] = t[k + j]
  BY ONLY <1>4, <1>a, <1>c
<1>6. /\ Drop(r, m + k) \in Seq(S) /\ Len(Drop(r, m + k)) = n - (m + k)
      /\ \A j \in 1..(n - (m + k)) : Drop(r, m + k)[j] = r[(m + k) + j]
  BY <1>1, <1>2, DropIs
<1>7. \A j \in 1..(n - (m + k)) : k + j \in 1..(n - m) /\ m + (k + j) = (m + k) + j
  BY <1>2
<1>8. \A j \in 1..(n - (m + k)) : Drop(t, k)[j] = Drop(r, m + k)[j]
  BY <1>2, <1>4, <1>5, <1>6, <1>7
<1> QED BY <1>2, <1>3, <1>5, <1>6, <1>8, SeqEqual

\* String w stands in b behind its first a bytes.
Stands(w, b, a) == a + Len(w) <= Len(b) /\ \A j \in 1..Len(w) : b[a + j] = w[j]

\* The text's length has been read before the text.
LengthRead(f, w, fields) == f = "short_message" => fields["sm_length"] = <<Len(w)>>

\* What reading has come to, and one value more.
State(rest, fields) == [rest |-> rest, eof |-> FALSE, fields |-> fields]
With(fields, f, v) ==
  [g \in DOMAIN fields \cup {f} |-> IF g = f THEN v ELSE fields[g]]

LEMMA FieldBytesTyped ==
  ASSUME NEW f, NEW w \in Seq(Byte)
  PROVE  FieldBytes(f, w) \in Seq(Byte) /\ Len(FieldBytes(f, w)) \in Nat
<1>1. 0 \in Byte
  BY DEF Byte
<1>2. FieldBytes(f, w) \in Seq(Byte)
  BY <1>1 DEF FieldBytes
<1> QED BY <1>2, LenProperties

\* Reading a field takes its bytes off the buffer, all of them and no more, and
\* gives it the value it was written with.
LEMMA FieldRead ==
  ASSUME NEW r \in Seq(Byte), NEW f, NEW w \in Seq(Byte), NEW fs, FieldFits(f, w),
         LengthRead(f, w, fs), Stands(FieldBytes(f, w), r, 0)
  PROVE  ReadField(State(r, fs), f) = State(Drop(r, Len(FieldBytes(f, w))), With(fs, f, w))
<1> DEFINE st == State(r, fs)
<1>1. PICK m \in Nat, n \in Nat : m = Len(w) /\ n = Len(r) /\ DOMAIN r = 1..n /\ DOMAIN w = 1..m
  BY LenProperties
<1>a. PICK x \in Seq(Byte) : x = FieldBytes(f, w) /\ Len(x) \in Nat
  BY FieldBytesTyped
<1>b. Len(FieldBytes(f, w)) <= n
      /\ \A j \in 1..Len(FieldBytes(f, w)) : r[j] = FieldBytes(f, w)[j]
  <2>1. 0 + Len(x) <= n /\ \A j \in 1..Len(x) : r[0 + j] = x[j]
    BY <1>1, <1>a DEF Stands
  <2>2. \A j \in 1..Len(x) : 0 + j = j
    BY <1>a
  <2> QED BY <1>a, <2>1, <2>2
<1>2. st.rest = r /\ st.fields = fs /\ st.eof = FALSE
  BY DEF State
<1>3. ASSUME NEW k PROVE Got(st, f, w, Drop(r, k), FALSE) = State(Drop(r, k), With(fs, f, w))
  BY DEF Got, State, With
<1> HIDE DEF st
<1>4. CASE f \in Variable
  <2>1. FieldBytes(f, w) = Append(w, 0) /\ Len(Append(w, 0)) = m + 1
        /\ Append(w, 0)[m + 1] = 0 /\ \A j \in 1..m : Append(w, 0)[j] = w[j]
    BY <1>1, <1>4 DEF FieldBytes
  <2>2. m + 1 <= n /\ r[m + 1] = 0 /\ \A j \in 1..m : r[j] = w[j] /\ w[j] # 0
    <3>1. \A j \in 1..m : w[j] # 0
      BY <1>1, <1>4 DEF FieldFits
    <3>2. \A j \in 1..(m + 1) : r[j] = Append(w, 0)[j]
      BY <1>b, <2>1
    <3>3. m + 1 \in 1..(m + 1) /\ \A j \in 1..m : j \in 1..(m + 1)
      OBVIOUS
    <3>4. m + 1 <= n
      BY <1>b, <2>1
    <3> QED BY <2>1, <3>1, <3>2, <3>3, <3>4
  <2>3. Zeros(r) = {m + 1}
    BY <1>1, <2>2 DEF Zeros
  <2>4. FirstZero(r) = m + 1 /\ (m + 1) - 1 = m
    BY <2>3 DEF FirstZero
  <2>5. SubSeq(r, 1, m) = w
    BY <1>1, <2>2, Begins
  <2>6. ReadField(st, f) = Got(st, f, w, Drop(r, m + 1), FALSE)
    BY <1>2, <1>4, <2>3, <2>4, <2>5 DEF ReadField
  <2> QED BY <1>3, <2>1, <2>6 DEF st
<1>5. CASE f \notin Variable
  <2>1. FieldBytes(f, w) = w /\ m <= n /\ \A j \in 1..m : r[j] = w[j]
    BY <1>1, <1>b, <1>5 DEF FieldBytes
  <2>2. Take(r, m) = w
    <3>1. Take(r, m) = SubSeq(r, 1, m)
      BY <1>1, <2>1 DEF Take
    <3> QED BY <1>1, <2>1, <3>1, Begins
  <2>3. Padded(w, m) = w
    <3>1. Padded(w, m) = [i \in 1..m |-> w[i]]
      BY <1>1 DEF Padded
    <3> QED BY <1>1, <3>1
  <2>4. (r = <<>> /\ m > 0) = FALSE
    BY <1>1, <2>1
  <2>5. (IF f = "short_message" THEN fs["sm_length"][1] ELSE 1) = m
    BY <1>1, <1>5 DEF FieldFits, LengthRead
  <2>6. ReadField(st, f) = Got(st, f, w, Drop(r, m), FALSE)
    BY <1>2, <1>5, <2>2, <2>3, <2>4, <2>5 DEF ReadField
  <2> QED BY <1>1, <1>3, <2>1, <2>6 DEF st
<1> QED BY <1>4, <1>5

-------------------------------------------------------------------------------
(* All the fields.                                                           *)

LEMMA NoFields == <<>> = [g \in {} |-> g]
<1>1. DOMAIN <<>> = {}
  OBVIOUS
<1> QED BY <1>1, SMT

\* The same in the middle of a buffer.
LEMMA FieldAt ==
  ASSUME NEW b \in Seq(Byte), NEW a \in Nat, NEW f, NEW w \in Seq(Byte), NEW fs, NEW m,
         FieldFits(f, w), LengthRead(f, w, fs), m = Len(FieldBytes(f, w)),
         Stands(FieldBytes(f, w), b, a)
  PROVE  ReadField(State(Drop(b, a), fs), f) = State(Drop(b, a + m), With(fs, f, w))
<1>1. PICK l \in Nat : l = Len(b)
  BY LenProperties
<1>a. PICK x \in Seq(Byte) : x = FieldBytes(f, w) /\ Len(x) = m
  BY FieldBytesTyped
<1>b. m \in Nat /\ a + m <= l /\ \A j \in 1..m : b[a + j] = x[j]
  BY <1>1, <1>a, LenProperties DEF Stands
<1>2. a \in 0..l
  BY <1>b
<1>3. PICK r \in Seq(Byte) : r = Drop(b, a)
  BY <1>1, <1>2, DropIs
<1>4. Len(r) = l - a /\ \A j \in 1..(l - a) : r[j] = b[a + j]
  BY <1>1, <1>2, <1>3, DropIs
<1>5. 0 + m <= l - a /\ \A j \in 1..m : j \in 1..(l - a) /\ 0 + j = j
  BY <1>b, <1>2
<1>6. Stands(x, r, 0)
  <2>1. 0 + m <= Len(r)
    BY <1>4, <1>5
  <2>2. \A j \in 1..m : r[0 + j] = x[j]
    BY <1>b, <1>4, <1>5
  <2> QED BY <1>a, <2>1, <2>2 DEF Stands
<1>7. ReadField(State(r, fs), f) = State(Drop(r, m), With(fs, f, w))
  BY <1>a, <1>6, FieldRead
<1>8. Drop(r, m) = Drop(b, a + m)
  BY <1>1, <1>b, <1>3, DropDrop
<1> QED BY <1>3, <1>7, <1>8

\* The text's length is read before the text.
LengthFirst(names) ==
  \A i \in DOMAIN names : names[i] = "short_message" =>
    \E j \in 1..(i - 1) : names[j] = "sm_length"

\* Field i of n, names[i], stands in b behind the ones before it.
FieldsAt(b, n, names, v, at) ==
  /\ DOMAIN names = 1..n /\ Len(names) = n /\ LengthFirst(names)
  /\ v \in [Range(names) -> Seq(Byte)]
  /\ \A i \in 1..n : FieldFits(names[i], v[names[i]])
  /\ "short_message" \in Range(names) => v["sm_length"] = <<Len(v["short_message"])>>
  /\ at \in [0..n -> Nat] /\ at[0] = 0
  /\ \A i \in 1..n :
       /\ at[i] = at[i - 1] + Len(FieldBytes(names[i], v[names[i]]))
       /\ Stands(FieldBytes(names[i], v[names[i]]), b, at[i - 1])

\* Fields that stand one after the other in a buffer are read one after the other,
\* and what follows them stays in the buffer.
LEMMA FieldsRead ==
  ASSUME NEW n \in Nat, NEW b \in Seq(Byte), NEW names, NEW v, NEW at,
         FieldsAt(b, n, names, v, at)
  PROVE  ReadFields(names, b) = State(Drop(b, at[n]), v)
<1> SUFFICES
      ASSUME DOMAIN names = 1..n, Len(names) = n, LengthFirst(names),
             v \in [Range(names) -> Seq(Byte)],
             \A i \in 1..n : FieldFits(names[i], v[names[i]]),
             "short_message" \in Range(names) => v["sm_length"] = <<Len(v["short_message"])>>,
             at \in [0..n -> Nat], at[0] = 0,
             \A i \in 1..n :
               /\ at[i] = at[i - 1] + Len(FieldBytes(names[i], v[names[i]]))
               /\ Stands(FieldBytes(names[i], v[names[i]]), b, at[i - 1])
      PROVE  ReadFields(names, b) = State(Drop(b, at[n]), v)
  BY DEF FieldsAt
<1> DEFINE First(k) == {names[i] : i \in 1..k}
           st(k) == State(Drop(b, at[k]), [g \in First(k) |-> v[g]])
           init == [rest |-> b, fields |-> <<>>, eof |-> FALSE]
<1>1. st(0) = init
  <2>1. Drop(b, 0) = b
    <3>1. PICK l \in Nat : l = Len(b)
      BY LenProperties
    <3>2. 0 \in 0..l /\ l - 0 = l /\ \A j \in 1..l : 0 + j = j
      OBVIOUS
    <3> QED BY ONLY <3>1, <3>2, DropIs, SeqEqual
  <2>2. First(0) = {}
    OBVIOUS
  <2>3. [g \in First(0) |-> v[g]] = <<>>
    BY <2>2, NoFields
  <2>4. at[0] = 0 /\ Drop(b, at[0]) = b
    BY <2>1
  <2> HIDE DEF First
  <2> QED BY ONLY <2>3, <2>4 DEF State
<1>2. ASSUME NEW k \in 1..n PROVE ReadField(st(k - 1), names[k]) = st(k)
  <2> DEFINE f == names[k]
             w == v[f]
             fs == [g \in First(k - 1) |-> v[g]]
  <2>1. w \in Seq(Byte) /\ FieldFits(f, w)
    BY DEF Range
  <2>2. PICK a \in Nat, m \in Nat : a = at[k - 1] /\ m = Len(FieldBytes(f, w))
    <3>1. k - 1 \in 0..n
      OBVIOUS
    <3>2. at[k - 1] \in Nat
      BY <3>1
    <3> HIDE DEF f, w
    <3> QED BY <2>1, <3>2, FieldBytesTyped
  <2>3. at[k] = a + m /\ Stands(FieldBytes(f, w), b, a)
    BY <2>2
  <2>7. LengthRead(f, w, fs)
    <3> SUFFICES ASSUME f = "short_message" PROVE fs["sm_length"] = <<Len(w)>>
      BY DEF LengthRead
    <3>1. PICK j \in 1..(k - 1) : names[j] = "sm_length"
      BY DEF LengthFirst
    <3>2. "sm_length" \in First(k - 1) /\ "short_message" \in Range(names)
      BY <3>1 DEF Range
    <3> QED BY <3>2 DEF LengthRead
  <2>8. ReadField(State(Drop(b, a), fs), f) = State(Drop(b, a + m), With(fs, f, w))
    <3> HIDE DEF f, w, fs
    <3> QED BY ONLY <2>1, <2>2, <2>3, <2>7, FieldAt
  <2>10. With(fs, f, w) = [g \in First(k) |-> v[g]]
    <3>1. DOMAIN fs \cup {f} = First(k)
      <4>1. \A i \in 1..k : i \in 1..(k - 1) \/ i = k
        OBVIOUS
      <4> QED BY <4>1, SMTT(30)
    <3>2. \A g \in First(k) : (IF g = f THEN w ELSE fs[g]) = v[g]
      BY <3>1
    <3> QED BY <3>1, <3>2 DEF With
  <2> QED BY <2>2, <2>3, <2>8, <2>10
<1> DEFINE Def(h) == h = [k \in 0..n |-> IF k = 0 THEN init ELSE ReadField(h[k - 1], names[k])]
           g == [k \in 0..n |-> st(k)]
           c == CHOOSE h : h = [k \in 0..n |-> IF k = 0 THEN init
                                              ELSE ReadField(h[k - 1], names[k])]
<1>3. Def(g)
  <2>1. ASSUME NEW k \in 0..n
        PROVE  g[k] = IF k = 0 THEN init ELSE ReadField(g[k - 1], names[k])
    <3>1. CASE k = 0
      BY <1>1, <3>1
    <3>2. CASE k # 0
      <4>1. k \in 1..n /\ k - 1 \in 0..n
        BY <3>2
      <4>2. g[k] = st(k) /\ g[k - 1] = st(k - 1)
        BY <4>1
      <4> QED BY <1>2, <3>2, <4>1, <4>2
    <3> QED BY <3>1, <3>2
  <2> HIDE DEF st, init
  <2> QED BY <2>1
<1>4. Def(c)
  <2> HIDE DEF g, st, init
  <2> QED BY <1>3
<1>5. \A k \in 0..n : c[k] = st(k)
  <2> HIDE DEF c, st, init
  <2> DEFINE T == {k \in 0..n : c[k] = st(k)}
  <2>1. 0 \in T
    BY <1>1, <1>4
  <2>2. ASSUME NEW k \in 0..(n - 1), k \in T PROVE k + 1 \in T
    <3>1. k + 1 \in 1..n /\ k + 1 \in 0..n /\ (k + 1) - 1 = k /\ k + 1 # 0
      OBVIOUS
    <3>2. c[k + 1] = ReadField(c[k], names[k + 1])
      BY <1>4, <3>1
    <3>3. ReadField(st(k), names[k + 1]) = st(k + 1)
      BY <1>2, <3>1
    <3> QED BY <2>2, <3>1, <3>2, <3>3
  <2> HIDE DEF T
  <2>3. \A k \in 0..n : k \in T
    BY <2>1, <2>2, UpTo
  <2> QED BY <2>3 DEF T
<1>6. ReadFields(names, b) = c[n]
  BY DEF ReadFields
<1>7. [g1 \in First(n) |-> v[g1]] = v
  BY DEF Range
<1> HIDE DEF c, First
<1> QED BY <1>5, <1>6, <1>7

-------------------------------------------------------------------------------
(* The optional fields.                                                      *)

\* What SetToSeq makes of a finite set has every element.
LEMMA Listed ==
  ASSUME NEW S, IsFiniteSet(S)
  PROVE  /\ SetToSeq(S) \in Seq(S)
         /\ S = {SetToSeq(S)[i] : i \in 1..Len(SetToSeq(S))}
<1> DEFINE n == Cardinality(S)
           c == CHOOSE f \in [1..n -> S] : IsInjective(f)
<1>1. n \in Nat /\ ExistsBijection(1..n, S)
  BY FS_CardinalityType
<1>2. \E f \in [1..n -> S] : IsInjective(f)
  BY <1>1 DEF ExistsBijection, Bijection, Injection
<1>3. c \in [1..n -> S] /\ IsInjective(c)
  BY <1>2
<1>4. SetToSeq(S) = c
  BY DEF SetToSeq
<1>5. c \in Injection(1..n, S)
  BY <1>3 DEF Injection
<1>6. IsFiniteSet(1..n) /\ Cardinality(1..n) = n
  BY <1>1, FS_Interval
<1>7. c \in Surjection(1..n, S)
  BY <1>5, <1>6, FS_Injection
<1>8. c \in Seq(S) /\ Len(c) = n
  BY <1>1, <1>3
<1>10. S = {c[i] : i \in 1..n}
  BY <1>3, <1>7 DEF Surjection
<1> HIDE DEF c, n
<1> QED BY <1>4, <1>8, <1>10

LEMMA U16Is ==
  ASSUME NEW n, IsWord(n)
  PROVE  /\ U16(n) \in Seq(Byte) /\ Len(U16(n)) = 2
         /\ U16(n)[1] \in Byte /\ U16(n)[2] \in Byte
         /\ U16(n)[1] * 256 + U16(n)[2] = n
<1>1. PICK d \in Nat, m \in 0..255 : d = n \div 256 /\ m = n % 256 /\ n = 256 * d + m
  <2>1. n \div 256 \in Nat /\ n % 256 \in 0..255 /\ n = 256 * (n \div 256) + (n % 256)
    BY SMTT(30) DEF IsWord
  <2> QED BY ONLY <2>1, ZenonT(30)
<1>2. d \in 0..255
  BY <1>1, SMT DEF IsWord
<1>3. d % 256 = d
  BY <1>2
<1>4. U16(n) = <<d, m>>
  BY <1>1, <1>3 DEF U16
<1>5. d \in Byte /\ m \in Byte
  BY <1>2 DEF Byte
<1>6. d * 256 + m = n
  BY <1>1
<1> QED BY ONLY <1>4, <1>5, <1>6

\* An optional field as it is written.
Tlv(t, w) == U16(t) \o U16(Len(w)) \o w

LEMMA TlvBytes ==
  ASSUME NEW t, IsWord(t), NEW w \in Seq(Byte), IsWord(Len(w))
  PROVE  /\ Tlv(t, w) \in Seq(Byte) /\ Len(Tlv(t, w)) = 4 + Len(w)
         /\ Tlv(t, w)[1] * 256 + Tlv(t, w)[2] = t
         /\ Tlv(t, w)[3] * 256 + Tlv(t, w)[4] = Len(w)
         /\ \A j \in 1..Len(w) : Tlv(t, w)[4 + j] = w[j]
<1>1. PICK n \in Nat : n = Len(w) /\ IsWord(n)
  BY LenProperties
<1>2. PICK a \in Seq(Byte) : a = U16(t)
  BY U16Is
<1>3. PICK b \in Seq(Byte) : b = U16(n)
  BY <1>1, U16Is
<1>a. Len(a) = 2 /\ a[1] * 256 + a[2] = t
  BY ONLY IsWord(t), <1>2, U16Is
<1>b. Len(b) = 2 /\ b[1] * 256 + b[2] = n
  BY ONLY <1>1, <1>3, U16Is
<1>d. a \o b \in Seq(Byte)
  BY ONLY a \in Seq(Byte), b \in Seq(Byte), ConcatProperties
<1>4. PICK c \in Seq(Byte) : c = a \o b
  BY <1>d, Zenon
<1>c. Len(c) = 4 /\ c[1] = a[1] /\ c[2] = a[2] /\ c[3] = b[1] /\ c[4] = b[2]
  <2>1. /\ Len(c) = Len(a) + Len(b)
        /\ \A j \in 1..Len(a) : c[j] = a[j]
        /\ \A j \in 1..Len(b) : c[Len(a) + j] = b[j]
    BY ONLY a \in Seq(Byte), b \in Seq(Byte), <1>4, Joined
  <2>2. 2 + 1 = 3 /\ 2 + 2 = 4 /\ 1 \in 1..2 /\ 2 \in 1..2
    OBVIOUS
  <2>3. c[2 + 1] = b[1] /\ c[2 + 2] = b[2] /\ c[1] = a[1] /\ c[2] = a[2] /\ Len(c) = 2 + 2
    BY ONLY <1>a, <1>b, <2>1, <2>2
  <2> QED BY <2>2, <2>3
<1>5. /\ c \o w \in Seq(Byte) /\ Len(c \o w) = 4 + n
      /\ \A j \in 1..4 : (c \o w)[j] = c[j]
      /\ \A j \in 1..n : (c \o w)[4 + j] = w[j]
  <2>1. /\ c \o w \in Seq(Byte) /\ Len(c \o w) = Len(c) + Len(w)
        /\ \A j \in 1..Len(c) : (c \o w)[j] = c[j]
        /\ \A j \in 1..Len(w) : (c \o w)[Len(c) + j] = w[j]
    BY ONLY c \in Seq(Byte), w \in Seq(Byte), Joined
  <2>2. Len(c) = 4 /\ Len(w) = n
    BY <1>1, <1>c
  <2> QED BY ONLY <2>1, <2>2
<1>6. Tlv(t, w) = c \o w
  BY <1>1, <1>2, <1>3, <1>4 DEF Tlv
<1>7. 1 \in 1..4 /\ 2 \in 1..4 /\ 3 \in 1..4 /\ 4 \in 1..4
  OBVIOUS
<1>8. (c \o w)[1] = a[1] /\ (c \o w)[2] = a[2] /\ (c \o w)[3] = b[1] /\ (c \o w)[4] = b[2]
  BY ONLY <1>c, <1>5, <1>7
<1> QED BY ONLY <1>1, <1>a, <1>b, <1>5, <1>6, <1>8, SMTT(30)

\* What reading the optional fields has come to.
TlvState(rest, tlvs) == [rest |-> rest, err |-> FALSE, tlvs |-> tlvs]

\* Reading an optional field takes it off the buffer and keeps its value.
LEMMA TlvRead ==
  ASSUME NEW r \in Seq(Byte), NEW t, IsWord(t), NEW w \in Seq(Byte), IsWord(Len(w)),
         NEW fs, Stands(Tlv(t, w), r, 0)
  PROVE  ReadTlv(TlvState(r, fs)) = TlvState(Drop(r, 4 + Len(w)), With(fs, t, w))
<1>1. PICK n \in Nat, l \in Nat : n = Len(w) /\ l = Len(r) /\ IsWord(n)
  BY LenProperties
<1>2. PICK x \in Seq(Byte) :
        /\ x = Tlv(t, w) /\ Len(x) = 4 + n
        /\ x[1] * 256 + x[2] = t /\ x[3] * 256 + x[4] = n
        /\ \A j \in 1..n : x[4 + j] = w[j]
  BY <1>1, TlvBytes
<1>3. 4 + n <= l /\ \A j \in 1..(4 + n) : r[j] = x[j]
  <2>1. 0 + (4 + n) <= l /\ \A j \in 1..(4 + n) : r[0 + j] = x[j]
    BY <1>1, <1>2 DEF Stands
  <2>2. \A j \in 1..(4 + n) : 0 + j = j
    OBVIOUS
  <2>3. 0 + (4 + n) = 4 + n
    OBVIOUS
  <2> QED BY <2>1, <2>2, <2>3
<1>4. /\ 1 \in 1..(4 + n) /\ 2 \in 1..(4 + n) /\ 3 \in 1..(4 + n) /\ 4 \in 1..(4 + n)
      /\ \A j \in 1..n : 4 + j \in 1..(4 + n)
  OBVIOUS
<1> DEFINE h == Padded(Take(r, 4), 4)
<1>5. h[1] * 256 + h[2] = t /\ h[3] * 256 + h[4] = n
  <2>1. Take(r, 4) = SubSeq(r, 1, 4)
    <3>1. (IF 4 < l THEN 4 ELSE l) = 4
      BY <1>3
    <3> QED BY <1>1, <3>1 DEF Take
  <2>2. \A i \in 1..4 : r[i] \in Byte
    BY <1>1, <1>3, ElementOfSeq
  <2>3. Len(SubSeq(r, 1, 4)) = 4 /\ \A i \in 1..4 : SubSeq(r, 1, 4)[i] = r[i]
    <3>1. /\ SubSeq(r, 1, 4) \in Seq(Byte)
          /\ Len(SubSeq(r, 1, 4)) = IF 1 <= 4 THEN (4 - 1) + 1 ELSE 0
          /\ \A i \in 1..((4 - 1) + 1) : SubSeq(r, 1, 4)[i] = r[(1 + i) - 1]
      BY <2>2, SubSeqProperties
    <3>2. (4 - 1) + 1 = 4 /\ 1 <= 4 /\ \A i \in 1..4 : (1 + i) - 1 = i
      OBVIOUS
    <3> QED BY <3>1, <3>2
  <2>4. \A i \in 1..4 : h[i] = r[i]
    BY <2>1, <2>3 DEF Padded
  <2>5. 1 \in 1..4 /\ 2 \in 1..4 /\ 3 \in 1..4 /\ 4 \in 1..4
    OBVIOUS
  <2> HIDE DEF h
  <2> QED BY <1>2, <1>3, <1>4, <2>4, <2>5
<1>0. 4 \in 0..l
  BY <1>3
<1>v. PICK v \in Seq(Byte) : v = Drop(r, 4)
  BY <1>0, <1>1, DropIs
<1>6. Len(v) = l - 4 /\ \A j \in 1..(l - 4) : v[j] = r[4 + j]
  BY <1>0, <1>1, <1>v, DropIs, ZenonT(30)
<1>7. n <= Len(v) /\ \A j \in 1..n : v[j] = w[j]
  <2>1. n <= l - 4 /\ \A j \in 1..n : j \in 1..(l - 4)
    BY <1>3
  <2>2. \A j \in 1..n : v[j] = r[4 + j] /\ r[4 + j] = x[4 + j] /\ x[4 + j] = w[j]
    BY ONLY <1>2, <1>3, <1>4, <1>6, <2>1
  <2> QED BY ONLY <1>6, <2>1, <2>2
<1>8. Take(v, n) = w
  <2>0. Len(v) \in Nat
    BY LenProperties
  <2>1. (IF n < Len(v) THEN n ELSE Len(v)) = n
    BY <1>7, <2>0
  <2>2. Take(v, n) = SubSeq(v, 1, n)
    BY <2>1 DEF Take
  <2> QED BY <1>1, <1>6, <1>7, <2>2, Begins
<1>9. Padded(w, n) = w
  <2>1. Padded(w, n) = [i \in 1..n |-> w[i]]
    BY <1>1 DEF Padded
  <2> QED BY <1>1, <2>1
<1>10. Drop(v, n) = Drop(r, 4 + n)
  BY <1>1, <1>3, <1>v, DropDrop
<1>11. (v = <<>> /\ n > 0) = FALSE
  BY <1>6, <1>7
<1> DEFINE st == TlvState(r, fs)
<1>12. st.rest = r /\ st.tlvs = fs
  BY DEF TlvState
<1>13. GotTlv(st, t, n, v) = TlvState(Drop(v, n), With(fs, t, w))
  BY <1>8, <1>9, <1>11, <1>12 DEF GotTlv, TlvState, With
<1>14. ReadTlv(st) = GotTlv(st, t, n, v)
  <2> HIDE DEF st
  <2> QED BY ONLY <1>5, <1>12, <1>v DEF ReadTlv
<1> QED BY <1>1, <1>10, <1>13, <1>14

LEMMA TlvAt ==
  ASSUME NEW b \in Seq(Byte), NEW a \in Nat, NEW t, IsWord(t), NEW w \in Seq(Byte),
         IsWord(Len(w)), NEW fs, Stands(Tlv(t, w), b, a)
  PROVE  /\ ReadTlv(TlvState(Drop(b, a), fs)) = TlvState(Drop(b, a + (4 + Len(w))), With(fs, t, w))
         /\ Drop(b, a) # <<>>
<1>1. PICK l \in Nat, n \in Nat : l = Len(b) /\ n = Len(w)
  BY LenProperties
<1>a. PICK x \in Seq(Byte) : x = Tlv(t, w) /\ Len(x) = 4 + n
  BY <1>1, TlvBytes
<1>b. a + (4 + n) <= l /\ \A j \in 1..(4 + n) : b[a + j] = x[j]
  BY <1>1, <1>a DEF Stands
<1>2. a \in 0..l /\ 4 + n \in Nat
  BY <1>b
<1>3. PICK r \in Seq(Byte) : r = Drop(b, a)
  BY <1>1, <1>2, DropIs
<1>4. Len(r) = l - a /\ \A j \in 1..(l - a) : r[j] = b[a + j]
  BY <1>1, <1>2, <1>3, DropIs
<1>5. 0 + (4 + n) <= l - a /\ \A j \in 1..(4 + n) : j \in 1..(l - a) /\ 0 + j = j
  BY <1>b, <1>2
<1>6. Stands(x, r, 0)
  <2>1. 0 + Len(x) <= Len(r)
    BY <1>a, <1>4, <1>5
  <2>2. \A j \in 1..(4 + n) : r[0 + j] = x[j]
    BY <1>b, <1>4, <1>5
  <2> QED BY <1>a, <2>1, <2>2 DEF Stands
<1>7. ReadTlv(TlvState(r, fs)) = TlvState(Drop(r, 4 + n), With(fs, t, w))
  BY <1>1, <1>a, <1>6, TlvRead
<1>8. Drop(r, 4 + n) = Drop(b, a + (4 + n))
  BY <1>1, <1>2, <1>b, <1>3, DropDrop
<1>9. r # <<>>
  <2>1. Len(r) # 0
    BY <1>4, <1>5
  <2> QED BY <2>1
<1> QED BY <1>1, <1>3, <1>7, <1>8, <1>9

\* Optional field i of n, with tag tags[i], stands in b behind the ones before it, and
\* nothing follows the last.
TlvsAt(b, n, tags, v, at) ==
  /\ DOMAIN tags = 1..n /\ v = [g \in {tags[i] : i \in 1..n} |-> v[g]]
  /\ at \in [0..n -> Nat] /\ at[0] = 0 /\ at[n] = Len(b)
  /\ \A i \in 1..n : /\ IsWord(tags[i]) /\ v[tags[i]] \in Seq(Byte)
                     /\ IsWord(Len(v[tags[i]]))
                     /\ at[i] = at[i - 1] + (4 + Len(v[tags[i]]))
                     /\ Stands(Tlv(tags[i], v[tags[i]]), b, at[i - 1])

\* Optional fields that fill a buffer are all read, and none but these.
LEMMA TlvsRead ==
  ASSUME NEW n \in Nat, NEW b \in Seq(Byte), NEW tags, NEW v, NEW at,
         TlvsAt(b, n, tags, v, at)
  PROVE  ReadTlvs(b) = TlvState(<<>>, v)
<1> SUFFICES ASSUME DOMAIN tags = 1..n, v = [g \in {tags[i] : i \in 1..n} |-> v[g]],
                    at \in [0..n -> Nat], at[0] = 0, at[n] = Len(b),
                    \A i \in 1..n : /\ IsWord(tags[i]) /\ v[tags[i]] \in Seq(Byte)
                                    /\ IsWord(Len(v[tags[i]])),
                    \A i \in 1..n : /\ at[i] = at[i - 1] + (4 + Len(v[tags[i]]))
                                    /\ Stands(Tlv(tags[i], v[tags[i]]), b, at[i - 1])
             PROVE  ReadTlvs(b) = TlvState(<<>>, v)
  BY DEF TlvsAt
<1> DEFINE First(k) == {tags[i] : i \in 1..k}
           st(k) == TlvState(Drop(b, at[k]), [g \in First(k) |-> v[g]])
           init == [rest |-> b, tlvs |-> <<>>, err |-> FALSE]
<1>0. PICK l \in Nat : l = Len(b) /\ at[n] = l
  BY LenProperties
<1>1. st(0) = init
  <2>1. Drop(b, 0) = b
    <3>1. 0 \in 0..l /\ l - 0 = l /\ \A j \in 1..l : 0 + j = j
      OBVIOUS
    <3> QED BY ONLY <1>0, <3>1, DropIs, SeqEqual
  <2>2. First(0) = {}
    OBVIOUS
  <2>3. [g \in First(0) |-> v[g]] = <<>>
    BY <2>2, NoFields
  <2>4. at[0] = 0 /\ Drop(b, at[0]) = b
    BY <2>1
  <2> HIDE DEF First
  <2> QED BY ONLY <2>3, <2>4 DEF TlvState
<1>2. ASSUME NEW k \in 1..n PROVE ReadTlv(st(k - 1)) = st(k) /\ st(k - 1).rest # <<>>
  <2> DEFINE t == tags[k]
             w == v[t]
             fs == [g \in First(k - 1) |-> v[g]]
  <2>1. IsWord(t) /\ w \in Seq(Byte) /\ IsWord(Len(w))
    OBVIOUS
  <2>2. PICK a \in Nat : a = at[k - 1]
    <3>1. k - 1 \in 0..n
      OBVIOUS
    <3> QED BY <3>1
  <2>3. at[k] = a + (4 + Len(w)) /\ Stands(Tlv(t, w), b, a)
    BY <2>2
  <2>8. /\ ReadTlv(TlvState(Drop(b, a), fs)) = TlvState(Drop(b, a + (4 + Len(w))), With(fs, t, w))
        /\ Drop(b, a) # <<>>
    <3> HIDE DEF t, w, fs
    <3> QED BY ONLY b \in Seq(Byte), a \in Nat, <2>1, <2>3, TlvAt
  <2>10. With(fs, t, w) = [g \in First(k) |-> v[g]]
    <3>1. DOMAIN fs \cup {t} = First(k)
      <4>1. \A i \in 1..k : i \in 1..(k - 1) \/ i = k
        OBVIOUS
      <4> QED BY <4>1
    <3>2. \A g \in First(k) : (IF g = t THEN w ELSE fs[g]) = v[g]
      BY <3>1
    <3> QED BY <3>1, <3>2 DEF With
  <2>11. st(k - 1).rest = Drop(b, a)
    BY <2>2 DEF TlvState
  <2> HIDE DEF First, t, w
  <2> QED BY <2>2, <2>3, <2>8, <2>10, <2>11
<1>3. \A k \in 0..n : k <= at[k]
  <2> DEFINE T == {k \in 0..n : k <= at[k]}
  <2>1. 0 \in T
    OBVIOUS
  <2>2. ASSUME NEW k \in 0..(n - 1), k \in T PROVE k + 1 \in T
    <3>1. k + 1 \in 1..n /\ k + 1 \in 0..n /\ (k + 1) - 1 = k
      BY ONLY n \in Nat, k \in 0..(n - 1)
    <3>2. at[k + 1] = at[k] + (4 + Len(v[tags[k + 1]])) /\ v[tags[k + 1]] \in Seq(Byte)
      BY <3>1
    <3>3. PICK x \in Nat, y \in Nat : x = Len(v[tags[k + 1]]) /\ y = at[k] /\ k <= y
      BY <2>2, <3>2, LenProperties
    <3>4. k + 1 <= y + (4 + x)
      BY ONLY k \in 0..(n - 1), n \in Nat, x \in Nat, y \in Nat, <3>3
    <3>5. at[k + 1] = y + (4 + x)
      BY <3>2, <3>3
    <3>6. k + 1 <= at[k + 1]
      BY <3>4, <3>5
    <3> QED BY <3>1, <3>6
  <2> HIDE DEF T
  <2>3. \A k \in 0..n : k \in T
    BY <2>1, <2>2, UpTo
  <2> QED BY <2>3 DEF T
<1>4. n <= l
  BY <1>0, <1>3
<1>5. Drop(b, l) = <<>>
  <2>1. l \in 0..l /\ l - l = 0
    OBVIOUS
  <2>2. Drop(b, l) \in Seq(Byte) /\ Len(Drop(b, l)) = 0
    BY <1>0, <2>1, DropIs
  <2> QED BY <2>2, EmptySeq
<1> DEFINE Next1(s) == IF s.err \/ s.rest = <<>> THEN s ELSE ReadTlv(s)
           Upto(k) == IF k <= n THEN st(k) ELSE st(n)
           Def(h) == h = [k \in 0..l |-> IF k = 0 THEN init ELSE Next1(h[k - 1])]
           g == [k \in 0..l |-> Upto(k)]
           c == CHOOSE h : h = [k \in 0..l |-> IF k = 0 THEN init ELSE Next1(h[k - 1])]
<1>6. st(n).rest = <<>> /\ \A k \in 0..n : st(k).err = FALSE
  BY <1>0, <1>5 DEF TlvState
<1>7. ASSUME NEW k \in 1..l PROVE Next1(Upto(k - 1)) = Upto(k)
  <2> HIDE DEF st
  <2>1. CASE k <= n
    <3>1. k \in 1..n /\ k - 1 \in 0..n /\ k - 1 <= n
      BY <2>1
    <3>2. ReadTlv(st(k - 1)) = st(k) /\ st(k - 1).rest # <<>> /\ st(k - 1).err = FALSE
      BY <1>2, <1>6, <3>1
    <3> QED BY <2>1, <3>1, <3>2
  <2>2. CASE ~ (k <= n)
    <3>a. k - 1 <= n => k - 1 = n
      BY ONLY n \in Nat, l \in Nat, k \in 1..l, <2>2
    <3>b. Upto(k) = st(n)
      BY ONLY <2>2
    <3>c. Upto(k - 1) = st(n)
      BY ONLY <3>a
    <3>1. Upto(k - 1) = st(n) /\ Upto(k) = st(n)
      BY <3>b, <3>c
    <3> HIDE DEF Upto
    <3> QED BY <1>6, <3>1
  <2> QED BY <2>1, <2>2
<1> HIDE DEF Next1
<1>8. Upto(0) = init
  <2> HIDE DEF st, init
  <2> QED BY <1>1
<1> HIDE DEF Upto, init
<1>9. Def(g)
  <2>1. ASSUME NEW k \in 0..l
        PROVE  g[k] = IF k = 0 THEN init ELSE Next1(g[k - 1])
    <3>1. CASE k = 0
      BY <1>8, <3>1
    <3>2. CASE k # 0
      <4>1. k \in 1..l /\ k - 1 \in 0..l
        BY <3>2
      <4>2. g[k] = Upto(k) /\ g[k - 1] = Upto(k - 1)
        BY <4>1
      <4> QED BY <1>7, <3>2, <4>1, <4>2
    <3> QED BY <3>1, <3>2
  <2> QED BY <2>1
<1>10. Def(c)
  <2> HIDE DEF g
  <2> QED BY <1>9
<1>11. \A k \in 0..l : c[k] = Upto(k)
  <2> HIDE DEF c
  <2> DEFINE T == {k \in 0..l : c[k] = Upto(k)}
  <2>1. 0 \in T
    BY <1>8, <1>10
  <2>2. ASSUME NEW k \in 0..(l - 1), k \in T PROVE k + 1 \in T
    <3>1. k + 1 \in 1..l /\ k + 1 \in 0..l /\ (k + 1) - 1 = k /\ k + 1 # 0
      OBVIOUS
    <3>2. c[k + 1] = Next1(c[k])
      BY <1>10, <3>1
    <3>3. Next1(Upto(k)) = Upto(k + 1)
      BY <1>7, <3>1
    <3> QED BY <2>2, <3>1, <3>2, <3>3
  <2> HIDE DEF T
  <2>3. \A k \in 0..l : k \in T
    BY <2>1, <2>2, UpTo
  <2> QED BY <2>3 DEF T
<1>12. ReadTlvs(b) = c[l]
  BY <1>0 DEF ReadTlvs, Next1, init
<1>13. c[l] = st(n)
  <2> HIDE DEF c, st
  <2>1. Upto(l) = st(n)
    BY <1>4 DEF Upto
  <2> QED BY <1>11, <2>1
<1>14. Drop(b, at[n]) = <<>>
  BY <1>0, <1>5
<1> QED BY <1>12, <1>13, <1>14

-------------------------------------------------------------------------------
(* What is written.                                                          *)

\* What stands in a string stands there when more follows.
LEMMA StandsBefore ==
  ASSUME NEW b \in Seq(Byte), NEW c \in Seq(Byte), NEW w \in Seq(Byte), NEW a \in Nat,
         Stands(w, b, a)
  PROVE  Stands(w, b \o c, a)
<1>1. PICK n \in Nat, l \in Nat, m \in Nat : n = Len(w) /\ l = Len(b) /\ m = Len(c)
  BY LenProperties
<1>2. a + n <= l /\ \A j \in 1..n : b[a + j] = w[j]
  BY <1>1 DEF Stands
<1>3. Len(b \o c) = l + m /\ \A j \in 1..l : (b \o c)[j] = b[j]
  <2>1. Len(b \o c) = Len(b) + Len(c) /\ \A j \in 1..Len(b) : (b \o c)[j] = b[j]
    BY Joined
  <2> QED BY ONLY <1>1, <2>1
<1>4. a + n <= l + m /\ \A j \in 1..n : a + j \in 1..l
  BY <1>2
<1>5. \A j \in 1..n : (b \o c)[a + j] = w[j]
  BY ONLY <1>2, <1>3, <1>4
<1> QED BY ONLY <1>1, <1>3, <1>4, <1>5 DEF Stands

\* What is left behind the first of two strings is the second.
LEMMA DropFirst ==
  ASSUME NEW S, NEW b \in Seq(S), NEW c \in Seq(S)
  PROVE  Drop(b \o c, Len(b)) = c
<1>1. PICK l \in Nat, m \in Nat : l = Len(b) /\ m = Len(c)
  BY LenProperties
<1>2. b \o c \in Seq(S)
  BY ConcatProperties
<1>3. Len(b \o c) = l + m /\ \A j \in 1..m : (b \o c)[l + j] = c[j]
  <2>1. Len(b \o c) = Len(b) + Len(c) /\ \A j \in 1..Len(c) : (b \o c)[Len(b) + j] = c[j]
    BY Joined
  <2> QED BY ONLY <1>1, <2>1
<1>4. PICK x \in Seq(S) : x = b \o c
  BY <1>2, Zenon
<1>5. l \in 0..(l + m) /\ (l + m) - l = m
  OBVIOUS
<1>6. /\ Drop(x, l) \in Seq(S) /\ Len(Drop(x, l)) = m
      /\ \A j \in 1..m : Drop(x, l)[j] = x[l + j]
  <2>1. Len(x) = l + m
    BY <1>3, <1>4
  <2>2. /\ Drop(x, l) \in Seq(S) /\ Len(Drop(x, l)) = (l + m) - l
        /\ \A j \in 1..((l + m) - l) : Drop(x, l)[j] = x[l + j]
    BY ONLY x \in Seq(S), <1>5, <2>1, DropIs, ZenonT(30)
  <2> QED BY ONLY <1>5, <2>2
<1>7. \A j \in 1..m : Drop(x, l)[j] = c[j]
  BY ONLY <1>3, <1>4, <1>6
<1>8. Drop(x, l) = c
  BY ONLY c \in Seq(S), <1>1, <1>6, <1>7, SeqEqual
<1> QED BY <1>1, <1>4, <1>8

\* The layouts.
LEMMA Layouts ==
  ASSUME NEW id
  PROVE  \E n \in Nat : DOMAIN FieldsOf(id) = 1..n /\ Len(FieldsOf(id)) = n
<1>1. DOMAIN MessageFields = 1..18 /\ Len(MessageFields) = 18
  BY DEF MessageFields
<1>2. DOMAIN BindFields = 1..7 /\ Len(BindFields) = 7
  BY DEF BindFields
<1>3. DOMAIN QueryFields = 1..4 /\ Len(QueryFields) = 4
  BY DEF QueryFields
<1>4. FieldsOf(id) \in {MessageFields, BindFields, QueryFields, <<"system_id">>,
                       <<"message_id">>, <<>>}
  BY Zenon DEF FieldsOf
<1> HIDE DEF MessageFields, BindFields, QueryFields
<1>5. CASE FieldsOf(id) = MessageFields
  <2>1. DOMAIN FieldsOf(id) = 1..18 /\ Len(FieldsOf(id)) = 18
    BY <1>1, <1>5
  <2> QED BY <2>1
<1>6. CASE FieldsOf(id) = BindFields
  <2>1. DOMAIN FieldsOf(id) = 1..7 /\ Len(FieldsOf(id)) = 7
    BY <1>2, <1>6
  <2> QED BY <2>1
<1>7. CASE FieldsOf(id) = QueryFields
  <2>1. DOMAIN FieldsOf(id) = 1..4 /\ Len(FieldsOf(id)) = 4
    BY <1>3, <1>7
  <2> QED BY <2>1
<1>8. CASE FieldsOf(id) \in {<<"system_id">>, <<"message_id">>}
  <2>1. DOMAIN FieldsOf(id) = 1..1 /\ Len(FieldsOf(id)) = 1
    BY <1>8
  <2> QED BY <2>1
<1>9. CASE FieldsOf(id) = <<>>
  <2>1. DOMAIN FieldsOf(id) = 1..0 /\ Len(FieldsOf(id)) = 0
    BY <1>9
  <2> QED BY <2>1
<1> QED BY <1>4, <1>5, <1>6, <1>7, <1>8, <1>9

LEMMA LengthsFirst == ASSUME NEW id PROVE LengthFirst(FieldsOf(id))
<1>1. DOMAIN MessageFields = 1..18 /\ MessageFields[17] = "sm_length"
      /\ \A i \in 1..18 : MessageFields[i] = "short_message" => i = 18
  BY DEF MessageFields
<1>2. LengthFirst(MessageFields)
  <2> HIDE DEF MessageFields
  <2>1. 17 \in 1..(18 - 1)
    OBVIOUS
  <2> QED BY <1>1, <2>1 DEF LengthFirst
<1>3. LengthFirst(BindFields)
  <2>1. DOMAIN BindFields = 1..7 /\ \A i \in 1..7 : BindFields[i] # "short_message"
    BY DEF BindFields
  <2> QED BY <2>1 DEF LengthFirst
<1>4. LengthFirst(QueryFields)
  <2>1. DOMAIN QueryFields = 1..4 /\ \A i \in 1..4 : QueryFields[i] # "short_message"
    BY DEF QueryFields
  <2> QED BY <2>1 DEF LengthFirst
<1>5. LengthFirst(<<"system_id">>) /\ LengthFirst(<<"message_id">>) /\ LengthFirst(<<>>)
  BY DEF LengthFirst
<1> HIDE DEF MessageFields, BindFields, QueryFields
<1>6. FieldsOf(id) \in {MessageFields, BindFields, QueryFields, <<"system_id">>,
                       <<"message_id">>, <<>>}
  BY Zenon DEF FieldsOf
<1> QED BY <1>2, <1>3, <1>4, <1>5, <1>6

LEMMA U32Is ==
  ASSUME NEW n, IsLong(n)
  PROVE  /\ U32(n) \in Seq(Byte) /\ Len(U32(n)) = 4 /\ U32(n)[1] = 0
         /\ Low24(U32(n), 1) = n /\ U32(n)[4] = n % 256
         /\ (IsWord(n) => U32(n)[2] = 0 /\ 256 * U32(n)[3] + U32(n)[4] = n)
<1> DEFINE a == n \div 65536
           b == (n \div 256) % 256
           c == n % 256
           d == n \div 256
<1>0. n \in Nat
  BY DEF IsLong
<1>1. d \in Nat /\ c \in 0..255 /\ n = 256 * d + c
  BY ONLY <1>0, SMT
<1>2. a = d \div 256
  BY ONLY <1>0, SMT
<1>3. a \in Nat /\ b \in 0..255 /\ d = 256 * a + b
  <2> HIDE DEF a, d
  <2>1. d \div 256 \in Nat /\ d % 256 \in 0..255 /\ d = 256 * (d \div 256) + (d % 256)
    BY ONLY <1>1, SMT
  <2>2. b = d % 256
    BY DEF d
  <2> QED BY ONLY <1>2, <2>1, <2>2
<1>4. U32(n) = <<0, a % 256, b, c>>
  BY ONLY TRUE, SMT DEF U32
<1>w. IsWord(n) => n < 65536
  BY SMT DEF IsWord
<1>5. a \in 0..255
  <2> HIDE DEF a, b, c, d
  <2> QED BY <1>1, <1>3, SMT DEF IsLong
<1> HIDE DEF a, b, c, d
<1>6. U32(n) = <<0, a, b, c>>
  <2>1. a % 256 = a
    BY ONLY <1>5, SMT
  <2> QED BY ONLY <1>4, <2>1
<1>7. 0 \in Byte /\ a \in Byte /\ b \in Byte /\ c \in Byte
  BY ONLY <1>1, <1>3, <1>5 DEF Byte
<1>8. U32(n) \in Seq(Byte) /\ Len(U32(n)) = 4
  BY ONLY <1>6, <1>7
<1>9. U32(n)[1] = 0 /\ U32(n)[2] = a /\ U32(n)[3] = b /\ U32(n)[4] = c
  BY ONLY <1>6
<1>10. (a * 256 + b) * 256 + c = n
  BY ONLY <1>1, <1>3, SMT
<1>11. n < 65536 => a = 0 /\ 256 * b + c = n
  BY ONLY <1>1, <1>3, SMT
<1>12. Low24(U32(n), 1) = (a * 256 + b) * 256 + c
  BY ONLY <1>6, SMT DEF Low24
<1>13. c = n % 256
  BY DEF c
<1>14. IsWord(n) => a = 0 /\ 256 * b + c = n
  BY ONLY <1>11, <1>w, SMT
<1> QED BY ONLY <1>8, <1>9, <1>10, <1>12, <1>13, <1>14

\* No two commands have the same number; the one without a low byte is GENERIC_NACK.
LEMMA Commands ==
  /\ \A i \in DOMAIN Cmd : Cmd[i][1] \in Byte /\ Cmd[i][2] \in Byte
  /\ \A i, j \in DOMAIN Cmd : Cmd[i][1] = Cmd[j][1] /\ Cmd[i][2] = Cmd[j][2] => i = j
  /\ \A i \in DOMAIN Cmd : Cmd[i][2] = 0 => Cmd[i][1] = 128 /\ i = "GENERIC_NACK"
<1>1. \A i \in DOMAIN Cmd : Cmd[i][1] \in Byte /\ Cmd[i][2] \in Byte
  BY DEF Cmd, Byte
<1>2. \A i, j \in DOMAIN Cmd : Cmd[i][1] = Cmd[j][1] /\ Cmd[i][2] = Cmd[j][2] => i = j
  BY DEF Cmd
<1>3. \A i \in DOMAIN Cmd : Cmd[i][2] = 0 => Cmd[i][1] = 128 /\ i = "GENERIC_NACK"
  BY DEF Cmd
<1> QED BY <1>1, <1>2, <1>3

\* One string behind another.
IsJoin(x, a, m, b, n) ==
  /\ x \in Seq(Byte) /\ Len(x) = m + n
  /\ \A j \in 1..m : x[j] = a[j]
  /\ \A j \in 1..n : x[m + j] = b[j]

LEMMA JoinIs ==
  ASSUME NEW a \in Seq(Byte), NEW b \in Seq(Byte)
  PROVE  IsJoin(a \o b, a, Len(a), b, Len(b))
BY Joined DEF IsJoin

\* Four strings of four bytes.
Quad(x, a, b, c, d) ==
  /\ x \in Seq(Byte) /\ Len(x) = 16
  /\ \A j \in 1..4 : x[j] = a[j] /\ x[4 + j] = b[j] /\ x[8 + j] = c[j] /\ x[12 + j] = d[j]

LEMMA Quads ==
  ASSUME NEW a \in Seq(Byte), NEW b \in Seq(Byte), NEW c \in Seq(Byte), NEW d \in Seq(Byte),
         Len(a) = 4, Len(b) = 4, Len(c) = 4, Len(d) = 4
  PROVE  Quad(a \o b \o c \o d, a, b, c, d)
<1>1. PICK x : x = a \o b
  OBVIOUS
<1>2. IsJoin(x, a, 4, b, 4)
  BY <1>1, JoinIs
<1>3. x \in Seq(Byte) /\ Len(x) = 8
  BY ONLY <1>2 DEF IsJoin
<1>4. PICK y : y = x \o c
  OBVIOUS
<1>5. IsJoin(y, x, 8, c, 4)
  BY <1>3, <1>4, JoinIs
<1>6. y \in Seq(Byte) /\ Len(y) = 12
  BY ONLY <1>5 DEF IsJoin
<1>7. PICK z : z = y \o d
  OBVIOUS
<1>8. IsJoin(z, y, 12, d, 4)
  BY <1>6, <1>7, JoinIs
<1>9. ASSUME NEW j \in 1..4
       PROVE  z[j] = a[j] /\ z[4 + j] = b[j] /\ z[8 + j] = c[j] /\ z[12 + j] = d[j]
  <2>1. j \in 1..8 /\ j \in 1..12 /\ 4 + j \in 1..8 /\ 4 + j \in 1..12 /\ 8 + j \in 1..12
    BY ONLY j \in 1..4
  <2>2. x[j] = a[j] /\ x[4 + j] = b[j]
    BY ONLY j \in 1..4, <1>2 DEF IsJoin
  <2>3. y[j] = x[j] /\ y[4 + j] = x[4 + j] /\ y[8 + j] = c[j]
    BY ONLY j \in 1..4, <1>5, <2>1 DEF IsJoin
  <2>4. /\ z[j] = y[j] /\ z[4 + j] = y[4 + j] /\ z[8 + j] = y[8 + j]
        /\ z[12 + j] = d[j]
    BY ONLY j \in 1..4, <1>8, <2>1 DEF IsJoin
  <2> QED BY ONLY <2>2, <2>3, <2>4
<1>10. z \in Seq(Byte) /\ Len(z) = 16
  BY ONLY <1>8 DEF IsJoin
<1>11. z = a \o b \o c \o d
  BY ONLY <1>1, <1>4, <1>7
<1> QED BY ONLY <1>9, <1>10, <1>11 DEF Quad

\* The header.
LEMMA HeaderIs ==
  ASSUME NEW p, NEW n \in Nat, IsLong(n + 16), p.id \in DOMAIN Cmd, IsLong(p.status),
         IsLong(p.seq)
  PROVE  /\ Header(p, n) \in Seq(Byte) /\ Len(Header(p, n)) = 16
         /\ Header(p, n)[5] = Cmd[p.id][1] /\ Header(p, n)[8] = Cmd[p.id][2]
         /\ Header(p, n)[6] = 0 /\ Header(p, n)[7] = 0
         /\ Low24(Header(p, n), 9) = p.status /\ Low24(Header(p, n), 13) = p.seq
         /\ \A j \in 1..4 : Header(p, n)[j] = U32(n + 16)[j]
<1>1. PICK a \in Seq(Byte), c \in Seq(Byte), d \in Seq(Byte) :
        a = U32(n + 16) /\ c = U32(p.status) /\ d = U32(p.seq)
  BY U32Is
<1>2. Len(a) = 4 /\ Len(c) = 4 /\ Len(d) = 4 /\ Low24(c, 1) = p.status /\ Low24(d, 1) = p.seq
  BY <1>1, U32Is
<1>3. PICK b : b = <<Cmd[p.id][1], 0, 0, Cmd[p.id][2]>>
  OBVIOUS
<1>0. 0 \in Byte
  BY DEF Byte
<1>4. b \in Seq(Byte) /\ Len(b) = 4 /\ b[1] = Cmd[p.id][1] /\ b[2] = 0 /\ b[3] = 0
      /\ b[4] = Cmd[p.id][2]
  <2>1. Cmd[p.id][1] \in Byte /\ Cmd[p.id][2] \in Byte /\ 0 \in Byte
    BY ONLY p.id \in DOMAIN Cmd, <1>0, Commands
  <2> QED BY ONLY <1>3, <2>1
<1>5. Header(p, n) = a \o b \o c \o d
  BY <1>1, <1>3, Zenon DEF Header
<1>6. Quad(a \o b \o c \o d, a, b, c, d)
  BY ONLY a \in Seq(Byte), c \in Seq(Byte), d \in Seq(Byte), <1>2, <1>4, Quads
<1>7. PICK h : h = Header(p, n)
  OBVIOUS
<1>8. /\ h \in Seq(Byte) /\ Len(h) = 16
      /\ \A j \in 1..4 : h[j] = a[j] /\ h[4 + j] = b[j] /\ h[8 + j] = c[j] /\ h[12 + j] = d[j]
  BY ONLY <1>5, <1>6, <1>7 DEF Quad
<1>9. /\ h[5] = b[1] /\ h[6] = b[2] /\ h[7] = b[3] /\ h[8] = b[4]
      /\ h[10] = c[2] /\ h[11] = c[3] /\ h[12] = c[4]
      /\ h[14] = d[2] /\ h[15] = d[3] /\ h[16] = d[4]
  BY ONLY <1>8
<1>10. Low24(h, 9) = Low24(c, 1) /\ Low24(h, 13) = Low24(d, 1)
  BY ONLY <1>9, SMTT(30) DEF Low24
<1> QED BY ONLY <1>1, <1>2, <1>4, <1>7, <1>8, <1>9, <1>10

\* String i of n, s[i], stands in b behind the ones before it, and nothing follows the last.
Laid(b, n, s, at) ==
  /\ at \in [0..n -> Nat] /\ at[0] = 0 /\ at[n] = Len(b)
  /\ \A i \in 1..n : at[i] = at[i - 1] + Len(s[i]) /\ Stands(s[i], b, at[i - 1])

LEMMA FlattenLaid ==
  ASSUME NEW n \in Nat, NEW s \in [1..n -> Seq(Byte)]
  PROVE  FlattenSeq(s) \in Seq(Byte) /\ \E at : Laid(FlattenSeq(s), n, s, at)
<1>1. s \in Seq(Seq(Byte)) /\ Len(s) = n
  BY SeqDef
<1>2. PICK F : F = FlattenSeq(s)
  OBVIOUS
<1>3. /\ F \in Seq(Byte)
      /\ \E at \in [0..n -> Nat] :
           /\ at[0] = 0 /\ at[n] = Len(F)
           /\ \A i \in 1..n :
                /\ at[i] = at[i - 1] + Len(s[i]) /\ at[i] <= Len(F)
                /\ \A j \in 1..Len(s[i]) : F[at[i - 1] + j] = s[i][j]
  <2>1. /\ FlattenSeq(s) \in Seq(Byte)
        /\ \E at \in [0..Len(s) -> Nat] :
             /\ at[0] = 0 /\ at[Len(s)] = Len(FlattenSeq(s))
             /\ \A i \in 1..Len(s) :
                  /\ at[i] = at[i - 1] + Len(s[i]) /\ at[i] <= Len(FlattenSeq(s))
                  /\ \A j \in 1..Len(s[i]) : FlattenSeq(s)[at[i - 1] + j] = s[i][j]
    BY ONLY <1>1, FlattenAt, ZenonT(30)
  <2> QED BY ONLY <1>1, <1>2, <2>1, Zenon
<1>4. PICK at \in [0..n -> Nat] :
        /\ at[0] = 0 /\ at[n] = Len(F)
        /\ \A i \in 1..n :
             /\ at[i] = at[i - 1] + Len(s[i]) /\ at[i] <= Len(F)
             /\ \A j \in 1..Len(s[i]) : F[at[i - 1] + j] = s[i][j]
  BY ONLY <1>3
<1>5. \A i \in 1..n : at[i] = at[i - 1] + Len(s[i]) /\ Stands(s[i], F, at[i - 1])
  BY ONLY <1>4 DEF Stands
<1>6. Laid(F, n, s, at)
  BY ONLY at \in [0..n -> Nat], <1>4, <1>5 DEF Laid
<1> QED BY <1>2, <1>3, <1>6

\* The mandatory fields as they are written.
Field(p, i) == FieldBytes(FieldsOf(p.id)[i], p.fields[FieldsOf(p.id)[i]])

LEMMA FieldsWritten ==
  ASSUME NEW p, NEW n \in Nat, DOMAIN FieldsOf(p.id) = 1..n,
         p.fields \in [Range(FieldsOf(p.id)) -> Seq(Byte)]
  PROVE  /\ WriteFields(p) \in Seq(Byte)
         /\ \E at : Laid(WriteFields(p), n, [i \in 1..n |-> Field(p, i)], at)
<1> DEFINE s == [i \in 1..n |-> Field(p, i)]
<1>1. ASSUME NEW i \in 1..n PROVE Field(p, i) \in Seq(Byte)
  <2>1. FieldsOf(p.id)[i] \in Range(FieldsOf(p.id))
    BY DEF Range
  <2>2. p.fields[FieldsOf(p.id)[i]] \in Seq(Byte)
    BY <2>1
  <2> QED BY <2>2, FieldBytesTyped DEF Field
<1>2. s \in [1..n -> Seq(Byte)]
  BY <1>1
<1>3. WriteFields(p) = FlattenSeq(s)
  BY Zenon DEF WriteFields, Field
<1> HIDE DEF s
<1>4. FlattenSeq(s) \in Seq(Byte) /\ \E at : Laid(FlattenSeq(s), n, s, at)
  BY ONLY n \in Nat, <1>2, FlattenLaid
<1> QED BY <1>3, <1>4 DEF s

\* The optional fields: written and read back.
LEMMA TlvsBack ==
  ASSUME NEW p, TlvsFit(p.tlvs)
  PROVE  WriteTlvs(p) \in Seq(Byte) /\ ReadTlvs(WriteTlvs(p)) = TlvState(<<>>, p.tlvs)
<1> DEFINE v == p.tlvs
           tags == SetToSeq(DOMAIN v)
<1>1. /\ IsFiniteSet(DOMAIN v) /\ v \in [DOMAIN v -> Seq(Byte)]
      /\ \A t \in DOMAIN v : IsWord(t) /\ IsWord(Len(v[t]))
  BY DEF TlvsFit
<1> HIDE DEF v
<1>2. tags \in Seq(DOMAIN v) /\ DOMAIN v = {tags[i] : i \in 1..Len(tags)}
  BY <1>1, Listed
<1>3. PICK n \in Nat : n = Len(tags) /\ DOMAIN tags = 1..n
  BY <1>2, LenProperties
<1> HIDE DEF tags
<1>4. \A i \in 1..n : tags[i] \in DOMAIN v
  BY <1>2, <1>3
<1> DEFINE s == [i \in 1..n |-> Tlv(tags[i], v[tags[i]])]
<1>5. ASSUME NEW i \in 1..n
      PROVE  /\ IsWord(tags[i]) /\ v[tags[i]] \in Seq(Byte) /\ IsWord(Len(v[tags[i]]))
             /\ s[i] = Tlv(tags[i], v[tags[i]])
             /\ s[i] \in Seq(Byte) /\ Len(s[i]) = 4 + Len(v[tags[i]])
  <2>1. IsWord(tags[i]) /\ v[tags[i]] \in Seq(Byte) /\ IsWord(Len(v[tags[i]]))
    BY <1>1, <1>4
  <2>2. s[i] = Tlv(tags[i], v[tags[i]])
    OBVIOUS
  <2> HIDE DEF s
  <2> QED BY ONLY <2>1, <2>2, TlvBytes
<1>6. WriteTlvs(p) = FlattenSeq(s)
  <2>1. WriteTlvs(p) = FlattenSeq([i \in 1..Len(tags) |-> Tlv(tags[i], v[tags[i]])])
    BY Zenon DEF WriteTlvs, Tlv, tags, v
  <2> QED BY <1>3, <2>1
<1>7. s \in [1..n -> Seq(Byte)]
  <2>1. \A i \in 1..n : s[i] \in Seq(Byte)
    BY <1>5
  <2>2. DOMAIN s = 1..n /\ s = [i \in 1..n |-> s[i]]
    OBVIOUS
  <2> HIDE DEF s
  <2> QED BY ONLY <2>1, <2>2
<1> HIDE DEF s
<1>8. FlattenSeq(s) \in Seq(Byte) /\ \E at : Laid(FlattenSeq(s), n, s, at)
  BY ONLY n \in Nat, <1>7, FlattenLaid
<1>9. PICK b \in Seq(Byte) : b = FlattenSeq(s)
  BY <1>8, Zenon
<1>10. PICK at : Laid(b, n, s, at)
  BY <1>8, <1>9
<1>11. /\ at \in [0..n -> Nat] /\ at[0] = 0 /\ at[n] = Len(b)
       /\ \A i \in 1..n : at[i] = at[i - 1] + Len(s[i]) /\ Stands(s[i], b, at[i - 1])
  BY ONLY <1>10 DEF Laid
<1>12. \A i \in 1..n : /\ at[i] = at[i - 1] + (4 + Len(v[tags[i]]))
                       /\ Stands(Tlv(tags[i], v[tags[i]]), b, at[i - 1])
  BY ONLY <1>5, <1>11
<1>13. v = [g \in {tags[i] : i \in 1..n} |-> v[g]]
  <2>1. v = [g \in DOMAIN v |-> v[g]]
    BY <1>1
  <2>2. DOMAIN v = {tags[i] : i \in 1..n}
    BY <1>2, <1>3
  <2> QED BY ONLY <2>1, <2>2
<1>14. \A i \in 1..n : /\ IsWord(tags[i]) /\ v[tags[i]] \in Seq(Byte)
                       /\ IsWord(Len(v[tags[i]]))
  BY <1>5
<1>15. TlvsAt(b, n, tags, v, at)
  BY ONLY <1>3, <1>11, <1>12, <1>13, <1>14 DEF TlvsAt
<1>16. ReadTlvs(b) = TlvState(<<>>, v)
  BY ONLY n \in Nat, b \in Seq(Byte), <1>15, TlvsRead
<1> QED BY <1>6, <1>9, <1>16 DEF v

-------------------------------------------------------------------------------
(* Written and parsed.                                                       *)

\* A PDU that its layout can hold, with SM_LENGTH set.
Ready(q) ==
  /\ q.id \in DOMAIN Cmd /\ IsLong(q.status) /\ IsLong(q.seq)
  /\ q = [id |-> q.id, status |-> q.status, seq |-> q.seq, fields |-> q.fields,
          tlvs |-> q.tlvs]
  /\ q.fields \in [Range(FieldsOf(q.id)) -> Seq(Byte)]
  /\ \A f \in DOMAIN q.fields : FieldFits(f, q.fields[f])
  /\ "short_message" \in DOMAIN q.fields =>
       q.fields["sm_length"] = <<Len(q.fields["short_message"])>>
  /\ TlvsFit(q.tlvs) /\ (q.id \notin HasTlvs => q.tlvs = <<>>)

LEMMA MadeReady ==
  ASSUME NEW p, Fits(p)
  PROVE  Ready(SetLength(p)) /\ SetLength(SetLength(p)) = SetLength(p)
<1>1. /\ p.id \in DOMAIN Cmd /\ IsLong(p.status) /\ IsLong(p.seq)
      /\ p = [id |-> p.id, status |-> p.status, seq |-> p.seq, fields |-> p.fields,
              tlvs |-> p.tlvs]
      /\ p.fields \in [Range(FieldsOf(p.id)) -> Seq(Byte)]
      /\ \A f \in DOMAIN p.fields : FieldFits(f, p.fields[f])
      /\ TlvsFit(p.tlvs) /\ (p.id \notin HasTlvs => p.tlvs = <<>>)
  BY DEF Fits
<1>2. CASE "short_message" \notin DOMAIN p.fields
  BY <1>1, <1>2 DEF SetLength, Ready
<1>3. CASE "short_message" \in DOMAIN p.fields
  <2> DEFINE w == p.fields["short_message"]
             v == [p.fields EXCEPT !["sm_length"] = <<Len(w)>>]
             q == [id |-> p.id, status |-> p.status, seq |-> p.seq, fields |-> v,
                   tlvs |-> p.tlvs]
  <2>1. w \in Seq(Byte) /\ Len(w) \in Byte /\ Len(w) % 256 = Len(w)
    <3>1. w \in Seq(Byte) /\ FieldFits("short_message", w)
      BY <1>1, <1>3
    <3>2. PICK n \in Nat : n = Len(w)
      BY <3>1, LenProperties
    <3>3. n < 256
      BY <3>1, <3>2 DEF FieldFits, Variable
    <3>4. n \in Byte /\ n % 256 = n
      BY <3>3 DEF Byte
    <3> QED BY <3>1, <3>2, <3>4
  <2>2. "sm_length" \in DOMAIN p.fields
    <3>1. DOMAIN p.fields = Range(FieldsOf(p.id))
      BY <1>1
    <3>2. PICK n \in Nat : DOMAIN FieldsOf(p.id) = 1..n
      BY Layouts
    <3>3. PICK i \in 1..n : FieldsOf(p.id)[i] = "short_message"
      BY <1>3, <3>1, <3>2 DEF Range
    <3>4. PICK j \in 1..(i - 1) : FieldsOf(p.id)[j] = "sm_length"
      BY <3>2, <3>3, LengthsFirst DEF LengthFirst
    <3>5. j \in 1..n
      OBVIOUS
    <3> QED BY <3>1, <3>2, <3>4, <3>5 DEF Range
  <2>3. SetLength(p) = q
    <3>1. SetLength(p) = [p EXCEPT !.fields["sm_length"] = <<Len(w)>>]
      BY <1>3, <2>1 DEF SetLength
    <3>2. ASSUME NEW a, NEW b, NEW c, NEW d, NEW e, NEW x
          PROVE  [[id |-> a, status |-> b, seq |-> c, fields |-> d, tlvs |-> e]
                    EXCEPT !.fields["sm_length"] = x]
                  = [id |-> a, status |-> b, seq |-> c,
                     fields |-> [d EXCEPT !["sm_length"] = x], tlvs |-> e]
      OBVIOUS
    <3>3. PICK a, b, c, d, e :
            /\ p = [id |-> a, status |-> b, seq |-> c, fields |-> d, tlvs |-> e]
            /\ a = p.id /\ b = p.status /\ c = p.seq /\ d = p.fields /\ e = p.tlvs
      BY <1>1
    <3>4. PICK x : x = <<Len(w)>>
      OBVIOUS
    <3> HIDE DEF w
    <3>5. [p EXCEPT !.fields["sm_length"] = x]
            = [id |-> a, status |-> b, seq |-> c,
               fields |-> [d EXCEPT !["sm_length"] = x], tlvs |-> e]
      BY ONLY <3>2, <3>3
    <3>6. q = [id |-> a, status |-> b, seq |-> c,
               fields |-> [d EXCEPT !["sm_length"] = x], tlvs |-> e]
      BY <3>3, <3>4
    <3> HIDE DEF q
    <3> QED BY ONLY <3>1, <3>4, <3>5, <3>6
  <2>4. /\ v \in [Range(FieldsOf(p.id)) -> Seq(Byte)] /\ DOMAIN v = DOMAIN p.fields
        /\ v["sm_length"] = <<Len(w)>> /\ v["short_message"] = w
        /\ \A f \in DOMAIN v : f # "sm_length" => v[f] = p.fields[f]
    <3>1. <<Len(w)>> \in Seq(Byte)
      BY <2>1
    <3>2. "sm_length" # "short_message"
      OBVIOUS
    <3> HIDE DEF w
    <3>3. v \in [Range(FieldsOf(p.id)) -> Seq(Byte)]
      BY <1>1, <3>1
    <3> QED BY <1>1, <1>3, <2>2, <3>2, <3>3 DEF w
  <2>5. FieldFits("sm_length", <<Len(w)>>)
    BY DEF FieldFits, Variable
  <2> HIDE DEF v, w
  <2>6. \A f \in DOMAIN v : FieldFits(f, v[f])
    BY <1>1, <2>4, <2>5
  <2>7. /\ q.id = p.id /\ q.status = p.status /\ q.seq = p.seq /\ q.fields = v
        /\ q.tlvs = p.tlvs
    OBVIOUS
  <2>8. q = [id |-> q.id, status |-> q.status, seq |-> q.seq, fields |-> q.fields,
             tlvs |-> q.tlvs]
    OBVIOUS
  <2> HIDE DEF q
  <2>9. Ready(q)
    BY ONLY <1>1, <2>4, <2>6, <2>7, <2>8 DEF Ready
  <2>10. SetLength(q) = q
    <3>1. SetLength(q) = [q EXCEPT !.fields["sm_length"] = <<Len(w)>>]
      BY <1>3, <2>1, <2>4, <2>7 DEF SetLength
    <3>2. [q.fields EXCEPT !["sm_length"] = <<Len(w)>>] = q.fields
      BY <2>4, <2>7
    <3> QED BY <2>8, <3>1, <3>2
  <2> QED BY <2>3, <2>9, <2>10
<1> QED BY <1>2, <1>3

\* Bytes 5 to 8 of a PDU.
LEMMA Number ==
  ASSUME NEW x \in Seq(Byte), 8 <= Len(x)
  PROVE  SubSeq(x, 5, 8) = <<x[5], x[6], x[7], x[8]>>
<1>1. \A i \in 5..8 : i \in 1..Len(x)
  <2>1. PICK n \in Nat : n = Len(x)
    BY LenProperties
  <2> QED BY <2>1
<1>2. \A i \in 5..8 : x[i] \in Byte
  BY <1>1, ElementOfSeq
<1>3. /\ SubSeq(x, 5, 8) \in Seq(Byte)
      /\ Len(SubSeq(x, 5, 8)) = IF 5 <= 8 THEN (8 - 5) + 1 ELSE 0
      /\ \A i \in 1..((8 - 5) + 1) : SubSeq(x, 5, 8)[i] = x[(5 + i) - 1]
  BY <1>2, SubSeqProperties
<1>4. PICK y \in Seq(Byte) : y = SubSeq(x, 5, 8)
  BY <1>3
<1>5. Len(y) = 4 /\ \A i \in 1..4 : y[i] = x[(5 + i) - 1]
  BY ONLY <1>3, <1>4
<1>6. y[1] = x[5] /\ y[2] = x[6] /\ y[3] = x[7] /\ y[4] = x[8]
  BY ONLY <1>5
<1>7. y = <<y[1], y[2], y[3], y[4]>>
  BY ONLY y \in Seq(Byte), <1>5
<1> QED BY <1>4, <1>6, <1>7

\* A PDU that keeps optional fields has mandatory ones.
LEMMA TlvsHaveFields == \A id \in HasTlvs : FieldsOf(id) # <<>>
<1>1. FieldsOf("SUBMIT_SM") = MessageFields /\ FieldsOf("DELIVER_SM") = MessageFields
      /\ FieldsOf("BIND_TRANSCEIVER_RESP") = <<"system_id">>
  BY DEF FieldsOf
<1>2. MessageFields # <<>>
  <2>1. Len(MessageFields) = 18
    BY DEF MessageFields
  <2> QED BY <2>1
<1> HIDE DEF MessageFields
<1> QED BY <1>1, <1>2 DEF HasTlvs

\* The commands that a PDU may be.
LEMMA IdsAre ==
  ASSUME NEW x \in Seq(Byte), 8 <= Len(x)
  PROVE  Ids(x) = {id \in DOMAIN Cmd : /\ x[5] = Cmd[id][1] /\ x[6] = 0
                                     /\ x[7] = 0 /\ x[8] = Cmd[id][2]}
<1>1. SubSeq(x, 5, 8) = <<x[5], x[6], x[7], x[8]>>
  BY Number
<1>2. ASSUME NEW a, NEW b, NEW c, NEW d, NEW e, NEW f
      PROVE  <<a, b, c, d>> = <<e, 0, 0, f>> <=> a = e /\ b = 0 /\ c = 0 /\ d = f
  OBVIOUS
<1>3. ASSUME NEW id
      PROVE  SubSeq(x, 5, 8) = <<Cmd[id][1], 0, 0, Cmd[id][2]>> <=>
               /\ x[5] = Cmd[id][1] /\ x[6] = 0 /\ x[7] = 0 /\ x[8] = Cmd[id][2]
  BY ONLY <1>1, <1>2
<1> QED BY ONLY <1>3 DEF Ids

\* x is the PDU q: its length, its number and all that the parser makes of it.
IsFrame(x, q) ==
  /\ x \in Seq(Byte) /\ 16 <= Len(x) /\ IsLong(Len(x))
  /\ \A j \in 1..4 : x[j] = U32(Len(x))[j]
  /\ x[5] \in {0, 128} /\ x[6] = 0 /\ x[7] = 0
  /\ ParsePdu(x) = q /\ q # NoPdu

LEMMA ParsedBack ==
  ASSUME NEW q, Ready(q), NEW b, b = Body(q), IsLong(Len(b) + 16)
  PROVE  IsFrame(Header(q, Len(b)) \o b, q)
<1>1. /\ q.id \in DOMAIN Cmd /\ IsLong(q.status) /\ IsLong(q.seq)
      /\ q = [id |-> q.id, status |-> q.status, seq |-> q.seq, fields |-> q.fields,
              tlvs |-> q.tlvs]
      /\ q.fields \in [Range(FieldsOf(q.id)) -> Seq(Byte)]
      /\ \A f \in DOMAIN q.fields : FieldFits(f, q.fields[f])
      /\ "short_message" \in DOMAIN q.fields =>
           q.fields["sm_length"] = <<Len(q.fields["short_message"])>>
      /\ TlvsFit(q.tlvs) /\ (q.id \notin HasTlvs => q.tlvs = <<>>)
  BY DEF Ready
<1>f. q.fields \in [Range(FieldsOf(q.id)) -> Seq(Byte)]
  BY <1>1
<1>g. \A f \in Range(FieldsOf(q.id)) : q.fields[f] \in Seq(Byte) /\ FieldFits(f, q.fields[f])
  BY <1>1
<1>h. "short_message" \in Range(FieldsOf(q.id)) =>
        q.fields["sm_length"] = <<Len(q.fields["short_message"])>>
  BY <1>1
<1>i. q.id \in DOMAIN Cmd /\ IsLong(q.status) /\ IsLong(q.seq) /\ TlvsFit(q.tlvs)
      /\ (q.id \notin HasTlvs => q.tlvs = <<>>)
  BY <1>1
<1>2. PICK n \in Nat : DOMAIN FieldsOf(q.id) = 1..n /\ Len(FieldsOf(q.id)) = n
  BY Layouts
<1>3. /\ WriteFields(q) \in Seq(Byte)
      /\ \E at : Laid(WriteFields(q), n, [i \in 1..n |-> Field(q, i)], at)
  BY ONLY n \in Nat, <1>f, <1>2, FieldsWritten
<1>4. WriteTlvs(q) \in Seq(Byte) /\ ReadTlvs(WriteTlvs(q)) = TlvState(<<>>, q.tlvs)
  BY ONLY <1>i, TlvsBack
<1>5. PICK F \in Seq(Byte), T \in Seq(Byte) : F = WriteFields(q) /\ T = WriteTlvs(q)
  BY ONLY <1>3, <1>4
<1>6. b = F \o T /\ b \in Seq(Byte)
  <2>1. F \o T \in Seq(Byte)
    BY ONLY F \in Seq(Byte), T \in Seq(Byte), ConcatProperties
  <2> QED BY <1>5, <2>1, Zenon DEF Body
<1>7. PICK m \in Nat : m = Len(b) /\ IsLong(m + 16)
  BY <1>6, LenProperties
<1>8. PICK h : h = Header(q, m)
  OBVIOUS
<1>9. /\ h \in Seq(Byte) /\ Len(h) = 16
      /\ h[5] = Cmd[q.id][1] /\ h[8] = Cmd[q.id][2] /\ h[6] = 0 /\ h[7] = 0
      /\ Low24(h, 9) = q.status /\ Low24(h, 13) = q.seq
      /\ \A j \in 1..4 : h[j] = U32(m + 16)[j]
  BY ONLY m \in Nat, <1>i, <1>7, <1>8, HeaderIs
<1>10. PICK x : x = h \o b
  OBVIOUS
<1>11. IsJoin(x, h, 16, b, m)
  BY ONLY <1>6, <1>7, <1>9, <1>10, JoinIs, ZenonT(30)
<1>12. x \in Seq(Byte) /\ Len(x) = 16 + m /\ \A j \in 1..16 : x[j] = h[j]
  BY ONLY <1>11 DEF IsJoin
<1>13. Drop(x, 16) = b
  BY ONLY <1>6, <1>9, <1>10, DropFirst
<1>14. /\ x[1] = h[1] /\ x[2] = h[2] /\ x[3] = h[3] /\ x[4] = h[4]
       /\ x[5] = h[5] /\ x[6] = h[6] /\ x[7] = h[7] /\ x[8] = h[8]
       /\ x[10] = h[10] /\ x[11] = h[11] /\ x[12] = h[12]
       /\ x[14] = h[14] /\ x[15] = h[15] /\ x[16] = h[16]
  BY ONLY <1>12
<1>15. Low24(x, 9) = q.status /\ Low24(x, 13) = q.seq
  <2>1. Low24(x, 9) = Low24(h, 9) /\ Low24(x, 13) = Low24(h, 13)
    BY ONLY <1>14 DEF Low24
  <2> QED BY ONLY <1>9, <2>1
<1>16. Low24(x, 1) = m + 16
  <2>1. Low24(U32(m + 16), 1) = m + 16
    BY <1>7, U32Is
  <2>2. PICK u : u = U32(m + 16)
    OBVIOUS
  <2>3. x[2] = u[2] /\ x[3] = u[3] /\ x[4] = u[4]
    BY ONLY <1>9, <1>14, <2>2
  <2>4. Low24(x, 1) = Low24(u, 1)
    BY ONLY <2>3 DEF Low24
  <2> QED BY ONLY <2>1, <2>2, <2>4
<1>17. Ids(x) = {q.id}
  <2>1. 8 <= Len(x)
    BY ONLY m \in Nat, <1>12, SMTT(30)
  <2>2. Ids(x) = {id \in DOMAIN Cmd : /\ x[5] = Cmd[id][1] /\ x[6] = 0
                                     /\ x[7] = 0 /\ x[8] = Cmd[id][2]}
    BY ONLY <1>12, <2>1, IdsAre
  <2>3. ASSUME NEW id \in DOMAIN Cmd
        PROVE  (x[5] = Cmd[id][1] /\ x[6] = 0 /\ x[7] = 0 /\ x[8] = Cmd[id][2]) <=> id = q.id
    BY ONLY id \in DOMAIN Cmd, <1>i, <1>9, <1>14, Commands, SMTT(30)
  <2> QED BY ONLY <1>i, <2>2, <2>3
<1>18. ReadFields(FieldsOf(q.id), b) = State(T, q.fields)
  <2> DEFINE names == FieldsOf(q.id)
             v == q.fields
             s == [i \in 1..n |-> Field(q, i)]
  <2>1. PICK at : Laid(F, n, s, at)
    BY ONLY <1>3, <1>5
  <2>2. /\ at \in [0..n -> Nat] /\ at[0] = 0 /\ at[n] = Len(F)
        /\ \A i \in 1..n : at[i] = at[i - 1] + Len(s[i]) /\ Stands(s[i], F, at[i - 1])
    <3> HIDE DEF s
    <3> QED BY ONLY <2>1 DEF Laid
  <2>3. ASSUME NEW i \in 1..n
        PROVE  /\ at[i] = at[i - 1] + Len(FieldBytes(names[i], v[names[i]]))
               /\ Stands(FieldBytes(names[i], v[names[i]]), b, at[i - 1])
               /\ FieldFits(names[i], v[names[i]])
    <3>1. v[names[i]] \in Seq(Byte) /\ FieldFits(names[i], v[names[i]])
      <4>1. names[i] \in Range(FieldsOf(q.id))
        BY ONLY i \in 1..n, <1>2 DEF Range
      <4> QED BY ONLY <1>g, <4>1
    <3>2. s[i] = FieldBytes(names[i], v[names[i]])
      BY DEF Field
    <3>3. PICK y \in Seq(Byte) : y = FieldBytes(names[i], v[names[i]])
      BY ONLY <3>1, FieldBytesTyped
    <3>4. at[i] = at[i - 1] + Len(y) /\ Stands(y, F, at[i - 1])
      <4> HIDE DEF s
      <4> QED BY ONLY i \in 1..n, <2>2, <3>2, <3>3
    <3>5. at[i - 1] \in Nat
      <4>1. i - 1 \in 0..n
        BY ONLY n \in Nat, i \in 1..n
      <4> QED BY ONLY <2>2, <4>1
    <3>6. Stands(y, b, at[i - 1])
      BY ONLY F \in Seq(Byte), T \in Seq(Byte), y \in Seq(Byte), <1>6, <3>4, <3>5, StandsBefore
    <3> QED BY ONLY <3>1, <3>3, <3>4, <3>6
  <2>4. LengthFirst(names)
    BY LengthsFirst
  <2>6. ReadFields(names, b) = State(Drop(b, at[n]), v)
    <3>1. DOMAIN names = 1..n /\ Len(names) = n
      BY ONLY <1>2
    <3>2. v \in [Range(names) -> Seq(Byte)]
      BY ONLY <1>f
    <3>3. "short_message" \in Range(names) => v["sm_length"] = <<Len(v["short_message"])>>
      BY ONLY <1>h
    <3> HIDE DEF names, v, s
    <3>4. \A i \in 1..n : FieldFits(names[i], v[names[i]])
      BY ONLY <2>3
    <3>5. at \in [0..n -> Nat] /\ at[0] = 0
      BY ONLY <2>2
    <3>6. \A i \in 1..n :
            /\ at[i] = at[i - 1] + Len(FieldBytes(names[i], v[names[i]]))
            /\ Stands(FieldBytes(names[i], v[names[i]]), b, at[i - 1])
      BY ONLY <2>3
    <3>7. b \in Seq(Byte)
      BY ONLY <1>6
    <3>8. FieldsAt(b, n, names, v, at)
      BY ONLY <2>4, <3>1, <3>2, <3>3, <3>4, <3>5, <3>6 DEF FieldsAt
    <3> QED BY ONLY n \in Nat, <3>7, <3>8, FieldsRead
  <2>7. Drop(b, at[n]) = T
    BY ONLY F \in Seq(Byte), T \in Seq(Byte), <1>6, <2>2, DropFirst
  <2> QED BY <2>6, <2>7
<1>19. (CHOOSE id \in Ids(x) : TRUE) = q.id
  BY ONLY <1>17
<1> DEFINE got == ReadFields(FieldsOf(q.id), Drop(x, 16))
           opt == IF got.eof \/ FieldsOf(q.id) = <<>>
                  THEN [tlvs |-> <<>>, err |-> FALSE] ELSE ReadTlvs(got.rest)
<1>20. got.eof = FALSE /\ got.fields = q.fields /\ got.rest = T
  <2>1. got = State(T, q.fields)
    BY ONLY <1>13, <1>18
  <2> HIDE DEF got
  <2> QED BY ONLY <2>1 DEF State
<1>21. opt.err = FALSE /\ (IF q.id \in HasTlvs THEN opt.tlvs ELSE <<>>) = q.tlvs
  <2> HIDE DEF got
  <2>1. ReadTlvs(T).err = FALSE /\ ReadTlvs(T).tlvs = q.tlvs
    <3>1. ReadTlvs(T) = TlvState(<<>>, q.tlvs)
      BY ONLY <1>4, <1>5
    <3> QED BY ONLY <3>1 DEF TlvState
  <2>2. CASE FieldsOf(q.id) = <<>>
    <3>1. opt = [tlvs |-> <<>>, err |-> FALSE]
      BY ONLY <2>2
    <3>2. opt.err = FALSE
      BY ONLY <3>1
    <3> HIDE DEF opt
    <3>3. q.id \notin HasTlvs
      BY ONLY <2>2, TlvsHaveFields
    <3> QED BY ONLY <1>i, <3>2, <3>3
  <2>3. CASE FieldsOf(q.id) # <<>>
    <3>1. opt = ReadTlvs(T)
      BY ONLY <1>20, <2>3
    <3> HIDE DEF opt
    <3> QED BY ONLY <1>i, <2>1, <3>1
  <2> QED BY ONLY <2>2, <2>3
<1>22. ParsePdu(x) = q
  <2>1. ~ (Len(x) < 16) /\ Low24(x, 1) = Len(x) /\ Ids(x) # {}
    BY ONLY m \in Nat, <1>12, <1>16, <1>17
  <2>2. ParsePdu(x) =
          IF Len(x) < 16 THEN NoPdu
          ELSE IF Low24(x, 1) # Len(x) \/ Ids(x) = {} \/ opt.err THEN NoPdu
          ELSE [id |-> q.id, status |-> Low24(x, 9), seq |-> Low24(x, 13),
                fields |-> got.fields, tlvs |-> IF q.id \in HasTlvs THEN opt.tlvs ELSE <<>>]
    BY ONLY <1>19, Zenon DEF ParsePdu
  <2> HIDE DEF got, opt
  <2>3. ParsePdu(x) = [id |-> q.id, status |-> q.status, seq |-> q.seq,
                       fields |-> q.fields, tlvs |-> q.tlvs]
    BY ONLY <1>15, <1>20, <1>21, <2>1, <2>2
  <2> QED BY ONLY <1>1, <2>3
<1>23. h[5] \in {0, 128}
  <2>1. \A i \in DOMAIN Cmd : Cmd[i][1] \in {0, 128}
    BY DEF Cmd
  <2> QED BY ONLY <1>i, <1>9, <2>1
<1>24. Header(q, Len(b)) \o b = x
  BY ONLY <1>7, <1>8, <1>10
<1>25. /\ 16 <= Len(x) /\ IsLong(Len(x))
       /\ \A j \in 1..4 : x[j] = U32(Len(x))[j]
  <2>1. 16 + m = m + 16 /\ 16 <= 16 + m
    BY ONLY m \in Nat
  <2>2. \A j \in 1..4 : x[j] = h[j]
    BY ONLY <1>12, SMTT(30)
  <2> QED BY ONLY <1>7, <1>9, <1>12, <2>1, <2>2, SMTT(30)
<1>26. q # NoPdu
  <2>1. "none" \notin DOMAIN Cmd
    BY DEF Cmd
  <2>2. NoPdu.id = "none"
    BY DEF NoPdu
  <2> QED BY ONLY <1>i, <2>1, <2>2
<1>27. IsFrame(x, q)
  BY ONLY <1>9, <1>12, <1>14, <1>22, <1>23, <1>25, <1>26 DEF IsFrame
<1> QED BY ONLY <1>24, <1>27

\* What the parser makes of a written PDU is the PDU, with the length of its text
\* filled in: no field, no optional field and no number is lost or changed
\* (pdu.go:38-187 and the writers of pdu_*.go).
THEOREM RoundTrip ==
  ASSUME NEW p, Fits(p)
  PROVE  /\ ParsePdu(Writer(p)) = SetLength(p)
         /\ Writer(SetLength(p)) = Writer(p)
         /\ IsFrame(Writer(p), SetLength(p))
<1>1. Ready(SetLength(p)) /\ SetLength(SetLength(p)) = SetLength(p)
  BY MadeReady
<1>2. PICK q : q = SetLength(p)
  OBVIOUS
<1>3. IsLong(Len(Body(q)) + 16)
  BY <1>2 DEF Fits
<1>4. Writer(p) = Header(q, Len(Body(q))) \o Body(q)
  BY <1>2, Zenon DEF Writer
<1>5. Writer(q) = Header(q, Len(Body(q))) \o Body(q)
  <2>1. SetLength(q) = q
    BY <1>1, <1>2
  <2> QED BY ONLY <2>1, Zenon DEF Writer
<1>6. IsFrame(Header(q, Len(Body(q))) \o Body(q), q)
  BY <1>1, <1>2, <1>3, ParsedBack
<1>7. ParsePdu(Writer(p)) = q
  <2>1. IsFrame(Writer(p), q)
    BY ONLY <1>4, <1>6
  <2> QED BY ONLY <2>1 DEF IsFrame
<1> QED BY <1>2, <1>4, <1>5, <1>6, <1>7
===============================================================================
