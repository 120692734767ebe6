----------------------------- MODULE LongSmsProofs -----------------------------
(* Proofs about LongSms, for every length of text and every MaxParts.        *)
EXTENDS LongSms, FiniteSetTheorems, TLAPS

\* Rounding up, for the two lengths of a part.
LEMMA RoundUp ==
  ASSUME NEW n \in Nat, NEW m \in {134, 153}, n > 0
  PROVE  /\ (n + m - 1) \div m \in Nat \ {0}
         /\ ((n + m - 1) \div m) * m >= n
         /\ ((n + m - 1) \div m - 1) * m < n
<1>1. CASE m = 134
  BY <1>1
<1>2. CASE m = 153
  BY <1>2
<1> QED
  BY <1>1, <1>2

\* The number of parts is as many as are needed, MaxParts at most.
LEMMA CountRange ==
  ASSUME NEW t, t.len \in Nat, t.code \in {0, 8}
  PROVE  /\ Count(t) \in 1..MaxParts
         /\ IsLong(t) => /\ Needed(t) \in Nat
                         /\ Count(t) = IF Needed(t) > MaxParts THEN MaxParts ELSE Needed(t)
<1>1. MaxParts \in 1..255
  BY LongSmsAssumption
<1>2. CASE ~IsLong(t)
  BY <1>1, <1>2 DEF Count
<1>3. CASE IsLong(t)
  <2>1. MultiplyMessageLength(t.code) \in {134, 153} /\ t.len > 0
    BY <1>3 DEF MultiplyMessageLength, IsLong, OneMessageLength
  <2>2. Needed(t) \in Nat \ {0}
    BY <2>1, RoundUp DEF Needed
  <2> QED
    BY <1>1, <1>3, <2>2 DEF Count
<1> QED
  BY <1>2, <1>3

\* The split of a long text in the terms of its part length m.
LEMMA LongSplit ==
  ASSUME NEW t, t.len \in Nat, t.code \in {0, 8}, IsLong(t)
  PROVE  SplitCovers(t)
<1> DEFINE m == MultiplyMessageLength(t.code)
           n == Count(t)
           e(k) == IF (k - 1) * m + m > t.len THEN t.len ELSE (k - 1) * m + m
<1>1. MaxParts \in 1..255
  BY LongSmsAssumption
<1>2. m \in {134, 153} /\ m + UdhLength <= OneMessageLength(t.code) /\ t.len > 0
  BY DEF MultiplyMessageLength, OneMessageLength, UdhLength, IsLong
<1>3. /\ n \in 1..MaxParts /\ Needed(t) \in Nat
      /\ n = IF Needed(t) > MaxParts THEN MaxParts ELSE Needed(t)
  BY CountRange
<1>4. Needed(t) * m >= t.len /\ (Needed(t) - 1) * m < t.len
  BY <1>2, RoundUp DEF Needed
<1>5. \A k \in 1..n : Start(t, k) = (k - 1) * m /\ End(t, k) = e(k)
  BY DEF Start, End
<1> HIDE DEF m, n
<1>6. Start(t, 1) = 0
  <2>1. 0 * m = 0
    BY <1>2
  <2> QED
    BY <2>1, <1>3, <1>5
<1>7. ASSUME NEW k \in 1..n
      PROVE  /\ Start(t, k) < End(t, k)
             /\ End(t, k) - Start(t, k) + UdhLength <= OneMessageLength(t.code)
             /\ k < n => End(t, k) = Start(t, k + 1)
  <2>1. (k - 1) * m < t.len
    BY <1>1, <1>2, <1>3, <1>4
  <2>2. k < n => k * m < t.len
    BY <1>1, <1>2, <1>3, <1>4
  <2>3. k * m = (k - 1) * m + m
    BY <1>1, <1>2, <1>3
  <2>4. (k - 1) * m \in Nat /\ OneMessageLength(t.code) \in Nat
    BY <1>1, <1>2, <1>3 DEF OneMessageLength
  <2>5. Start(t, k) < End(t, k)
    BY <1>2, <1>5, <2>1, <2>4
  <2>6. End(t, k) - Start(t, k) <= m
    BY <1>2, <1>5, <2>1, <2>4
  <2>7. ASSUME k < n PROVE End(t, k) = Start(t, k + 1)
    <3>1. k + 1 \in 1..n /\ (k + 1) - 1 = k
      BY <1>1, <1>3, <2>7
    <3> QED
      BY <1>2, <1>5, <2>2, <2>3, <2>4, <2>7, <3>1
  <2>8. Start(t, k) \in Nat /\ End(t, k) \in Nat
    BY <1>2, <1>5, <2>4
  <2> QED
    BY <1>2, <2>4, <2>5, <2>6, <2>7, <2>8 DEF UdhLength
<1>8. End(t, n) = t.len \/ (n = MaxParts /\ Needed(t) > MaxParts)
  <2>1. CASE Needed(t) > MaxParts
    BY <1>3, <2>1
  <2>2. CASE ~(Needed(t) > MaxParts)
    <3>1. n * m >= t.len /\ n * m = (n - 1) * m + m
      BY <1>1, <1>2, <1>3, <1>4, <2>2
    <3>2. (n - 1) * m \in Nat
      BY <1>1, <1>2, <1>3
    <3>3. n \in 1..n
      BY <1>1, <1>3
    <3>4. End(t, n) = e(n)
      BY <1>5, <3>3
    <3>5. e(n) = t.len
      BY <1>2, <3>1, <3>2
    <3> QED
      BY <3>4, <3>5
  <2> QED
    BY <2>1, <2>2
<1> QED
  BY <1>3, <1>6, <1>7, <1>8 DEF SplitCovers, n

\* Every text, long or not.
LEMMA SplitCoversEvery ==
  ASSUME NEW t, t.len \in Nat, t.code \in {0, 8}
  PROVE  SplitCovers(t)
<1>1. CASE IsLong(t)
  BY <1>1, LongSplit
<1>2. CASE ~IsLong(t)
  <2>1. Count(t) = 1 /\ Count(t) \in 1..MaxParts
    BY <1>2, CountRange DEF Count
  <2>2. End(t, 1) = t.len
    BY <1>2 DEF End
  <2>3. Start(t, 1) = 0
    BY DEF Start, MultiplyMessageLength
  <2> QED
    BY <1>2, <2>1, <2>2, <2>3 DEF SplitCovers
<1> QED
  BY <1>1, <1>2

-------------------------------------------------------------------------------
(* What is sent is a text.                                                   *)

SmsTyped == sms \in [Ids -> {NoSms} \cup [len : Nat, code : {0, 8}, ref : Refs]]

LEMMA SmsStep == SmsTyped /\ [Next]_vars => SmsTyped'
<1> SUFFICES ASSUME SmsTyped, [Next]_vars PROVE SmsTyped'
  OBVIOUS
<1> USE DEF SmsTyped
<1>1. ASSUME NEW i \in Ids, Send(i) PROVE SmsTyped'
  <2>1. PICK t \in Texts, r \in Refs :
          sms' = [sms EXCEPT ![i] = [len |-> t.len, code |-> t.code, ref |-> r]]
    BY <1>1 DEF Send
  <2>2. t.len \in Nat /\ t.code \in {0, 8}
    BY LongSmsAssumption
  <2> QED
    BY <2>1, <2>2
<1>2. ASSUME sms' = sms PROVE SmsTyped'
  BY <1>2
<1>3. ASSUME NEW i \in Ids, Submit(i) \/ SubmitFails(i) PROVE sms' = sms
  BY <1>3 DEF Submit, SubmitFails
<1>4. ASSUME NEW p \in smsc, Read(p[1], p[2]) PROVE sms' = sms
  BY <1>4 DEF Read
<1>5. ASSUME DeliverSmResp \/ Reconnect PROVE sms' = sms
  BY <1>5 DEF DeliverSmResp, Reconnect
<1>6. ASSUME UNCHANGED vars PROVE sms' = sms
  BY <1>6 DEF vars
<1> QED
  BY <1>1, <1>2, <1>3, <1>4, <1>5, <1>6 DEF Next

\* However long a text is and wherever MaxParts cuts it, its parts follow one
\* another, none is empty and each fits a short message (tranceiver.go:84-127).
THEOREM SplitHolds == Spec => []SplitIsSound
<1>1. Init => SmsTyped
  BY DEF Init, SmsTyped
<1>2. SmsTyped => SplitIsSound
  <2> SUFFICES ASSUME SmsTyped, NEW i \in Ids, Sent(i) PROVE SplitCovers(sms[i])
    BY DEF SplitIsSound
  <2>1. sms[i].len \in Nat /\ sms[i].code \in {0, 8}
    BY DEF SmsTyped, Sent
  <2> QED
    BY <2>1, SplitCoversEvery
<1> QED
  BY <1>1, <1>2, SmsStep, PTL DEF Spec

-------------------------------------------------------------------------------
(* Reassembly.  A part that is under way or handled belongs to a message that *)
(* has been sent, and what is owed is what was handled last.                  *)

PartsSent ==
  /\ \A i \in Ids, k \in 1..MaxParts : <<i, k>> \in smsc => Sent(i) /\ k <= Total(i)
  /\ \A j \in 1..Len(order) : Sent(order[j][1]) /\ order[j][2] <= Total(order[j][1])

OwedIsLast == owed # <<>> => order # <<>> /\ order[Len(order)] = owed

\* The entry of a reference is what the run of that reference has left: there is
\* one exactly when there is a run, it is as long as some message of the run is,
\* every part of the run fills its slot, and nothing else does.
EntryOf(r) ==
  LET R == Run(r, Len(order))
  IN  /\ cache[r] = NoSms => R = {}
      /\ cache[r] # NoSms =>
           /\ \E j \in R : Len(cache[r]) = Total(order[j][1])
           /\ \A j \in R : /\ order[j][2] \in DOMAIN cache[r]
                           /\ cache[r][order[j][2]] # <<>>
           /\ \A k \in DOMAIN cache[r] : cache[r][k] # <<>> =>
                \E j \in R : order[j][2] = k /\ cache[r][k] = <<order[j]>>

CacheInv == ~panicked => \A r \in Refs : EntryOf(r)

LongInv ==
  /\ TypeOK /\ PartsSent /\ OwedIsLast /\ CacheInv
  /\ WholeWhenRunIsClean /\ KeptHere /\ PanicNeedsMixing

\* How a run grows by a part.
LEMMA RunAppend ==
  ASSUME NEW p \in Parts, order \in Seq(Parts), NEW n \in Nat, n = Len(order), NEW r,
         sms' = sms, order' = Append(order, p)
  PROVE  /\ order' \in Seq(Parts) /\ Len(order') = n + 1 /\ order'[n + 1] = p
         /\ \A j \in 1..n : order'[j] = order[j]
         /\ Run(r, n)' = Run(r, n)
         /\ ~WithRef(p, r) => Run(r, n + 1)' = Run(r, n)
         /\ WithRef(p, r) /\ IsLast(p) => Run(r, n + 1)' = {}
         /\ WithRef(p, r) /\ ~IsLast(p) => Run(r, n + 1)' = Run(r, n) \cup {n + 1}
<1>1. /\ order' \in Seq(Parts) /\ Len(order') = n + 1 /\ order'[n + 1] = p
      /\ \A j \in 1..n : order'[j] = order[j]
  OBVIOUS
<1>2. \A q, x : (WithRef(q, x)' <=> WithRef(q, x)) /\ (IsLast(q)' <=> IsLast(q))
  BY DEF WithRef, IsLast, Total
<1>3. Run(r, n)' = Run(r, n)
  BY <1>1, <1>2 DEF Run
<1>4. ~WithRef(p, r) => Run(r, n + 1)' = Run(r, n)
  BY <1>1, <1>2 DEF Run
<1>5. WithRef(p, r) /\ IsLast(p) => Run(r, n + 1)' = {}
  BY <1>1, <1>2 DEF Run
<1>6. WithRef(p, r) /\ ~IsLast(p) => Run(r, n + 1)' = Run(r, n) \cup {n + 1}
  BY <1>1, <1>2 DEF Run
<1> QED BY <1>1, <1>3, <1>4, <1>5, <1>6

\* The numbers and the reference of what has been sent.
LEMMA SentRange ==
  ASSUME TypeOK, NEW i \in Ids, Sent(i)
  PROVE  /\ Total(i) \in 1..MaxParts /\ MaxParts \in 1..255
         /\ sms[i].ref \in Refs /\ sms[i].len \in Nat /\ sms[i].code \in {0, 8}
<1>1. sms[i].ref \in Refs /\ sms[i].len \in Nat /\ sms[i].code \in {0, 8}
  BY DEF TypeOK, Sent
<1>2. Total(i) \in 1..MaxParts
  BY <1>1, CountRange DEF Total
<1> QED BY <1>1, <1>2, LongSmsAssumption

\* The slots a part is put into: those of the entry, or empty ones of its message.
LEMMA SlotsTyped ==
  ASSUME TypeOK, NEW i \in Ids, Sent(i)
  PROVE  /\ Slots(i) \in Seq(Slot) /\ Len(Slots(i)) \in 1..MaxParts
         /\ DOMAIN Slots(i) = 1..Len(Slots(i))
         /\ cache[sms[i].ref] # NoSms => Slots(i) = cache[sms[i].ref]
         /\ cache[sms[i].ref] = NoSms =>
              Len(Slots(i)) = Total(i) /\ \A j \in 1..Total(i) : Slots(i)[j] = <<>>
<1>1. /\ Total(i) \in 1..MaxParts /\ MaxParts \in 1..255
      /\ sms[i].ref \in Refs
  BY SentRange
<1>2. CASE cache[sms[i].ref] # NoSms
  BY <1>1, <1>2 DEF Slots, TypeOK
<1>3. CASE cache[sms[i].ref] = NoSms
  <2>1. Slots(i) = [j \in 1..Total(i) |-> <<>>]
    BY <1>3 DEF Slots
  <2>2. <<>> \in Slot
    BY DEF Slot
  <2> QED BY <1>1, <1>3, <2>1, <2>2
<1> QED BY <1>2, <1>3

\* A slot is filled.
LEMMA SlotFilled ==
  ASSUME NEW s \in Seq(Slot), NEW k \in 1..Len(s), NEW q \in Parts
  PROVE  /\ [s EXCEPT ![k] = <<q>>] \in Seq(Slot)
         /\ Len([s EXCEPT ![k] = <<q>>]) = Len(s)
         /\ [s EXCEPT ![k] = <<q>>][k] = <<q>>
         /\ \A j \in 1..Len(s) : j # k => [s EXCEPT ![k] = <<q>>][j] = s[j]
         /\ DOMAIN [s EXCEPT ![k] = <<q>>] = 1..Len(s)
<1>1. <<q>> \in Slot
  BY DEF Slot
<1> QED BY <1>1

\* A text is handed on.
LEMMA HandedOn ==
  ASSUME NEW S, got \in Seq(S), NEW e \in S, got' = Append(got, e)
  PROVE  /\ got' \in Seq(S) /\ Len(got') = Len(got) + 1 /\ Len(got) \in Nat
         /\ Len(got') \in DOMAIN got' /\ got'[Len(got')] = e
         /\ \A m \in DOMAIN got : m \in DOMAIN got' /\ got'[m] = got[m]
OBVIOUS

\* What holds of the parts handled is left alone by a step that handles none.
LEMMA Quiet ==
  ASSUME LongInv, order' = order, cache' = cache, got' = got, panicked' = panicked,
         owed' \in {owed, <<>>}, \A i \in Ids : Sent(i) => sms'[i] = sms[i],
         NEW n \in Nat, n = Len(order)
  PROVE  /\ OwedIsLast' /\ CacheInv'
         /\ WholeWhenRunIsClean' /\ KeptHere' /\ PanicNeedsMixing'
<1>1. order \in Seq(Parts) /\ DOMAIN order = 1..n /\ Len(order') = n
  BY DEF LongInv, TypeOK
<1>2. \A j \in 1..n : order[j][1] \in Ids /\ Sent(order[j][1]) /\ sms'[order[j][1]] = sms[order[j][1]]
  BY <1>1 DEF LongInv, PartsSent, Parts
<1>3. ASSUME NEW j \in 1..n
      PROVE  /\ \A x : WithRef(order[j], x)' <=> WithRef(order[j], x)
             /\ IsLast(order[j])' <=> IsLast(order[j])
             /\ Total(order[j][1])' = Total(order[j][1])
  BY <1>2 DEF WithRef, IsLast, Total
<1>4. ASSUME NEW m \in {n - 1, n}, NEW x PROVE Run(x, m)' = Run(x, m)
  <2>1. \A j \in 1..m : j \in 1..n /\ \A l \in j..m : l \in 1..n
    OBVIOUS
  <2>2. \A j \in 1..m : (WithRef(order[j], x)' <=> WithRef(order[j], x))
                        /\ (IsLast(order[j])' <=> IsLast(order[j]))
    BY <1>3, <2>1
  <2>3. \A j \in 1..m : \A l \in j..m : (WithRef(order[l], x)' <=> WithRef(order[l], x))
                                      /\ (IsLast(order[l])' <=> IsLast(order[l]))
    BY <1>3, <2>1
  <2>4. Run(x, m)' = {j \in 1..m : /\ WithRef(order[j], x)'
                                  /\ \A l \in j..m : WithRef(order[l], x)' => ~IsLast(order[l])'}
    BY DEF Run
  <2>5. Run(x, m) = {j \in 1..m : /\ WithRef(order[j], x)
                                 /\ \A l \in j..m : WithRef(order[l], x) => ~IsLast(order[l])}
    BY DEF Run
  <2>6. Run(x, m)' \subseteq Run(x, m)
    BY <2>2, <2>3, <2>4, <2>5
  <2>7. Run(x, m) \subseteq Run(x, m)'
    BY <2>2, <2>3, <2>4, <2>5
  <2> QED BY <2>6, <2>7
<1>5. OwedIsLast'
  BY DEF LongInv, OwedIsLast
<1>6. CacheInv'
  <2> SUFFICES ASSUME ~panicked, NEW r \in Refs PROVE EntryOf(r)'
    BY DEF CacheInv
  <2> DEFINE R == Run(r, n)
  <2>1. EntryOf(r)
    BY DEF LongInv, CacheInv
  <2>2. R' = R
    BY <1>4
  <2>3. \A j \in R : j \in 1..n
    BY DEF Run
  <2>4. EntryOf(r) <=>
          /\ cache[r] = NoSms => R = {}
          /\ cache[r] # NoSms =>
               /\ \E j \in R : Len(cache[r]) = Total(order[j][1])
               /\ \A j \in R : order[j][2] \in DOMAIN cache[r] /\ cache[r][order[j][2]] # <<>>
               /\ \A k \in DOMAIN cache[r] : cache[r][k] # <<>> =>
                    \E j \in R : order[j][2] = k /\ cache[r][k] = <<order[j]>>
    BY DEF EntryOf
  <2>5. EntryOf(r)' <=>
          /\ cache[r] = NoSms => R' = {}
          /\ cache[r] # NoSms =>
               /\ \E j \in R' : Len(cache[r]) = Total(order[j][1])'
               /\ \A j \in R' : order[j][2] \in DOMAIN cache[r] /\ cache[r][order[j][2]] # <<>>
               /\ \A k \in DOMAIN cache[r] : cache[r][k] # <<>> =>
                    \E j \in R' : order[j][2] = k /\ cache[r][k] = <<order[j]>>
    BY <1>1 DEF EntryOf
  <2> HIDE DEF R
  <2> QED BY <1>3, <2>1, <2>2, <2>3, <2>4, <2>5
<1>7. WholeWhenRunIsClean'
  <2> SUFFICES ASSUME NEW i \in Ids, owed # <<>>, owed[1] = i, IsLong(sms[i])', CleanRun(i)'
               PROVE  got # <<>> /\ got[Len(got)] = AllOf(i)'
    BY DEF WholeWhenRunIsClean
  <2>1. order # <<>> /\ order[n] = owed /\ n \in 1..n
    BY <1>1 DEF LongInv, OwedIsLast
  <2>2. sms'[i] = sms[i] /\ Total(i)' = Total(i)
    BY <1>2, <2>1 DEF Total
  <2>3. AllOf(i)' = AllOf(i) /\ IsLong(sms[i])
    BY <2>2 DEF AllOf
  <2>a. PICK x : x = sms[i].ref
    OBVIOUS
  <2>4. Run(x, n - 1)' = Run(x, n - 1)
    BY <1>4
  <2>b. {order[j] : j \in Run(x, n - 1)'} = {<<i, k>> : k \in 1..(Total(i) - 1)}
    BY <1>1, <2>2, <2>a DEF CleanRun, Run
  <2>5. CleanRun(i)
    BY <1>1, <2>2, <2>4, <2>a, <2>b DEF CleanRun
  <2> QED BY <2>3, <2>5 DEF LongInv, WholeWhenRunIsClean
<1>8. KeptHere'
  <2> SUFFICES ASSUME NEW j \in 1..n
               PROVE  LET k == order[j][2]
                          r == sms[order[j][1]].ref
                      IN  \/ \E m \in DOMAIN got : <<order[j]>> \in Range(got[m])
                          \/ cache[r] # NoSms /\ k \in DOMAIN cache[r] /\ cache[r][k] = <<order[j]>>
                          \/ \E l \in (j + 1)..n : order[l][2] = k /\ WithRef(order[l], r)'
                          \/ panicked /\ j = n
    BY <1>1, <1>2, SMTT(30) DEF KeptHere
  <2>1. \A l \in (j + 1)..n : l \in 1..n
    OBVIOUS
  <2>2. \A l \in (j + 1)..n : \A x : WithRef(order[l], x)' <=> WithRef(order[l], x)
    BY <1>3, <2>1
  <2>3. KeptHere /\ j \in DOMAIN order
    BY <1>1 DEF LongInv
  <2> DEFINE k == order[j][2]
             r == sms[order[j][1]].ref
  <2>4. \/ \E m \in DOMAIN got : <<order[j]>> \in Range(got[m])
        \/ cache[r] # NoSms /\ k \in DOMAIN cache[r] /\ cache[r][k] = <<order[j]>>
        \/ \E l \in (j + 1)..n : order[l][2] = k /\ WithRef(order[l], r)
        \/ panicked /\ j = n
    BY <2>3 DEF KeptHere
  <2>5. sms'[order[j][1]] = sms[order[j][1]]
    BY <1>2
  <2> QED BY <1>1, <2>2, <2>4, <2>5
<1>9. PanicNeedsMixing'
  <2> SUFFICES ASSUME panicked PROVE PanicNeedsMixing'
    BY DEF PanicNeedsMixing
  <2>a. PICK r : r = sms[order[n][1]].ref
    OBVIOUS
  <2>1. PICK j \in Run(r, n - 1) : Total(order[j][1]) < order[n][2]
    BY <2>a DEF LongInv, PanicNeedsMixing
  <2>2. j \in 1..n /\ n \in 1..n
    BY <2>1 DEF Run
  <2>3. Total(order[j][1])' = Total(order[j][1])
    BY <1>3, <2>2
  <2>4. sms'[order[n][1]].ref = r
    BY <1>2, <2>2, <2>a
  <2>5. j \in Run(r, n - 1)'
    BY <1>4, <2>1
  <2> QED BY <1>1, <2>1, <2>3, <2>4, <2>5 DEF PanicNeedsMixing, Run
<1> QED BY <1>5, <1>6, <1>7, <1>8, <1>9

LEMMA LongInit == Init => LongInv
<1> SUFFICES ASSUME Init PROVE LongInv
  OBVIOUS
<1> USE LongSmsAssumption
<1>1. order \in Seq(Parts) /\ got \in Seq(Seq(Slot)) /\ Len(order) = 0 /\ DOMAIN order = {}
  BY DEF Init
<1>2. /\ next \in [Ids -> 1..(MaxParts + 1)] /\ Len(past) <= MaxCuts
      /\ past \in Seq([order : Seq(Parts), owed : {<<>>} \cup Parts])
  BY DEF Init
<1>3. TypeOK
  BY <1>1, <1>2 DEF Init, TypeOK, NoCache
<1>4. PartsSent /\ OwedIsLast
  BY <1>1 DEF Init, PartsSent, OwedIsLast
<1>5. CacheInv
  BY <1>1 DEF Init, CacheInv, EntryOf, NoCache, Run
<1>6. WholeWhenRunIsClean /\ KeptHere /\ PanicNeedsMixing
  BY <1>1 DEF Init, WholeWhenRunIsClean, KeptHere, PanicNeedsMixing
<1> QED BY <1>3, <1>4, <1>5, <1>6 DEF LongInv

\* Sending, the answer to the SMSC and a stutter.
LEMMA SendSteps ==
  ASSUME LongInv,
         \/ \E i \in Ids : Send(i) \/ Submit(i) \/ SubmitFails(i)
         \/ DeliverSmResp \/ UNCHANGED vars
  PROVE  LongInv'
<1>0. PICK n \in Nat : n = Len(order)
  BY DEF LongInv, TypeOK
<1>s. /\ order \in Seq(Parts) /\ \A j \in 1..n : order[j][1] \in Ids
      /\ \A i \in Ids : Sent(i) => Total(i) \in 1..MaxParts
      /\ MaxParts \in 1..255
  BY <1>0, SentRange, LongSmsAssumption DEF LongInv, TypeOK, Parts
<1>1. ASSUME NEW i \in Ids, Send(i) PROVE LongInv'
  <2>1. PICK t \in Texts, r \in Refs :
          sms' = [sms EXCEPT ![i] = [len |-> t.len, code |-> t.code, ref |-> r]]
    BY <1>1 DEF Send
  <2>2. t.len \in Nat /\ t.code \in {0, 8}
    BY LongSmsAssumption
  <2>3. /\ sms' \in [Ids -> {NoSms} \cup [len : Nat, code : {0, 8}, ref : Refs]]
        /\ \A j \in Ids : Sent(j) => sms'[j] = sms[j]
    BY <1>1, <2>1, <2>2 DEF Send, LongInv, TypeOK
  <2>4. TypeOK'
    BY <1>1, <2>3 DEF Send, LongInv, TypeOK
  <2>5. \A j \in Ids : Sent(j) => Sent(j)' /\ Total(j)' = Total(j)
    BY <2>3 DEF Sent, Total
  <2>6. PartsSent'
    BY <1>0, <1>1, <1>s, <2>5 DEF Send, LongInv, PartsSent
  <2> QED BY <1>0, <1>1, <2>3, <2>4, <2>6, Quiet DEF Send, LongInv
<1>2. ASSUME NEW i \in Ids, Submit(i) \/ SubmitFails(i) PROVE LongInv'
  <2>0. Sent(i) /\ sms' = sms /\ next[i] <= Total(i)
    BY <1>2 DEF Submit, SubmitFails
  <2>1. Sent(i) /\ next[i] \in 1..Total(i) /\ sms' = sms
    BY <1>s, <2>0 DEF LongInv, TypeOK
  <2>2. smsc' \in {smsc, smsc \cup {<<i, next[i]>>}}
    BY <1>2 DEF Submit, SubmitFails
  <2>3. next' \in [Ids -> 1..(MaxParts + 1)]
    <3>1. next[i] + 1 \in 1..(MaxParts + 1) /\ Total(i) + 1 \in 1..(MaxParts + 1)
      BY <1>s, <2>1
    <3>2. \/ next' = [next EXCEPT ![i] = next[i] + 1]
          \/ next' = [next EXCEPT ![i] = Total(i) + 1]
      BY <1>2 DEF Submit, SubmitFails
    <3> QED BY <3>1, <3>2 DEF LongInv, TypeOK
  <2>4. TypeOK'
    BY <1>2, <1>s, <2>1, <2>2, <2>3 DEF Submit, SubmitFails, LongInv, TypeOK, Parts
  <2>5. \A j \in Ids : (Sent(j)' <=> Sent(j)) /\ Total(j)' = Total(j)
    BY <2>1 DEF Sent, Total
  <2>6. PartsSent'
    BY <1>0, <1>2, <1>s, <2>1, <2>2, <2>5 DEF Submit, SubmitFails, LongInv, PartsSent
  <2> QED BY <1>0, <1>2, <2>1, <2>4, <2>6, Quiet DEF Submit, SubmitFails, LongInv
<1>3. ASSUME DeliverSmResp \/ UNCHANGED vars PROVE LongInv'
  <2>1. sms' = sms /\ smsc' \subseteq smsc /\ owed' \in {owed, <<>>}
    BY <1>3 DEF DeliverSmResp, vars
  <2>2. TypeOK'
    BY <1>3, <2>1 DEF DeliverSmResp, vars, LongInv, TypeOK
  <2>3. \A j \in Ids : (Sent(j)' <=> Sent(j)) /\ Total(j)' = Total(j)
    BY <2>1 DEF Sent, Total
  <2>4. PartsSent'
    BY <1>0, <1>3, <1>s, <2>1, <2>3 DEF DeliverSmResp, vars, LongInv, PartsSent
  <2> QED BY <1>0, <1>3, <2>1, <2>2, <2>4, Quiet DEF DeliverSmResp, vars, LongInv
<1> QED BY <1>1, <1>2, <1>3

LEMMA ReconnectStep == LongInv /\ Reconnect => LongInv'
<1> SUFFICES ASSUME LongInv, Reconnect PROVE LongInv'
  OBVIOUS
<1>1. /\ order' \in Seq(Parts) /\ Len(order') = 0 /\ DOMAIN order' = {}
      /\ owed' = <<>> /\ cache' = NoCache /\ ~panicked' /\ sms' = sms /\ smsc' = smsc
  BY DEF Reconnect
<1>2. /\ past' \in Seq([order : Seq(Parts), owed : {<<>>} \cup Parts])
      /\ Len(past') <= MaxCuts
  <2>1. PICK S : S = [order : Seq(Parts), owed : {<<>>} \cup Parts]
    OBVIOUS
  <2>2. PICK e \in S : e = [order |-> order, owed |-> owed]
    BY <2>1 DEF LongInv, TypeOK
  <2>3. past \in Seq(S) /\ Len(past) < MaxCuts /\ past' = Append(past, e)
    BY <2>1, <2>2 DEF Reconnect, LongInv, TypeOK
  <2>4. past' \in Seq(S) /\ Len(past') = Len(past) + 1 /\ Len(past) \in Nat
    BY ONLY e \in S, <2>3
  <2>5. Len(past') <= MaxCuts
    BY <2>3, <2>4, LongSmsAssumption
  <2> QED BY ONLY <2>1, <2>4, <2>5
<1>3. TypeOK'
  BY <1>1, <1>2 DEF Reconnect, LongInv, TypeOK, NoCache
<1>4. \A j \in Ids : (Sent(j)' <=> Sent(j)) /\ Total(j)' = Total(j)
  BY <1>1 DEF Sent, Total
<1>5. PartsSent' /\ OwedIsLast'
  BY <1>1, <1>4 DEF LongInv, PartsSent, OwedIsLast
<1>6. CacheInv'
  BY <1>1 DEF CacheInv, EntryOf, NoCache, Run
<1>7. WholeWhenRunIsClean' /\ KeptHere' /\ PanicNeedsMixing'
  BY <1>1 DEF WholeWhenRunIsClean, KeptHere, PanicNeedsMixing
<1> QED BY <1>3, <1>5, <1>6, <1>7 DEF LongInv

-------------------------------------------------------------------------------
(* A part is handled.                                                        *)

\* What reading a part does whatever its kind.
LEMMA ReadFrame ==
  ASSUME LongInv, NEW i \in Ids, NEW k \in 1..MaxParts, <<i, k>> \in smsc, Read(i, k),
         NEW n \in Nat, n = Len(order)
  PROVE  /\ ~panicked /\ Sent(i) /\ k \in 1..Total(i) /\ <<i, k>> \in Parts
         /\ Total(i) \in 1..MaxParts /\ MaxParts \in 1..255 /\ sms[i].ref \in Refs
         /\ sms' = sms /\ order' = Append(order, <<i, k>>) /\ owed' = <<i, k>>
         /\ order \in Seq(Parts) /\ \A j \in 1..n : Sent(order[j][1]) /\ order[j] \in Parts
         /\ order' \in Seq(Parts) /\ Len(order') = n + 1 /\ DOMAIN order' = 1..(n + 1)
         /\ order'[n + 1] = <<i, k>> /\ \A j \in 1..n : order'[j] = order[j]
         /\ PartsSent' /\ OwedIsLast'
<1>1. /\ ~panicked /\ sms' = sms /\ smsc' = smsc /\ order' = Append(order, <<i, k>>)
      /\ owed' = <<i, k>>
  BY DEF LongInv, TypeOK, Read
<1>2. Sent(i) /\ k <= Total(i) /\ <<i, k>> \in Parts
  BY DEF LongInv, PartsSent, Parts
<1>3. Total(i) \in 1..MaxParts /\ MaxParts \in 1..255 /\ sms[i].ref \in Refs
  BY <1>2, SentRange DEF LongInv
<1>4. order \in Seq(Parts) /\ \A j \in 1..n : Sent(order[j][1]) /\ order[j] \in Parts
  BY DEF LongInv, TypeOK, PartsSent
<1>5. /\ order' \in Seq(Parts) /\ Len(order') = n + 1 /\ DOMAIN order' = 1..(n + 1)
      /\ order'[n + 1] = <<i, k>> /\ \A j \in 1..n : order'[j] = order[j]
  BY <1>1, <1>2, <1>4
<1>6. \A j \in Ids : (Sent(j)' <=> Sent(j)) /\ Total(j)' = Total(j)
  BY <1>1 DEF Sent, Total
<1>7. PartsSent'
  <2>1. \A j \in 1..n : Sent(order[j][1]) /\ order[j][2] <= Total(order[j][1]) /\ order[j][1] \in Ids
    BY <1>4 DEF LongInv, PartsSent, Parts
  <2>2. \A j \in 1..(n + 1) : Sent(order'[j][1]) /\ order'[j][2] <= Total(order'[j][1])
                              /\ order'[j][1] \in Ids
    BY <1>2, <1>5, <2>1
  <2> QED BY <1>1, <1>5, <1>6, <2>2 DEF LongInv, PartsSent
<1>8. OwedIsLast'
  BY <1>1, <1>5 DEF OwedIsLast
<1> QED BY <1>1, <1>2, <1>3, <1>4, <1>5, <1>7, <1>8

\* Nothing handled is dropped when what leaves the cache is handed on or made way
\* for the part that has just come.
LEMMA KeptStep ==
  ASSUME LongInv, NEW i \in Ids, NEW k \in 1..MaxParts, <<i, k>> \in smsc, Read(i, k),
         \A m \in DOMAIN got : m \in DOMAIN got' /\ got'[m] = got[m],
         \A x \in Refs, h \in 1..MaxParts, q \in Parts :
           cache[x] # NoSms /\ h \in DOMAIN cache[x] /\ cache[x][h] = <<q>> =>
             \/ \E m \in DOMAIN got' : <<q>> \in Range(got'[m])
             \/ cache'[x] # NoSms /\ h \in DOMAIN cache'[x] /\ cache'[x][h] = <<q>>
             \/ h = k /\ WithRef(<<i, k>>, x),
         \/ \E m \in DOMAIN got' : <<<<i, k>>>> \in Range(got'[m])
         \/ /\ cache'[sms[i].ref] # NoSms /\ k \in DOMAIN cache'[sms[i].ref]
            /\ cache'[sms[i].ref][k] = <<<<i, k>>>>
         \/ panicked'
  PROVE  KeptHere'
<1>0. PICK n \in Nat : n = Len(order)
  BY DEF LongInv, TypeOK
<1>1. /\ ~panicked /\ sms' = sms /\ DOMAIN order' = 1..(n + 1) /\ Len(order') = n + 1
      /\ order'[n + 1] = <<i, k>> /\ \A j \in 1..n : order'[j] = order[j]
      /\ \A j \in 1..n : Sent(order[j][1]) /\ order[j] \in Parts
      /\ order \in Seq(Parts)
  BY <1>0, ReadFrame
<1>2. \A q, x : WithRef(q, x)' <=> WithRef(q, x)
  BY <1>1 DEF WithRef
<1>3. ASSUME NEW j \in 1..n, NEW h, h = order[j][2], NEW r, r = sms[order[j][1]].ref
      PROVE  \/ \E m \in DOMAIN got' : <<order[j]>> \in Range(got'[m])
             \/ cache'[r] # NoSms /\ h \in DOMAIN cache'[r] /\ cache'[r][h] = <<order[j]>>
             \/ \E l \in (j + 1)..(n + 1) : order'[l][2] = h /\ WithRef(order'[l], r)
  <2>1. h \in 1..MaxParts /\ order[j] \in Parts /\ r \in Refs /\ j \in DOMAIN order
    BY <1>0, <1>1, <1>3, SentRange DEF LongInv, Parts
  <2>2. \/ \E m \in DOMAIN got : <<order[j]>> \in Range(got[m])
        \/ cache[r] # NoSms /\ h \in DOMAIN cache[r] /\ cache[r][h] = <<order[j]>>
        \/ \E l \in (j + 1)..n : order[l][2] = h /\ WithRef(order[l], r)
    BY <1>0, <1>1, <1>3, <2>1 DEF LongInv, KeptHere
  <2>3. CASE \E m \in DOMAIN got : <<order[j]>> \in Range(got[m])
    BY <2>3
  <2>4. CASE cache[r] # NoSms /\ h \in DOMAIN cache[r] /\ cache[r][h] = <<order[j]>>
    <3>1. \/ \E m \in DOMAIN got' : <<order[j]>> \in Range(got'[m])
          \/ cache'[r] # NoSms /\ h \in DOMAIN cache'[r] /\ cache'[r][h] = <<order[j]>>
          \/ h = k /\ WithRef(<<i, k>>, r)
      BY <2>1, <2>4
    <3>2. n + 1 \in (j + 1)..(n + 1) /\ order'[n + 1][2] = k
      BY <1>1
    <3> QED BY <1>1, <3>1, <3>2
  <2>5. CASE \E l \in (j + 1)..n : order[l][2] = h /\ WithRef(order[l], r)
    <3>1. PICK l \in (j + 1)..n : order[l][2] = h /\ WithRef(order[l], r)
      BY <2>5
    <3>2. l \in (j + 1)..(n + 1) /\ order'[l] = order[l]
      BY <1>1
    <3> QED BY <3>1, <3>2
  <2> QED BY <2>2, <2>3, <2>4, <2>5
<1> SUFFICES ASSUME NEW j \in 1..(n + 1)
             PROVE  LET h == order'[j][2]
                        r == sms'[order'[j][1]].ref
                    IN  \/ \E m \in DOMAIN got' : <<order'[j]>> \in Range(got'[m])
                        \/ cache'[r] # NoSms /\ h \in DOMAIN cache'[r] /\ cache'[r][h] = <<order'[j]>>
                        \/ \E l \in (j + 1)..(n + 1) : order'[l][2] = h /\ WithRef(order[l], sms[order[j][1]].ref)'
                        \/ panicked' /\ j = n + 1
  BY <1>1 DEF KeptHere
<1>4. PICK h : h = order'[j][2]
  OBVIOUS
<1>5. PICK r : r = sms[order'[j][1]].ref
  OBVIOUS
<1>6. CASE j = n + 1
  <2>1. /\ order'[j] = <<i, k>> /\ order'[j][2] = k
        /\ sms'[order'[j][1]].ref = sms[i].ref /\ sms[order'[j][1]].ref = sms[i].ref
    BY <1>1, <1>6
  <2> QED BY <1>6, <2>1, Zenon
<1>7. CASE j # n + 1
  <2>1. j \in 1..n /\ order'[j] = order[j]
    BY <1>1, <1>7
  <2>2. \/ \E m \in DOMAIN got' : <<order[j]>> \in Range(got'[m])
        \/ cache'[r] # NoSms /\ h \in DOMAIN cache'[r] /\ cache'[r][h] = <<order[j]>>
        \/ \E l \in (j + 1)..(n + 1) : order'[l][2] = h /\ WithRef(order'[l], r)
    <3>1. j \in 1..n /\ h = order[j][2] /\ r = sms[order[j][1]].ref
      BY <1>1, <1>4, <1>5, <2>1
    <3> QED BY ONLY <3>1, <1>3
  <2>3. ASSUME NEW l, WithRef(order'[l], r) PROVE WithRef(order[l], sms[order[j][1]].ref)'
    BY <1>1, <1>5, <2>3 DEF WithRef
  <2> QED BY <1>1, <1>4, <1>5, <2>1, <2>2, <2>3
<1> QED BY <1>6, <1>7

\* The entry of another reference is left as it was.
LEMMA OtherRef ==
  ASSUME LongInv, NEW i \in Ids, NEW k \in 1..MaxParts, <<i, k>> \in smsc, Read(i, k),
         NEW x \in Refs, ~WithRef(<<i, k>>, x), cache'[x] = cache[x]
  PROVE  EntryOf(x)'
<1>0. PICK n \in Nat : n = Len(order)
  BY DEF LongInv, TypeOK
<1>1. /\ ~panicked /\ sms' = sms /\ Len(order') = n + 1 /\ <<i, k>> \in Parts
      /\ order' = Append(order, <<i, k>>) /\ order \in Seq(Parts)
      /\ \A j \in 1..n : order'[j] = order[j]
  BY <1>0, ReadFrame
<1>2. Run(x, n + 1)' = Run(x, n)
  BY <1>0, <1>1, RunAppend
<1>3. PICK R : R = Run(x, n)
  OBVIOUS
<1>4. /\ cache[x] = NoSms => R = {}
      /\ cache[x] # NoSms =>
           /\ \E j \in R : Len(cache[x]) = Total(order[j][1])
           /\ \A j \in R : order[j][2] \in DOMAIN cache[x] /\ cache[x][order[j][2]] # <<>>
           /\ \A h \in DOMAIN cache[x] : cache[x][h] # <<>> =>
                \E j \in R : order[j][2] = h /\ cache[x][h] = <<order[j]>>
  BY <1>0, <1>1, <1>3 DEF LongInv, CacheInv, EntryOf
<1>5. EntryOf(x)' <=>
        /\ cache'[x] = NoSms => Run(x, n + 1)' = {}
        /\ cache'[x] # NoSms =>
             /\ \E j \in Run(x, n + 1)' : Len(cache'[x]) = Total(order[j][1])'
             /\ \A j \in Run(x, n + 1)' :
                  order'[j][2] \in DOMAIN cache'[x] /\ cache'[x][order'[j][2]] # <<>>
             /\ \A h \in DOMAIN cache'[x] : cache'[x][h] # <<>> =>
                  \E j \in Run(x, n + 1)' : order'[j][2] = h /\ cache'[x][h] = <<order'[j]>>
  BY <1>1 DEF EntryOf
<1>6. Run(x, n + 1)' = R
  BY <1>2, <1>3
<1>7. ASSUME NEW j \in R
      PROVE  order'[j] = order[j] /\ Total(order[j][1])' = Total(order[j][1])
  BY <1>1, <1>3 DEF Run, Total
<1> QED BY <1>4, <1>5, <1>6, <1>7

\* A text that is not long.
LEMMA ReadWhole ==
  ASSUME LongInv, NEW i \in Ids, NEW k \in 1..MaxParts, <<i, k>> \in smsc, Read(i, k),
         ~IsLong(sms[i])
  PROVE  LongInv'
<1>0. PICK n \in Nat : n = Len(order)
  BY DEF LongInv, TypeOK
<1>1. /\ ~panicked /\ sms' = sms /\ order' \in Seq(Parts) /\ owed' = <<i, k>>
      /\ <<i, k>> \in Parts /\ PartsSent' /\ OwedIsLast'
  BY <1>0, ReadFrame
<1>2. /\ cache' = cache /\ panicked' = panicked /\ got' = Append(got, <<<<<<i, k>>>>>>)
      /\ next' = next /\ smsc' = smsc /\ past' = past
  BY <1>1 DEF Read
<1>3. <<<<i, k>>>> \in Slot
  BY <1>1 DEF Slot
<1>4. <<<<<<i, k>>>>>> \in Seq(Slot) /\ got \in Seq(Seq(Slot))
  BY <1>3 DEF LongInv, TypeOK
<1>5. /\ got' \in Seq(Seq(Slot)) /\ Len(got') \in DOMAIN got'
      /\ got'[Len(got')] = <<<<<<i, k>>>>>>
      /\ \A m \in DOMAIN got : m \in DOMAIN got' /\ got'[m] = got[m]
  <2>1. PICK S : S = Seq(Slot)
    OBVIOUS
  <2> QED BY <1>2, <1>4, <2>1, HandedOn
<1>6. TypeOK'
  <2>1. owed' \in {<<>>} \cup Parts
    BY <1>1
  <2> QED BY <1>1, <1>2, <1>5, <2>1 DEF LongInv, TypeOK
<1>7. CacheInv'
  <2>1. \A x : ~WithRef(<<i, k>>, x)
    BY DEF WithRef
  <2> QED BY <1>2, <2>1, OtherRef DEF CacheInv
<1>8. WholeWhenRunIsClean' /\ PanicNeedsMixing'
  BY <1>1, <1>2 DEF WholeWhenRunIsClean, PanicNeedsMixing
<1>9. KeptHere'
  <2>1. <<<<i, k>>>> \in Range(got'[Len(got')])
    BY <1>5 DEF Range
  <2> QED BY <1>2, <1>5, <2>1, KeptStep
<1> QED BY <1>1, <1>6, <1>7, <1>8, <1>9 DEF LongInv

\* When the run before the last part of message i is clean, every part of the run
\* is of message i.
LEMMA CleanIsOwn ==
  ASSUME LongInv, NEW i \in Ids, NEW k \in 1..MaxParts, <<i, k>> \in smsc, Read(i, k),
         NEW n \in Nat, n = Len(order), NEW r, r = sms[i].ref, CleanRun(i)'
  PROVE  /\ k = Total(i)
         /\ \A j \in Run(r, n) : order[j][1] = i /\ order[j][2] \in 1..(k - 1)
         /\ \A h \in 1..(k - 1) : <<i, h>> \in {order[j] : j \in Run(r, n)}
<1>1. /\ sms' = sms /\ Len(order') = n + 1 /\ <<i, k>> \in Parts
      /\ order' = Append(order, <<i, k>>) /\ order \in Seq(Parts)
      /\ order'[n + 1] = <<i, k>> /\ \A j \in 1..n : order'[j] = order[j]
      /\ Total(i) \in 1..MaxParts /\ MaxParts \in 1..255
  BY ReadFrame
<1>2. Run(r, n)' = Run(r, n)
  BY <1>1, RunAppend
<1>3. order'[n + 1] = <<i, Total(i)>>
  BY <1>1 DEF CleanRun, Total
<1>4. k = Total(i)
  BY <1>1, <1>3
<1>5. {order'[j] : j \in Run(r, n)'} = {<<i, h>> : h \in 1..(k - 1)}
  <2>1. sms'[i].ref = r /\ Len(order') - 1 = n /\ Total(i)' = k
    BY <1>1, <1>4 DEF Total
  <2> QED BY <2>1 DEF CleanRun, Run
<1>6. ASSUME NEW j \in Run(r, n) PROVE order'[j] = order[j]
  BY <1>1 DEF Run
<1>7. ASSUME NEW j \in Run(r, n) PROVE order[j][1] = i /\ order[j][2] \in 1..(k - 1)
  BY <1>2, <1>5, <1>6
<1>8. ASSUME NEW h \in 1..(k - 1) PROVE <<i, h>> \in {order[j] : j \in Run(r, n)}
  <2>1. <<i, h>> \in {order'[j] : j \in Run(r, n)'}
    BY <1>5
  <2>2. PICK j \in Run(r, n)' : order'[j] = <<i, h>>
    BY <2>1
  <2> QED BY <1>2, <1>6, <2>2
<1> QED BY <1>4, <1>7, <1>8

\* The part has no slot: the entry was made for a shorter message.
LEMMA ReadPanics ==
  ASSUME LongInv, NEW i \in Ids, NEW k \in 1..MaxParts, <<i, k>> \in smsc, Read(i, k),
         IsLong(sms[i]), k > Len(Slots(i))
  PROVE  LongInv'
<1>0. PICK n \in Nat : n = Len(order)
  BY DEF LongInv, TypeOK
<1>1. /\ ~panicked /\ sms' = sms /\ order' \in Seq(Parts) /\ owed' = <<i, k>>
      /\ <<i, k>> \in Parts /\ PartsSent' /\ OwedIsLast' /\ Sent(i) /\ k \in 1..Total(i)
      /\ Len(order') = n + 1 /\ order'[n + 1] = <<i, k>> /\ \A j \in 1..n : order'[j] = order[j]
      /\ order' = Append(order, <<i, k>>) /\ order \in Seq(Parts)
      /\ Total(i) \in 1..MaxParts /\ sms[i].ref \in Refs
  BY <1>0, ReadFrame
<1>2. /\ cache' = cache /\ panicked' = TRUE /\ got' = got
      /\ next' = next /\ smsc' = smsc /\ past' = past
  BY DEF Read
<1>3. TypeOK'
  <2>1. owed' \in {<<>>} \cup Parts
    BY <1>1
  <2> QED BY <1>1, <1>2, <2>1 DEF LongInv, TypeOK
<1>4. CacheInv'
  BY <1>2 DEF CacheInv
<1>5. KeptHere'
  BY <1>2, KeptStep
<1>6. PICK r \in Refs : r = sms[i].ref
  BY <1>1
<1>7. cache[r] # NoSms /\ Slots(i) = cache[r]
  <2>1. Slots(i) \in Seq(Slot) /\ (cache[r] = NoSms => Len(Slots(i)) = Total(i))
    BY <1>1, <1>6, SlotsTyped DEF LongInv
  <2>2. cache[r] # NoSms
    BY <1>1, <2>1
  <2> QED BY <1>1, <1>6, <2>2, SlotsTyped DEF LongInv
<1>8. PICK j \in Run(r, n) : Len(cache[r]) = Total(order[j][1])
  BY <1>0, <1>1, <1>7 DEF LongInv, CacheInv, EntryOf
<1>9. Total(order[j][1]) < k /\ j \in 1..n
  BY <1>7, <1>8 DEF Run
<1>10. PanicNeedsMixing'
  <2>1. Run(r, n)' = Run(r, n)
    BY <1>0, <1>1, RunAppend
  <2>2. /\ sms'[order'[n + 1][1]].ref = r /\ order'[n + 1][2] = k /\ (n + 1) - 1 = n
        /\ Total(order[j][1])' = Total(order[j][1])
    BY <1>1, <1>6, <1>9 DEF Total
  <2> QED BY <1>1, <1>8, <1>9, <2>1, <2>2 DEF PanicNeedsMixing, Run
<1>11. WholeWhenRunIsClean'
  <2>1. ~CleanRun(i)'
    BY <1>0, <1>6, <1>8, <1>9, CleanIsOwn
  <2> QED BY <1>1, <2>1 DEF WholeWhenRunIsClean
<1> QED BY <1>1, <1>3, <1>4, <1>5, <1>10, <1>11 DEF LongInv

\* The slots with the part in its place.
LEMMA Filled ==
  ASSUME LongInv, NEW i \in Ids, Sent(i), NEW k \in 1..MaxParts, ~(k > Len(Slots(i))), NEW c,
         c = [Slots(i) EXCEPT ![k] = <<<<i, k>>>>]
  PROVE  /\ c \in Seq(Slot) /\ Len(c) = Len(Slots(i)) /\ DOMAIN c = 1..Len(c) /\ Len(c) \in Nat
         /\ k \in DOMAIN c /\ c[k] = <<<<i, k>>>> /\ c # NoSms
         /\ \A h \in DOMAIN c : h # k => c[h] = Slots(i)[h]
<1>1. Slots(i) \in Seq(Slot) /\ Len(Slots(i)) \in 1..MaxParts /\ MaxParts \in 1..255
  BY SlotsTyped, LongSmsAssumption DEF LongInv
<1>2. <<i, k>> \in Parts
  BY DEF Parts
<1>3. k \in 1..Len(Slots(i))
  BY <1>1
<1>4. PICK s : s = Slots(i)
  OBVIOUS
<1>5. PICK q : q = <<i, k>>
  OBVIOUS
<1>6. /\ c \in Seq(Slot) /\ Len(c) = Len(s) /\ c[k] = <<q>> /\ DOMAIN c = 1..Len(s)
      /\ \A j \in 1..Len(s) : j # k => c[j] = s[j]
  <2>1. s \in Seq(Slot) /\ k \in 1..Len(s) /\ q \in Parts /\ c = [s EXCEPT ![k] = <<q>>]
    BY <1>1, <1>2, <1>3, <1>4, <1>5
  <2> QED BY ONLY <2>1, SlotFilled
<1>7. c # NoSms
  BY <1>6, LongSmsAssumption DEF Slot, Parts
<1> QED BY <1>1, <1>3, <1>4, <1>5, <1>6, <1>7

\* The last part of a long message.
LEMMA ReadLast ==
  ASSUME LongInv, NEW i \in Ids, NEW k \in 1..MaxParts, <<i, k>> \in smsc, Read(i, k),
         IsLong(sms[i]), ~(k > Len(Slots(i))), k = Total(i)
  PROVE  LongInv'
<1>0. PICK n \in Nat : n = Len(order)
  BY DEF LongInv, TypeOK
<1>1. /\ ~panicked /\ sms' = sms /\ order' \in Seq(Parts) /\ owed' = <<i, k>>
      /\ <<i, k>> \in Parts /\ PartsSent' /\ OwedIsLast' /\ Sent(i)
      /\ Len(order') = n + 1 /\ order'[n + 1] = <<i, k>> /\ \A j \in 1..n : order'[j] = order[j]
      /\ order' = Append(order, <<i, k>>) /\ order \in Seq(Parts)
      /\ Total(i) \in 1..MaxParts /\ MaxParts \in 1..255
  BY <1>0, ReadFrame
<1>2. PICK r \in Refs : r = sms[i].ref
  BY <1>1, SentRange DEF LongInv
<1>3. PICK c : c = [Slots(i) EXCEPT ![k] = <<<<i, k>>>>]
  OBVIOUS
<1>4. /\ cache' = [cache EXCEPT ![r] = NoSms] /\ panicked' = panicked /\ got' = Append(got, c)
      /\ next' = next /\ smsc' = smsc /\ past' = past
  BY <1>2, <1>3 DEF Read, Join
<1>5. /\ c \in Seq(Slot) /\ Len(c) = Len(Slots(i)) /\ DOMAIN c = 1..Len(c) /\ Len(c) \in Nat
      /\ k \in DOMAIN c /\ c[k] = <<<<i, k>>>>
      /\ \A h \in DOMAIN c : h # k => c[h] = Slots(i)[h]
  BY <1>1, <1>3, Filled
<1>6. /\ got' \in Seq(Seq(Slot)) /\ Len(got') \in DOMAIN got' /\ got'[Len(got')] = c
      /\ \A m \in DOMAIN got : m \in DOMAIN got' /\ got'[m] = got[m]
  <2>1. PICK S : S = Seq(Slot)
    OBVIOUS
  <2>2. got \in Seq(S)
    BY <2>1 DEF LongInv, TypeOK
  <2> QED BY <1>4, <1>5, <2>1, <2>2, HandedOn
<1>7. /\ DOMAIN cache' = Refs /\ cache'[r] = NoSms
      /\ \A x \in Refs : x # r => cache'[x] = cache[x]
  BY <1>4 DEF LongInv, TypeOK
<1>8. TypeOK'
  <2>1. owed' \in {<<>>} \cup Parts
    BY <1>1
  <2>2. \A x \in Refs : cache'[x] = NoSms \/ (cache'[x] \in Seq(Slot) /\ Len(cache'[x]) \in 2..MaxParts)
    BY <1>7 DEF LongInv, TypeOK
  <2> QED BY <1>1, <1>4, <1>6, <1>7, <2>1, <2>2 DEF LongInv, TypeOK
<1>9. CacheInv'
  <2> SUFFICES ASSUME NEW x \in Refs PROVE EntryOf(x)'
    BY DEF CacheInv
  <2>1. CASE x = r
    <3>1. WithRef(<<i, k>>, r) /\ IsLast(<<i, k>>)
      BY <1>2 DEF WithRef, IsLast
    <3>2. Run(r, n + 1)' = {}
      BY <1>0, <1>1, <3>1, RunAppend
    <3> QED BY <1>1, <1>7, <2>1, <3>2 DEF EntryOf
  <2>2. CASE x # r
    <3>1. ~WithRef(<<i, k>>, x) /\ cache'[x] = cache[x]
      BY <1>2, <1>7, <2>2 DEF WithRef
    <3> QED BY <3>1, OtherRef
  <2> QED BY <2>1, <2>2
<1>10. PanicNeedsMixing'
  BY <1>1, <1>4 DEF PanicNeedsMixing
<1>11. KeptHere'
  <2>1. <<<<i, k>>>> \in Range(got'[Len(got')])
    BY <1>5, <1>6 DEF Range
  <2>2. ASSUME NEW x \in Refs, NEW h \in 1..MaxParts, NEW q \in Parts,
               cache[x] # NoSms, h \in DOMAIN cache[x], cache[x][h] = <<q>>
        PROVE  \/ \E m \in DOMAIN got' : <<q>> \in Range(got'[m])
               \/ cache'[x] # NoSms /\ h \in DOMAIN cache'[x] /\ cache'[x][h] = <<q>>
               \/ h = k /\ WithRef(<<i, k>>, x)
    <3>1. CASE x # r
      BY <1>7, <2>2, <3>1
    <3>2. CASE x = r /\ h = k
      BY <1>2, <3>2 DEF WithRef
    <3>3. CASE x = r /\ h # k
      <4>1. Slots(i) = cache[r]
        BY <1>1, <1>2, <2>2, <3>3, SlotsTyped DEF LongInv
      <4>2. Slots(i) \in Seq(Slot)
        BY <1>1, SlotsTyped DEF LongInv
      <4>3. h \in DOMAIN c /\ c[h] = <<q>>
        BY <1>5, <2>2, <3>3, <4>1, <4>2
      <4> QED BY <1>6, <4>3 DEF Range
    <3> QED BY <3>1, <3>2, <3>3
  <2>3. \A x \in Refs, h \in 1..MaxParts, q \in Parts :
          cache[x] # NoSms /\ h \in DOMAIN cache[x] /\ cache[x][h] = <<q>> =>
            \/ \E m \in DOMAIN got' : <<q>> \in Range(got'[m])
            \/ cache'[x] # NoSms /\ h \in DOMAIN cache'[x] /\ cache'[x][h] = <<q>>
            \/ h = k /\ WithRef(<<i, k>>, x)
    BY <2>2
  <2> QED BY <1>6, <2>1, <2>3, KeptStep
<1>12. WholeWhenRunIsClean'
  <2>0. SUFFICES ASSUME CleanRun(i)' PROVE c = AllOf(i)
    <3>1. got' # <<>> /\ AllOf(i)' = AllOf(i)
      BY <1>1, <1>6 DEF AllOf, Total
    <3> QED BY <1>1, <1>6, <3>1 DEF WholeWhenRunIsClean
  <2>1. /\ \A j \in Run(r, n) : order[j][1] = i /\ order[j][2] \in 1..(k - 1)
        /\ \A h \in 1..(k - 1) : \E j \in Run(r, n) : order[j] = <<i, h>>
    <3>1. n = Len(order) /\ r = sms[i].ref
      BY <1>0, <1>2
    <3>2. ASSUME NEW j \in Run(r, n) PROVE order[j][1] = i /\ order[j][2] \in 1..(k - 1)
      BY <2>0, <3>1, CleanIsOwn
    <3>3. ASSUME NEW h \in 1..(k - 1) PROVE \E j \in Run(r, n) : order[j] = <<i, h>>
      <4>1. <<i, h>> \in {order[j] : j \in Run(r, n)}
        BY <2>0, <3>1, CleanIsOwn
      <4> QED BY <4>1
    <3> QED BY <3>2, <3>3
  <2>2. EntryOf(r)
    BY <1>1 DEF LongInv, CacheInv
  <2>3. \A j \in Run(r, n) : j \in 1..n /\ order[j] = <<order[j][1], order[j][2]>>
    BY <1>0, <1>1 DEF Run, Parts
  <2>4. CASE cache[r] = NoSms
    <3>1. Run(r, n) = {}
      BY <1>0, <2>2, <2>4 DEF EntryOf
    <3>2. k = 1
      BY <1>1, <2>1, <3>1
    <3>3. Len(c) = 1
      BY <1>1, <1>2, <1>5, <2>4, <3>2, SlotsTyped DEF LongInv
    <3> QED BY <1>5, <3>2, <3>3 DEF AllOf
  <2>5. CASE cache[r] # NoSms
    <3>1. Slots(i) = cache[r]
      BY <1>1, <1>2, <2>5, SlotsTyped DEF LongInv
    <3>2. Len(c) = k
      <4>1. PICK j \in Run(r, n) : Len(cache[r]) = Total(order[j][1])
        BY <1>0, <2>2, <2>5 DEF EntryOf
      <4> QED BY <1>5, <2>1, <3>1, <4>1
    <3>3. ASSUME NEW h \in 1..k PROVE c[h] = <<<<i, h>>>>
      <4>1. CASE h = k
        BY <1>5, <4>1
      <4>2. CASE h # k
        <5>1. h \in 1..(k - 1) /\ h \in DOMAIN c /\ c[h] = cache[r][h]
          <6>1. h \in 1..(k - 1)
            BY <1>1, <4>2
          <6>2. h \in DOMAIN c
            BY <1>5, <3>2
          <6> QED BY <1>5, <3>1, <4>2, <6>1, <6>2
        <5>2. PICK j \in Run(r, n) : order[j] = <<i, h>>
          BY <2>1, <5>1
        <5>3. h \in DOMAIN cache[r] /\ cache[r][h] # <<>>
          BY <1>0, <2>2, <2>5, <5>2 DEF EntryOf
        <5>4. PICK l \in Run(r, n) : order[l][2] = h /\ cache[r][h] = <<order[l]>>
          BY <1>0, <2>2, <2>5, <5>3 DEF EntryOf
        <5>5. order[l] = <<i, h>>
          BY <2>1, <2>3, <5>4
        <5> QED BY <5>1, <5>4, <5>5
      <4> QED BY <4>1, <4>2
    <3>4. c = [h \in 1..k |-> c[h]]
      BY <1>5, <3>2
    <3> QED BY <3>3, <3>4 DEF AllOf
  <2> QED BY <2>4, <2>5
<1> QED BY <1>1, <1>8, <1>9, <1>10, <1>11, <1>12 DEF LongInv

\* Another part of a long message.
LEMMA ReadKeeps ==
  ASSUME LongInv, NEW i \in Ids, NEW k \in 1..MaxParts, <<i, k>> \in smsc, Read(i, k),
         IsLong(sms[i]), ~(k > Len(Slots(i))), k # Total(i)
  PROVE  LongInv'
<1>0. PICK n \in Nat : n = Len(order)
  BY DEF LongInv, TypeOK
<1>1. /\ ~panicked /\ sms' = sms /\ order' \in Seq(Parts) /\ owed' = <<i, k>>
      /\ <<i, k>> \in Parts /\ PartsSent' /\ OwedIsLast' /\ Sent(i)
      /\ Len(order') = n + 1 /\ order'[n + 1] = <<i, k>> /\ \A j \in 1..n : order'[j] = order[j]
      /\ order' = Append(order, <<i, k>>) /\ order \in Seq(Parts)
      /\ Total(i) \in 1..MaxParts /\ MaxParts \in 1..255 /\ k \in 1..Total(i)
  BY <1>0, ReadFrame
<1>2. PICK r \in Refs : r = sms[i].ref
  BY <1>1, SentRange DEF LongInv
<1>3. PICK c : c = [Slots(i) EXCEPT ![k] = <<<<i, k>>>>]
  OBVIOUS
<1>4. /\ cache' = [cache EXCEPT ![r] = c] /\ panicked' = panicked /\ got' = got
      /\ next' = next /\ smsc' = smsc /\ past' = past
  BY <1>2, <1>3 DEF Read, Keep
<1>5. /\ c \in Seq(Slot) /\ Len(c) = Len(Slots(i)) /\ DOMAIN c = 1..Len(c) /\ Len(c) \in Nat
      /\ k \in DOMAIN c /\ c[k] = <<<<i, k>>>> /\ c # NoSms
      /\ \A h \in DOMAIN c : h # k => c[h] = Slots(i)[h]
  BY <1>1, <1>3, Filled
<1>6. /\ DOMAIN cache' = Refs /\ cache'[r] = c
      /\ \A x \in Refs : x # r => cache'[x] = cache[x]
  BY <1>4 DEF LongInv, TypeOK
<1>7. /\ cache[r] # NoSms => Slots(i) = cache[r]
      /\ cache[r] = NoSms => Len(Slots(i)) = Total(i) /\ \A h \in 1..Total(i) : Slots(i)[h] = <<>>
      /\ DOMAIN Slots(i) = 1..Len(Slots(i))
  BY <1>1, <1>2, SlotsTyped DEF LongInv
<1>8. TypeOK'
  <2>1. owed' \in {<<>>} \cup Parts
    BY <1>1
  <2>2. Len(c) \in 2..MaxParts
    <3>1. CASE cache[r] = NoSms
      BY <1>1, <1>5, <1>7, <3>1
    <3>2. CASE cache[r] # NoSms
      BY <1>5, <1>7, <3>2 DEF LongInv, TypeOK
    <3> QED BY <3>1, <3>2
  <2>3. \A x \in Refs : cache'[x] = NoSms \/ (cache'[x] \in Seq(Slot) /\ Len(cache'[x]) \in 2..MaxParts)
    BY <1>5, <1>6, <2>2 DEF LongInv, TypeOK
  <2> QED BY <1>1, <1>4, <1>6, <2>1, <2>3 DEF LongInv, TypeOK
<1>9. CacheInv'
  <2> SUFFICES ASSUME NEW x \in Refs PROVE EntryOf(x)'
    BY DEF CacheInv
  <2>1. CASE x # r
    <3>1. ~WithRef(<<i, k>>, x) /\ cache'[x] = cache[x]
      BY <1>2, <1>6, <2>1 DEF WithRef
    <3> QED BY <3>1, OtherRef
  <2>2. EntryOf(r)'
    <3>1. WithRef(<<i, k>>, r) /\ ~IsLast(<<i, k>>)
      BY <1>2 DEF WithRef, IsLast
    <3>2. Run(r, n + 1)' = Run(r, n) \cup {n + 1}
      BY <1>0, <1>1, <3>1, RunAppend
    <3>3. ASSUME NEW j \in Run(r, n)
          PROVE  order'[j] = order[j] /\ Total(order[j][1])' = Total(order[j][1])
      BY <1>1 DEF Run, Total
    <3>4. Total(order[n + 1][1])' = Total(i) /\ order'[n + 1][2] = k
      BY <1>1 DEF Total
    <3>5. /\ cache[r] = NoSms => Run(r, n) = {}
          /\ cache[r] # NoSms =>
               /\ \E j \in Run(r, n) : Len(cache[r]) = Total(order[j][1])
               /\ \A j \in Run(r, n) : order[j][2] \in DOMAIN cache[r] /\ cache[r][order[j][2]] # <<>>
               /\ \A h \in DOMAIN cache[r] : cache[r][h] # <<>> =>
                    \E j \in Run(r, n) : order[j][2] = h /\ cache[r][h] = <<order[j]>>
      BY <1>0, <1>1 DEF LongInv, CacheInv, EntryOf
    <3>6. \E j \in Run(r, n + 1)' : Len(c) = Total(order[j][1])'
      <4>1. CASE cache[r] = NoSms
        BY <1>5, <1>7, <3>2, <3>4, <4>1
      <4>2. CASE cache[r] # NoSms
        <5>1. PICK j \in Run(r, n) : Len(cache[r]) = Total(order[j][1])
          BY <3>5, <4>2
        <5> QED BY <1>5, <1>7, <3>2, <3>3, <4>2, <5>1
      <4> QED BY <4>1, <4>2
    <3>7. ASSUME NEW j \in Run(r, n + 1)' PROVE order'[j][2] \in DOMAIN c /\ c[order'[j][2]] # <<>>
      <4>0. c[k] # <<>>
        <5>1. PICK q : q = <<i, k>>
          OBVIOUS
        <5>2. <<q>> # <<>>
          OBVIOUS
        <5> QED BY <1>5, <5>1, <5>2
      <4>1. CASE j = n + 1
        BY <1>5, <3>4, <4>0, <4>1
      <4>2. CASE j \in Run(r, n)
        <5>1. PICK h : h = order[j][2]
          OBVIOUS
        <5>2. cache[r] # NoSms /\ h \in DOMAIN cache[r] /\ cache[r][h] # <<>>
          BY <3>5, <4>2, <5>1
        <5>3. h \in DOMAIN c
          BY <1>5, <1>7, <5>2
        <5>4. c[h] # <<>>
          BY <1>5, <1>7, <4>0, <5>2, <5>3
        <5> QED BY <3>3, <4>2, <5>1, <5>3, <5>4
      <4> QED BY <3>2, <4>1, <4>2
    <3>8. ASSUME NEW h \in DOMAIN c, c[h] # <<>>
          PROVE  \E j \in Run(r, n + 1)' : order'[j][2] = h /\ c[h] = <<order'[j]>>
      <4>1. CASE h = k
        BY <1>1, <1>5, <3>2, <3>4, <4>1
      <4>2. CASE h # k
        <5>1. c[h] = Slots(i)[h] /\ h \in 1..Len(Slots(i))
          BY <1>5, <4>2
        <5>2. cache[r] # NoSms
          BY <1>7, <3>8, <5>1
        <5>3. c[h] = cache[r][h] /\ h \in DOMAIN cache[r]
          BY <1>7, <5>1, <5>2
        <5>4. PICK j \in Run(r, n) : order[j][2] = h /\ cache[r][h] = <<order[j]>>
          BY <3>5, <3>8, <5>2, <5>3
        <5> QED BY <3>2, <3>3, <5>3, <5>4
      <4> QED BY <4>1, <4>2
    <3>9. EntryOf(r)' <=>
            /\ cache'[r] = NoSms => Run(r, n + 1)' = {}
            /\ cache'[r] # NoSms =>
                 /\ \E j \in Run(r, n + 1)' : Len(cache'[r]) = Total(order[j][1])'
                 /\ \A j \in Run(r, n + 1)' :
                      order'[j][2] \in DOMAIN cache'[r] /\ cache'[r][order'[j][2]] # <<>>
                 /\ \A h \in DOMAIN cache'[r] : cache'[r][h] # <<>> =>
                      \E j \in Run(r, n + 1)' : order'[j][2] = h /\ cache'[r][h] = <<order'[j]>>
      BY <1>1 DEF EntryOf
    <3> QED BY <1>5, <1>6, <3>6, <3>7, <3>8, <3>9
  <2> QED BY <2>1, <2>2
<1>10. PanicNeedsMixing'
  BY <1>1, <1>4 DEF PanicNeedsMixing
<1>11. KeptHere'
  <2>1. ASSUME NEW x \in Refs, NEW h \in 1..MaxParts, NEW q \in Parts,
               cache[x] # NoSms, h \in DOMAIN cache[x], cache[x][h] = <<q>>
        PROVE  \/ cache'[x] # NoSms /\ h \in DOMAIN cache'[x] /\ cache'[x][h] = <<q>>
               \/ h = k /\ WithRef(<<i, k>>, x)
    <3>1. CASE x # r
      BY <1>6, <2>1, <3>1
    <3>2. CASE x = r /\ h = k
      BY <1>2, <3>2 DEF WithRef
    <3>3. CASE x = r /\ h # k
      <4>1. Slots(i) = cache[r] /\ h \in DOMAIN c
        BY <1>5, <1>7, <2>1, <3>3
      <4> QED BY <1>5, <1>6, <2>1, <3>3, <4>1
    <3> QED BY <3>1, <3>2, <3>3
  <2>2. \A x \in Refs, h \in 1..MaxParts, q \in Parts :
          cache[x] # NoSms /\ h \in DOMAIN cache[x] /\ cache[x][h] = <<q>> =>
            \/ \E m \in DOMAIN got' : <<q>> \in Range(got'[m])
            \/ cache'[x] # NoSms /\ h \in DOMAIN cache'[x] /\ cache'[x][h] = <<q>>
            \/ h = k /\ WithRef(<<i, k>>, x)
    BY <2>1
  <2>3. /\ cache'[sms[i].ref] # NoSms /\ k \in DOMAIN cache'[sms[i].ref]
        /\ cache'[sms[i].ref][k] = <<<<i, k>>>>
    BY <1>2, <1>5, <1>6
  <2> QED BY <1>4, <2>2, <2>3, KeptStep
<1>12. WholeWhenRunIsClean'
  <2>1. ~CleanRun(i)'
    BY <1>0, <1>2, CleanIsOwn
  <2> QED BY <1>1, <2>1 DEF WholeWhenRunIsClean
<1> QED BY <1>1, <1>8, <1>9, <1>10, <1>11, <1>12 DEF LongInv

LEMMA LongStep == LongInv /\ [Next]_vars => LongInv'
<1> SUFFICES ASSUME LongInv, [Next]_vars PROVE LongInv'
  OBVIOUS
<1>1. ASSUME NEW p \in smsc, Read(p[1], p[2]) PROVE LongInv'
  <2>1. PICK i \in Ids, k \in 1..MaxParts : p = <<i, k>>
    BY DEF LongInv, TypeOK, Parts
  <2>2. <<i, k>> \in smsc /\ Read(i, k)
    BY <1>1, <2>1
  <2> QED BY <2>2, ReadWhole, ReadPanics, ReadLast, ReadKeeps
<1>2. CASE Reconnect
  BY <1>2, ReconnectStep
<1>3. CASE DeliverSmResp \/ UNCHANGED vars \/ \E i \in Ids : Send(i) \/ Submit(i) \/ SubmitFails(i)
  BY <1>3, SendSteps
<1> QED BY <1>1, <1>2, <1>3 DEF Next

\* In every reachable state the cache holds, for every reference, exactly what the
\* parts since somebody's last part have left there (tranceiver.go:228-250).
THEOREM LongInvariant == Spec => []LongInv
BY LongInit, LongStep, PTL DEF Spec

\* Type correctness: an entry of the cache has a slot for every part of some text.
THEOREM LongTypes == Spec => []TypeOK
<1>1. LongInv => TypeOK
  BY DEF LongInv
<1> QED BY <1>1, LongInvariant, PTL

\* A message whose parts came on one connection, the last one last and no others
\* of its reference among them, is handed on whole, whatever else the cache has
\* seen (tranceiver.go:233-250).
THEOREM CleanRunIsWhole == Spec => []WholeWhenRunIsClean
<1>1. LongInv => WholeWhenRunIsClean
  BY DEF LongInv
<1> QED BY <1>1, LongInvariant, PTL

-------------------------------------------------------------------------------
(* The connections that were lost, and the responses they took with them.    *)

PastOf(h) == LostHere(h) /\ \A j \in DOMAIN h : Sent(h[j][1]) /\ h[j] \in Parts

PastInv == \A m \in DOMAIN past : PastOf(past[m].order)

\* What every step leaves alone: texts that are sent, and what was handed on.
LEMMA Lasting ==
  ASSUME LongInv, [Next]_vars
  PROVE  /\ \A i \in Ids : Sent(i) => Sent(i)' /\ sms'[i] = sms[i] /\ Total(i)' = Total(i)
         /\ \A m \in DOMAIN got : m \in DOMAIN got' /\ got'[m] = got[m]
         /\ past' = past \/ Reconnect
<1>1. ASSUME NEW i \in Ids, Send(i)
      PROVE  got' = got /\ past' = past /\ \A j \in Ids : Sent(j) => sms'[j] = sms[j]
  BY <1>1 DEF Send, LongInv, TypeOK
<1>2. CASE \E i \in Ids : Send(i) \/ Submit(i) \/ SubmitFails(i)
  <2>1. got' = got /\ past' = past /\ \A j \in Ids : Sent(j) => sms'[j] = sms[j]
    BY <1>1, <1>2 DEF Submit, SubmitFails
  <2> QED BY <2>1 DEF Sent, Total
<1>3. CASE DeliverSmResp \/ Reconnect \/ UNCHANGED vars
  <2>1. got' = got /\ sms' = sms /\ (past' = past \/ Reconnect)
    BY <1>3 DEF DeliverSmResp, Reconnect, vars
  <2> QED BY <2>1 DEF Sent, Total
<1>4. ASSUME NEW p \in smsc, Read(p[1], p[2])
      PROVE  sms' = sms /\ past' = past /\ \A m \in DOMAIN got : m \in DOMAIN got' /\ got'[m] = got[m]
  <2>1. got' = got \/ \E e : got' = Append(got, e)
    BY <1>4 DEF Read, Join, Keep
  <2>2. \A e : \A m \in DOMAIN got : m \in DOMAIN Append(got, e) /\ Append(got, e)[m] = got[m]
    BY DEF LongInv, TypeOK
  <2> QED BY <1>4, <2>1, <2>2 DEF Read
<1>5. CASE \E p \in smsc : Read(p[1], p[2])
  BY <1>4, <1>5 DEF Sent, Total
<1> QED BY <1>2, <1>3, <1>5 DEF Next

\* What is said of a lost connection stays true.
LEMMA StaysLost ==
  ASSUME LongInv, [Next]_vars, NEW h, LostHere(h),
         \A j \in DOMAIN h : Sent(h[j][1]) /\ h[j] \in Parts,
         NEW n \in Nat, DOMAIN h = 1..n, Len(h) = n
  PROVE  LostHere(h)' /\ \A j \in DOMAIN h : Sent(h[j][1])' /\ h[j] \in Parts
<1>1. \A j \in 1..n : h[j][1] \in Ids /\ Sent(h[j][1])' /\ sms'[h[j][1]] = sms[h[j][1]]
                       /\ Total(h[j][1])' = Total(h[j][1])
  BY Lasting DEF Parts
<1>2. ASSUME NEW j \in 1..n
      PROVE  /\ \A x : WithRef(h[j], x)' <=> WithRef(h[j], x)
             /\ IsLast(h[j])' <=> IsLast(h[j])
  BY <1>1 DEF WithRef, IsLast
<1>3. \A m \in DOMAIN got : m \in DOMAIN got' /\ got'[m] = got[m]
  BY Lasting
<1>4. ASSUME NEW j \in 1..n, NEW r, r = sms[h[j][1]].ref
      PROVE  \/ \E m \in DOMAIN got' : <<h[j]>> \in Range(got'[m])
             \/ \E l \in (j + 1)..n : h[l][2] = h[j][2] /\ WithRef(h[l], r)'
             \/ \A l \in j..n : WithRef(h[l], r)' => ~IsLast(h[l])'
  <2>1. \/ \E m \in DOMAIN got : <<h[j]>> \in Range(got[m])
        \/ \E l \in (j + 1)..n : h[l][2] = h[j][2] /\ WithRef(h[l], r)
        \/ \A l \in j..n : WithRef(h[l], r) => ~IsLast(h[l])
    BY <1>4 DEF LostHere
  <2>2. \A l \in j..n : l \in 1..n
    OBVIOUS
  <2>3. \A l \in (j + 1)..n : l \in 1..n
    OBVIOUS
  <2>4. CASE \E m \in DOMAIN got : <<h[j]>> \in Range(got[m])
    BY ONLY <1>3, <2>4
  <2>5. CASE \E l \in (j + 1)..n : h[l][2] = h[j][2] /\ WithRef(h[l], r)
    BY ONLY <1>2, <2>3, <2>5
  <2>6. CASE \A l \in j..n : WithRef(h[l], r) => ~IsLast(h[l])
    BY ONLY <1>2, <2>2, <2>6
  <2> QED BY ONLY <2>1, <2>4, <2>5, <2>6
<1>5. \A j \in 1..n : sms'[h[j][1]].ref = sms[h[j][1]].ref
  BY <1>1
<1>6. LostHere(h)'
  BY ONLY DOMAIN h = 1..n, Len(h) = n, <1>4, <1>5 DEF LostHere
<1> QED BY <1>1, <1>6

\* When a connection ends, what is in its cache is of messages without a last part.
LEMMA EndsLost ==
  ASSUME LongInv, Reconnect
  PROVE  LostHere(order) /\ \A j \in DOMAIN order : Sent(order[j][1]) /\ order[j] \in Parts
<1>1. PICK n \in Nat : n = Len(order) /\ DOMAIN order = 1..n
  BY DEF LongInv, TypeOK
<1>2. \A j \in 1..n : Sent(order[j][1]) /\ order[j] \in Parts
  BY <1>1 DEF LongInv, TypeOK, PartsSent
<1>3. ~panicked
  BY DEF Reconnect
<1>4. ASSUME NEW j \in 1..n, NEW r, r = sms[order[j][1]].ref
      PROVE  \/ \E m \in DOMAIN got : <<order[j]>> \in Range(got[m])
             \/ \E l \in (j + 1)..n : order[l][2] = order[j][2] /\ WithRef(order[l], r)
             \/ \A l \in j..n : WithRef(order[l], r) => ~IsLast(order[l])
  <2>0. PICK k : k = order[j][2]
    OBVIOUS
  <2>1. \/ \E m \in DOMAIN got : <<order[j]>> \in Range(got[m])
        \/ cache[r] # NoSms /\ k \in DOMAIN cache[r] /\ cache[r][k] = <<order[j]>>
        \/ \E l \in (j + 1)..n : order[l][2] = k /\ WithRef(order[l], r)
    BY <1>1, <1>3, <1>4, <2>0 DEF LongInv, KeptHere
  <2>2. ASSUME cache[r] # NoSms, k \in DOMAIN cache[r], cache[r][k] = <<order[j]>>
        PROVE  \A l \in j..n : WithRef(order[l], r) => ~IsLast(order[l])
               \/ \E q \in (j + 1)..n : order[q][2] = k /\ WithRef(order[q], r)
    <3>1. r \in Refs
      BY <1>2, <1>4, SentRange DEF LongInv, Parts
    <3>2. EntryOf(r)
      BY <1>3, <3>1 DEF LongInv, CacheInv
    <3>3. cache[r][k] # <<>>
      BY <2>2
    <3>4. PICK i \in Run(r, n) : order[i][2] = k /\ cache[r][k] = <<order[i]>>
      BY <1>1, <2>2, <3>2, <3>3 DEF EntryOf
    <3>5. i \in 1..n /\ WithRef(order[i], r)
          /\ \A l \in i..n : WithRef(order[l], r) => ~IsLast(order[l])
      BY <3>4 DEF Run
    <3>6. CASE i > j
      BY <3>4, <3>5, <3>6
    <3>7. CASE ~ (i > j)
      <4>1. \A l \in j..n : l \in i..n
        BY <3>5, <3>7
      <4> QED BY <3>5, <4>1
    <3> QED BY <3>6, <3>7
  <2> QED BY <2>0, <2>1, <2>2
<1>5. LostHere(order)
  BY <1>1, <1>4 DEF LostHere
<1> QED BY <1>1, <1>2, <1>5

LEMMA PastStep == LongInv /\ PastInv /\ [Next]_vars => PastInv'
<1> SUFFICES ASSUME LongInv, PastInv, [Next]_vars PROVE PastInv'
  OBVIOUS
<1>1. PICK S : S = [order : Seq(Parts), owed : {<<>>} \cup Parts]
  OBVIOUS
<1>2. past \in Seq(S)
  BY <1>1 DEF LongInv, TypeOK
<1>3. ASSUME NEW h \in Seq(Parts), PastOf(h) PROVE PastOf(h)'
  <2>1. PICK n \in Nat : n = Len(h) /\ DOMAIN h = 1..n
    OBVIOUS
  <2> QED BY <1>3, <2>1, StaysLost DEF PastOf
<1>4. ASSUME NEW m \in DOMAIN past PROVE past[m].order \in Seq(Parts) /\ PastOf(past[m].order)
  <2>1. past[m] \in S
    BY ONLY <1>2, <1>4
  <2>2. past[m].order \in Seq(Parts)
    BY ONLY <1>1, <2>1
  <2>3. PastOf(past[m].order)
    BY ONLY PastInv, <1>4, Zenon DEF PastInv
  <2> QED BY <2>2, <2>3
<1>5. ASSUME NEW m \in DOMAIN past' PROVE past'[m].order \in Seq(Parts) /\ \A h : h = past'[m].order => PastOf(h)
  <2>1. CASE past' = past
    BY <1>4, <2>1
  <2>2. CASE Reconnect
    <3>1. PICK e \in S : e = [order |-> order, owed |-> owed]
      BY <1>1 DEF LongInv, TypeOK
    <3>2. past' = Append(past, e)
      BY <2>2, <3>1 DEF Reconnect
    <3>3. (m \in DOMAIN past /\ past'[m] = past[m]) \/ past'[m] = e
      BY ONLY e \in S, m \in DOMAIN past', <1>2, <3>2
    <3>4. e.order = order /\ order \in Seq(Parts) /\ PastOf(order)
      BY <2>2, <3>1, EndsLost DEF PastOf, LongInv, TypeOK
    <3> QED BY <1>4, <3>3, <3>4
  <2> QED BY <2>1, <2>2, Lasting
<1> SUFFICES ASSUME NEW m \in DOMAIN past' PROVE PastOf(past[m].order)'
  BY DEF PastInv
<1>6. PICK h \in Seq(Parts) : h = past'[m].order
  BY <1>5
<1>7. PastOf(h)'
  BY <1>3, <1>5, <1>6
<1> QED BY ONLY <1>6, <1>7 DEF PastOf, LostHere

\* A part that was handled, and that the SMSC may forget, is lost only to a part of
\* the same reference and number or with a connection that ended before a last part
\* with its reference had come (tranceiver.go:238-258).
THEOREM NothingElseDropped == Spec => []HandledIsKept
<1>1. Init => PastInv
  BY DEF Init, PastInv
<1>2. LongInv /\ PastInv => HandledIsKept
  BY DEF LongInv, PastInv, PastOf, HandledIsKept
<1> QED BY <1>1, <1>2, PastStep, LongInvariant, PTL DEF Spec

\* The process can end at tranceiver.go:238 only when a shorter message with the
\* same reference has left its entry open on this connection.
THEOREM PanicHasCause == Spec => []PanicNeedsMixing
<1>1. LongInv => PanicNeedsMixing
  BY DEF LongInv
<1> QED BY <1>1, LongInvariant, PTL
===============================================================================
