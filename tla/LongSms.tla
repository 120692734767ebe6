-------------------------------- MODULE LongSms --------------------------------
(*****************************************************************************)
(* sms/tranceiver.go, Send and reading: a long text leaves in parts that name*)
(* a reference, the number of parts and their own number, and is put together*)
(* again on a connection where such parts come in.  The SMSC between the two *)
(* keeps a part until it is acknowledged and hands parts on in any order.    *)
(* A text is its encoded length and its data coding; a part stands for the   *)
(* bytes lo+1..hi of the text of message i.                                  *)
(*****************************************************************************)
EXTENDS Naturals, Sequences, SequencesExt

CONSTANTS Ids,      \* the messages
          Texts,    \* the texts [len, code]
          Refs,     \* the references, 1..255 in the code
          MaxParts, \* the parts a text may have at most
          MaxCuts,  \* bound on lost connections
          NoSms     \* not sent yet; no entry in the cache

ASSUME LongSmsAssumption ==
  /\ Texts \subseteq [len : Nat, code : {0, 8}]
  /\ NoSms \notin [len : Nat, code : {0, 8}, ref : Refs]
  /\ NoSms \notin Seq({<<>>} \cup {<<p>> : p \in Ids \X (1..MaxParts)})
  /\ MaxParts \in 1..255 /\ MaxCuts \in Nat

VARIABLES
  sms,      \* sms[i]: text and reference of message i
  next,     \* next[i]: the part that Send submits next
  smsc,     \* parts <<i, k>> that the SMSC still has to deliver
  cache,    \* incomming of the running call of reading
  owed,     \* <<i, k>> handled and not acknowledged, or <<>>
  order,    \* the parts handled on this connection, in order (history)
  got,      \* the texts handed on, each as the slots it was joined from (history)
  past,     \* order and owed of every connection that was lost (history)
  panicked  \* index out of range

vars == <<sms, next, smsc, cache, owed, order, got, past, panicked>>

-------------------------------------------------------------------------------
(* How a text is split.                                                      *)

OneMessageLength(code)      == IF code = 0 THEN 160 ELSE 140
MultiplyMessageLength(code) == IF code = 0 THEN 153 ELSE 134
UdhLength == 6

IsLong(t) == t.len > OneMessageLength(t.code)

Needed(t) ==
  LET m == MultiplyMessageLength(t.code) IN (t.len + m - 1) \div m

\* Mutants: no limit; the last, shorter part is forgotten.
CountUncapped(t) == IF ~IsLong(t) THEN 1 ELSE Needed(t)

CountFloor(t) ==
  IF ~IsLong(t) THEN 1
  ELSE LET n == t.len \div MultiplyMessageLength(t.code)
       IN  IF n > MaxParts THEN MaxParts ELSE n

Count(t) ==
  IF ~IsLong(t) THEN 1 ELSE IF Needed(t) > MaxParts THEN MaxParts ELSE Needed(t)

Start(t, k) == (k - 1) * MultiplyMessageLength(t.code)

End(t, k) ==
  LET e == Start(t, k) + MultiplyMessageLength(t.code)
  IN  IF ~IsLong(t) \/ e > t.len THEN t.len ELSE e

-------------------------------------------------------------------------------
Parts    == Ids \X (1..MaxParts)
Sent(i)  == sms[i] # NoSms
Total(i) == Count(sms[i])
Slot     == {<<>>} \cup {<<p>> : p \in Parts}
AllOf(i) == [k \in 1..Total(i) |-> <<<<i, k>>>>]
NoCache  == [r \in Refs |-> NoSms]

TypeOK ==
  /\ sms \in [Ids -> {NoSms} \cup [len : Nat, code : {0, 8}, ref : Refs]]
  /\ next \in [Ids -> 1..(MaxParts + 1)]
  /\ smsc \subseteq Parts
  /\ DOMAIN cache = Refs
  /\ \A r \in Refs : cache[r] = NoSms \/ (cache[r] \in Seq(Slot) /\ Len(cache[r]) \in 2..MaxParts)
  /\ owed \in {<<>>} \cup Parts
  /\ order \in Seq(Parts) /\ got \in Seq(Seq(Slot))
  /\ past \in Seq([order : Seq(Parts), owed : {<<>>} \cup Parts]) /\ Len(past) <= MaxCuts
  /\ panicked \in BOOLEAN

Init ==
  /\ sms = [i \in Ids |-> NoSms] /\ next = [i \in Ids |-> 1]
  /\ smsc = {} /\ cache = NoCache /\ owed = <<>>
  /\ order = <<>> /\ got = <<>> /\ past = <<>> /\ panicked = FALSE

\* Send begins: the text is measured and a reference drawn.
Send(i) ==
  /\ ~panicked /\ ~Sent(i)
  /\ \E t \in Texts, r \in Refs :
       sms' = [sms EXCEPT ![i] = [len |-> t.len, code |-> t.code, ref |-> r]]
  /\ UNCHANGED <<next, smsc, cache, owed, order, got, past, panicked>>

\* One part is written to the SMSC.
Submit(i) ==
  /\ ~panicked /\ Sent(i) /\ next[i] <= Total(i)
  /\ smsc' = smsc \cup {<<i, next[i]>>}
  /\ next' = [next EXCEPT ![i] = @ + 1]
  /\ UNCHANGED <<sms, cache, owed, order, got, past, panicked>>

\* The write fails: Send returns, the other parts are never sent.
SubmitFails(i) ==
  /\ ~panicked /\ Sent(i) /\ next[i] <= Total(i)
  /\ next' = [next EXCEPT ![i] = Total(i) + 1]
  /\ UNCHANGED <<sms, smsc, cache, owed, order, got, past, panicked>>

-------------------------------------------------------------------------------
(* reading.                                                                  *)

\* The entry of the cache, made when there is none.
\* Mutants: one slot too few; an entry of other length made again.
SlotsShort(i) ==
  IF cache[sms[i].ref] # NoSms THEN cache[sms[i].ref]
  ELSE [j \in 1..(Total(i) - 1) |-> <<>>]

SlotsAfresh(i) == [j \in 1..Total(i) |-> <<>>]

Slots(i) ==
  IF cache[sms[i].ref] # NoSms THEN cache[sms[i].ref]
  ELSE [j \in 1..Total(i) |-> <<>>]

\* Mutant: the entry stays in the cache.
JoinKeep(i, k) ==
  LET slots == [Slots(i) EXCEPT ![k] = <<<<i, k>>>>]
  IN  /\ cache' = [cache EXCEPT ![sms[i].ref] = slots]
      /\ got' = Append(got, slots)

\* The last part: the entry is removed and its slots, filled or not, are joined.
Join(i, k) ==
  /\ cache' = [cache EXCEPT ![sms[i].ref] = NoSms]
  /\ got' = Append(got, [Slots(i) EXCEPT ![k] = <<<<i, k>>>>])

Keep(i, k) ==
  /\ cache' = [cache EXCEPT ![sms[i].ref] = [Slots(i) EXCEPT ![k] = <<<<i, k>>>>]]
  /\ UNCHANGED got

\* A DELIVER_SM is handled; a text that is not long is handed on as it is.
Read(i, k) ==
  /\ ~panicked /\ owed = <<>> /\ <<i, k>> \in smsc
  /\ IF ~IsLong(sms[i]) THEN got' = Append(got, <<<<<<i, k>>>>>>) /\ UNCHANGED <<cache, panicked>>
     ELSE IF k > Len(Slots(i)) THEN panicked' = TRUE /\ UNCHANGED <<cache, got>>
     ELSE IF k = Total(i) THEN Join(i, k) /\ UNCHANGED panicked
     ELSE Keep(i, k) /\ UNCHANGED panicked
  /\ owed' = <<i, k>>
  /\ order' = Append(order, <<i, k>>)
  /\ UNCHANGED <<sms, next, smsc, past>>

\* DELIVER_SM_RESP: the SMSC forgets the part.
DeliverSmResp ==
  /\ ~panicked /\ owed # <<>>
  /\ smsc' = smsc \ {owed} /\ owed' = <<>>
  /\ UNCHANGED <<sms, next, cache, order, got, past, panicked>>

\* The connection is lost, with the response if one is owed, and made again: the
\* new call of reading starts with an empty cache.
Reconnect ==
  /\ ~panicked /\ Len(past) < MaxCuts
  /\ past' = Append(past, [order |-> order, owed |-> owed])
  /\ cache' = NoCache /\ owed' = <<>> /\ order' = <<>>
  /\ UNCHANGED <<sms, next, smsc, got, panicked>>

Next ==
  \/ \E i \in Ids : Send(i) \/ Submit(i) \/ SubmitFails(i)
  \/ \E p \in smsc : Read(p[1], p[2])
  \/ DeliverSmResp \/ Reconnect

Spec == Init /\ [][Next]_vars

-------------------------------------------------------------------------------
(* Safety.                                                                   *)

\* The parts follow one another without gap or overlap from the start of the text,
\* end where it ends unless MaxParts cuts it, none is empty, and none is longer
\* than a short message with its header (tranceiver.go:84-127).
SplitCovers(t) ==
  LET n == Count(t)
  IN  /\ n \in 1..MaxParts
      /\ Start(t, 1) = 0
      /\ \A k \in 1..n :
           IsLong(t) =>
             /\ Start(t, k) < End(t, k)
             /\ End(t, k) - Start(t, k) + UdhLength <= OneMessageLength(t.code)
             /\ k < n => End(t, k) = Start(t, k + 1)
      /\ End(t, n) = t.len \/ (n = MaxParts /\ Needed(t) > MaxParts)

SplitIsSound == \A i \in Ids : Sent(i) => SplitCovers(sms[i])

\* A part of a long message with reference r.
WithRef(p, r) == IsLong(sms[p[1]]) /\ sms[p[1]].ref = r

IsLast(p) == p[2] = Total(p[1])

\* The places in order, up to n, of the parts with reference r that no last part
\* with that reference has followed.
Run(r, n) ==
  {j \in 1..n : /\ WithRef(order[j], r)
                /\ \A l \in j..n : WithRef(order[l], r) => ~IsLast(order[l])}

\* The last part of message i has just been handled; what came with its reference
\* since somebody's last part is all the other parts of i and nothing else.
CleanRun(i) ==
  /\ order # <<>> /\ order[Len(order)] = <<i, Total(i)>>
  /\ {order[j] : j \in Run(sms[i].ref, Len(order) - 1)} = {<<i, k>> : k \in 1..(Total(i) - 1)}

\* A message whose parts came on one connection, the last one last and none of an
\* unfinished message with the same reference among or before them, is handed on
\* whole; a reference can be used again (tranceiver.go:233-250).
WholeWhenRunIsClean ==
  \A i \in Ids : owed # <<>> /\ owed[1] = i /\ IsLong(sms[i]) /\ CleanRun(i) =>
    got # <<>> /\ got[Len(got)] = AllOf(i)

\* A part of this connection is handed on or in the cache, unless a part with the
\* same reference and number came later.
KeptHere ==
  \A j \in DOMAIN order :
    LET k == order[j][2]
        r == sms[order[j][1]].ref
    IN  \/ \E n \in DOMAIN got : <<order[j]>> \in Range(got[n])
        \/ cache[r] # NoSms /\ k \in DOMAIN cache[r] /\ cache[r][k] = <<order[j]>>
        \/ \E l \in (j + 1)..Len(order) : order[l][2] = k /\ WithRef(order[l], r)
        \/ panicked /\ j = Len(order)

\* A part of a lost connection, whose parts came as h tells, is handed on, unless a
\* part with the same reference and number came later there, or no last part with
\* its reference did.
LostHere(h) ==
  \A j \in DOMAIN h :
    LET r == sms[h[j][1]].ref
    IN  \/ \E n \in DOMAIN got : <<h[j]>> \in Range(got[n])
        \/ \E l \in (j + 1)..Len(h) : h[l][2] = h[j][2] /\ WithRef(h[l], r)
        \/ \A l \in j..Len(h) : WithRef(h[l], r) => ~IsLast(h[l])

\* What becomes, while the process runs, of a part that was handled and that the
\* SMSC has been told to forget (tranceiver.go:238-258).  It is lost in two ways
\* only: a part with the same reference and number takes its slot; or the connection,
\* and with it the cache, ends before a last part with its reference has come.
HandledIsKept == KeptHere /\ \A n \in DOMAIN past : LostHere(past[n].order)

\* The texts a part was handed on in, and the lost connections that took the
\* response to it with them.
HandedIn(p)  == {n \in DOMAIN got : <<p>> \in Range(got[n])}
OwedWhenCut(p) == {n \in DOMAIN past : past[n].owed = p}

\* Whatever the references, a part goes into more texts than one only when its
\* response was lost with the connection, and once more for every such loss
\* (tranceiver.go:248, 258).
TwiceOnlyIfCut ==
  \A p \in Parts : Cardinality(HandedIn(p)) <= 1 + Cardinality(OwedWhenCut(p))

\* The index of tranceiver.go:238 is out of range only after a part of a shorter
\* message with the same reference and no last part since.
PanicNeedsMixing ==
  panicked =>
    \E j \in Run(sms[order[Len(order)][1]].ref, Len(order) - 1) :
      Total(order[j][1]) < order[Len(order)][2]

(* What the code says and does not do.                                       *)

\* tranceiver.go:253 "SMS received (full)": a text that is handed on is the whole
\* of one message.
FullMeansFull ==
  \A n \in DOMAIN got : \E i \in Ids : Sent(i) /\ FlattenSeq(got[n]) = FlattenSeq(AllOf(i))
===============================================================================
