----------------------------- MODULE OutboxProofs -----------------------------
(* SmppPool implements Outbox, for every set of addresses, messages and      *)
(* connections, every number of parts and every error budget.                *)
EXTENDS SmppPoolProofs, FiniteSetTheorems

-------------------------------------------------------------------------------
(* What the sending goroutines keep.                                         *)

\* A message is on no wire before a goroutine takes it.
NothingEarly == \A m \in Msgs : msg[m] \in {"new", "rejected", "offered"} => Places(m) = {}

\* One goroutine at a time works on a message, and it has parts left to write.
OneWorker ==
  /\ \A c \in Conns : work[c] # NoMsg => msg[work[c]] = "taken" /\ part[c] < Parts[work[c]]
  /\ \A c, d \in Conns : work[c] = work[d] /\ work[c] # NoMsg => c = d

\* What it has written are the last part[c] places of its own wire.
TailOfWire ==
  \A c \in Conns : work[c] # NoMsg =>
    /\ Cardinality(Places(work[c])) = part[c]
    /\ \A p \in Places(work[c]) :
         p[1] = c /\ wire[p[1]][p[2]][2] - p[2] = part[c] - Len(wire[c])
    /\ part[c] > 0 => <<c, Len(wire[c])>> \in Places(work[c])

FinitePlaces == \A m \in Msgs : IsFiniteSet(Places(m))

WireInv == NothingEarly /\ OneWorker /\ TailOfWire /\ FinitePlaces /\ PartsOnceInOrder

LEMMA WireInit == Init => WireInv
<1> SUFFICES ASSUME Init PROVE WireInv
  OBVIOUS
<1>1. \A m \in Msgs : Places(m) = {}
  BY DEF Init, Places
<1>2. IsFiniteSet({})
  BY FS_EmptySet
<1> QED
  BY <1>1, <1>2 DEF Init, WireInv, NothingEarly, OneWorker, TailOfWire, FinitePlaces,
                    PartsOnceInOrder

\* A place is a transceiver and a position on its wire.
LEMMA PlaceIs ==
  ASSUME TypeInv, NEW m \in Msgs, NEW p \in Places(m)
  PROVE  /\ p[1] \in Conns /\ p[2] \in 1..Len(wire[p[1]]) /\ p = <<p[1], p[2]>>
         /\ wire[p[1]][p[2]] \in Msgs \X Nat
         /\ wire[p[1]][p[2]][1] = m
<1>1. PICK c \in Conns : p \in {c} \X DOMAIN wire[c]
  BY DEF Places
<1>2. p = <<p[1], p[2]>> /\ p[1] = c /\ p[2] \in DOMAIN wire[c]
  BY <1>1
<1>3. wire[c] \in Seq(Msgs \X Nat)
  BY DEF TypeInv, TypeOK
<1>4. DOMAIN wire[c] = 1..Len(wire[c])
  BY <1>3
<1>5. wire[c][p[2]] \in Msgs \X Nat
  BY <1>2, <1>3
<1>6. wire[p[1]][p[2]][1] = m
  BY DEF Places
<1> QED BY <1>2, <1>4, <1>5, <1>6

LEMMA PlaceIn ==
  ASSUME TypeInv, NEW m \in Msgs, NEW c \in Conns, NEW i \in 1..Len(wire[c]),
         wire[c][i][1] = m
  PROVE  <<c, i>> \in Places(m)
<1>1. wire[c] \in Seq(Msgs \X Nat)
  BY DEF TypeInv, TypeOK
<1>2. DOMAIN wire[c] = 1..Len(wire[c])
  BY <1>1
<1>3. <<c, i>> \in {c} \X DOMAIN wire[c]
  BY <1>2
<1> QED BY <1>3 DEF Places

\* SubmitPart gives its message one more place and disturbs no other.
LEMMA PlacesGrow ==
  ASSUME TypeInv, TypeInv', NEW c \in Conns, SubmitPart(c),
         NEW w \in Msgs, w = work[c]
  PROVE  /\ \A m \in Msgs \ {w} : Places(m)' = Places(m)
         /\ Places(w)' = Places(w) \cup {<<c, Len(wire[c]) + 1>>}
         /\ <<c, Len(wire[c]) + 1>> \notin Places(w)
         /\ \A m \in Msgs : \A p \in Places(m) :
              wire'[p[1]][p[2]] = wire[p[1]][p[2]]
         /\ wire'[c][Len(wire[c]) + 1] = <<w, part[c] + 1>>
         /\ Len(wire'[c]) = Len(wire[c]) + 1 /\ Len(wire[c]) \in Nat
<1> DEFINE L == Len(wire[c])
<1>1. /\ wire' = [wire EXCEPT ![c] = Append(wire[c], <<w, part[c] + 1>>)]
      /\ part[c] \in Nat
  BY DEF SubmitPart, TypeInv, TypeOK
<1>2. \A d \in Conns : wire[d] \in Seq(Msgs \X Nat)
  BY DEF TypeInv, TypeOK
<1>a. wire \in [Conns -> Seq(Msgs \X Nat)]
  BY DEF TypeInv, TypeOK
<1>b. wire'[c] = Append(wire[c], <<w, part[c] + 1>>)
  BY <1>1, <1>a
<1>c. wire[c] \in Seq(Msgs \X Nat) /\ <<w, part[c] + 1>> \in Msgs \X Nat
  BY <1>1, <1>2
<1>3. /\ L \in Nat /\ Len(wire'[c]) = L + 1
      /\ wire'[c][L + 1] = <<w, part[c] + 1>>
      /\ \A i \in 1..L : wire'[c][i] = wire[c][i]
  BY <1>b, <1>c
<1>4. \A d \in Conns \ {c} : wire'[d] = wire[d]
  BY <1>1, <1>a
<1>5. \A m \in Msgs : \A p \in Places(m) : wire'[p[1]][p[2]] = wire[p[1]][p[2]]
  BY <1>3, <1>4, PlaceIs
<1>6. ASSUME NEW m \in Msgs, NEW p \in Places(m) PROVE p \in Places(m)'
  <2>1. /\ p[1] \in Conns /\ p[2] \in 1..Len(wire[p[1]]) /\ p = <<p[1], p[2]>>
        /\ wire[p[1]][p[2]][1] = m
    BY <1>6, PlaceIs
  <2>2. p[2] \in 1..Len(wire'[p[1]])
    BY <2>1, <1>3, <1>4
  <2>3. wire'[p[1]][p[2]][1] = m
    BY <2>1, <1>5, <1>6
  <2>4. p[2] \in DOMAIN wire'[p[1]]
    <3>1. wire'[p[1]] \in Seq(Msgs \X Nat)
      BY <2>1 DEF TypeInv, TypeOK
    <3> QED BY <2>2, <3>1
  <2> QED BY <2>1, <2>3, <2>4 DEF Places
<1>7. ASSUME NEW m \in Msgs, NEW p \in Places(m)'
      PROVE  p \in Places(m) \/ (m = w /\ p = <<c, L + 1>>)
  <2>1. PICK d \in Conns : p \in {d} \X DOMAIN wire'[d]
    BY <1>7 DEF Places
  <2>2. p = <<d, p[2]>> /\ p[1] = d /\ p[2] \in DOMAIN wire'[d]
    BY <2>1
  <2>3. wire'[d] \in Seq(Msgs \X Nat)
    BY DEF TypeInv, TypeOK
  <2>4. p[2] \in 1..Len(wire'[d])
    BY <2>2, <2>3
  <2>5. wire'[d][p[2]][1] = m
    BY <1>7, <2>2 DEF Places
  <2>6. CASE d = c /\ p[2] = L + 1
    BY <2>2, <2>5, <2>6, <1>3, <1>1
  <2>7. CASE d # c \/ p[2] # L + 1
    <3>1. p[2] \in 1..Len(wire[d]) /\ wire'[d][p[2]] = wire[d][p[2]]
      BY <2>4, <2>7, <1>3, <1>4
    <3>2. <<d, p[2]>> \in Places(m)
      BY <3>1, <2>5, PlaceIn
    <3> QED BY <3>2, <2>2
  <2> QED BY <2>6, <2>7
<1>8. <<c, L + 1>> \in Places(w)'
  <2>1. wire'[c] \in Seq(Msgs \X Nat)
    BY DEF TypeInv, TypeOK
  <2>2. L + 1 \in DOMAIN wire'[c]
    BY <2>1, <1>3
  <2>3. wire'[c][L + 1][1] = w
    BY <1>3
  <2>4. <<c, L + 1>> \in {c} \X DOMAIN wire'[c]
    BY <2>2
  <2>5. <<c, L + 1>> \in UNION {{d} \X DOMAIN wire'[d] : d \in Conns}
    BY <2>4
  <2>6. <<c, L + 1>>[1] = c /\ <<c, L + 1>>[2] = L + 1
    OBVIOUS
  <2>7. <<c, L + 1>> \in {p \in UNION {{d} \X DOMAIN wire'[d] : d \in Conns} :
                            wire'[p[1]][p[2]][1] = w}
    BY <2>3, <2>5, <2>6
  <2> QED BY <2>7 DEF Places
<1>9. <<c, L + 1>> \notin Places(w)
  <2> SUFFICES ASSUME <<c, L + 1>> \in Places(w) PROVE FALSE
    OBVIOUS
  <2> DEFINE p == <<c, L + 1>>
  <2>1. p[2] \in 1..Len(wire[p[1]])
    BY PlaceIs
  <2> QED BY <2>1, <1>3
<1> QED BY <1>1, <1>3, <1>5, <1>6, <1>7, <1>8, <1>9

LEMMA PlacesKept ==
  ASSUME UNCHANGED wire, NEW m
  PROVE  Places(m)' = Places(m)
BY DEF Places

\* Steps outside Transceiver.sending and SMPP.Send.
LEMMA OtherStep ==
  ASSUME WireInv, UNCHANGED <<work, part, msg, wire>>
  PROVE  WireInv'
<1>1. \A m : Places(m)' = Places(m)
  BY PlacesKept
<1>2. NothingEarly' /\ OneWorker' /\ FinitePlaces'
  BY <1>1 DEF WireInv, NothingEarly, OneWorker, FinitePlaces
<1>3. TailOfWire'
  BY <1>1 DEF WireInv, TailOfWire
<1>4. PartsOnceInOrder'
  BY <1>1 DEF WireInv, PartsOnceInOrder
<1> QED BY <1>2, <1>3, <1>4 DEF WireInv

\* A message whose fate changes while its places stay, and that is not sent.
LEMMA FateStep ==
  ASSUME TypeInv, WireInv, NEW m \in Msgs, NEW f \in {"rejected", "offered", "lost"},
         msg[m] = "new" \/ f = "lost",
         msg' = [msg EXCEPT ![m] = f],
         \A c \in Conns : work'[c] = IF work[c] = m THEN NoMsg ELSE work[c],
         UNCHANGED <<part, wire>>
  PROVE  WireInv'
<1>1. \A n : Places(n)' = Places(n)
  BY PlacesKept
<1>2. \A n \in Msgs : msg'[n] = IF n = m THEN f ELSE msg[n]
  BY DEF TypeInv, TypeOK
<1>3. NothingEarly' /\ FinitePlaces'
  BY <1>1, <1>2 DEF WireInv, NothingEarly, FinitePlaces
<1>4. \A c \in Conns : work[c] \in Msgs \cup {NoMsg}
  BY DEF TypeInv, TypeOK
<1>5. \A c \in Conns : work'[c] # NoMsg => work'[c] = work[c] /\ work[c] # m /\ work[c] \in Msgs
  BY <1>4
<1>6. OneWorker'
  BY <1>2, <1>5 DEF WireInv, OneWorker
<1>7. TailOfWire'
  BY <1>1, <1>5 DEF WireInv, TailOfWire
<1>8. PartsOnceInOrder'
  BY <1>1, <1>2 DEF WireInv, PartsOnceInOrder
<1> QED BY <1>3, <1>6, <1>7, <1>8 DEF WireInv

LEMMA TakeStep ==
  ASSUME TypeInv, WireInv, NEW c \in Conns, NEW m \in Msgs, Take(c, m), ~isClosed[c]
  PROVE  WireInv'
<1>1. \A n : Places(n)' = Places(n)
  BY PlacesKept DEF Take
<1>2. /\ msg[m] = "offered" /\ work[c] = NoMsg
      /\ msg' = [msg EXCEPT ![m] = "taken"]
      /\ work' = [work EXCEPT ![c] = m]
      /\ part' = [part EXCEPT ![c] = 0]
      /\ wire' = wire
  BY DEF Take
<1>3. /\ \A n \in Msgs : msg'[n] = IF n = m THEN "taken" ELSE msg[n]
      /\ \A d \in Conns : work'[d] = IF d = c THEN m ELSE work[d]
      /\ \A d \in Conns : part'[d] = IF d = c THEN 0 ELSE part[d]
      /\ \A d \in Conns : work[d] \in Msgs \cup {NoMsg} /\ part[d] \in Nat
  BY <1>2 DEF TypeInv, TypeOK
<1>4. Places(m) = {} /\ Cardinality({}) = 0
  BY <1>2, FS_EmptySet DEF WireInv, NothingEarly
<1>5. \A d \in Conns : work[d] # NoMsg => msg[work[d]] = "taken" /\ work[d] # m
  BY <1>2 DEF WireInv, OneWorker
<1>6. NothingEarly' /\ FinitePlaces'
  BY <1>1, <1>3 DEF WireInv, NothingEarly, FinitePlaces
<1>7. OneWorker'
  <2>1. Parts[m] \in Nat \ {0} /\ NoMsg \notin Msgs
    BY PoolAssumption
  <2> QED BY <1>3, <1>5, <2>1 DEF WireInv, OneWorker
<1>8. TailOfWire'
  <2> SUFFICES ASSUME NEW d \in Conns, work'[d] # NoMsg
               PROVE  /\ Cardinality(Places(work[d]))' = part'[d]
                      /\ \A p \in Places(work[d])' :
                           p[1] = d /\ wire'[p[1]][p[2]][2] - p[2] = part'[d] - Len(wire'[d])
                      /\ part'[d] > 0 => <<d, Len(wire'[d])>> \in Places(work[d])'
    BY DEF TailOfWire
  <2>1. PICK n \in Msgs : n = work'[d]
    BY <1>3
  <2>2. Places(work[d])' = Places(n)
    BY <1>1, <2>1
  <2>3. CASE d = c
    <3>1. n = m /\ part'[d] = 0
      BY <2>1, <2>3, <1>3
    <3> QED BY <2>2, <3>1, <1>4
  <2>4. CASE d # c
    <3>1. work[d] = n /\ part'[d] = part[d]
      BY <2>1, <2>4, <1>3
    <3>2. /\ Cardinality(Places(n)) = part[d]
          /\ \A p \in Places(n) :
               p[1] = d /\ wire[p[1]][p[2]][2] - p[2] = part[d] - Len(wire[d])
          /\ part[d] > 0 => <<d, Len(wire[d])>> \in Places(n)
      <4>1. work[d] # NoMsg
        BY <2>1, <3>1
      <4> QED BY <3>1, <4>1 DEF WireInv, TailOfWire
    <3> QED BY <2>2, <3>1, <3>2, <1>2
  <2> QED BY <2>3, <2>4
<1>9. PartsOnceInOrder'
  <2>1. \A n \in Msgs : msg'[n] = "sent" => msg[n] = "sent"
    BY <1>3
  <2> QED BY <1>1, <1>2, <2>1 DEF WireInv, PartsOnceInOrder
<1> QED BY <1>6, <1>7, <1>8, <1>9 DEF WireInv

LEMMA SubmitStep ==
  ASSUME TypeInv, TypeInv', WireInv, NEW c \in Conns, SubmitPart(c)
  PROVE  WireInv'
<1> DEFINE L == Len(wire[c])
           new == <<c, L + 1>>
<1>1. PICK w \in Msgs : w = work[c] /\ w # NoMsg
  BY DEF SubmitPart, TypeInv, TypeOK
<1>2. /\ \A m \in Msgs \ {w} : Places(m)' = Places(m)
      /\ Places(w)' = Places(w) \cup {new} /\ new \notin Places(w)
      /\ \A m \in Msgs : \A p \in Places(m) : wire'[p[1]][p[2]] = wire[p[1]][p[2]]
      /\ wire'[c][L + 1] = <<w, part[c] + 1>>
      /\ Len(wire'[c]) = L + 1 /\ L \in Nat
  BY <1>1, PlacesGrow
<1>3. /\ part' = [part EXCEPT ![c] = part[c] + 1]
      /\ wire' = [wire EXCEPT ![c] = Append(wire[c], <<w, part[c] + 1>>)]
      /\ part[c] + 1 = Parts[w] =>
           msg' = [msg EXCEPT ![w] = "sent"] /\ work' = [work EXCEPT ![c] = NoMsg]
      /\ part[c] + 1 # Parts[w] => UNCHANGED <<msg, work>>
  BY <1>1 DEF SubmitPart
<1>4. /\ \A d \in Conns : part[d] \in Nat /\ work[d] \in Msgs \cup {NoMsg}
      /\ \A d \in Conns : part'[d] = IF d = c THEN part[c] + 1 ELSE part[d]
      /\ \A d \in Conns \ {c} : wire'[d] = wire[d]
      /\ \A d \in Conns \ {c} : work'[d] = work[d]
      /\ work'[c] = IF part[c] + 1 = Parts[w] THEN NoMsg ELSE w
      /\ \A m \in Msgs : msg'[m] = IF m = w /\ part[c] + 1 = Parts[w] THEN "sent" ELSE msg[m]
  BY <1>1, <1>3 DEF TypeInv, TypeOK
<1>5. /\ msg[w] = "taken" /\ part[c] < Parts[w] /\ Parts[w] \in Nat
      /\ \A d \in Conns \ {c} : work[d] # w
  BY <1>1, PoolAssumption DEF WireInv, OneWorker
<1>6. /\ Cardinality(Places(w)) = part[c] /\ IsFiniteSet(Places(w))
      /\ \A p \in Places(w) : p[1] = c /\ wire[p[1]][p[2]][2] - p[2] = part[c] - L
      /\ part[c] > 0 => <<c, L>> \in Places(w)
  <2>1. IsFiniteSet(Places(w))
    BY DEF WireInv, FinitePlaces
  <2>2. work[c] = w /\ work[c] # NoMsg
    BY <1>1
  <2>3. /\ Cardinality(Places(work[c])) = part[c]
        /\ \A p \in Places(work[c]) :
             p[1] = c /\ wire[p[1]][p[2]][2] - p[2] = part[c] - Len(wire[c])
        /\ part[c] > 0 => <<c, Len(wire[c])>> \in Places(work[c])
    BY <2>2 DEF WireInv, TailOfWire
  <2> QED BY <2>1, <2>2, <2>3
<1>7. /\ IsFiniteSet(Places(w)') /\ Cardinality(Places(w)') = part[c] + 1
  <2>1. PICK x : x = new
    OBVIOUS
  <2>2. IsFiniteSet(Places(w)) /\ x \notin Places(w) /\ Cardinality(Places(w)) = part[c]
    BY <2>1, <1>2, <1>6
  <2>3. /\ IsFiniteSet(Places(w) \cup {x})
        /\ Cardinality(Places(w) \cup {x}) = Cardinality(Places(w)) + 1
    BY ONLY <2>2, FS_AddElement
  <2> QED BY <2>1, <2>2, <2>3, <1>2
<1>8. new[1] = c /\ new[2] = L + 1
  OBVIOUS
<1>9. \A p \in Places(w)' : p[1] = c /\ wire'[p[1]][p[2]][2] - p[2] = part[c] - L
  <2> SUFFICES ASSUME NEW p \in Places(w)'
               PROVE  p[1] = c /\ wire'[p[1]][p[2]][2] - p[2] = part[c] - L
    OBVIOUS
  <2>1. CASE p \in Places(w)
    BY <2>1, <1>2, <1>6
  <2>2. CASE p = new
    <3>1. wire'[p[1]][p[2]][2] = part[c] + 1
      BY <2>2, <1>2, <1>8
    <3>2. p[1] = c /\ p[2] = L + 1
      BY <2>2, <1>8
    <3>3. part[c] \in Nat /\ L \in Nat
      BY <1>2, <1>4
    <3>4. (part[c] + 1) - (L + 1) = part[c] - L
      BY ONLY <3>3
    <3>5. wire'[p[1]][p[2]][2] - p[2] = (part[c] + 1) - (L + 1)
      BY ONLY <3>1, <3>2
    <3> QED BY ONLY <3>2, <3>4, <3>5
  <2> QED BY <2>1, <2>2, <1>2
<1>10. NothingEarly' /\ FinitePlaces'
  BY <1>2, <1>4, <1>5, <1>7 DEF WireInv, NothingEarly, FinitePlaces
<1>11. OneWorker'
  <2>1. \A d \in Conns : work'[d] # NoMsg => work'[d] = work[d] /\ msg'[work[d]] = msg[work[d]]
    BY <1>1, <1>4, <1>5
  <2>2. \A d \in Conns : work'[d] # NoMsg => part'[d] < Parts[work[d]]
    <3> SUFFICES ASSUME NEW d \in Conns, work'[d] # NoMsg PROVE part'[d] < Parts[work[d]]
      OBVIOUS
    <3>1. CASE d = c
      BY <3>1, <1>1, <1>4, <1>5
    <3>2. CASE d # c
      BY <3>2, <1>4 DEF WireInv, OneWorker
    <3> QED BY <3>1, <3>2
  <2> QED BY <2>1, <2>2 DEF WireInv, OneWorker
<1>12. TailOfWire'
  <2> SUFFICES ASSUME NEW d \in Conns, work'[d] # NoMsg
               PROVE  /\ Cardinality(Places(work[d]))' = part'[d]
                      /\ \A p \in Places(work[d])' :
                           p[1] = d /\ wire'[p[1]][p[2]][2] - p[2] = part'[d] - Len(wire'[d])
                      /\ part'[d] > 0 => <<d, Len(wire'[d])>> \in Places(work[d])'
    BY DEF TailOfWire
  <2>1. CASE d = c
    <3>1. work'[c] = w
      BY <2>1, <1>4
    <3>2. part'[c] - Len(wire'[c]) = part[c] - L
      BY <1>2, <1>4
    <3>3. Places(work[c])' = Places(w)'
      BY <3>1
    <3> QED BY <2>1, <3>2, <3>3, <1>2, <1>4, <1>7, <1>9
  <2>2. CASE d # c
    <3>1. /\ work'[d] = work[d] /\ work[d] \in Msgs \ {w}
          /\ part'[d] = part[d] /\ wire'[d] = wire[d]
      BY <2>2, <1>4, <1>5
    <3>2. Places(work[d])' = Places(work[d])
      <4>1. PICK m \in Msgs \ {w} : m = work[d] /\ m = work'[d]
        BY <3>1
      <4>2. Places(m)' = Places(m)
        BY <1>2
      <4> QED BY <4>1, <4>2
    <3>3. \A p \in Places(work[d]) : wire'[p[1]][p[2]] = wire[p[1]][p[2]]
      BY <3>1, <1>2
    <3>4. /\ Cardinality(Places(work[d])) = part[d]
          /\ \A p \in Places(work[d]) :
               p[1] = d /\ wire[p[1]][p[2]][2] - p[2] = part[d] - Len(wire[d])
          /\ part[d] > 0 => <<d, Len(wire[d])>> \in Places(work[d])
      BY <3>1 DEF WireInv, TailOfWire
    <3> QED BY <3>1, <3>2, <3>3, <3>4
  <2> QED BY <2>1, <2>2
<1>13. PartsOnceInOrder'
  <2> SUFFICES ASSUME NEW m \in Msgs
               PROVE  /\ \A p, q \in Places(m)' :
                           wire'[p[1]][p[2]][2] - p[2] = wire'[q[1]][q[2]][2] - q[2]
                           /\ p[1] = q[1]
                      /\ \A p \in Places(m)' :
                           wire'[p[1]][p[2]][2] > 1 => <<p[1], p[2] - 1>> \in Places(m)'
                      /\ msg'[m] = "sent" => Cardinality(Places(m)') = Parts[m]
    BY DEF PartsOnceInOrder
  <2>1. CASE m # w
    <3>1. Places(m)' = Places(m) /\ msg'[m] = msg[m]
      BY <2>1, <1>2, <1>4
    <3>2. \A p \in Places(m) : wire'[p[1]][p[2]] = wire[p[1]][p[2]]
      BY <1>2
    <3> QED BY <3>1, <3>2 DEF WireInv, PartsOnceInOrder
  <2>2. CASE m = w
    <3>1. \A p \in Places(w)' :
            wire'[p[1]][p[2]][2] > 1 => <<p[1], p[2] - 1>> \in Places(w)'
      <4> SUFFICES ASSUME NEW p \in Places(w)', wire'[p[1]][p[2]][2] > 1
                   PROVE  <<p[1], p[2] - 1>> \in Places(w)'
        OBVIOUS
      <4>1. CASE p \in Places(w)
        <5>1. wire[p[1]][p[2]][2] > 1
          BY <4>1, <1>2
        <5>2. <<p[1], p[2] - 1>> \in Places(w)
          BY <4>1, <5>1 DEF WireInv, PartsOnceInOrder
        <5> QED BY <5>2, <1>2
      <4>2. CASE p = new
        <5>1. p[1] = c /\ p[2] = L + 1 /\ wire'[p[1]][p[2]][2] = part[c] + 1
          BY <4>2, <1>2, <1>8
        <5>2. part[c] > 0 /\ p[2] - 1 = L
          BY <5>1, <1>2, <1>4
        <5> QED BY <5>1, <5>2, <1>2, <1>6
      <4> QED BY <4>1, <4>2, <1>2
    <3>2. msg'[w] = "sent" => Cardinality(Places(w)') = Parts[w]
      BY <1>4, <1>5, <1>7
    <3> QED BY <2>2, <3>1, <3>2, <1>9
  <2> QED BY <2>1, <2>2
<1> QED BY <1>10, <1>11, <1>12, <1>13 DEF WireInv

\* Which steps concern messages at all.
MessageStep ==
  \/ \E m \in Msgs : Reject(m) \/ Offer(m)
  \/ \E c \in Conns, m \in Msgs : Take(c, m)
  \/ \E c \in Conns : SubmitPart(c) \/ SubmitFail(c)

LEMMA StepKinds ==
  ASSUME [Next]_vars
  PROVE  MessageStep \/ UNCHANGED <<work, part, msg, wire>>
<1>1. CASE UNCHANGED vars
  BY <1>1 DEF vars, sendVars
<1>2. CASE Connect \/ CloseBegin \/ Closer
  BY <1>2 DEF Connect, CloseBegin, Closer, CloseEnd, CloseFlag, CloseTrx, sendVars
<1>3. ASSUME NEW a \in Addrs, Supervisor(a) \/ ReadMsg(a) \/ QuietSpell(a)
      PROVE  UNCHANGED <<work, part, msg, wire>>
  BY <1>3 DEF Supervisor, DialOK, DialFail, EndDelay, Register, HandOver, ReadError, Report,
              Leave, Unregister, ShutFlag, ShutSocket, LoopTest, ReadMsg, QuietSpell, sendVars
<1>4. ASSUME NEW c \in Conns, LinkDown(c)
      PROVE  UNCHANGED <<work, part, msg, wire>>
  BY <1>4 DEF LinkDown, sendVars
<1>5. ASSUME NEW c \in Conns, Sending(c) PROVE MessageStep
  BY <1>5 DEF Sending, MessageStep
<1>6. ASSUME NEW m \in Msgs, Reject(m) \/ Offer(m) PROVE MessageStep
  BY <1>6 DEF MessageStep
<1>7. CASE Stall
  BY <1>7 DEF Stall, sendVars
<1> QED BY <1>1, <1>2, <1>3, <1>4, <1>5, <1>6, <1>7 DEF Next

LEMMA WireStep ==
  ASSUME TypeInv, TypeInv', WireInv, [Next]_vars
  PROVE  WireInv'
<1>1. ASSUME NEW m \in Msgs, Reject(m) \/ Offer(m) PROVE WireInv'
  <2>1. PICK f \in {"rejected", "offered"} : msg' = [msg EXCEPT ![m] = f]
    BY <1>1 DEF Reject, Offer
  <2>2. msg[m] = "new" /\ UNCHANGED <<work, part, wire>>
    BY <1>1 DEF Reject, Offer
  <2>3. \A c \in Conns : work[c] # m
    <3>1. m # NoMsg
      BY PoolAssumption
    <3> QED BY <2>2, <3>1 DEF WireInv, OneWorker
  <2>4. \A c \in Conns : work'[c] = IF work[c] = m THEN NoMsg ELSE work[c]
    BY <2>2, <2>3
  <2> QED BY <2>1, <2>2, <2>4, FateStep
<1>2. ASSUME NEW c \in Conns, NEW m \in Msgs, Take(c, m) PROVE WireInv'
  <2>1. CASE isClosed[c]
    <3>1. msg[m] = "offered" /\ msg' = [msg EXCEPT ![m] = "lost"]
          /\ UNCHANGED <<work, part, wire>>
      BY <1>2, <2>1 DEF Take
    <3>2. \A d \in Conns : work[d] # m
      <4>1. m # NoMsg
        BY PoolAssumption
      <4> QED BY <3>1, <4>1 DEF WireInv, OneWorker
    <3>3. \A d \in Conns : work'[d] = IF work[d] = m THEN NoMsg ELSE work[d]
      BY <3>1, <3>2
    <3> QED BY <3>1, <3>3, FateStep
  <2>2. CASE ~isClosed[c]
    BY <1>2, <2>2, TakeStep
  <2> QED BY <2>1, <2>2
<1>3. ASSUME NEW c \in Conns, SubmitPart(c) PROVE WireInv'
  BY <1>3, SubmitStep
<1>4. ASSUME NEW c \in Conns, SubmitFail(c) PROVE WireInv'
  <2>1. PICK m \in Msgs : m = work[c]
    BY <1>4 DEF SubmitFail, TypeInv, TypeOK
  <2>2. /\ msg' = [msg EXCEPT ![m] = "lost"] /\ work' = [work EXCEPT ![c] = NoMsg]
        /\ UNCHANGED <<part, wire>>
    BY <1>4, <2>1 DEF SubmitFail
  <2>3. \A d \in Conns : work[d] = m => d = c
    BY <1>4, <2>1 DEF WireInv, OneWorker, SubmitFail
  <2>4. \A d \in Conns : work'[d] = IF work[d] = m THEN NoMsg ELSE work[d]
    BY <2>1, <2>2, <2>3 DEF TypeInv, TypeOK
  <2> QED BY <2>2, <2>4, FateStep
<1>5. CASE UNCHANGED <<work, part, msg, wire>>
  BY <1>5, OtherStep
<1> QED BY <1>1, <1>2, <1>3, <1>4, <1>5, StepKinds DEF MessageStep

-------------------------------------------------------------------------------
\* A message under way belongs to one goroutine, and what has left of it is the end of
\* that goroutine's wire (tranceiver.go:107-156).
THEOREM WireInvariant == Spec => [](TypeInv /\ WireInv)
<1>1. Init => TypeInv /\ WireInv
  BY TypeInit, WireInit
<1>2. TypeInv /\ WireInv /\ [Next]_vars => (TypeInv /\ WireInv)'
  BY TypeStep, WireStep
<1> QED BY <1>1, <1>2, PTL DEF Spec

\* The parts of a message are written once, by one transceiver, in order and without
\* another message between them, however many goroutines compete for the channel
\* (tranceiver.go:107-139).
THEOREM PartsStayTogether == Spec => []PartsOnceInOrder
<1>1. WireInv => PartsOnceInOrder
  BY DEF WireInv
<1> QED BY <1>1, WireInvariant, PTL

-------------------------------------------------------------------------------
(* The step simulation.                                                      *)

LEMMA BoxInit == Init => Box!Init
<1> SUFFICES ASSUME Init PROVE Box!Init
  OBVIOUS
<1>1. \A m \in Msgs : Places(m) = {}
  BY DEF Init, Places
<1>2. Cardinality({}) = 0
  BY FS_EmptySet
<1>3. \A m \in Msgs : Fate[msg[m]] = "new"
  BY DEF Init, Fate
<1> QED BY <1>1, <1>2, <1>3 DEF Box!Init

LEMMA BoxStep ==
  ASSUME TypeInv, TypeInv', WireInv, WireInv', [Next]_vars
  PROVE  [Box!Next]_Box!vars
<1> DEFINE F == [m \in Msgs |-> Fate[msg[m]]]
           O == [m \in Msgs |-> Cardinality(Places(m))]
\* A new fate of one message, while no part leaves.
<1>1. ASSUME NEW m \in Msgs, NEW g, msg' = [msg EXCEPT ![m] = g], UNCHANGED wire
      PROVE  F' = [F EXCEPT ![m] = Fate[g]] /\ O' = O
  <2>1. \A n \in Msgs : Places(n)' = Places(n)
    BY <1>1, PlacesKept
  <2>2. \A n \in Msgs : msg'[n] = IF n = m THEN g ELSE msg[n]
    BY <1>1 DEF TypeInv, TypeOK
  <2> QED BY <2>1, <2>2
<1>2. ASSUME NEW m \in Msgs, Reject(m) \/ Offer(m) PROVE Box!Next
  <2>1. PICK g \in {"rejected", "offered"} : msg' = [msg EXCEPT ![m] = g]
    BY <1>2 DEF Reject, Offer
  <2>2. msg[m] = "new" /\ UNCHANGED wire
    BY <1>2 DEF Reject, Offer
  <2>3. F' = [F EXCEPT ![m] = Fate[g]] /\ O' = O
    BY <1>1, <2>1, <2>2
  <2>4. F[m] = "new" /\ Fate[g] \in {"refused", "queued"}
    BY <2>2 DEF Fate
  <2>5. Box!Queue(m)
    BY <2>3, <2>4 DEF Box!Queue, Box!Become
  <2> QED BY <2>5 DEF Box!Next
<1>3. ASSUME NEW c \in Conns, NEW m \in Msgs, Take(c, m) PROVE Box!Next
  <2>1. PICK g \in {"lost", "taken"} : msg' = [msg EXCEPT ![m] = g]
    BY <1>3 DEF Take
  <2>2. msg[m] = "offered" /\ UNCHANGED wire
    BY <1>3 DEF Take
  <2>3. F' = [F EXCEPT ![m] = Fate[g]] /\ O' = O
    BY <1>1, <2>1, <2>2
  <2>4. F[m] = "queued" /\ Fate[g] \in {"lost", "accepted"}
    BY <2>2 DEF Fate
  <2>5. Box!Accept(m) \/ Box!Lose(m)
    BY <2>3, <2>4 DEF Box!Accept, Box!Lose, Box!Become
  <2> QED BY <2>5 DEF Box!Next
<1>4. ASSUME NEW c \in Conns, SubmitFail(c) PROVE Box!Next
  <2>1. PICK m \in Msgs : m = work[c]
    BY <1>4 DEF SubmitFail, TypeInv, TypeOK
  <2>2. msg[m] = "taken" /\ msg' = [msg EXCEPT ![m] = "lost"] /\ UNCHANGED wire
    BY <1>4, <2>1 DEF SubmitFail, WireInv, OneWorker
  <2>3. F' = [F EXCEPT ![m] = Fate["lost"]] /\ O' = O
    BY <1>1, <2>2
  <2>4. F[m] = "accepted" /\ Fate["lost"] = "lost"
    BY <2>2 DEF Fate
  <2>5. Box!Lose(m)
    BY <2>3, <2>4 DEF Box!Lose, Box!Become
  <2> QED BY <2>5 DEF Box!Next
<1>5. ASSUME NEW c \in Conns, SubmitPart(c) PROVE Box!Next
  <2>1. PICK m \in Msgs : m = work[c] /\ m # NoMsg
    BY <1>5 DEF SubmitPart, TypeInv, TypeOK
  <2>2. /\ \A n \in Msgs \ {m} : Places(n)' = Places(n)
        /\ Cardinality(Places(m)') = Cardinality(Places(m)) + 1
    <3>1. PICK x : x = <<c, Len(wire[c]) + 1>>
      OBVIOUS
    <3>2. /\ \A n \in Msgs \ {m} : Places(n)' = Places(n)
          /\ Places(m)' = Places(m) \cup {x} /\ x \notin Places(m)
      BY <1>5, <2>1, <3>1, PlacesGrow
    <3>3. IsFiniteSet(Places(m))
      BY DEF WireInv, FinitePlaces
    <3>4. Cardinality(Places(m) \cup {x}) = Cardinality(Places(m)) + 1
      BY ONLY <3>2, <3>3, FS_AddElement
    <3> QED BY <3>2, <3>4
  <2>3. /\ msg[m] = "taken" /\ part[c] \in Nat
        /\ msg' = [msg EXCEPT ![m] = IF part[c] + 1 = Parts[m] THEN "sent" ELSE "taken"]
    BY <1>5, <2>1 DEF SubmitPart, WireInv, OneWorker, TypeInv, TypeOK
  <2>4. Cardinality(Places(m)) = part[c]
    <3>1. Cardinality(Places(work[c])) = part[c]
      BY <2>1 DEF WireInv, TailOfWire
    <3> QED BY <2>1, <3>1
  <2>5. O' = [O EXCEPT ![m] = @ + 1] /\ O[m] = part[c]
    BY <2>2, <2>4
  <2>6. F' = [F EXCEPT ![m] = IF part[c] + 1 = Parts[m] THEN "sent" ELSE "accepted"]
        /\ F[m] = "accepted"
    <3>1. PICK s : s = IF part[c] + 1 = Parts[m] THEN "sent" ELSE "taken"
      OBVIOUS
    <3>2. \A n \in Msgs : msg'[n] = IF n = m THEN s ELSE msg[n]
      BY <2>3, <3>1 DEF TypeInv, TypeOK
    <3>3. F' = [F EXCEPT ![m] = Fate[s]]
      BY <3>2
    <3>4. Fate["sent"] = "sent" /\ Fate["taken"] = "accepted"
      BY DEF Fate
    <3>5. Fate[s] = IF part[c] + 1 = Parts[m] THEN "sent" ELSE "accepted"
      BY <3>1, <3>4
    <3> QED BY <2>3, <3>3, <3>4, <3>5
  <2>7. Box!Emit(m)
    BY <2>5, <2>6 DEF Box!Emit, Box!Become
  <2> QED BY <2>7 DEF Box!Next
<1>6. ASSUME UNCHANGED <<work, part, msg, wire>> PROVE UNCHANGED Box!vars
  <2>1. \A n \in Msgs : Places(n)' = Places(n)
    BY <1>6, PlacesKept
  <2>2. F' = F /\ O' = O
    BY <1>6, <2>1
  <2> QED BY <2>2 DEF Box!vars
<1> QED BY <1>2, <1>3, <1>4, <1>5, <1>6, StepKinds DEF MessageStep

\* What a caller of SMPP.Send may rely on holds for every pool: refused or queued,
\* accepted or lost, parts one by one and never more than there are, and nothing after
\* the end (smpp.go:126-133).
THEOREM ImplementsOutbox == Spec => OutboxSpec
<1>1. TypeInv /\ WireInv /\ (TypeInv /\ WireInv)' /\ [Next]_vars => [Box!Next]_Box!vars
  BY BoxStep
<1> QED BY <1>1, BoxInit, WireInvariant, PTL DEF Spec, OutboxSpec, Box!Spec
===============================================================================
