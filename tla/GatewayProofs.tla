----------------------------- MODULE GatewayProofs -----------------------------
(* Proofs about Gateway, for every set of MX servers, users, contacts and    *)
(* numbers, shared by several servers or not.                                *)
EXTENDS Gateway, FiniteSetTheorems, TLAPS

-------------------------------------------------------------------------------
(* Neither property is inductive.  A number taken from the history is one of *)
(* a server with such a jid because every entry of the history is (EntryOfMx)*)
(* and a message under way must not be able to give its user a second number *)
(* when it is recorded, if nobody shares his jid (TaskKeepsNumber).          *)

\* The number is one of an MX server that has a user with the jid.
OfJid(jid, n) == \E v \in Targets : v.jid = jid /\ n \in From[v.mx]

Typed ==
  /\ list \in [Contacts -> [Numbers -> Targets \cup {NoItem}]]
  /\ task \in [Mxs -> Tasks]

EntryOfMx ==
  \A p \in Contacts, n \in Numbers : list[p][n] # NoItem => OfJid(list[p][n].jid, n)

TaskOfMx ==
  \A x \in Mxs : task[x] # Idle => task[x].user.mx = x /\ OfJid(task[x].user.jid, task[x].from)

TaskKeepsNumber ==
  \A x \in Mxs : task[x] # Idle /\ Sole(task[x].user) =>
    \A n \in Numbers : list[task[x].to][n] = task[x].user => n = task[x].from

NumberInv == Typed /\ EntryOfMx /\ TaskOfMx /\ TaskKeepsNumber /\ OneNumberPerUser

LEMMA NumberInit == Init => NumberInv
BY DEF Init, HistInit, NumberInv, Typed, Tasks, EntryOfMx, TaskOfMx, TaskKeepsNumber,
       OneNumberPerUser, Used

\* A task that is not idle has a user, a contact and a number.
LEMMA TaskFields ==
  ASSUME Typed, NEW x \in Mxs, task[x] # Idle
  PROVE  /\ task[x] \in [step : {"send", "add"}, user : Targets, to : Contacts, from : Numbers]
         /\ task[x].user \in Targets /\ task[x].to \in Contacts /\ task[x].from \in Numbers
BY DEF Typed, Tasks

\* GetFrom returns a number of a server with the user's jid, and the one the user has
\* if he has any and shares his jid with nobody.
LEMMA GetFromGood ==
  ASSUME NumberInv, NEW u \in Targets, NEW p \in Contacts,
         NEW n \in GetFrom(From[u.mx], p, u.jid)
  PROVE  /\ n \in Numbers /\ OfJid(u.jid, n)
         /\ Sole(u) => \A k \in Numbers : list[p][k] = u => k = n
<1>1. u.mx \in Mxs /\ From[u.mx] \subseteq Numbers
  BY GatewayAssumption
<1> DEFINE mine == {k \in Used(p) : list[p][k].jid = u.jid}
<1>2. \A k \in mine : k \in Numbers /\ list[p][k] \in Targets /\ list[p][k].jid = u.jid
  BY DEF Used, NumberInv, Typed
<1>3. \A k \in Numbers : list[p][k] = u => k \in mine
  <2>1. u # NoItem
    BY HistoryAssumption
  <2> QED
    BY <2>1 DEF Used
<1>4. CASE mine = {}
  <2>1. n \in From[u.mx]
    BY <1>4 DEF GetFrom
  <2> QED
    BY <1>1, <1>3, <1>4, <2>1 DEF OfJid
<1>5. CASE mine # {}
  <2>1. n \in mine
    BY <1>5 DEF GetFrom
  <2>2. OfJid(u.jid, n)
    <3>1. list[p][n] # NoItem /\ n \in Numbers /\ list[p][n].jid = u.jid
      BY <1>2, <2>1, HistoryAssumption
    <3> QED
      BY <3>1 DEF NumberInv, EntryOfMx
  <2>3. ASSUME Sole(u), NEW k \in mine PROVE k = n
    <3>1. list[p][k] = u /\ list[p][n] = u /\ k \in Used(p) /\ n \in Used(p)
      BY <1>2, <2>1, <2>3 DEF Sole
    <3> QED
      BY <2>3, <3>1 DEF NumberInv, OneNumberPerUser
  <2> QED
    BY <1>2, <1>3, <2>1, <2>2, <2>3
<1> QED
  BY <1>4, <1>5

\* Steps that leave the history alone and at most move tasks forward or end them.
LEMMA QuietStep ==
  ASSUME NumberInv, list' = list, task' \in [Mxs -> Tasks],
         \A x \in Mxs : task'[x] # Idle =>
           /\ task[x] # Idle /\ task'[x].user = task[x].user
           /\ task'[x].to = task[x].to /\ task'[x].from = task[x].from
  PROVE  NumberInv'
<1>1. Typed' /\ EntryOfMx' /\ OneNumberPerUser'
  BY DEF NumberInv, Typed, EntryOfMx, OneNumberPerUser, Used
<1>2. TaskOfMx' /\ TaskKeepsNumber'
  BY DEF NumberInv, TaskOfMx, TaskKeepsNumber
<1> QED
  BY <1>1, <1>2 DEF NumberInv

LEMMA ChooseStep ==
  ASSUME NumberInv, NEW x \in Mxs, NEW u \in Targets, NEW p \in Contacts, Choose(x, u, p)
  PROVE  NumberInv'
<1>1. PICK n \in GetFrom(From[u.mx], p, u.jid) :
        /\ u.mx = x
        /\ task' = [task EXCEPT ![x] = [step |-> "send", user |-> u, to |-> p, from |-> n]]
  BY DEF Choose
<1>2. /\ n \in Numbers /\ OfJid(u.jid, n)
      /\ Sole(u) => \A k \in Numbers : list[p][k] = u => k = n
  BY <1>1, GetFromGood
<1>3. list' = list
  BY DEF Choose, histVars
<1> DEFINE new == [step |-> "send", user |-> u, to |-> p, from |-> n]
<1>4. new \in Tasks
  BY <1>2 DEF Tasks
<1>5. task' \in [Mxs -> Tasks] /\ task'[x] = new /\ \A y \in Mxs \ {x} : task'[y] = task[y]
  BY <1>1, <1>4 DEF NumberInv, Typed
<1>6. Typed' /\ EntryOfMx' /\ OneNumberPerUser'
  BY <1>3, <1>5 DEF NumberInv, Typed, EntryOfMx, OneNumberPerUser, Used
<1>7. new.user = u /\ new.to = p /\ new.from = n
  OBVIOUS
<1> HIDE DEF new
<1>8. TaskOfMx'
  BY <1>1, <1>2, <1>5, <1>7 DEF NumberInv, TaskOfMx
<1>9. TaskKeepsNumber'
  <2> SUFFICES ASSUME NEW y \in Mxs, task'[y] # Idle, Sole(task'[y].user), NEW k \in Numbers,
                      list[task'[y].to][k] = task'[y].user
               PROVE  k = task'[y].from
    BY <1>3 DEF TaskKeepsNumber, Sole
  <2>1. CASE y = x
    BY <1>2, <1>5, <1>7, <2>1
  <2>2. CASE y # x
    BY <1>5, <2>2 DEF NumberInv, TaskKeepsNumber
  <2> QED
    BY <2>1, <2>2
<1> QED
  BY <1>6, <1>8, <1>9 DEF NumberInv

\* Recording a message gives the number to its user, who has no other, and no
\* other server's user gains anything.
LEMMA RecordStep ==
  ASSUME NumberInv, NEW x \in Mxs, Record(x)
  PROVE  NumberInv'
<1> DEFINE u == task[x].user
           p == task[x].to
           n == task[x].from
<1>1. task[x] # Idle
  BY DEF Record, Idle
<1>2. u \in Targets /\ p \in Contacts /\ n \in Numbers
  BY <1>1, TaskFields DEF NumberInv
<1>3. /\ list' = [list EXCEPT ![p][n] = u]
      /\ task' = [task EXCEPT ![x] = Idle]
  BY DEF Record, Add
<1>4. u.mx = x /\ OfJid(u.jid, n) /\ (Sole(u) => \A k \in Numbers : list[p][k] = u => k = n)
  BY <1>1 DEF NumberInv, TaskOfMx, TaskKeepsNumber
<1>5. task'[x] = Idle /\ \A y \in Mxs \ {x} : task'[y] = task[y]
  BY <1>3 DEF NumberInv, Typed
<1>6. u # NoItem
  BY <1>2, HistoryAssumption
<1> HIDE DEF u, p, n
<1>7. /\ list' \in [Contacts -> [Numbers -> Targets \cup {NoItem}]]
      /\ \A q \in Contacts, k \in Numbers :
           list'[q][k] = IF q = p /\ k = n THEN u ELSE list[q][k]
  BY <1>2, <1>3 DEF NumberInv, Typed
<1>8. Typed'
  BY <1>3, <1>7 DEF NumberInv, Typed, Tasks
<1>9. EntryOfMx'
  BY <1>4, <1>7 DEF NumberInv, EntryOfMx
<1>10. OneNumberPerUser'
  BY <1>4, <1>6, <1>7 DEF NumberInv, OneNumberPerUser, Used, Sole
<1>11. TaskOfMx'
  BY <1>5 DEF NumberInv, TaskOfMx
<1>12. TaskKeepsNumber'
  <2> SUFFICES ASSUME NEW y \in Mxs, task'[y] # Idle, Sole(task'[y].user), NEW k \in Numbers,
                      list'[task'[y].to][k] = task'[y].user
               PROVE  k = task'[y].from
    BY DEF TaskKeepsNumber, Sole
  <2>1. y # x /\ task'[y] = task[y] /\ task[y] # Idle
    BY <1>5
  <2>2. task[y].user # u /\ task[y].to \in Contacts
    BY <1>4, <2>1, TaskFields DEF NumberInv, TaskOfMx
  <2>3. list[task[y].to][k] = task[y].user
    BY <1>7, <2>1, <2>2
  <2> QED
    BY <2>1, <2>3 DEF NumberInv, TaskKeepsNumber
<1> QED
  BY <1>8, <1>9, <1>10, <1>11, <1>12 DEF NumberInv

LEMMA SendStep ==
  ASSUME NumberInv, NEW x \in Mxs, SendOk(x) \/ SendFails(x)
  PROVE  NumberInv'
<1>1. task[x] # Idle
  BY DEF SendOk, SendFails, Idle
<1>2. task[x] \in [step : {"send", "add"}, user : Targets, to : Contacts, from : Numbers]
  BY <1>1, TaskFields DEF NumberInv
<1>3. list' = list
  BY DEF SendOk, SendFails, histVars
<1>4. CASE SendOk(x)
  <2> DEFINE new == [task[x] EXCEPT !.step = "add"]
  <2>1. task' = [task EXCEPT ![x] = new]
    BY <1>4 DEF SendOk
  <2>2. /\ new \in Tasks /\ new.user = task[x].user
        /\ new.to = task[x].to /\ new.from = task[x].from
    BY <1>2 DEF Tasks
  <2> HIDE DEF new
  <2>3. task' \in [Mxs -> Tasks] /\ task'[x] = new /\ \A y \in Mxs \ {x} : task'[y] = task[y]
    BY <2>1, <2>2 DEF NumberInv, Typed
  <2> QED
    BY <1>1, <1>3, <2>2, <2>3, QuietStep
<1>5. CASE SendFails(x)
  <2>1. task' = [task EXCEPT ![x] = Idle] /\ Idle \in Tasks
    BY <1>5 DEF SendFails, Tasks
  <2>2. task' \in [Mxs -> Tasks] /\ task'[x] = Idle /\ \A y \in Mxs \ {x} : task'[y] = task[y]
    BY <2>1 DEF NumberInv, Typed
  <2> QED
    BY <1>3, <2>2, QuietStep
<1> QED
  BY <1>4, <1>5

\* What a session, the SMSC behind it and the receiver's end of its channel may do.
SmsStep(l) ==
  \/ \E m \in 1..Len(mail) : ReadSms(l, m) \/ ReadPart(l, m)
  \/ Reply(l) \/ Drop(l) \/ ReadError(l) \/ Reconnect(l) \/ Route(l) \/ TakeError(l)

Arrival ==
  \E p \in Contacts, n \in Numbers, r \in Refs : Arrive(p, n, r) \/ ArriveLong(p, n, r)

LEMMA NumberStep == NumberInv /\ [Next]_vars => NumberInv'
<1> SUFFICES ASSUME NumberInv, [Next]_vars PROVE NumberInv'
  OBVIOUS
<1>1. ASSUME list' = list, task' = task PROVE NumberInv'
  BY <1>1 DEF NumberInv, Typed, EntryOfMx, TaskOfMx, TaskKeepsNumber, OneNumberPerUser, Used
<1>2. ASSUME NEW x \in Mxs, Supervisor(x) \/ ReadingEnds(x) PROVE list' = list /\ task' = task
  BY <1>2 DEF Supervisor, DialFails, DialOk, LoginFails, LoginOk, EndDelay, ReadingEnds, histVars
<1>3. ASSUME NEW l \in Links, SmsStep(l) PROVE list' = list /\ task' = task
  BY <1>3 DEF SmsStep, ReadSms, ReadPart, Push, Reply, Drop, ReadError, Reconnect, Route, TakeError, histVars
<1>4. ASSUME Deliver \/ Arrival
      PROVE  list' = list /\ task' = task
  BY <1>4 DEF Arrival, Arrive, ArriveLong, Deliver, histVars
<1>5. ASSUME UNCHANGED vars PROVE list' = list /\ task' = task
  BY <1>5 DEF vars, histVars
<1> QED
  BY <1>1, <1>2, <1>3, <1>4, <1>5, ChooseStep, RecordStep, SendStep DEF Next, SmsStep, Arrival

\* Entries and tasks agree with the numbers of the servers, and a message under way
\* cannot give its user a second number (smsgate.go:61-76).
THEOREM NumberInvariant == Spec => []NumberInv
<1> QED
  BY NumberInit, NumberStep, PTL DEF Spec

\* Every message leaves from a number of a server that has a user with its sender's
\* jid, also when that was found in the history.
THEOREM NumbersOfJid == Spec => []NumberOfMx
<1>1. NumberInv => NumberOfMx
  BY DEF NumberInv, TaskOfMx, NumberOfMx, OfJid
<1> QED
  BY <1>1, NumberInvariant, PTL

\* No thread between a contact and a user who shares his jid with nobody is split over
\* two numbers.
THEOREM ThreadsStayWhole == Spec => []OneNumberPerUser
<1>1. NumberInv => OneNumberPerUser
  BY DEF NumberInv
<1> QED
  BY <1>1, NumberInvariant, PTL

-------------------------------------------------------------------------------
(* The two action properties.  Both need that between the choice of a number *)
(* and its record nobody else touches the entries of the server's numbers.   *)
(* Nobody but a stranger can when it shares none of them, and then the       *)
(* stranger's entry stays at least until the record is made.                 *)

OwnsAll(x) == \A k \in From[x] : Own(k)

\* The chosen number is free, the user's, or the one used longest ago.
TaskFresh ==
  \A x \in Mxs :
    task[x] # Idle /\ OwnsAll(x) /\ task[x].from \in From[x] /\ NoStranger(x, task[x].to) =>
    LET u == task[x].user
        p == task[x].to
        n == task[x].from
    IN  \/ list[p][n] \in {NoItem, u}
        \/ \A k \in From[x] : k \in Used(p) /\ sended[p][n] <= sended[p][k]

Adding(x, p, n) == task[x] # Idle /\ task[x].step = "add" /\ task[x].to = p /\ task[x].from = n

\* The history names the last writer, unless his message is still to be recorded.
LastWriter ==
  \A p \in Contacts, n \in Numbers :
    Own(n) /\ written[p][n] # NoItem /\ ~(\E x \in Mxs : Adding(x, p, n))
    /\ AtHome(written[p][n], n) /\ AtHome(list[p][n], n)
      => list[p][n] = written[p][n]

AddIsLast ==
  \A x \in Mxs, p \in Contacts, n \in Numbers :
    Own(n) /\ n \in From[x] /\ Adding(x, p, n) /\ AtHome(written[p][n], n)
      => written[p][n] = task[x].user

ThreadInv ==
  /\ sended \in [Contacts -> [Numbers -> Nat]] /\ clock \in Nat
  /\ written \in [Contacts -> [Numbers -> Targets \cup {NoItem}]]
  /\ TaskFresh /\ LastWriter /\ AddIsLast

LEMMA ThreadInit == Init => ThreadInv
BY DEF Init, HistInit, ThreadInv, TaskFresh, LastWriter, AddIsLast, Adding

LEMMA ThreadChoose ==
  ASSUME NumberInv, ThreadInv, NEW x \in Mxs, NEW u \in Targets, NEW p \in Contacts,
         Choose(x, u, p)
  PROVE  ThreadInv'
<1>1. PICK n \in GetFrom(From[x], p, u.jid) :
        task' = [task EXCEPT ![x] = [step |-> "send", user |-> u, to |-> p, from |-> n]]
  BY DEF Choose
<1>2. UNCHANGED <<histVars, written>> /\ task[x] = Idle /\ u.mx = x
  BY DEF Choose, CanHandle
<1>3. /\ task'[x] = [step |-> "send", user |-> u, to |-> p, from |-> n]
      /\ \A y \in Mxs \ {x} : task'[y] = task[y]
  BY <1>1 DEF NumberInv, Typed
<1>4. \A y \in Mxs, q \in Contacts, k \in Numbers : Adding(y, q, k)' <=> Adding(y, q, k)
  BY <1>2, <1>3 DEF Adding
<1>5. LastWriter' /\ AddIsLast'
  <2>1. LastWriter'
    BY <1>2, <1>4 DEF ThreadInv, LastWriter, Own, AtHome, histVars
  <2>2. \A y \in Mxs, q \in Contacts, k \in Numbers :
          Adding(y, q, k)' => Adding(y, q, k) /\ task'[y].user = task[y].user
    <3> SUFFICES ASSUME NEW y \in Mxs, NEW q \in Contacts, NEW k \in Numbers, Adding(y, q, k)
                 PROVE  task'[y].user = task[y].user
      BY <1>4
    <3>1. y # x
      BY <1>2 DEF Adding
    <3> QED
      BY <1>3, <3>1
  <2>3. AddIsLast'
    BY <1>2, <2>2 DEF ThreadInv, AddIsLast, Own, AtHome
  <2> QED
    BY <2>1, <2>3
<1>6. TaskFresh'
  <2> SUFFICES ASSUME NEW y \in Mxs, task'[y] # Idle, OwnsAll(y),
                      task'[y].from \in From[y], NoStranger(y, task'[y].to)
               PROVE  \/ list[task'[y].to][task'[y].from] \in {NoItem, task'[y].user}
                      \/ \A k \in From[y] :
                           /\ k \in Used(task'[y].to)
                           /\ sended[task'[y].to][task'[y].from] <= sended[task'[y].to][k]
    BY <1>2 DEF TaskFresh, OwnsAll, Own, Used, NoStranger, histVars
  <2>1. CASE y = x
    <3> DEFINE mine == {k \in Used(p) : list[p][k].jid = u.jid}
               free == From[x] \ Used(p)
    <3>1. CASE mine # {}
      <4>1. n \in Used(p) /\ list[p][n] \in Targets /\ list[p][n].jid = u.jid
        BY <1>1, <3>1 DEF GetFrom, Used, NumberInv, Typed
      <4>2. list[p][n].mx = x
        BY <1>3, <2>1, <4>1 DEF NoStranger, Used
      <4> QED
        BY <1>2, <1>3, <2>1, <4>1, <4>2, GatewayAssumption
    <3>2. CASE mine = {} /\ free # {}
      <4>1. n \in free
        BY <1>1, <3>2 DEF GetFrom
      <4>2. n \in Numbers
        BY <4>1, GatewayAssumption
      <4> QED
        BY <1>3, <2>1, <4>1, <4>2 DEF Used
    <3>3. CASE mine = {} /\ free = {}
      <4>1. \A k \in From[x] : sended[p][n] <= sended[p][k]
        BY <1>1, <3>3 DEF GetFrom
      <4>2. \A k \in From[x] : k \in Used(p)
        BY <3>3
      <4> QED
        BY <1>3, <2>1, <4>1, <4>2
    <3> QED
      BY <3>1, <3>2, <3>3
  <2>2. CASE y # x
    BY <1>3, <2>2 DEF ThreadInv, TaskFresh
  <2> QED
    BY <2>1, <2>2
<1> QED
  BY <1>2, <1>5, <1>6 DEF ThreadInv, histVars

LEMMA ThreadSend ==
  ASSUME NumberInv, ThreadInv, NEW x \in Mxs, SendOk(x) \/ SendFails(x)
  PROVE  ThreadInv'
<1> DEFINE u == task[x].user
           p == task[x].to
           n == task[x].from
<1>1. task[x] # Idle /\ task[x].step = "send"
  BY DEF SendOk, SendFails, Idle
<1>2. /\ task[x] \in [step : {"send", "add"}, user : Targets, to : Contacts, from : Numbers]
      /\ u \in Targets /\ p \in Contacts /\ n \in Numbers /\ u.mx = x
  BY <1>1, TaskFields DEF NumberInv, TaskOfMx
<1>3. UNCHANGED histVars /\ \A y \in Mxs \ {x} : task'[y] = task[y]
  BY DEF SendOk, SendFails, NumberInv, Typed
<1>4. u # NoItem
  BY <1>2, HistoryAssumption
<1>5. CASE SendOk(x)
  <2>1. /\ task'[x] = [task[x] EXCEPT !.step = "add"]
        /\ written' = [written EXCEPT ![p][n] = u]
    BY <1>5 DEF SendOk, NumberInv, Typed
  <2>2. /\ task'[x] # Idle /\ task'[x].step = "add" /\ task'[x].user = u
        /\ task'[x].to = p /\ task'[x].from = n
    BY <1>2, <2>1 DEF Idle
  <2>3. /\ written' \in [Contacts -> [Numbers -> Targets \cup {NoItem}]]
        /\ \A q \in Contacts, k \in Numbers :
             written'[q][k] = IF q = p /\ k = n THEN u ELSE written[q][k]
    BY <1>2, <2>1 DEF ThreadInv
  <2> HIDE DEF u, p, n
  <2>4. \A y \in Mxs, q \in Contacts, k \in Numbers :
          Adding(y, q, k)' <=> Adding(y, q, k) \/ (y = x /\ q = p /\ k = n)
    BY <1>1, <1>3, <2>2 DEF Adding, u, p, n
  <2>5. TaskFresh'
    BY <1>1, <1>3, <2>2 DEF ThreadInv, TaskFresh, OwnsAll, Own, Used, NoStranger, histVars, u, p, n
  <2>6. LastWriter'
    <3> SUFFICES ASSUME NEW q \in Contacts, NEW k \in Numbers, Own(k),
                        written'[q][k] # NoItem, ~(\E y \in Mxs : Adding(y, q, k)'),
                        AtHome(written'[q][k], k), AtHome(list'[q][k], k)
                 PROVE  list'[q][k] = written'[q][k]
      BY DEF LastWriter, Own, AtHome
    <3>1. ~(q = p /\ k = n) /\ ~(\E y \in Mxs : Adding(y, q, k))
      BY <2>4
    <3>2. written'[q][k] = written[q][k] /\ list'[q][k] = list[q][k]
      BY <1>3, <2>3, <3>1 DEF histVars
    <3> QED
      BY <3>1, <3>2 DEF ThreadInv, LastWriter
  <2>7. AddIsLast'
    <3> SUFFICES ASSUME NEW y \in Mxs, NEW q \in Contacts, NEW k \in Numbers, Own(k),
                        k \in From[y], Adding(y, q, k)', AtHome(written'[q][k], k)
                 PROVE  written'[q][k] = task'[y].user
      BY DEF AddIsLast, Own, AtHome
    <3>1. CASE y = x
      BY <1>1, <2>2, <2>3, <2>4, <3>1 DEF Adding
    <3>2. CASE y # x
      <4>1. Adding(y, q, k)
        BY <2>4, <3>2
      <4>2. ~(q = p /\ k = n)
        <5>1. u \in Targets /\ u.mx = x /\ u # NoItem
          BY <1>2, <1>4 DEF u
        <5>2. k \notin From[x]
          BY <3>2 DEF Own
        <5> QED
          BY <2>3, <5>1, <5>2 DEF AtHome
      <4> QED
        BY <1>3, <2>3, <3>2, <4>1, <4>2 DEF ThreadInv, AddIsLast
    <3> QED
      BY <3>1, <3>2
  <2> QED
    BY <1>3, <2>3, <2>5, <2>6, <2>7 DEF ThreadInv, histVars
<1>6. CASE SendFails(x)
  <2>1. task'[x] = Idle /\ written' = written
    BY <1>6 DEF SendFails, NumberInv, Typed
  <2>2. \A y \in Mxs, q \in Contacts, k \in Numbers : Adding(y, q, k)' <=> Adding(y, q, k)
    BY <1>1, <1>3, <2>1 DEF Adding
  <2>3. TaskFresh'
    BY <1>3, <2>1 DEF ThreadInv, TaskFresh, OwnsAll, Own, Used, NoStranger, histVars
  <2>4. LastWriter'
    BY <1>3, <2>1, <2>2 DEF ThreadInv, LastWriter, Own, AtHome, histVars
  <2>5. AddIsLast'
    BY <1>3, <2>1 DEF ThreadInv, AddIsLast, Adding, Own, AtHome, histVars
  <2> QED
    BY <1>3, <2>1, <2>3, <2>4, <2>5 DEF ThreadInv, histVars
<1> QED
  BY <1>5, <1>6

LEMMA ThreadRecord ==
  ASSUME NumberInv, ThreadInv, NEW x \in Mxs, Record(x)
  PROVE  ThreadInv'
<1> DEFINE u == task[x].user
           p == task[x].to
           n == task[x].from
<1>1. task[x] # Idle /\ task[x].step = "add"
  BY DEF Record, Idle
<1>2. u \in Targets /\ p \in Contacts /\ n \in Numbers /\ u.mx = x /\ u # NoItem
  BY <1>1, TaskFields, HistoryAssumption DEF NumberInv, TaskOfMx
<1>3. /\ list' = [list EXCEPT ![p][n] = u]
      /\ sended' = [sended EXCEPT ![p][n] = clock + 1]
      /\ clock' = clock + 1 /\ written' = written
  BY DEF Record, Add
<1>4. task'[x] = Idle /\ \A y \in Mxs \ {x} : task'[y] = task[y]
  BY DEF Record, NumberInv, Typed
<1>5. Adding(x, p, n)
  BY <1>1 DEF Adding
<1>6. \A y \in Mxs : y # x /\ task[y] # Idle =>
        /\ task[y].to \in Contacts /\ task[y].from \in Numbers
        /\ From[y] \subseteq Numbers
  BY TaskFields, GatewayAssumption DEF NumberInv
<1> HIDE DEF u, p, n
<1>7. \A q \in Contacts, k \in Numbers :
        /\ list'[q][k] = IF q = p /\ k = n THEN u ELSE list[q][k]
        /\ sended'[q][k] = IF q = p /\ k = n THEN clock + 1 ELSE sended[q][k]
  BY <1>2, <1>3 DEF NumberInv, Typed, ThreadInv
<1>8. sended' \in [Contacts -> [Numbers -> Nat]] /\ clock' \in Nat
  BY <1>2, <1>3 DEF ThreadInv
<1>9. \A y \in Mxs, q \in Contacts, k \in Numbers :
        Adding(y, q, k)' <=> y # x /\ Adding(y, q, k)
  BY <1>4 DEF Adding
<1>10. TaskFresh'
  <2> SUFFICES ASSUME NEW y \in Mxs, y # x, task[y] # Idle, OwnsAll(y),
                      task[y].from \in From[y],
                      \A k \in From[y] : list'[task[y].to][k] # NoItem => list'[task[y].to][k].mx = y
               PROVE  \/ list'[task[y].to][task[y].from] \in {NoItem, task[y].user}
                      \/ \A k \in From[y] :
                           /\ k \in Used(task[y].to)'
                           /\ sended'[task[y].to][task[y].from] <= sended'[task[y].to][k]
    BY <1>4 DEF TaskFresh, OwnsAll, Own, Used, NoStranger
  <2>1. \A k \in From[y] : ~(task[y].to = p /\ k = n)
    BY <1>2, <1>7
  <2>2. \A k \in From[y] : /\ list'[task[y].to][k] = list[task[y].to][k]
                           /\ sended'[task[y].to][k] = sended[task[y].to][k]
    BY <1>6, <1>7, <2>1
  <2>3. \A k \in From[y] : k \in Used(task[y].to) => k \in Used(task[y].to)'
    BY <1>4, <1>6, <2>2 DEF Used
  <2>4. NoStranger(y, task[y].to)
    BY <2>2 DEF NoStranger
  <2> QED
    BY <2>2, <2>3, <2>4 DEF ThreadInv, TaskFresh
<1>11. LastWriter'
  <2> SUFFICES ASSUME NEW q \in Contacts, NEW k \in Numbers, Own(k), written[q][k] # NoItem,
                      ~(\E y \in Mxs : Adding(y, q, k)'),
                      AtHome(written[q][k], k), AtHome(list'[q][k], k)
               PROVE  list'[q][k] = written[q][k]
    BY <1>3 DEF LastWriter, Own, Adding, AtHome
  <2>1. CASE q = p /\ k = n
    <3>1. list'[q][k] = u /\ k \in From[x]
      BY <1>2, <1>7, <2>1 DEF AtHome
    <3> QED
      BY <1>5, <2>1, <3>1 DEF ThreadInv, AddIsLast, u
  <2>2. CASE ~(q = p /\ k = n)
    <3>1. ~Adding(x, q, k)
      BY <2>2 DEF Adding, p, n
    <3> QED
      BY <1>7, <1>9, <2>2, <3>1 DEF ThreadInv, LastWriter
  <2> QED
    BY <2>1, <2>2
<1>12. AddIsLast'
  BY <1>3, <1>4, <1>9 DEF ThreadInv, AddIsLast, Own, AtHome
<1> QED
  BY <1>3, <1>8, <1>10, <1>11, <1>12 DEF ThreadInv

LEMMA ThreadStep == NumberInv /\ ThreadInv /\ [Next]_vars => ThreadInv'
<1> SUFFICES ASSUME NumberInv, ThreadInv, [Next]_vars PROVE ThreadInv'
  OBVIOUS
<1>1. ASSUME UNCHANGED <<histVars, task, written>> PROVE ThreadInv'
  BY <1>1 DEF ThreadInv, TaskFresh, LastWriter, AddIsLast, Adding, OwnsAll, Own, Used,
              NoStranger, AtHome, histVars
<1>2. ASSUME NEW x \in Mxs, Supervisor(x) \/ ReadingEnds(x)
      PROVE  UNCHANGED <<histVars, task, written>>
  BY <1>2 DEF Supervisor, DialFails, DialOk, LoginFails, LoginOk, EndDelay, ReadingEnds
<1>3. ASSUME NEW l \in Links, SmsStep(l) PROVE UNCHANGED <<histVars, task, written>>
  BY <1>3 DEF SmsStep, ReadSms, ReadPart, Push, Reply, Drop, ReadError, Reconnect, Route, TakeError
<1>4. ASSUME Deliver \/ Arrival
      PROVE  UNCHANGED <<histVars, task, written>>
  BY <1>4 DEF Arrival, Arrive, ArriveLong, Deliver
<1>5. CASE UNCHANGED vars
  BY <1>1, <1>5 DEF vars
<1> QED
  BY <1>1, <1>2, <1>3, <1>4, <1>5, ThreadChoose, ThreadSend, ThreadRecord DEF Next, SmsStep, Arrival

\* The history names the last writer of every number one server alone may use, unless
\* his message is still to be recorded or a stranger came in between, and a number that
\* was chosen is free, the user's own or the one used longest ago (history.go:19-79,
\* smsgate.go:61-76).
THEOREM ThreadInvariant == Spec => [](NumberInv /\ ThreadInv)
<1> QED
  BY NumberInit, NumberStep, ThreadInit, ThreadStep, PTL DEF Spec

-------------------------------------------------------------------------------
(* Incoming SMS.  What a session offers has arrived, what it answers was     *)
(* handed over or is a part that is accounted for, and what is in a cache is *)
(* a first part with the reference of its entry.                             *)

Taken(m) == copies[m] > 0 \/ PartOnly(m)

MailTyped ==
  /\ mail \in Seq(Sms) /\ Len(mail) <= MaxIn
  /\ copies \in [1..MaxIn -> Nat]
  /\ acked \subseteq 1..Len(mail) /\ gone \subseteq 1..Len(mail)

SessTyped ==
  /\ up \subseteq Links
  /\ sess \in [Links -> [step : Steps, sms : Nat, text : SUBSET Nat]]
  /\ kept \in [Links -> [Refs -> SUBSET Nat]]

CacheHolds ==
  \A l \in Links, r \in Refs : \A m \in kept[l][r] :
    m \in 1..Len(mail) /\ mail[m].part = "first" /\ mail[m].ref = r

Offering ==
  \A l \in Links :
    /\ sess[l].text \subseteq 1..Len(mail)
    /\ sess[l].step = "push" => sess[l].sms \in 1..Len(mail) /\ sess[l].sms \in sess[l].text
    /\ sess[l].step # "push" => sess[l].text = {}

Answering ==
  \A l \in Links :
    sess[l].step = "reply" => sess[l].sms \in 1..Len(mail) /\ Taken(sess[l].sms)

SmsInv == MailTyped /\ SessTyped /\ CacheHolds /\ Offering /\ Answering /\ AckedWasTaken

LEMMA SmsInit == Init => SmsInv
BY GatewayAssumption DEF Init, SmsInv, MailTyped, SessTyped, CacheHolds, Offering, Answering,
   AckedWasTaken, Sms, Steps

\* The fields of an SMS, and that of its domain.
LEMMA SmsFields ==
  ASSUME MailTyped, NEW m \in 1..Len(mail)
  PROVE  /\ m \in 1..MaxIn /\ mail[m] \in Sms /\ mail[m].ref \in Refs
         /\ mail[m].from \in Contacts /\ mail[m].to \in Numbers
<1>1. mail[m] \in Sms /\ m \in 1..MaxIn
  BY GatewayAssumption DEF MailTyped
<1> QED BY <1>1 DEF Sms

\* What an SMS that is read does to the session and to its cache.
LEMMA PushEffect ==
  ASSUME MailTyped, SessTyped, NEW l \in Links, NEW m \in 1..Len(mail), Push(l, m), up' = up
  PROVE  /\ SessTyped'
         /\ sess'[l] = [step |-> "push", sms |-> m, text |-> {m} \cup Joined(l, m)]
         /\ \A k \in Links \ {l} : sess'[k] = sess[k]
         /\ \A k \in Links, r \in Refs :
              kept'[k][r] = IF k = l /\ r = mail[m].ref THEN kept[k][r] \ Joined(l, m)
                            ELSE kept[k][r]
         /\ Joined(l, m) \subseteq kept[l][mail[m].ref]
<1>1. mail[m].ref \in Refs
  BY SmsFields
<1>2. Joined(l, m) \subseteq kept[l][mail[m].ref] /\ kept[l][mail[m].ref] \in SUBSET Nat
  BY <1>1 DEF Joined, SessTyped
<1> DEFINE s == [step |-> "push", sms |-> m, text |-> {m} \cup Joined(l, m)]
           j == Joined(l, m)
           q == mail[m].ref
<1>3. s \in [step : Steps, sms : Nat, text : SUBSET Nat]
  BY <1>2 DEF Steps
<1>4. sess' = [sess EXCEPT ![l] = s] /\ kept' = [kept EXCEPT ![l][q] = @ \ j] /\ l \in up
  BY DEF Push
<1> HIDE DEF s, j, q
<1>5. sess'[l] = s /\ \A k \in Links \ {l} : sess'[k] = sess[k]
  BY <1>4 DEF SessTyped
<1>6. \A k \in Links, r \in Refs :
        kept'[k][r] = IF k = l /\ r = q THEN kept[k][r] \ j ELSE kept[k][r]
  BY <1>4 DEF SessTyped
<1>7. sess' \in [Links -> [step : Steps, sms : Nat, text : SUBSET Nat]]
      /\ kept' \in [Links -> [Refs -> SUBSET Nat]]
  BY <1>3, <1>4 DEF SessTyped
<1>8. SessTyped'
  BY <1>7 DEF SessTyped
<1> QED BY ONLY <1>2, <1>5, <1>6, <1>8 DEF s, j, q

LEMMA PartEffect ==
  ASSUME MailTyped, SessTyped, NEW l \in Links, NEW m \in 1..Len(mail), ReadPart(l, m)
  PROVE  /\ SessTyped'
         /\ sess'[l] = [step |-> "reply", sms |-> m, text |-> {}]
         /\ \A k \in Links \ {l} : sess'[k] = sess[k]
         /\ mail[m].ref \in Refs
         /\ \A k \in Links, r \in Refs :
              kept'[k][r] = IF k = l /\ r = mail[m].ref THEN {m} ELSE kept[k][r]
<1>1. mail[m].ref \in Refs
  BY SmsFields
<1> DEFINE q == mail[m].ref
           s == [step |-> "reply", sms |-> m, text |-> {}]
<1>2. s \in [step : Steps, sms : Nat, text : SUBSET Nat]
  BY DEF Steps
<1>3. sess' = [sess EXCEPT ![l] = s] /\ kept' = [kept EXCEPT ![l][q] = {m}] /\ up' = up
  BY DEF ReadPart, smscVars
<1> HIDE DEF q, s
<1>4. sess'[l] = s /\ \A k \in Links \ {l} : sess'[k] = sess[k]
  BY <1>3 DEF SessTyped
<1>5. \A k \in Links, r \in Refs :
        kept'[k][r] = IF k = l /\ r = q THEN {m} ELSE kept[k][r]
  BY <1>3 DEF SessTyped
<1>6. sess' \in [Links -> [step : Steps, sms : Nat, text : SUBSET Nat]]
      /\ kept' \in [Links -> [Refs -> SUBSET Nat]]
  <2>1. {m} \in SUBSET Nat
    OBVIOUS
  <2>2. kept' \in [Links -> [Refs -> SUBSET Nat]]
    BY <1>1, <1>3, <2>1 DEF SessTyped, q
  <2> QED BY <1>2, <1>3, <2>2 DEF SessTyped
<1> QED BY <1>1, <1>3, <1>4, <1>5, <1>6 DEF q, s, SessTyped

LEMMA RouteEffect ==
  ASSUME MailTyped, SessTyped, Offering, NEW l \in Links, Route(l)
  PROVE  /\ SessTyped' /\ sess[l].step = "push"
         /\ sess'[l].step = "reply" /\ sess'[l].sms = sess[l].sms /\ sess'[l].text = {}
         /\ \A k \in Links \ {l} : sess'[k] = sess[k]
         /\ \A k \in 1..MaxIn :
              copies'[k] = IF k \in sess[l].text THEN copies[k] + 1 ELSE copies[k]
         /\ copies' \in [1..MaxIn -> Nat]
         /\ UNCHANGED <<mail, acked, up, cut, kept, gone>>
<1>1. /\ sess' = [sess EXCEPT ![l].step = "reply", ![l].text = {}] /\ sess[l].step = "push"
      /\ copies' = [m \in 1..MaxIn |-> IF m \in sess[l].text THEN copies[m] + 1 ELSE copies[m]]
      /\ UNCHANGED <<mail, acked, up, cut, kept, gone>>
  BY DEF Route, smscVars, cacheVars
<1>2. \A k \in 1..MaxIn : copies[k] \in Nat
  BY DEF MailTyped
<1>3. /\ \A k \in 1..MaxIn :
           copies'[k] = IF k \in sess[l].text THEN copies[k] + 1 ELSE copies[k]
      /\ copies' \in [1..MaxIn -> Nat]
  BY <1>1, <1>2
<1>4. sess' = [sess EXCEPT ![l] = [sess[l] EXCEPT !.step = "reply", !.text = {}]]
  BY <1>1 DEF SessTyped
<1> DEFINE s == [sess[l] EXCEPT !.step = "reply", !.text = {}]
<1>5. /\ s \in [step : Steps, sms : Nat, text : SUBSET Nat]
      /\ s.step = "reply" /\ s.sms = sess[l].sms /\ s.text = {}
  BY DEF SessTyped, Steps
<1> HIDE DEF s
<1>6. SessTyped' /\ sess'[l] = s /\ \A k \in Links \ {l} : sess'[k] = sess[k]
  BY <1>1, <1>4, <1>5 DEF SessTyped, s
<1> QED BY <1>1, <1>3, <1>5, <1>6

\* Steps that change only the step of a session, and Reply, which ends it.
LEMMA StepEffect ==
  ASSUME SessTyped, NEW l \in Links, Reply(l) \/ ReadError(l) \/ TakeError(l) \/ Reconnect(l)
  PROVE  /\ SessTyped' /\ sess'[l].step \in {"read", "error", "down"}
         /\ Reply(l) => sess[l].step = "reply" /\ sess'[l].sms = 0 /\ sess'[l].text = {}
                        /\ acked' = (IF l \in up THEN acked \cup {sess[l].sms} ELSE acked)
         /\ ~Reply(l) => sess[l].step \in {"read", "error", "down"} /\ acked' = acked
                         /\ sess'[l].sms = sess[l].sms /\ sess'[l].text = sess[l].text
         /\ \A k \in Links \ {l} : sess'[k] = sess[k]
         /\ UNCHANGED <<mail, copies, cut>>
         /\ UNCHANGED <<kept, gone, up>> \/ Reconnect(l)
<1>1. CASE Reply(l)
  BY <1>1 DEF Reply, SessTyped, Steps, cacheVars
<1>2. CASE ReadError(l)
  BY <1>2 DEF Reply, ReadError, SessTyped, Steps, cacheVars, smscVars
<1>3. CASE TakeError(l)
  BY <1>3 DEF Reply, TakeError, SessTyped, Steps, cacheVars, smscVars
<1>4. CASE Reconnect(l)
  <2>1. /\ sess' = [sess EXCEPT ![l].step = "read"] /\ up' = up \cup {l}
        /\ kept' = [kept EXCEPT ![l] = [r \in Refs |-> {}]] /\ sess[l].step = "down"
        /\ UNCHANGED <<mail, copies, cut, acked>>
    BY <1>4 DEF Reconnect
  <2> QED BY <1>4, <2>1 DEF Reply, SessTyped, Steps
<1> QED BY <1>1, <1>2, <1>3, <1>4

LEMMA CacheEnds ==
  ASSUME SessTyped, NEW l \in Links, Reconnect(l)
  PROVE  /\ \A k \in Links, r \in Refs : kept'[k][r] = IF k = l THEN {} ELSE kept[k][r]
         /\ \A r \in Refs : kept[l][r] \subseteq gone'
         /\ gone' = gone \cup UNION {kept[l][r] : r \in Refs} /\ up' = up \cup {l}
BY DEF SessTyped, Reconnect

\* What has arrived stays, and so do its number and what it is.
LEMMA MailGrows ==
  ASSUME MailTyped, NEW p \in Contacts, NEW n \in Numbers, NEW r \in Refs,
         Arrive(p, n, r) \/ ArriveLong(p, n, r)
  PROVE  /\ mail' \in Seq(Sms) /\ Len(mail') <= MaxIn /\ Len(mail) <= Len(mail')
         /\ \A m \in 1..Len(mail) : mail'[m] = mail[m]
         /\ UNCHANGED <<acked, up, cut, drops, sess, kept, gone, recv, copies>>
<1>1. Len(mail) \in Nat /\ MaxIn \in Nat
  BY GatewayAssumption DEF MailTyped
<1>2. CASE Arrive(p, n, r)
  <2>1. PICK s \in Sms : mail' = Append(mail, s)
    BY <1>2 DEF Arrive, Sms
  <2>2. Len(mail) + 1 <= MaxIn
    <3>1. PICK b \in Loads : Len(mail) + 1 <= b[2]
      BY <1>2 DEF Arrive, Room
    <3>2. b[2] \in 0..MaxIn
      BY GatewayAssumption
    <3> QED BY <1>1, <3>1, <3>2
  <2> QED BY <1>1, <1>2, <2>1, <2>2 DEF Arrive, MailTyped, cacheVars
<1>3. CASE ArriveLong(p, n, r)
  <2>1. PICK s \in Sms, t \in Sms : mail' = mail \o <<s, t>>
    BY <1>3 DEF ArriveLong, Sms
  <2>2. Len(mail) + 2 <= MaxIn
    <3>1. PICK b \in Loads : Len(mail) + 2 <= b[2]
      BY <1>3 DEF ArriveLong, Room
    <3>2. b[2] \in 0..MaxIn
      BY GatewayAssumption
    <3> QED BY <1>1, <3>1, <3>2
  <2>3. <<s, t>> \in Seq(Sms) /\ Len(<<s, t>>) = 2
    OBVIOUS
  <2> QED BY <1>1, <1>3, <2>1, <2>2, <2>3 DEF ArriveLong, MailTyped, cacheVars
<1> QED BY <1>2, <1>3

\* A step of anybody else.
LEMMA OtherSteps ==
  ASSUME [Next]_vars
  PROVE  \/ UNCHANGED <<smscVars, sess, cacheVars, copies>>
         \/ Arrival
         \/ \E l \in Links : SmsStep(l)
<1>1. ASSUME NEW x \in Mxs, Supervisor(x) \/ ReadingEnds(x) \/ SendOk(x) \/ SendFails(x)
                            \/ Record(x) \/ \E u \in Targets, p \in Contacts : Choose(x, u, p)
      PROVE  UNCHANGED <<smscVars, sess, cacheVars, copies>>
  BY <1>1 DEF Supervisor, DialFails, DialOk, LoginFails, LoginOk, EndDelay, ReadingEnds,
              SendOk, SendFails, Record, Choose, recvVars
<1>2. CASE Deliver
  BY <1>2 DEF Deliver
<1>3. CASE UNCHANGED vars
  BY <1>3 DEF vars, recvVars
<1> QED BY <1>1, <1>2, <1>3 DEF Next, Arrival, SmsStep

\* An SMS that is accounted for stays so: a part leaves the cache into a text, to
\* another part, or with the call of reading, and a text only to the receiver.
LEMMA TakenStays ==
  ASSUME SmsInv, [Next]_vars, NEW m \in 1..Len(mail), Taken(m)
  PROVE  Taken(m)'
<1>1. m \in 1..MaxIn /\ mail[m].ref \in Refs /\ MailTyped /\ SessTyped /\ Offering /\ CacheHolds
  BY SmsFields DEF SmsInv
<1>2. CASE UNCHANGED <<smscVars, sess, cacheVars, copies>>
  BY <1>2 DEF Taken, PartOnly, smscVars, cacheVars
<1>3. ASSUME NEW p \in Contacts, NEW n \in Numbers, NEW r \in Refs,
             Arrive(p, n, r) \/ ArriveLong(p, n, r)
      PROVE  Taken(m)'
  <2>1. /\ Len(mail) <= Len(mail') /\ \A k \in 1..Len(mail) : mail'[k] = mail[k]
        /\ UNCHANGED <<sess, kept, gone, copies>>
    BY <1>1, <1>3, MailGrows
  <2>2. 1..Len(mail) \subseteq 1..Len(mail')
    BY <1>1, <1>3, <2>1, MailGrows DEF MailTyped
  <2> QED BY <2>1, <2>2 DEF Taken, PartOnly
<1>4. ASSUME NEW l \in Links, NEW k \in 1..Len(mail), ReadSms(l, k) PROVE Taken(m)'
  <2>1. /\ Push(l, k) /\ up' = up /\ sess[l].step = "read"
        /\ UNCHANGED <<mail, copies, gone>>
    BY <1>4 DEF ReadSms, Push, smscVars
  <2>2. /\ sess'[l] = [step |-> "push", sms |-> k, text |-> {k} \cup Joined(l, k)]
        /\ \A j \in Links \ {l} : sess'[j] = sess[j]
        /\ \A j \in Links, r \in Refs :
             kept'[j][r] = IF j = l /\ r = mail[k].ref THEN kept[j][r] \ Joined(l, k)
                           ELSE kept[j][r]
    BY ONLY <1>1, <1>4, <2>1, PushEffect, ZenonT(30)
  <2>3. sess[l].text = {} /\ sess'[l].text = {k} \cup Joined(l, k)
    BY <1>1, <2>1, <2>2 DEF Offering
  <2>4. \A j \in Links :
          m \in sess[j].text \cup kept[j][mail[m].ref] =>
            m \in sess'[j].text \cup kept'[j][mail[m].ref]
    BY ONLY <1>1, <2>2, <2>3
  <2> QED BY <2>1, <2>4 DEF Taken, PartOnly
<1>5. ASSUME NEW l \in Links, NEW k \in 1..Len(mail), ReadPart(l, k) PROVE Taken(m)'
  <2>1. /\ UNCHANGED <<mail, copies, gone>> /\ sess[l].step = "read" /\ mail[k].part = "first"
    BY <1>5 DEF ReadPart, smscVars
  <2>2. /\ sess'[l] = [step |-> "reply", sms |-> k, text |-> {}]
        /\ \A j \in Links \ {l} : sess'[j] = sess[j]
        /\ \A j \in Links, r \in Refs :
             kept'[j][r] = IF j = l /\ r = mail[k].ref THEN {k} ELSE kept[j][r]
    BY <1>1, <1>5, PartEffect
  <2>3. sess[l].text = {} /\ sess'[l].text = {}
    BY <1>1, <2>1, <2>2 DEF Offering
  <2>4. \A j \in Links :
          m \in sess[j].text \cup kept[j][mail[m].ref] =>
            \/ m \in sess'[j].text \cup kept'[j][mail[m].ref]
            \/ k # m /\ mail[k].ref = mail[m].ref
    BY ONLY <1>1, <2>2, <2>3
  <2> QED BY <2>1, <2>4 DEF Taken, PartOnly
<1>6. ASSUME NEW l \in Links, Route(l) PROVE Taken(m)'
  <2>1. copies'[m] = IF m \in sess[l].text THEN copies[m] + 1 ELSE copies[m]
    BY <1>1, <1>6, RouteEffect
  <2>2. copies[m] \in Nat /\ UNCHANGED <<mail, kept, gone>> /\ \A j \in Links \ {l} : sess'[j] = sess[j]
    BY <1>1, <1>6, RouteEffect DEF MailTyped
  <2>3. CASE m \in sess[l].text \/ copies[m] > 0
    BY <2>1, <2>2, <2>3 DEF Taken
  <2>4. CASE PartOnly(m) /\ m \notin sess[l].text
    BY <2>2, <2>4 DEF Taken, PartOnly
  <2> QED BY <2>3, <2>4 DEF Taken
<1>7. ASSUME NEW l \in Links, Drop(l) PROVE Taken(m)'
  BY <1>7 DEF Drop, Taken, PartOnly, cacheVars
<1>8. ASSUME NEW l \in Links, Reply(l) \/ ReadError(l) \/ TakeError(l) \/ Reconnect(l)
      PROVE  Taken(m)'
  <2>1. \A j \in Links : sess[j].text = sess'[j].text
    BY <1>1, <1>8, StepEffect DEF Offering
  <2>2. UNCHANGED <<mail, copies>>
    BY <1>1, <1>8, StepEffect
  <2>3. CASE UNCHANGED <<kept, gone>>
    BY <2>1, <2>2, <2>3 DEF Taken, PartOnly
  <2>4. CASE Reconnect(l)
    <3>1. \A j \in Links : m \in kept[j][mail[m].ref] => m \in kept'[j][mail[m].ref] \/ m \in gone'
      BY <1>1, <2>4, CacheEnds
    <3>2. gone \subseteq gone'
      BY <1>1, <2>4, CacheEnds
    <3> QED BY <2>1, <2>2, <3>1, <3>2 DEF Taken, PartOnly
  <2> QED BY <1>1, <1>8, <2>3, <2>4, StepEffect
<1> QED BY <1>2, <1>3, <1>4, <1>5, <1>6, <1>7, <1>8, OtherSteps DEF SmsStep, Arrival

LEMMA SmsTypesStep ==
  ASSUME SmsInv, [Next]_vars
  PROVE  MailTyped' /\ SessTyped' /\ CacheHolds' /\ Offering'
<1> USE DEF SmsInv
<1>1. CASE UNCHANGED <<smscVars, sess, cacheVars, copies>>
  BY <1>1 DEF smscVars, cacheVars, MailTyped, SessTyped, CacheHolds, Offering
<1>2. ASSUME NEW p \in Contacts, NEW n \in Numbers, NEW r \in Refs,
             Arrive(p, n, r) \/ ArriveLong(p, n, r)
      PROVE  MailTyped' /\ SessTyped' /\ CacheHolds' /\ Offering'
  <2>1. /\ mail' \in Seq(Sms) /\ Len(mail') <= MaxIn /\ Len(mail) <= Len(mail')
        /\ \A m \in 1..Len(mail) : mail'[m] = mail[m]
        /\ UNCHANGED <<acked, up, sess, kept, gone, copies>>
    BY <1>2, MailGrows
  <2>2. 1..Len(mail) \subseteq 1..Len(mail')
    BY <2>1 DEF MailTyped
  <2>3. MailTyped' /\ SessTyped'
    BY <2>1, <2>2 DEF MailTyped, SessTyped
  <2>4. CacheHolds'
    BY <2>1, <2>2 DEF CacheHolds
  <2>5. Offering'
    BY <2>1, <2>2 DEF Offering
  <2> QED BY <2>3, <2>4, <2>5
<1>3. ASSUME NEW l \in Links, NEW m \in 1..Len(mail), ReadSms(l, m)
      PROVE  MailTyped' /\ SessTyped' /\ CacheHolds' /\ Offering'
  <2>1. Push(l, m) /\ UNCHANGED <<mail, acked, up, gone, copies>>
    BY <1>3 DEF ReadSms, smscVars
  <2>2. /\ SessTyped'
        /\ sess'[l] = [step |-> "push", sms |-> m, text |-> {m} \cup Joined(l, m)]
        /\ \A k \in Links \ {l} : sess'[k] = sess[k]
        /\ \A k \in Links, r \in Refs : kept'[k][r] \subseteq kept[k][r]
        /\ Joined(l, m) \subseteq kept[l][mail[m].ref] /\ mail[m].ref \in Refs
    <3>1. mail[m].ref \in Refs
      BY SmsFields
    <3>2. /\ SessTyped'
          /\ sess'[l] = [step |-> "push", sms |-> m, text |-> {m} \cup Joined(l, m)]
          /\ \A k \in Links \ {l} : sess'[k] = sess[k]
          /\ \A k \in Links, r \in Refs :
               kept'[k][r] = IF k = l /\ r = mail[m].ref THEN kept[k][r] \ Joined(l, m)
                             ELSE kept[k][r]
          /\ Joined(l, m) \subseteq kept[l][mail[m].ref]
      BY ONLY SmsInv, <1>3, <2>1, PushEffect, ZenonT(30) DEF SmsInv
    <3> QED BY ONLY <3>1, <3>2
  <2>3. CacheHolds'
    BY <2>1, <2>2 DEF CacheHolds
  <2>4. {m} \cup Joined(l, m) \subseteq 1..Len(mail)
    BY <2>2 DEF CacheHolds
  <2>5. Offering'
    BY <2>1, <2>2, <2>4 DEF Offering
  <2> QED BY <2>1, <2>2, <2>3, <2>5 DEF MailTyped
<1>4. ASSUME NEW l \in Links, NEW m \in 1..Len(mail), ReadPart(l, m)
      PROVE  MailTyped' /\ SessTyped' /\ CacheHolds' /\ Offering'
  <2>1. mail[m].part = "first" /\ UNCHANGED <<mail, acked, up, gone, copies>>
    BY <1>4 DEF ReadPart, smscVars
  <2>2. /\ SessTyped'
        /\ sess'[l] = [step |-> "reply", sms |-> m, text |-> {}]
        /\ \A k \in Links \ {l} : sess'[k] = sess[k]
        /\ \A k \in Links, r \in Refs :
             kept'[k][r] = IF k = l /\ r = mail[m].ref THEN {m} ELSE kept[k][r]
    BY <1>4, PartEffect
  <2>3. CacheHolds'
    BY <2>1, <2>2 DEF CacheHolds
  <2>4. Offering'
    BY <2>1, <2>2 DEF Offering
  <2> QED BY <2>1, <2>2, <2>3, <2>4 DEF MailTyped
<1>5. ASSUME NEW l \in Links, Route(l)
      PROVE  MailTyped' /\ SessTyped' /\ CacheHolds' /\ Offering'
  <2>1. /\ SessTyped' /\ copies' \in [1..MaxIn -> Nat]
        /\ sess'[l].step = "reply" /\ sess'[l].text = {}
        /\ \A k \in Links \ {l} : sess'[k] = sess[k]
        /\ UNCHANGED <<mail, acked, kept, gone>>
    BY <1>5, RouteEffect
  <2> QED BY <2>1 DEF MailTyped, CacheHolds, Offering
<1>6. ASSUME NEW l \in Links, Drop(l)
      PROVE  MailTyped' /\ SessTyped' /\ CacheHolds' /\ Offering'
  BY <1>6 DEF Drop, cacheVars, MailTyped, SessTyped, CacheHolds, Offering
<1>7. ASSUME NEW l \in Links, Reply(l) \/ ReadError(l) \/ TakeError(l) \/ Reconnect(l)
      PROVE  MailTyped' /\ SessTyped' /\ CacheHolds' /\ Offering'
  <2>1. /\ SessTyped' /\ sess'[l].step \in {"read", "error", "down"}
        /\ \A k \in Links \ {l} : sess'[k] = sess[k]
        /\ UNCHANGED <<mail, copies>>
    BY <1>7, StepEffect
  <2>2. sess'[l].text = {}
    BY <1>7, StepEffect DEF Offering
  <2>3. Offering'
    BY <2>1, <2>2 DEF Offering
  <2>4. acked' \subseteq 1..Len(mail)
    BY <1>7, StepEffect DEF Answering, MailTyped
  <2>5. /\ gone' \subseteq 1..Len(mail)
        /\ \A k \in Links, r \in Refs : kept'[k][r] \subseteq kept[k][r]
    <3>1. CASE UNCHANGED <<kept, gone>>
      BY <3>1 DEF MailTyped
    <3>2. CASE Reconnect(l)
      <4>1. \A k \in Links, r \in Refs : kept'[k][r] = IF k = l THEN {} ELSE kept[k][r]
        BY <3>2, CacheEnds
      <4>2. gone' = gone \cup UNION {kept[l][r] : r \in Refs}
        BY <3>2, CacheEnds
      <4>3. \A r \in Refs : kept[l][r] \subseteq 1..Len(mail)
        BY DEF CacheHolds
      <4> QED BY <4>1, <4>2, <4>3 DEF MailTyped
    <3> QED BY <1>7, <3>1, <3>2, StepEffect
  <2>6. CacheHolds'
    BY <2>1, <2>5 DEF CacheHolds
  <2> QED BY <2>1, <2>3, <2>4, <2>5, <2>6 DEF MailTyped
<1> QED BY <1>1, <1>2, <1>3, <1>4, <1>5, <1>6, <1>7, OtherSteps DEF SmsStep, Arrival

\* Who is about to answer, and what the SMSC has an answer to.
LEMMA SmsInvStep == SmsInv /\ [Next]_vars => SmsInv'
<1> SUFFICES ASSUME SmsInv, [Next]_vars PROVE SmsInv'
  OBVIOUS
<1>1. /\ MailTyped /\ SessTyped /\ CacheHolds /\ Offering /\ Answering /\ AckedWasTaken
      /\ MailTyped' /\ SessTyped' /\ CacheHolds' /\ Offering'
  BY SmsTypesStep DEF SmsInv
<1>2. \A m \in 1..Len(mail) : Taken(m) => Taken(m)'
  BY TakenStays
<1>3. 1..Len(mail) \subseteq 1..Len(mail')
  <2>1. CASE Len(mail) <= Len(mail')
    BY <1>1, <2>1 DEF MailTyped
  <2>2. CASE mail' = mail
    BY <2>2
  <2>3. CASE \E l \in Links : SmsStep(l)
    BY <2>2, <2>3 DEF SmsStep, ReadSms, ReadPart, Reply, Drop, ReadError, Reconnect, Route,
                      TakeError, smscVars
  <2> QED BY <1>1, <2>1, <2>2, <2>3, OtherSteps, MailGrows DEF smscVars, Arrival
<1>4. ASSUME \A k \in Links, m \in Nat :
               sess'[k].step = "reply" /\ m = sess'[k].sms => m \in 1..Len(mail) /\ Taken(m)',
             \A m \in acked' : m \in acked \/ \E k \in Links : sess[k].step = "reply" /\ sess[k].sms = m
      PROVE  SmsInv'
  <2>1. Answering'
    <3>1. \A k \in Links : sess'[k].sms \in Nat
      BY <1>1 DEF SessTyped
    <3> QED BY <1>3, <1>4, <3>1 DEF Answering, Taken, PartOnly
  <2>2. \A m \in acked' : m \in 1..Len(mail) /\ Taken(m)
    BY <1>1, <1>4 DEF Answering, MailTyped, AckedWasTaken, Taken
  <2>3. AckedWasTaken'
    BY <1>2, <2>2 DEF AckedWasTaken, Taken
  <2> QED BY <1>1, <2>1, <2>3 DEF SmsInv
<1>5. \A k \in Links, m \in Nat :
        sess[k].step = "reply" /\ m = sess[k].sms => m \in 1..Len(mail) /\ Taken(m)'
  BY <1>1, <1>2 DEF Answering
<1>6. CASE UNCHANGED <<smscVars, sess, cacheVars, copies>>
  BY <1>4, <1>5, <1>6 DEF smscVars
<1>7. CASE Arrival
  <2>1. PICK p \in Contacts : \E n \in Numbers, r \in Refs : Arrive(p, n, r) \/ ArriveLong(p, n, r)
    BY <1>7 DEF Arrival
  <2>2. UNCHANGED <<sess, acked>>
    BY <1>1, <2>1, MailGrows
  <2> QED BY <1>4, <1>5, <2>2
<1>8. ASSUME NEW l \in Links, NEW m \in 1..Len(mail), ReadSms(l, m) PROVE SmsInv'
  <2>1. acked' = acked /\ sess' = [sess EXCEPT ![l] = [step |-> "push", sms |-> m, text |-> {m} \cup Joined(l, m)]]
    BY <1>8 DEF ReadSms, Push, smscVars
  <2>2. sess'[l].step = "push" /\ \A k \in Links \ {l} : sess'[k] = sess[k]
    BY <1>1, <2>1 DEF SessTyped
  <2> QED BY <1>4, <1>5, <2>1, <2>2
<1>9. ASSUME NEW l \in Links, NEW m \in 1..Len(mail), ReadPart(l, m) PROVE SmsInv'
  <2>1. UNCHANGED <<mail, acked>> /\ mail[m].part = "first"
    BY <1>9 DEF ReadPart, smscVars
  <2>2. /\ sess'[l] = [step |-> "reply", sms |-> m, text |-> {}]
        /\ \A k \in Links \ {l} : sess'[k] = sess[k]
        /\ mail[m].ref \in Refs
        /\ \A k \in Links, r \in Refs :
             kept'[k][r] = IF k = l /\ r = mail[m].ref THEN {m} ELSE kept[k][r]
    BY ONLY <1>1, <1>9, PartEffect, ZenonT(30)
  <2>3. m \in kept'[l][mail[m].ref]
    BY <2>2
  <2>4. Taken(m)'
    BY <2>1, <2>3 DEF Taken, PartOnly
  <2>5. \A k \in Links, j \in Nat :
          sess'[k].step = "reply" /\ j = sess'[k].sms => j \in 1..Len(mail) /\ Taken(j)'
    BY <1>5, <2>2, <2>4
  <2> QED BY <1>4, <2>1, <2>5
<1>10. ASSUME NEW l \in Links, Route(l) PROVE SmsInv'
  <2>1. PICK m \in 1..Len(mail) : m = sess[l].sms /\ m \in sess[l].text
    BY <1>1, <1>10 DEF Offering, Route
  <2>2. m \in 1..MaxIn
    BY <1>1, SmsFields
  <2>3. /\ acked' = acked /\ sess'[l].sms = m /\ \A k \in Links \ {l} : sess'[k] = sess[k]
        /\ copies'[m] = copies[m] + 1 /\ copies[m] \in Nat
    BY <1>1, <1>10, <2>1, <2>2, RouteEffect DEF MailTyped
  <2>4. Taken(m)'
    BY <2>3 DEF Taken
  <2>5. \A k \in Links, j \in Nat :
          sess'[k].step = "reply" /\ j = sess'[k].sms => j \in 1..Len(mail) /\ Taken(j)'
    BY <1>5, <2>3, <2>4
  <2> QED BY <1>4, <2>3, <2>5
<1>11. ASSUME NEW l \in Links, Drop(l) PROVE SmsInv'
  BY <1>4, <1>5, <1>11 DEF Drop
<1>12. ASSUME NEW l \in Links, Reply(l) \/ ReadError(l) \/ TakeError(l) \/ Reconnect(l)
       PROVE  SmsInv'
  <2>1. sess'[l].step # "reply" /\ \A k \in Links \ {l} : sess'[k] = sess[k]
    BY <1>1, <1>12, StepEffect
  <2>2. \A m \in acked' : m \in acked \/ (sess[l].step = "reply" /\ sess[l].sms = m)
    BY <1>1, <1>12, StepEffect
  <2> QED BY <1>4, <1>5, <2>1, <2>2
<1> QED BY <1>6, <1>7, <1>8, <1>9, <1>10, <1>11, <1>12, OtherSteps DEF SmsStep

\* What the SMSC may forget was handed to the receiver, or is a part of a long SMS that
\* is in a cache or a text, went with its call of reading, or had its slot taken.
THEOREM AckedTaken == Spec => []AckedWasTaken
<1>1. Spec => []SmsInv
  BY SmsInit, SmsInvStep, PTL DEF Spec
<1>2. SmsInv => AckedWasTaken
  BY DEF SmsInv
<1> QED
  BY <1>1, <1>2, PTL

-------------------------------------------------------------------------------

(* Copies of an SMS, or of a part of one: those handed over and those that a *)
(* session has in its text, or a live one in its cache, are at most one more *)
(* than the sessions lost with it, and not even that when no live session    *)
(* has to answer it and the SMSC may deliver it again.                       *)

Has(m) ==
  {l \in Links : m \in sess[l].text \/ (l \in up /\ \E r \in Refs : m \in kept[l][r])}

CopiesOf(m) ==
  /\ Cardinality(Has(m)) + copies[m] <= cut[m] + 1
  /\ Undelivered(m) => Cardinality(Has(m)) + copies[m] <= cut[m]

CopyInv ==
  /\ cut \in [1..MaxIn -> Nat]
  /\ \A l \in Links : sess[l].step \in {"read", "error", "down"} => sess[l].sms = 0
  /\ \A l \in Links, r \in Refs : sess[l].text \cap kept[l][r] = {}
  /\ \A m \in 1..MaxIn : CopiesOf(m)

\* The sessions that have m before and after a step of session l.
LEMMA HasCount ==
  ASSUME NEW m, NEW l \in Links, \A k \in Links \ {l} : k \in Has(m) <=> k \in Has(m)'
  PROVE  /\ Cardinality(Has(m)) \in Nat /\ Cardinality(Has(m))' \in Nat
         /\ Cardinality(Has(m))' <= Cardinality(Has(m)) + 1
         /\ l \in Has(m) \/ l \notin Has(m)' => Cardinality(Has(m))' <= Cardinality(Has(m))
         /\ l \in Has(m) /\ l \notin Has(m)' => Cardinality(Has(m))' = Cardinality(Has(m)) - 1
<1>1. IsFiniteSet(Links) /\ Has(m) \subseteq Links /\ Has(m)' \subseteq Links
  BY GatewayAssumption DEF Has
<1>2. IsFiniteSet(Has(m)) /\ IsFiniteSet(Has(m)')
  BY <1>1, FS_Subset
<1>3. Cardinality(Has(m)) \in Nat /\ Cardinality(Has(m)') \in Nat
  BY <1>2, FS_CardinalityType
<1>4. ASSUME l \notin Has(m), l \in Has(m)'
      PROVE  Cardinality(Has(m)') = Cardinality(Has(m)) + 1
  <2>1. Has(m)' = Has(m) \cup {l}
    BY <1>1, <1>4
  <2> QED BY <1>2, <1>4, <2>1, FS_AddElement
<1>5. ASSUME l \in Has(m), l \notin Has(m)'
      PROVE  Cardinality(Has(m)') = Cardinality(Has(m)) - 1
  <2>1. Has(m)' = Has(m) \ {l}
    BY <1>1, <1>5
  <2> QED BY <1>2, <1>5, <2>1, FS_RemoveElement
<1>6. ASSUME l \in Has(m) <=> l \in Has(m)' PROVE Has(m)' = Has(m)
  BY <1>1, <1>6
<1> QED BY <1>3, <1>4, <1>5, <1>6

LEMMA CopyInit == Init => CopyInv
<1> SUFFICES ASSUME Init PROVE CopyInv
  OBVIOUS
<1>1. \A m \in 1..MaxIn : Has(m) = {}
  BY DEF Init, Has
<1>2. \A m \in 1..MaxIn : Cardinality(Has(m)) = 0
  BY <1>1, FS_EmptySet
<1> QED BY <1>2 DEF Init, CopyInv, CopiesOf

LEMMA CopyStep == SmsInv /\ CopyInv /\ [Next]_vars => CopyInv'
<1> SUFFICES ASSUME SmsInv, CopyInv, [Next]_vars PROVE CopyInv'
  OBVIOUS
<1>1. /\ MailTyped /\ SessTyped /\ CacheHolds /\ Offering /\ up \subseteq Links
      /\ \A m \in 1..MaxIn : copies[m] \in Nat /\ cut[m] \in Nat /\ CopiesOf(m)
  BY DEF SmsInv, MailTyped, SessTyped, CopyInv
<1>2. CASE UNCHANGED <<smscVars, sess, cacheVars, copies>>
  BY <1>2 DEF CopyInv, CopiesOf, Has, Undelivered, smscVars, cacheVars
<1>3. CASE Arrival
  <2>1. PICK p \in Contacts : \E n \in Numbers, r \in Refs : Arrive(p, n, r) \/ ArriveLong(p, n, r)
    BY <1>3 DEF Arrival
  <2>2. UNCHANGED <<acked, up, cut, sess, kept, copies>>
    BY <1>1, <2>1, MailGrows
  <2> QED BY <2>2 DEF CopyInv, CopiesOf, Has, Undelivered
<1>4. ASSUME NEW l \in Links, NEW k \in 1..Len(mail), ReadSms(l, k) PROVE CopyInv'
  <2>1. /\ Push(l, k) /\ sess[l].step = "read" /\ l \in up /\ Undelivered(k)
        /\ mail[k].part # "first" /\ UNCHANGED <<acked, up, cut, copies>>
    BY <1>4 DEF ReadSms, Push, smscVars
  <2>2. /\ sess'[l] = [step |-> "push", sms |-> k, text |-> {k} \cup Joined(l, k)]
        /\ \A j \in Links \ {l} : sess'[j] = sess[j]
        /\ \A j \in Links, r \in Refs :
             kept'[j][r] = IF j = l /\ r = mail[k].ref THEN kept[j][r] \ Joined(l, k)
                           ELSE kept[j][r]
        /\ Joined(l, k) \subseteq kept[l][mail[k].ref]
    BY ONLY <1>1, <1>4, <2>1, PushEffect, ZenonT(30)
  <2>3. sess[l].text = {} /\ sess[l].sms = 0 /\ mail[k].ref \in Refs /\ k \in 1..MaxIn
    BY <1>1, <2>1, SmsFields DEF Offering, CopyInv
  <2>4. /\ sess'[l].text = {k} \cup Joined(l, k)
        /\ \A r \in Refs : kept'[l][r] \subseteq kept[l][r]
    <3>1. sess'[l].text = {k} \cup Joined(l, k)
      BY <2>2
    <3>2. ASSUME NEW r \in Refs PROVE kept'[l][r] \subseteq kept[l][r]
      <4>1. kept'[l][r] = IF r = mail[k].ref THEN kept[l][r] \ Joined(l, k) ELSE kept[l][r]
        BY <2>2
      <4> QED BY <4>1
    <3> QED BY <3>1, <3>2
  <2>6. \A j \in Links, r \in Refs : sess'[j].text \cap kept'[j][r] = {}
    <3>1. \A r \in Refs : \A m \in kept[l][r] : mail[m].part = "first" /\ mail[m].ref = r
      BY <1>1 DEF CacheHolds
    <3>2. \A r \in Refs : k \notin kept[l][r]
      BY <2>1, <3>1
    <3>3. ASSUME NEW r \in Refs PROVE sess'[l].text \cap kept'[l][r] = {}
      <4>1. sess'[l].text = {k} \cup Joined(l, k) /\ kept'[l][r] \subseteq kept[l][r]
        BY <2>4
      <4>2. \A m \in Joined(l, k) : mail[m].ref = mail[k].ref
        BY <2>2, <2>3, <3>1
      <4>3. CASE r = mail[k].ref
        <5>1. kept'[l][r] \cap Joined(l, k) = {}
          BY <2>2, <4>3
        <5> QED BY <3>2, <4>1, <5>1
      <4>4. CASE r # mail[k].ref
        <5>1. kept[l][r] \cap Joined(l, k) = {}
          BY <3>1, <4>2, <4>4
        <5> QED BY <3>2, <4>1, <5>1
      <4> QED BY <4>3, <4>4
    <3>4. \A j \in Links \ {l}, r \in Refs : kept'[j][r] = kept[j][r] /\ sess'[j] = sess[j]
      BY <2>2
    <3> QED BY <3>3, <3>4 DEF CopyInv
  <2>5. ASSUME NEW m \in 1..MaxIn PROVE CopiesOf(m)'
    <3>1. \A j \in Links \ {l} : j \in Has(m) <=> j \in Has(m)'
      BY <2>1, <2>2 DEF Has
    <3>2. CASE m = k
      <4>1. ~Undelivered(m)'
        BY <2>1, <2>2, <3>2 DEF Undelivered
      <4>2. Cardinality(Has(m)) + copies[m] <= cut[m]
        BY <1>1, <2>1, <3>2 DEF CopiesOf
      <4>3. /\ Cardinality(Has(m)) \in Nat /\ Cardinality(Has(m))' \in Nat
            /\ Cardinality(Has(m))' <= Cardinality(Has(m)) + 1
        BY ONLY <3>1, HasCount, ZenonT(30)
      <4> QED BY <1>1, <2>1, <4>1, <4>2, <4>3 DEF CopiesOf
    <3>3. CASE m # k
      <4>1. Undelivered(m)' => Undelivered(m)
        BY <1>1, <2>1, <2>2, <2>3 DEF Undelivered
      <4>2. l \in Has(m)' => l \in Has(m)
        BY <2>1, <2>2, <2>3, <2>4, <3>3 DEF Has
      <4>3. /\ Cardinality(Has(m)) \in Nat /\ Cardinality(Has(m))' \in Nat
            /\ Cardinality(Has(m))' <= Cardinality(Has(m))
        BY ONLY <3>1, <4>2, HasCount, ZenonT(30)
      <4> QED BY <1>1, <2>1, <4>1, <4>3 DEF CopiesOf
    <3> QED BY <3>2, <3>3
  <2> QED BY <2>1, <2>2, <2>5, <2>6 DEF CopyInv
<1>5. ASSUME NEW l \in Links, NEW k \in 1..Len(mail), ReadPart(l, k) PROVE CopyInv'
  <2>1. /\ sess[l].step = "read" /\ l \in up /\ Undelivered(k)
        /\ UNCHANGED <<acked, up, cut, copies>>
    BY <1>5 DEF ReadPart, smscVars
  <2>2. /\ sess'[l] = [step |-> "reply", sms |-> k, text |-> {}]
        /\ \A j \in Links \ {l} : sess'[j] = sess[j]
        /\ \A j \in Links, r \in Refs :
             kept'[j][r] = IF j = l /\ r = mail[k].ref THEN {k} ELSE kept[j][r]
    BY ONLY <1>1, <1>5, PartEffect, ZenonT(30)
  <2>3. sess[l].text = {} /\ sess[l].sms = 0 /\ k \in 1..MaxIn
    BY <1>1, <2>1, SmsFields DEF Offering, CopyInv
  <2>4. \A j \in Links, r \in Refs : sess'[j].text \cap kept'[j][r] = {}
    BY <2>2 DEF CopyInv
  <2>5. ASSUME NEW m \in 1..MaxIn PROVE CopiesOf(m)'
    <3>1. \A j \in Links \ {l} : j \in Has(m) <=> j \in Has(m)'
      BY <2>1, <2>2 DEF Has
    <3>2. CASE m = k
      <4>1. ~Undelivered(m)'
        BY <2>1, <2>2, <3>2 DEF Undelivered
      <4>2. Cardinality(Has(m)) + copies[m] <= cut[m]
        BY <1>1, <2>1, <3>2 DEF CopiesOf
      <4>3. /\ Cardinality(Has(m)) \in Nat /\ Cardinality(Has(m))' \in Nat
            /\ Cardinality(Has(m))' <= Cardinality(Has(m)) + 1
        BY ONLY <3>1, HasCount, ZenonT(30)
      <4> QED BY <1>1, <2>1, <4>1, <4>2, <4>3 DEF CopiesOf
    <3>3. CASE m # k
      <4>1. Undelivered(m)' => Undelivered(m)
        BY <1>1, <2>1, <2>2, <2>3 DEF Undelivered
      <4>2. l \in Has(m)' => l \in Has(m)
        BY <2>1, <2>2, <3>3 DEF Has
      <4>3. /\ Cardinality(Has(m)) \in Nat /\ Cardinality(Has(m))' \in Nat
            /\ Cardinality(Has(m))' <= Cardinality(Has(m))
        BY ONLY <3>1, <4>2, HasCount, ZenonT(30)
      <4> QED BY <1>1, <2>1, <4>1, <4>3 DEF CopiesOf
    <3> QED BY <3>2, <3>3
  <2> QED BY <2>1, <2>2, <2>4, <2>5 DEF CopyInv
<1>6. ASSUME NEW l \in Links, Route(l) PROVE CopyInv'
  <2>1. /\ sess[l].step = "push"
        /\ sess'[l].step = "reply" /\ sess'[l].sms = sess[l].sms /\ sess'[l].text = {}
        /\ \A k \in Links \ {l} : sess'[k] = sess[k]
        /\ \A k \in 1..MaxIn :
             copies'[k] = IF k \in sess[l].text THEN copies[k] + 1 ELSE copies[k]
        /\ UNCHANGED <<acked, up, cut, kept>>
    BY <1>1, <1>6, RouteEffect
  <2>2. ASSUME NEW m \in 1..MaxIn PROVE CopiesOf(m)'
    <3>1. \A j \in Links \ {l} : j \in Has(m) <=> j \in Has(m)'
      BY <2>1 DEF Has
    <3>2. Undelivered(m)' => Undelivered(m)
      BY <1>1, <2>1 DEF Undelivered
    <3>3. CASE m \in sess[l].text
      <4>1. l \in Has(m) /\ l \notin Has(m)'
        BY <2>1, <3>3 DEF Has, CopyInv
      <4>2. /\ Cardinality(Has(m)) \in Nat /\ Cardinality(Has(m))' \in Nat
            /\ Cardinality(Has(m))' = Cardinality(Has(m)) - 1
        BY ONLY <3>1, <4>1, HasCount, ZenonT(30)
      <4> QED BY <1>1, <2>1, <3>2, <3>3, <4>2 DEF CopiesOf
    <3>4. CASE m \notin sess[l].text
      <4>1. l \in Has(m)' => l \in Has(m)
        BY <2>1, <3>4 DEF Has
      <4>2. /\ Cardinality(Has(m)) \in Nat /\ Cardinality(Has(m))' \in Nat
            /\ Cardinality(Has(m))' <= Cardinality(Has(m))
        BY ONLY <3>1, <4>1, HasCount, ZenonT(30)
      <4> QED BY <1>1, <2>1, <3>2, <3>4, <4>2 DEF CopiesOf
    <3> QED BY <3>3, <3>4
  <2>3. \A j \in Links, r \in Refs : sess'[j].text \cap kept'[j][r] = {}
    BY <2>1 DEF CopyInv
  <2> QED BY <2>1, <2>2, <2>3 DEF CopyInv
<1>7. ASSUME NEW l \in Links, Drop(l) PROVE CopyInv'
  <2>1. /\ up' = up \ {l} /\ UNCHANGED <<acked, sess, kept, copies>>
        /\ cut' = [m \in 1..MaxIn |-> IF sess[l].sms = m THEN cut[m] + 1 ELSE cut[m]]
    BY <1>7 DEF Drop, cacheVars
  <2>2. ASSUME NEW m \in 1..MaxIn PROVE CopiesOf(m)'
    <3>1. \A j \in Links \ {l} : j \in Has(m) <=> j \in Has(m)'
      BY <2>1 DEF Has
    <3>2. l \in Has(m)' => l \in Has(m)
      BY <2>1 DEF Has
    <3>3. /\ Cardinality(Has(m)) \in Nat /\ Cardinality(Has(m))' \in Nat
          /\ Cardinality(Has(m))' <= Cardinality(Has(m))
      BY ONLY <3>1, <3>2, HasCount, ZenonT(30)
    <3>4. CASE sess[l].sms = m
      BY <1>1, <2>1, <3>3, <3>4 DEF CopiesOf
    <3>5. CASE sess[l].sms # m
      <4>1. Undelivered(m)' => Undelivered(m)
        BY <2>1, <3>5 DEF Undelivered
      <4> QED BY <1>1, <2>1, <3>3, <3>5, <4>1 DEF CopiesOf
    <3> QED BY <3>4, <3>5
  <2>3. cut' \in [1..MaxIn -> Nat]
    BY <1>1, <2>1
  <2> QED BY <2>1, <2>2, <2>3 DEF CopyInv
<1>8. ASSUME NEW l \in Links, Reply(l) \/ ReadError(l) \/ TakeError(l) \/ Reconnect(l)
      PROVE  CopyInv'
  <2>1. /\ \A k \in Links \ {l} : sess'[k] = sess[k]
        /\ UNCHANGED <<copies, cut>>
        /\ UNCHANGED <<kept, up>> \/ Reconnect(l)
        /\ sess'[l].step \in {"read", "error", "down"}
    BY <1>1, <1>8, StepEffect
  <2>2. sess[l].text = {} /\ sess'[l].text = {} /\ sess'[l].sms = 0
    BY <1>1, <1>8, StepEffect DEF Offering, CopyInv
  <2>3. acked \subseteq acked' /\ (sess[l].sms # 0 /\ l \in up => sess[l].sms \in acked')
    BY <1>1, <1>8, StepEffect DEF CopyInv
  <2>4. \A k \in Links \ {l}, r \in Refs : kept'[k][r] = kept[k][r] /\ (k \in up <=> k \in up')
    BY <1>1, <2>1, CacheEnds
  <2>5. \A r \in Refs : kept'[l][r] = {} \/ (kept'[l][r] = kept[l][r] /\ (l \in up' => l \in up))
    BY <1>1, <2>1, CacheEnds
  <2>6. ASSUME NEW m \in 1..MaxIn PROVE CopiesOf(m)'
    <3>1. \A j \in Links \ {l} : j \in Has(m) <=> j \in Has(m)'
      BY <2>1, <2>4 DEF Has
    <3>2. l \in Has(m)' => l \in Has(m)
      BY <2>2, <2>5 DEF Has
    <3>3. /\ Cardinality(Has(m)) \in Nat /\ Cardinality(Has(m))' \in Nat
          /\ Cardinality(Has(m))' <= Cardinality(Has(m))
      BY ONLY <3>1, <3>2, HasCount, ZenonT(30)
    <3>4. Undelivered(m)' => Undelivered(m)
      <4>1. UNCHANGED up \/ up' = up \cup {l}
        BY <1>1, <2>1, CacheEnds
      <4> QED BY <1>1, <2>1, <2>3, <4>1 DEF Undelivered
    <3> QED BY <1>1, <2>1, <3>3, <3>4 DEF CopiesOf
  <2>7. \A j \in Links, r \in Refs : sess'[j].text \cap kept'[j][r] = {}
    BY <2>1, <2>2, <2>4 DEF CopyInv
  <2> QED BY <2>1, <2>2, <2>6, <2>7 DEF CopyInv
<1> QED BY <1>2, <1>3, <1>4, <1>5, <1>6, <1>7, <1>8, OtherSteps DEF SmsStep

\* The receiver gets an SMS, or a part of one, again only after a session was lost
\* with it.
THEOREM NoSpuriousCopy == Spec => []AgainOnlyIfCut
<1>1. Spec => [](SmsInv /\ CopyInv)
  BY SmsInit, SmsInvStep, CopyInit, CopyStep, PTL DEF Spec
<1>2. SmsInv /\ CopyInv => AgainOnlyIfCut
  <2> SUFFICES ASSUME SmsInv, CopyInv, NEW m \in 1..MaxIn PROVE copies[m] <= cut[m] + 1
    BY DEF AgainOnlyIfCut
  <2>1. Cardinality(Has(m)) \in Nat
    BY GatewayAssumption, FS_Subset, FS_CardinalityType DEF Has
  <2>2. copies[m] \in Nat /\ cut[m] \in Nat /\ CopiesOf(m)
    BY DEF SmsInv, MailTyped, CopyInv
  <2> QED BY <2>1, <2>2 DEF CopiesOf
<1> QED
  BY <1>1, <1>2, PTL

\* Only the number used longest ago changes hands, and only when none is free.
THEOREM OldestIsTaken == Spec => TakesOldestOnly
<1> DEFINE Oldest(p, n, x) ==
      /\ list[p][n] # NoItem /\ list'[p][n] # list[p][n]
      /\ n \in From[x] /\ NoStranger(x, p) /\ \A k \in From[x] : Own(k)
      => \A k \in From[x] : k \in Used(p) /\ sended[p][n] <= sended[p][k]
<1>1. NumberInv /\ ThreadInv /\ [Next]_vars
        => [\A p \in Contacts, n \in Numbers : Oldest(p, n, list'[p][n].mx)]_vars
  <2> SUFFICES ASSUME NumberInv, ThreadInv, Next, NEW p \in Contacts, NEW n \in Numbers,
                      NEW y, y = list'[p][n].mx,
                      list[p][n] # NoItem, list'[p][n] # list[p][n],
                      n \in From[y], NoStranger(y, p), \A k \in From[y] : Own(k)
               PROVE  \A k \in From[y] : k \in Used(p) /\ sended[p][n] <= sended[p][k]
    OBVIOUS
  <2>1. PICK x \in Mxs : Record(x)
    BY DEF Next, Supervisor, DialFails, DialOk, LoginFails, LoginOk, EndDelay, ReadingEnds,
           SendOk, SendFails, Choose, Arrive, ArriveLong, ReadSms, ReadPart, Reply, Drop,
           ReadError, Reconnect, Route, TakeError, Deliver, histVars
  <2>2. task[x] # Idle
    BY <2>1 DEF Record, Idle
  <2>3. /\ task[x].user \in Targets /\ task[x].to \in Contacts /\ task[x].from \in Numbers
        /\ task[x].user.mx = x
    BY <2>2, TaskFields DEF NumberInv, TaskOfMx
  <2>4. list' = [list EXCEPT ![task[x].to][task[x].from] = task[x].user]
    BY <2>1 DEF Record, Add
  <2>5. p = task[x].to /\ n = task[x].from /\ list'[p][n] = task[x].user
    BY <2>3, <2>4 DEF NumberInv, Typed
  <2>6. y = x /\ OwnsAll(x)
    BY <2>3, <2>5 DEF OwnsAll
  <2> QED
    BY <2>2, <2>3, <2>5, <2>6 DEF ThreadInv, TaskFresh
<1> QED
  BY <1>1, ThreadInvariant, PTL DEF Spec, TakesOldestOnly

\* An answer goes to the last writer unless his message is not recorded yet or a
\* stranger wrote from the number.
THEOREM AnswersGoBack == Spec => RoutedToLastWriter
<1> DEFINE Sent(p, n) ==
      recv = Idle /\ recv' # Idle /\ mail[recv'.sms].from = p /\ mail[recv'.sms].to = n
      /\ written[p][n] # NoItem /\ Own(n)
      /\ AtHome(written[p][n], n) /\ AtHome(list[p][n], n)
      /\ ~(\E x \in Mxs : task[x] # Idle /\ task[x].step = "add"
                           /\ task[x].to = p /\ task[x].from = n)
      => recv'.target = written[p][n]
<1>1. ThreadInv /\ [Next]_vars => [\A p \in Contacts, n \in Numbers : Sent(p, n)]_vars
  <2> SUFFICES ASSUME ThreadInv, Next, NEW p \in Contacts, NEW n \in Numbers,
                      recv = Idle, recv' # Idle,
                      mail[recv'.sms].from = p, mail[recv'.sms].to = n,
                      written[p][n] # NoItem, Own(n),
                      AtHome(written[p][n], n), AtHome(list[p][n], n),
                      ~(\E x \in Mxs : task[x] # Idle /\ task[x].step = "add"
                                        /\ task[x].to = p /\ task[x].from = n)
               PROVE  recv'.target = written[p][n]
    OBVIOUS
  <2>1. PICK l \in Links : Route(l)
    BY DEF Next, Supervisor, DialFails, DialOk, LoginFails, LoginOk, EndDelay, ReadingEnds,
           SendOk, SendFails, Record, Choose, Arrive, ArriveLong, ReadSms, ReadPart, Reply,
           Drop, ReadError, Reconnect, TakeError, Deliver, recvVars, linkVars
  <2>2. list[p][n] = written[p][n]
    BY DEF ThreadInv, LastWriter, Adding
  <2> DEFINE m == sess[l].sms
  <2>3. PICK t \in Routes(mail[m].from, mail[m].to) :
          recv' = [step |-> "deliver", sms |-> m, target |-> t]
    BY <2>1 DEF Route
  <2>4. recv'.sms = m /\ recv'.target = t
    BY <2>3
  <2>5. mail[m].from = p /\ mail[m].to = n
    BY <2>4
  <2>6. t = list[p][n]
    BY <2>2, <2>3, <2>5 DEF Routes, Get
  <2> QED
    BY <2>2, <2>4, <2>6
<1> QED
  BY <1>1, ThreadInvariant, PTL DEF Spec, RoutedToLastWriter
-------------------------------------------------------------------------------
(* A user can only be in the history of a server whose fields are both set,  *)
(* because he writes through a session that is reading; neither field is     *)
(* ever cleared.                                                             *)

Ready == {x \in Mxs : handler[x] /\ client[x] # "nil"}

LinksTyped ==
  /\ handler \in [Mxs -> BOOLEAN]
  /\ client \in [Mxs -> {"nil", "open", "closed"}]
  /\ link \in [Mxs -> {"dial", "login", "reading", "delay", "ended"}]

LinkFields ==
  \A x \in Mxs : /\ link[x] \in {"login", "reading"} => handler[x]
                 /\ link[x] = "reading" => client[x] = "open"
                 /\ task[x] # Idle => link[x] = "reading"

UsersReachable ==
  \A p \in Contacts, n \in Numbers : list[p][n] # NoItem => list[p][n].mx \in Ready

RecvReachable ==
  recv # Idle => /\ recv.target.mx \in Mxs
                 /\ recv.target.jid # DefaultJid => recv.target.mx \in Ready

ReachInv == LinksTyped /\ LinkFields /\ UsersReachable /\ RecvReachable

LEMMA ReachInit == Init => ReachInv
BY DEF Init, HistInit, ReachInv, LinksTyped, LinkFields, UsersReachable, RecvReachable

\* A step of one server's supervisor: it changes the fields of that server only,
\* and clears none.
LEMMA LinkStep ==
  ASSUME NumberInv, ReachInv, NEW x \in Mxs, Supervisor(x) \/ ReadingEnds(x)
  PROVE  ReachInv'
<1>1. LinksTyped'
  BY DEF ReachInv, LinksTyped, Supervisor, DialFails, DialOk, LoginFails, LoginOk,
         EndDelay, Again, ReadingEnds, Fail
<1>2. LinkFields'
  BY DEF ReachInv, LinksTyped, LinkFields, Supervisor, DialFails, DialOk, LoginFails,
         LoginOk, EndDelay, Again, ReadingEnds, Fail, CanHandle
<1>3. \A y \in Mxs : y \in Ready => y \in Ready'
  BY DEF ReachInv, LinksTyped, Ready, Supervisor, DialFails, DialOk, LoginFails,
         LoginOk, EndDelay, ReadingEnds
<1>4. list' = list /\ recv' = recv
  BY DEF Supervisor, DialFails, DialOk, LoginFails, LoginOk, EndDelay, ReadingEnds,
         histVars, recvVars
<1>5. UsersReachable'
  <2> SUFFICES ASSUME NEW p \in Contacts, NEW n \in Numbers, list[p][n] # NoItem
               PROVE  list[p][n].mx \in Ready'
    BY <1>4 DEF UsersReachable
  <2>1. list[p][n].mx \in Mxs
    BY GatewayAssumption DEF NumberInv, Typed
  <2> QED
    BY <1>3, <2>1 DEF ReachInv, UsersReachable
<1>6. RecvReachable'
  BY <1>3, <1>4 DEF ReachInv, RecvReachable
<1> QED
  BY <1>1, <1>2, <1>5, <1>6 DEF ReachInv

\* The sender's steps: a message is under way, and recorded, only while reading.
LEMMA TaskStep ==
  ASSUME NumberInv, ReachInv, NEW x \in Mxs,
         SendOk(x) \/ SendFails(x) \/ Record(x)
         \/ \E u \in Targets, p \in Contacts : Choose(x, u, p)
  PROVE  ReachInv'
<1>1. UNCHANGED <<linkVars, recv>>
  BY DEF SendOk, SendFails, Record, Choose, recvVars
<1>2. LinksTyped' /\ RecvReachable'
  BY <1>1 DEF ReachInv, LinksTyped, RecvReachable, Ready, linkVars
<1>3. link[x] = "reading" /\ \A y \in Mxs \ {x} : task'[y] = task[y]
  <2>1. CASE \E u \in Targets, p \in Contacts : Choose(x, u, p)
    BY <2>1 DEF Choose, CanHandle, NumberInv, Typed
  <2>2. CASE SendOk(x) \/ SendFails(x) \/ Record(x)
    <3>1. task[x] # Idle
      BY <2>2 DEF SendOk, SendFails, Record, Idle
    <3> QED
      BY <2>2, <3>1 DEF SendOk, SendFails, Record, ReachInv, LinkFields, NumberInv, Typed
  <2> QED
    BY <2>1, <2>2
<1>4. LinkFields'
  BY <1>1, <1>3 DEF ReachInv, LinkFields, linkVars
<1>5. UsersReachable'
  <2>1. CASE Record(x)
    <3> DEFINE u == task[x].user
               q == task[x].to
               k == task[x].from
    <3>1. task[x] # Idle
      BY <2>1 DEF Record, Idle
    <3>2. u \in Targets /\ q \in Contacts /\ k \in Numbers /\ u.mx = x
      BY <3>1, TaskFields DEF NumberInv, TaskOfMx
    <3>3. list' = [list EXCEPT ![q][k] = u]
      BY <2>1 DEF Record, Add
    <3>4. u.mx \in Ready'
      BY <1>1, <1>3, <3>2 DEF ReachInv, LinkFields, Ready, linkVars
    <3> HIDE DEF u, q, k
    <3> SUFFICES ASSUME NEW p \in Contacts, NEW n \in Numbers, list'[p][n] # NoItem
                 PROVE  list'[p][n].mx \in Ready'
      BY DEF UsersReachable
    <3>5. CASE p = q /\ n = k
      BY <3>2, <3>3, <3>4, <3>5 DEF NumberInv, Typed
    <3>6. CASE ~(p = q /\ n = k)
      <4>1. list'[p][n] = list[p][n]
        BY <3>2, <3>3, <3>6 DEF NumberInv, Typed
      <4> QED
        BY <1>1, <4>1 DEF ReachInv, UsersReachable, Ready, linkVars
    <3> QED
      BY <3>5, <3>6
  <2>2. CASE ~Record(x)
    <3>1. list' = list
      BY <2>2 DEF SendOk, SendFails, Choose, histVars
    <3> QED
      BY <1>1, <3>1 DEF ReachInv, UsersReachable, Ready, linkVars
  <2> QED
    BY <2>1, <2>2
<1> QED
  BY <1>2, <1>4, <1>5 DEF ReachInv

\* Routing to a user of the history finds him reachable.
LEMMA RouteStep ==
  ASSUME NumberInv, SmsInv, ReachInv, NEW l \in Links, Route(l)
  PROVE  ReachInv'
<1>1. UNCHANGED <<histVars, linkVars, task>>
  BY DEF Route
<1>2. LinksTyped' /\ LinkFields' /\ UsersReachable'
  BY <1>1 DEF ReachInv, LinksTyped, LinkFields, UsersReachable, Ready, histVars, linkVars
<1>3. RecvReachable'
  <2> DEFINE m == sess[l].sms
             p == mail[m].from
             n == mail[m].to
  <2>1. p \in Contacts /\ n \in Numbers
    <3>1. m \in 1..Len(mail) /\ MailTyped
      BY DEF SmsInv, Offering, Route
    <3> QED
      BY <3>1, SmsFields
  <2>2. \A t \in Routes(p, n) : t.mx \in Mxs /\ (t.jid # DefaultJid => t.mx \in Ready)
    <3> HIDE DEF p, n
    <3>1. CASE list[p][n] # NoItem
      <4>1. list[p][n] \in Targets
        BY <2>1, <3>1 DEF NumberInv, Typed
      <4> QED
        BY <2>1, <3>1, <4>1, GatewayAssumption DEF Routes, Get, ReachInv, UsersReachable
    <3>2. CASE list[p][n] = NoItem
      BY <3>2, GatewayAssumption DEF Routes, Get
    <3> QED
      BY <3>1, <3>2
  <2>3. recv' = recv \/ \E t \in Routes(p, n) :
                          recv' = [step |-> "deliver", sms |-> m, target |-> t]
    BY DEF Route
  <2> HIDE DEF m, p, n
  <2>4. CASE recv' = recv
    BY <1>1, <2>4 DEF ReachInv, RecvReachable, Ready, linkVars
  <2>5. ASSUME NEW t \in Routes(p, n), recv' = [step |-> "deliver", sms |-> m, target |-> t]
        PROVE  RecvReachable'
    <3>1. recv'.target = t
      BY <2>5
    <3> QED
      BY <1>1, <2>2, <3>1 DEF RecvReachable, Ready, linkVars
  <2> QED
    BY <2>3, <2>4, <2>5
<1> QED
  BY <1>2, <1>3 DEF ReachInv

LEMMA ReachStep == NumberInv /\ SmsInv /\ ReachInv /\ [Next]_vars => ReachInv'
<1> SUFFICES ASSUME NumberInv, SmsInv, ReachInv, [Next]_vars PROVE ReachInv'
  OBVIOUS
<1>1. ASSUME UNCHANGED <<histVars, linkVars, task>>, recv' = recv \/ recv' = Idle
      PROVE  ReachInv'
  BY <1>1 DEF ReachInv, LinksTyped, LinkFields, UsersReachable, RecvReachable, Ready,
              histVars, linkVars
<1>2. ASSUME NEW l \in Links, SmsStep(l) PROVE ReachInv'
  <2>1. CASE Route(l)
    BY <2>1, RouteStep
  <2>2. CASE ~Route(l)
    BY <1>1, <1>2, <2>2 DEF SmsStep, ReadSms, ReadPart, Reply, Drop, ReadError, Reconnect,
                            TakeError
  <2> QED
    BY <2>1, <2>2
<1>3. CASE Arrival
  BY <1>1, <1>3 DEF Arrival, Arrive, ArriveLong
<1>4. CASE Deliver
  BY <1>1, <1>4 DEF Deliver
<1>5. CASE UNCHANGED vars
  BY <1>1, <1>5 DEF vars, recvVars
<1> QED
  BY <1>2, <1>3, <1>4, <1>5, LinkStep, TaskStep DEF Next, SmsStep, Arrival

\* A user who is in the history can always be written to without waiting for his
\* server's handler and without a nil client.
THEOREM UsersOfHistory == Spec => []KnownUserReachable
<1>1. Spec => []ReachInv
  BY NumberInit, NumberStep, SmsInit, SmsInvStep, ReachInit, ReachStep, PTL DEF Spec
<1>2. ReachInv => KnownUserReachable
  BY DEF ReachInv, RecvReachable, Ready, KnownUserReachable
<1> QED
  BY <1>1, <1>2, PTL

\* The receiver finds a closed client only while its server is not logged in.
THEOREM LostWhileOffline == Spec => LostOnlyOffline
<1>1. Spec => []ReachInv
  BY NumberInit, NumberStep, SmsInit, SmsInvStep, ReachInit, ReachStep, PTL DEF Spec
<1>2. ReachInv => [recv # Idle /\ recv' = Idle /\ client[recv.target.mx] = "closed"
                     => link[recv.target.mx] # "reading"]_vars
  BY DEF ReachInv, RecvReachable, LinkFields
<1> QED
  BY <1>1, <1>2, PTL DEF LostOnlyOffline

-------------------------------------------------------------------------------
(* Type correctness: what the invariants above leave open are the counters   *)
(* and the SMS the receiver holds.                                           *)

\* A supervisor that goes on has budget left.
BudgetInv ==
  /\ errs \in [Mxs -> Nat]
  /\ \A x \in Mxs : /\ errs[x] <= MaxErrors[x]
                    /\ link[x] \in {"dial", "login", "reading"} => errs[x] < MaxErrors[x]

\* Every loss of an SMS is the loss of a session.
LossInv ==
  /\ up \subseteq Links /\ drops \in 0..MaxDrops
  /\ cut \in [1..MaxIn -> Nat] /\ \A m \in 1..MaxIn : cut[m] <= drops

\* Every message that is under way may be recorded.
RecordInv ==
  /\ HistTypeOK /\ clock + Cardinality(Busy) <= MaxSends
  /\ written \in [Contacts -> [Numbers -> Targets \cup {NoItem}]]

RecvInv ==
  /\ recv \in {Idle} \cup [step : {"deliver"}, sms : 1..Len(mail), target : Readers]
  /\ panicked \in BOOLEAN

LEMMA CountsInit == Init => BudgetInv /\ LossInv /\ RecordInv /\ RecvInv
<1> SUFFICES ASSUME Init PROVE BudgetInv /\ LossInv /\ RecordInv /\ RecvInv
  OBVIOUS
<1>1. Busy = {} /\ Cardinality({}) = 0
  BY FS_EmptySet DEF Init, Busy
<1>2. BudgetInv /\ LossInv
  BY GatewayAssumption DEF Init, BudgetInv, LossInv
<1>3. RecordInv
  BY <1>1, GatewayAssumption DEF Init, HistInit, RecordInv, HistTypeOK
<1>4. RecvInv
  BY DEF Init, RecvInv
<1> QED
  BY <1>2, <1>3, <1>4

LEMMA BudgetStep == LinksTyped /\ BudgetInv /\ [Next]_vars => BudgetInv'
<1> SUFFICES ASSUME LinksTyped, BudgetInv, [Next]_vars PROVE BudgetInv'
  OBVIOUS
<1> USE GatewayAssumption DEF LinksTyped, BudgetInv
<1>0. \A x \in Mxs : MaxErrors[x] \in Nat \ {0} /\ errs[x] \in Nat
  OBVIOUS
\* A supervisor and its counter after a step that sets them so.
<1> DEFINE Within(x, at, n) ==
      /\ n \in Nat /\ n <= MaxErrors[x]
      /\ at \in {"dial", "login", "reading"} => n < MaxErrors[x]
<1>1. ASSUME NEW x \in Mxs, NEW at, NEW n, Within(x, at, n),
             link' = [link EXCEPT ![x] = at], errs' = [errs EXCEPT ![x] = n]
      PROVE  BudgetInv'
  BY <1>0, <1>1
<1>2. ASSUME NEW x \in Mxs, NEW at, Within(x, at, errs[x]),
             link' = [link EXCEPT ![x] = at], UNCHANGED errs
      PROVE  BudgetInv'
  BY <1>0, <1>2
<1>3. ASSUME NEW x \in Mxs, DialFails(x) \/ LoginFails(x) \/ ReadingEnds(x) PROVE BudgetInv'
  <2>1. Fail(x) /\ errs[x] < MaxErrors[x]
    BY <1>3 DEF DialFails, LoginFails, ReadingEnds, CanHandle
  <2>2. CASE link' = [link EXCEPT ![x] = "ended"] /\ errs' = [errs EXCEPT ![x] = 0]
    <3>1. Within(x, "ended", 0)
      BY <1>0
    <3> HIDE DEF Within
    <3> QED BY <1>1, <2>2, <3>1
  <2>3. CASE link' = [link EXCEPT ![x] = "delay"]
             /\ \E n \in {1, errs[x] + 1} : errs' = [errs EXCEPT ![x] = n]
    <3>1. PICK n \in {1, errs[x] + 1} : errs' = [errs EXCEPT ![x] = n]
      BY <2>3
    <3>2. Within(x, "delay", n)
      BY <1>0, <2>1
    <3> HIDE DEF Within
    <3> QED BY <1>1, <2>3, <3>1, <3>2
  <2> QED BY <2>1, <2>2, <2>3 DEF Fail
<1>4. ASSUME NEW x \in Mxs, DialOk(x) \/ LoginOk(x) PROVE BudgetInv'
  <2>1. PICK at \in {"login", "reading"} : link' = [link EXCEPT ![x] = at]
    BY <1>4 DEF DialOk, LoginOk
  <2>2. UNCHANGED errs /\ Within(x, at, errs[x])
    BY <1>0, <1>4 DEF DialOk, LoginOk
  <2> HIDE DEF Within
  <2> QED BY <1>2, <2>1, <2>2
<1>5. ASSUME NEW x \in Mxs, EndDelay(x) PROVE BudgetInv'
  <2>1. CASE errs[x] < MaxErrors[x]
    <3>1. link' = [link EXCEPT ![x] = "dial"] /\ UNCHANGED errs /\ Within(x, "dial", errs[x])
      BY <1>0, <1>5, <2>1 DEF EndDelay, Again
    <3> HIDE DEF Within
    <3> QED BY <1>2, <3>1
  <2>2. CASE ~(errs[x] < MaxErrors[x])
    <3>1. /\ link' = [link EXCEPT ![x] = "ended"] /\ errs' = [errs EXCEPT ![x] = 0]
          /\ Within(x, "ended", 0)
      BY <1>0, <1>5, <2>2 DEF EndDelay, Again
    <3> HIDE DEF Within
    <3> QED BY <1>1, <3>1
  <2> QED BY <2>1, <2>2
<1>6. ASSUME UNCHANGED linkVars PROVE BudgetInv'
  BY <1>6 DEF linkVars
<1>7. CASE UNCHANGED vars
  BY <1>6, <1>7 DEF vars
<1> QED
  BY <1>3, <1>4, <1>5, <1>6, <1>7 DEF Next, Supervisor, Choose, SendOk, SendFails, Record,
     Arrive, ArriveLong, ReadSms, ReadPart, Reply, Drop, ReadError, Reconnect, Route,
     TakeError, Deliver

LEMMA LossStep == LossInv /\ [Next]_vars => LossInv'
<1> SUFFICES ASSUME LossInv, [Next]_vars PROVE LossInv'
  OBVIOUS
<1> USE DEF LossInv
<1>1. ASSUME NEW l \in Links, Drop(l) PROVE LossInv'
  <2>1. /\ drops' = drops + 1 /\ drops < MaxDrops /\ up' \subseteq up
        /\ cut' = [m \in 1..MaxIn |-> IF sess[l].sms = m THEN cut[m] + 1 ELSE cut[m]]
    <3>1. PICK b \in Loads : drops + 1 <= b[3]
      BY <1>1 DEF Drop, Room
    <3>2. b[3] \in 0..MaxDrops
      BY GatewayAssumption
    <3>3. drops < MaxDrops
      BY <3>1, <3>2, GatewayAssumption
    <3> QED BY <1>1, <3>3 DEF Drop
  <2>2. drops' \in 0..MaxDrops
    BY <2>1, GatewayAssumption
  <2> QED
    BY <2>1, <2>2, GatewayAssumption
<1>2. ASSUME NEW l \in Links, Reconnect(l) PROVE LossInv'
  BY <1>2 DEF Reconnect
<1>3. ASSUME UNCHANGED <<up, drops, cut>> PROVE LossInv'
  BY <1>3
<1>4. CASE UNCHANGED vars
  BY <1>3, <1>4 DEF vars, recvVars, smscVars
<1> QED
  BY <1>1, <1>2, <1>3, <1>4 DEF Next, Supervisor, DialFails, DialOk, LoginFails, LoginOk,
     EndDelay, ReadingEnds, Choose, SendOk, SendFails, Record, Arrive, ArriveLong, ReadSms,
     ReadPart, Reply, ReadError, Route, TakeError, Deliver, recvVars, smscVars

\* A server that begins or ends a task changes the number of busy ones by one.
LEMMA BusyCount ==
  ASSUME Typed, NEW x \in Mxs, NEW t, task' = [task EXCEPT ![x] = t]
  PROVE  /\ Cardinality(Busy) \in Nat /\ Cardinality(Busy)' \in Nat
         /\ task[x] = Idle /\ t # Idle => Cardinality(Busy)' = Cardinality(Busy) + 1
         /\ task[x] # Idle /\ t = Idle => Cardinality(Busy)' = Cardinality(Busy) - 1
         /\ task[x] # Idle /\ t # Idle => Cardinality(Busy)' = Cardinality(Busy)
<1>1. IsFiniteSet(Busy) /\ IsFiniteSet(Busy')
  <2>1. IsFiniteSet(Mxs) /\ Busy \subseteq Mxs /\ Busy' \subseteq Mxs
    BY GatewayAssumption DEF Busy
  <2> QED
    BY <2>1, FS_Subset
<1>2. \A y \in Mxs : task'[y] = IF y = x THEN t ELSE task[y]
  BY DEF Typed
<1>3. Cardinality(Busy) \in Nat /\ Cardinality(Busy)' \in Nat
  BY <1>1, FS_CardinalityType
<1>4. ASSUME task[x] = Idle, t # Idle PROVE Cardinality(Busy)' = Cardinality(Busy) + 1
  <2>1. Busy' = Busy \cup {x} /\ x \notin Busy
    BY <1>2, <1>4 DEF Busy
  <2> QED
    BY <1>1, <2>1, FS_AddElement
<1>5. ASSUME task[x] # Idle, t = Idle PROVE Cardinality(Busy)' = Cardinality(Busy) - 1
  <2>1. Busy' = Busy \ {x} /\ x \in Busy
    BY <1>2, <1>5 DEF Busy
  <2> QED
    BY <1>1, <2>1, FS_RemoveElement
<1>6. ASSUME task[x] # Idle, t # Idle PROVE Busy' = Busy
  BY <1>2, <1>6 DEF Busy
<1> QED
  BY <1>3, <1>4, <1>5, <1>6

LEMMA RecordKeeps == Typed /\ RecordInv /\ [Next]_vars => RecordInv'
<1> SUFFICES ASSUME Typed, RecordInv, [Next]_vars PROVE RecordInv'
  OBVIOUS
<1>0. clock \in Nat /\ MaxSends \in Nat
  BY GatewayAssumption DEF RecordInv, HistTypeOK
<1>1. ASSUME NEW x \in Mxs, NEW u \in Targets, NEW p \in Contacts, Choose(x, u, p)
      PROVE  RecordInv'
  <2>1. PICK n : task' = [task EXCEPT ![x] = [step |-> "send", user |-> u, to |-> p, from |-> n]]
    BY <1>1 DEF Choose
  <2>2. task[x] = Idle /\ UNCHANGED <<list, sended, clock, written>>
    BY <1>1 DEF Choose, CanHandle, histVars
  <2>3. [step |-> "send", user |-> u, to |-> p, from |-> n] # Idle
    BY DEF Idle
  <2>4. /\ Cardinality(Busy)' = Cardinality(Busy) + 1
        /\ Cardinality(Busy) \in Nat
    BY <2>1, <2>2, <2>3, BusyCount
  <2>5. clock + Cardinality(Busy) + 1 <= MaxSends
    <3>1. PICK b \in Loads : clock + Cardinality(Busy) + 1 <= b[1]
      BY <1>1 DEF Choose, Room
    <3>2. b[1] \in 0..MaxSends
      BY GatewayAssumption
    <3> QED BY <1>0, <2>4, <3>1, <3>2
  <2> QED
    BY <1>0, <2>2, <2>4, <2>5 DEF RecordInv, HistTypeOK
<1>2. ASSUME NEW x \in Mxs, SendOk(x) PROVE RecordInv'
  <2>1. /\ task' = [task EXCEPT ![x] = [task[x] EXCEPT !.step = "add"]]
        /\ written' = [written EXCEPT ![task[x].to][task[x].from] = task[x].user]
        /\ task[x].step = "send" /\ UNCHANGED <<list, sended, clock>>
    BY <1>2 DEF SendOk, histVars
  <2>2. task[x] # Idle
    BY <2>1 DEF Idle
  <2>3. /\ task[x].user \in Targets /\ task[x].to \in Contacts /\ task[x].from \in Numbers
        /\ [task[x] EXCEPT !.step = "add"] # Idle
    <3>1. task[x] \in [step : {"send", "add"}, user : Targets, to : Contacts, from : Numbers]
      BY <2>2, TaskFields
    <3> QED
      BY <3>1 DEF Idle
  <2>4. Cardinality(Busy)' = Cardinality(Busy)
    BY <2>1, <2>2, <2>3, BusyCount
  <2>5. written' \in [Contacts -> [Numbers -> Targets \cup {NoItem}]]
    BY <2>1, <2>3 DEF RecordInv
  <2> QED
    BY <2>1, <2>4, <2>5 DEF RecordInv, HistTypeOK
<1>3. ASSUME NEW x \in Mxs, SendFails(x) PROVE RecordInv'
  <2>1. /\ task' = [task EXCEPT ![x] = Idle] /\ task[x].step = "send"
        /\ UNCHANGED <<list, sended, clock, written>>
    BY <1>3 DEF SendFails, histVars
  <2>2. task[x] # Idle
    BY <2>1 DEF Idle
  <2>3. /\ Cardinality(Busy)' = Cardinality(Busy) - 1
        /\ Cardinality(Busy) \in Nat
    BY <2>1, <2>2, BusyCount
  <2> QED
    BY <1>0, <2>1, <2>3 DEF RecordInv, HistTypeOK
<1>4. ASSUME NEW x \in Mxs, Record(x) PROVE RecordInv'
  <2>1. /\ task' = [task EXCEPT ![x] = Idle] /\ task[x].step = "add"
        /\ Add(task[x].user, task[x].from, task[x].to) /\ UNCHANGED written
    BY <1>4 DEF Record
  <2>2. task[x] # Idle
    BY <2>1 DEF Idle
  <2>3. task[x].user \in Targets /\ task[x].to \in Contacts /\ task[x].from \in Numbers
    BY <2>2, TaskFields
  <2>4. /\ Cardinality(Busy)' = Cardinality(Busy) - 1
        /\ Cardinality(Busy) \in Nat
    BY <2>1, <2>2, BusyCount
  <2>5. HistTypeOK' /\ clock' = clock + 1
    BY <1>0, <2>1, <2>3 DEF Add, RecordInv, HistTypeOK
  <2> QED
    BY <1>0, <2>1, <2>4, <2>5 DEF RecordInv
<1>5. ASSUME UNCHANGED <<list, sended, clock, task, written>> PROVE RecordInv'
  BY <1>5 DEF RecordInv, HistTypeOK, Busy
<1>6. CASE UNCHANGED vars
  BY <1>5, <1>6 DEF vars, histVars
<1> QED
  BY <1>1, <1>2, <1>3, <1>4, <1>5, <1>6 DEF Next, Supervisor, DialFails, DialOk, LoginFails,
     LoginOk, EndDelay, ReadingEnds, Arrive, ArriveLong, ReadSms, ReadPart, Reply, Drop,
     ReadError, Reconnect, Route, TakeError, Deliver, histVars

LEMMA RecvStep == Typed /\ SmsInv /\ RecvInv /\ [Next]_vars => RecvInv'
<1> SUFFICES ASSUME Typed, SmsInv, RecvInv, [Next]_vars PROVE RecvInv'
  OBVIOUS
<1>0. Len(mail) \in Nat /\ MailTyped
  BY DEF SmsInv, MailTyped
<1>1. ASSUME NEW l \in Links, Route(l) PROVE RecvInv'
  <2> DEFINE m == sess[l].sms
  <2>1. m \in 1..Len(mail) /\ mail[m].from \in Contacts /\ mail[m].to \in Numbers
    <3>1. m \in 1..Len(mail)
      BY <1>1 DEF Route, SmsInv, Offering
    <3> QED
      BY <1>0, <3>1, SmsFields
  <2>2. Routes(mail[m].from, mail[m].to) \subseteq Readers
    BY <2>1 DEF Routes, Get, Readers, Typed
  <2>3. UNCHANGED <<mail, panicked>>
    BY <1>1 DEF Route, smscVars
  <2>4. CASE UNCHANGED recv
    BY <2>3, <2>4 DEF RecvInv
  <2>5. CASE \E t \in Routes(mail[m].from, mail[m].to) :
               recv' = [step |-> "deliver", sms |-> m, target |-> t]
    BY <2>1, <2>2, <2>3, <2>5 DEF RecvInv
  <2> QED
    BY <1>1, <2>4, <2>5 DEF Route
<1>2. CASE Deliver
  BY <1>2 DEF Deliver, RecvInv, smscVars
<1>3. ASSUME NEW p \in Contacts, NEW n \in Numbers, NEW r \in Refs,
             Arrive(p, n, r) \/ ArriveLong(p, n, r)
      PROVE  RecvInv'
  <2>1. UNCHANGED <<recv, panicked>>
    BY <1>3 DEF Arrive, ArriveLong
  <2>2. 1..Len(mail) \subseteq 1..Len(mail')
    BY <1>0, <1>3, MailGrows
  <2> QED
    BY <2>1, <2>2 DEF RecvInv
<1>4. ASSUME UNCHANGED <<mail, recv, panicked>> PROVE RecvInv'
  BY <1>4 DEF RecvInv
<1>5. CASE UNCHANGED vars
  BY <1>4, <1>5 DEF vars, recvVars, smscVars
<1> QED
  BY <1>1, <1>2, <1>3, <1>4, <1>5 DEF Next, Supervisor, DialFails, DialOk, LoginFails,
     LoginOk, EndDelay, ReadingEnds, Choose, SendOk, SendFails, Record, ReadSms, ReadPart,
     Reply, Drop, ReadError, Reconnect, TakeError, recvVars, smscVars

AllInv ==
  /\ NumberInv /\ SmsInv /\ CopyInv /\ ReachInv
  /\ BudgetInv /\ LossInv /\ RecordInv /\ RecvInv

LEMMA AllTyped == AllInv => TypeOK
<1> SUFFICES ASSUME AllInv PROVE TypeOK
  OBVIOUS
<1> USE DEF AllInv
<1>1. HistTypeOK /\ clock <= MaxSends
  <2>1. IsFiniteSet(Busy)
    BY GatewayAssumption, FS_Subset DEF Busy
  <2>2. Cardinality(Busy) \in Nat
    BY <2>1, FS_CardinalityType
  <2> QED
    BY <2>2, GatewayAssumption DEF RecordInv, HistTypeOK
<1>2. /\ MailTyped /\ SessTyped /\ CacheHolds /\ Offering
      /\ sess \in [Links -> [step : Steps, sms : 0..Len(mail), text : SUBSET (1..Len(mail))]]
      /\ kept \in [Links -> [Refs -> SUBSET (1..Len(mail))]]
  <2>1. MailTyped /\ SessTyped /\ CacheHolds /\ Offering /\ Len(mail) \in Nat
    BY DEF SmsInv, MailTyped
  <2>2. ASSUME NEW l \in Links PROVE sess[l].sms \in 0..Len(mail)
    <3>1. sess[l].step \in Steps /\ sess[l].sms \in Nat
      BY <2>1 DEF SessTyped
    <3>2. CASE sess[l].step = "push"
      BY <2>1, <3>2 DEF Offering
    <3>3. CASE sess[l].step = "reply"
      BY <2>1, <3>3 DEF SmsInv, Answering
    <3>4. CASE sess[l].step \in {"read", "error", "down"}
      BY <2>1, <3>4 DEF CopyInv
    <3> QED
      BY <3>1, <3>2, <3>3, <3>4 DEF Steps
  <2>3. \A l \in Links : sess[l].text \subseteq 1..Len(mail)
    BY <2>1 DEF Offering
  <2>4. \A l \in Links, r \in Refs : kept[l][r] \subseteq 1..Len(mail)
    BY <2>1 DEF CacheHolds
  <2> QED
    BY <2>1, <2>2, <2>3, <2>4 DEF SessTyped
<1>3. cut \in [1..MaxIn -> 0..MaxDrops]
  BY GatewayAssumption DEF LossInv
<1>4. copies \in [1..MaxIn -> 0..MaxDrops + 1]
  <2>1. ASSUME NEW m \in 1..MaxIn PROVE copies[m] \in 0..MaxDrops + 1
    <3>1. IsFiniteSet(Has(m))
      BY GatewayAssumption, FS_Subset DEF Has
    <3>2. Cardinality(Has(m)) \in Nat
      BY <3>1, FS_CardinalityType
    <3>3. Cardinality(Has(m)) + copies[m] <= cut[m] + 1 /\ copies[m] \in Nat
      BY <1>2 DEF MailTyped, CopyInv, CopiesOf
    <3>4. cut[m] \in 0..MaxDrops
      BY <1>3
    <3> QED
      BY <3>2, <3>3, <3>4, GatewayAssumption
  <2> QED
    BY <1>2, <2>1 DEF MailTyped
<1> QED
  BY <1>1, <1>2, <1>3, <1>4
     DEF TypeOK, NumberInv, Typed, MailTyped, ReachInv, LinksTyped, BudgetInv, LossInv,
         RecordInv, RecvInv

\* Every variable of the gateway keeps its type for any number of servers, sessions and
\* messages; in particular no supervisor goes on past its error budget (config.go:43-75).
THEOREM GatewayTypes == Spec => []TypeOK
<1>1. Init => AllInv
  BY NumberInit, SmsInit, CopyInit, ReachInit, CountsInit DEF AllInv
<1>2. AllInv /\ [Next]_vars => AllInv'
  <2>1. NumberInv /\ ReachInv => Typed /\ LinksTyped
    BY DEF NumberInv, ReachInv
  <2> QED
    BY <2>1, NumberStep, SmsInvStep, CopyStep, ReachStep, BudgetStep, LossStep, RecordKeeps,
       RecvStep DEF AllInv
<1> QED
  BY <1>1, <1>2, AllTyped, PTL DEF Spec
===============================================================================
