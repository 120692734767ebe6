-------------------------------- MODULE Gateway --------------------------------
(*****************************************************************************)
(* smsgate.go, msghandler.go, mx.go and config.go: users of the MX servers   *)
(* write to outside phones, and what those phones write comes back to them.  *)
(* Each MX server has a supervisor goroutine (MXConnect) that connects, logs *)
(* in and then handles the messages of its users one after the other.  Each  *)
(* SMPP session has a goroutine (reading) that passes the SMS it reads to the*)
(* one goroutine (SMSGate.Connect) that handles every incoming SMS, and only *)
(* then acknowledges it; the SMSC delivers an SMS again when the session it  *)
(* was delivered on went away.  A part of a long SMS that is not the last one*)
(* is acknowledged at once and stays in the session's cache.  All meet in the*)
(* history and in the fields handler and client of the MX objects.           *)
(* A long SMS has two parts here; LongSms has any number of them.            *)
(*****************************************************************************)
EXTENDS History, Sequences

CONSTANTS Mxs,       \* config.MX, the names of the MX servers
          From,      \* From[x]: the gateway's numbers that MX server x may use
          Default,   \* those that have a defaultJID
          DefaultJid,
          MaxErrors, \* MaxErrors[x]: the error budget of MX server x
          Links,     \* the addresses of the SMPP sessions
          Refs,      \* the references of long SMS
          MaxSends,  \* bound on calls of history.Add
          MaxIn,     \* bound on incoming SMS
          MaxDrops,  \* bound on lost SMPP sessions
          Loads      \* bounds of the three together, as <<sends, SMS, losses>>

ASSUME GatewayAssumption ==
  /\ From \in [Mxs -> SUBSET Numbers]
  /\ \A u \in Targets : u.mx \in Mxs /\ u.jid # DefaultJid
  /\ \A u, v \in Targets : u.mx = v.mx /\ u.jid = v.jid => u = v
  /\ Default \subseteq Mxs /\ IsFiniteSet(Mxs) /\ IsFiniteSet(Links)
  /\ MaxErrors \in [Mxs -> Nat \ {0}]
  /\ MaxSends \in Nat /\ MaxIn \in Nat /\ MaxDrops \in Nat
  /\ Loads \subseteq (0..MaxSends) \X (0..MaxIn) \X (0..MaxDrops)

VARIABLES
  link,     \* link[x]: the supervisor: "dial", "login", "reading", "delay", "ended"
  errs,     \* errs[x]: its loop counter i
  handler,  \* handler[x]: mx.handler is set
  client,   \* client[x]: what mx.client points to: "nil", "open" or "closed"
  task,     \* task[x]: what Handle of x is doing, [step, user, to, from]
  mail,     \* mail[m]: the m-th SMS, or part of one, somebody outside has sent
  acked,    \* those whose DELIVER_SM_RESP the SMSC has
  up,       \* the sessions whose connection is alive
  sess,     \* sess[l]: what reading does with which SMS (0: none), and the SMS and
            \* parts that make up the text it is handing over
  kept,     \* kept[l][r]: incomming of reading, the part with reference r in it
  recv,     \* the receiver: [step, sms, target], step "idle" or "deliver"
  written,  \* written[p][n]: the user whose SMS was sent last (history)
  copies,   \* copies[m]: how often the receiver was handed m (history)
  cut,      \* cut[m]: how often a session was lost that owed the response to m (history)
  gone,     \* the parts that were in the cache of a call of reading that ended (history)
  drops,    \* number of sessions lost so far
  panicked  \* mx.client was nil when the receiver used it

linkVars == <<link, errs, handler, client>>
smscVars == <<mail, acked, up, cut, drops>>
cacheVars == <<kept, gone>>
recvVars == <<smscVars, sess, cacheVars, recv, copies>>
vars == <<histVars, linkVars, task, recvVars, written, panicked>>

Idle    == [step |-> "idle"]
Tasks   == {Idle} \cup [step : {"send", "add"}, user : Targets, to : Contacts, from : Numbers]
Sms     == [from : Contacts, to : Numbers, part : {"whole", "first", "last"}, ref : Refs]
Steps   == {"read", "push", "reply", "error", "down"}
Readers == Targets \cup {[mx |-> x, jid |-> DefaultJid] : x \in Default}

TypeOK ==
  /\ HistTypeOK /\ clock <= MaxSends
  /\ link \in [Mxs -> {"dial", "login", "reading", "delay", "ended"}]
  /\ errs \in [Mxs -> Nat] /\ \A x \in Mxs : errs[x] <= MaxErrors[x]
  /\ handler \in [Mxs -> BOOLEAN]
  /\ client \in [Mxs -> {"nil", "open", "closed"}]
  /\ task \in [Mxs -> Tasks]
  /\ mail \in Seq(Sms) /\ Len(mail) <= MaxIn
  /\ acked \subseteq 1..Len(mail)
  /\ up \subseteq Links
  /\ sess \in [Links -> [step : Steps, sms : 0..Len(mail), text : SUBSET (1..Len(mail))]]
  /\ kept \in [Links -> [Refs -> SUBSET (1..Len(mail))]] /\ gone \subseteq 1..Len(mail)
  /\ recv \in {Idle} \cup [step : {"deliver"}, sms : 1..Len(mail), target : Readers]
  /\ copies \in [1..MaxIn -> 0..MaxDrops + 1]
  /\ cut \in [1..MaxIn -> 0..MaxDrops]
  /\ drops \in 0..MaxDrops
  /\ written \in [Contacts -> [Numbers -> Targets \cup {NoItem}]]
  /\ panicked \in BOOLEAN

Init ==
  /\ HistInit
  /\ link = [x \in Mxs |-> "dial"]
  /\ errs = [x \in Mxs |-> 0]
  /\ handler = [x \in Mxs |-> FALSE]
  /\ client = [x \in Mxs |-> "nil"]
  /\ task = [x \in Mxs |-> Idle]
  /\ mail = <<>> /\ acked = {} /\ up = Links /\ drops = 0
  /\ sess = [l \in Links |-> [step |-> "read", sms |-> 0, text |-> {}]]
  /\ kept = [l \in Links |-> [r \in Refs |-> {}]] /\ gone = {}
  /\ recv = Idle
  /\ copies = [m \in 1..MaxIn |-> 0]
  /\ cut = [m \in 1..MaxIn |-> 0]
  /\ written = [p \in Contacts |-> [n \in Numbers |-> NoItem]]
  /\ panicked = FALSE

Busy == {x \in Mxs : task[x] # Idle}

\* The bound on the work of a behaviour: messages that are or may be recorded, SMS,
\* losses; so many of each are to be added.
Room(sends, in, losses) ==
  \E b \in Loads :
    /\ clock + Cardinality(Busy) + sends <= b[1]
    /\ Len(mail) + in <= b[2]
    /\ drops + losses <= b[3]

-------------------------------------------------------------------------------
(* The supervisor of MX server x: MXConnect and MX.Connect.                  *)

\* MX.Connect returns an error: a lasting one ends the supervisor, a temporary
\* one is counted, or counted as the first if the last was long ago.
Fail(x) ==
  \/ link' = [link EXCEPT ![x] = "ended"] /\ errs' = [errs EXCEPT ![x] = 0]
  \/ /\ link' = [link EXCEPT ![x] = "delay"]
     /\ \E n \in {1, errs[x] + 1} : errs' = [errs EXCEPT ![x] = n]

DialFails(x) ==
  /\ ~panicked /\ link[x] = "dial"
  /\ Fail(x)
  /\ UNCHANGED <<histVars, handler, client, task, recvVars, written, panicked>>

\* Connected: the handler is set before the login.
DialOk(x) ==
  /\ ~panicked /\ link[x] = "dial"
  /\ link' = [link EXCEPT ![x] = "login"]
  /\ handler' = [handler EXCEPT ![x] = TRUE]
  /\ UNCHANGED <<histVars, errs, client, task, recvVars, written, panicked>>

\* The new client is closed; mx.client stays what it was.
LoginFails(x) ==
  /\ ~panicked /\ link[x] = "login"
  /\ Fail(x)
  /\ UNCHANGED <<histVars, handler, client, task, recvVars, written, panicked>>

\* Mutant: the first client is kept.
LoginKeep(x) ==
  /\ ~panicked /\ link[x] = "login"
  /\ link' = [link EXCEPT ![x] = "reading"]
  /\ client' = [client EXCEPT ![x] = IF @ = "nil" THEN "open" ELSE @]
  /\ UNCHANGED <<histVars, errs, handler, task, recvVars, written, panicked>>

LoginOk(x) ==
  /\ ~panicked /\ link[x] = "login"
  /\ link' = [link EXCEPT ![x] = "reading"]
  /\ client' = [client EXCEPT ![x] = "open"]
  /\ UNCHANGED <<histVars, errs, handler, task, recvVars, written, panicked>>

\* Handle runs inside client.Reading, one message at a time.
CanHandle(x) == link[x] = "reading" /\ task[x] = Idle

\* Mutant: mx.client is reset with the connection.
ReadingEndsNil(x) ==
  /\ ~panicked /\ CanHandle(x)
  /\ Fail(x)
  /\ client' = [client EXCEPT ![x] = "nil"]
  /\ UNCHANGED <<histVars, handler, task, recvVars, written, panicked>>

\* Reading returns, between two messages; the deferred Close closes the client.
ReadingEnds(x) ==
  /\ ~panicked /\ CanHandle(x)
  /\ Fail(x)
  /\ client' = [client EXCEPT ![x] = "closed"]
  /\ UNCHANGED <<histVars, handler, task, recvVars, written, panicked>>

\* The loop of the supervisor goes on or ends, and its counter with it.
Again(x, more) ==
  IF more THEN link' = [link EXCEPT ![x] = "dial"] /\ UNCHANGED errs
  ELSE link' = [link EXCEPT ![x] = "ended"] /\ errs' = [errs EXCEPT ![x] = 0]

\* Mutant: i <= maxErrors.
EndDelayOnce(x) ==
  /\ ~panicked /\ link[x] = "delay"
  /\ Again(x, errs[x] <= MaxErrors[x])
  /\ UNCHANGED <<histVars, handler, client, task, recvVars, written, panicked>>

EndDelay(x) ==
  /\ ~panicked /\ link[x] = "delay"
  /\ Again(x, errs[x] < MaxErrors[x])
  /\ UNCHANGED <<histVars, handler, client, task, recvVars, written, panicked>>

-------------------------------------------------------------------------------
(* MessageHandle.Handle and SMSGate.Send: a user writes to a phone.  Messages*)
(* without a good number only cause a reply and are left out.                *)

\* GetFrom chooses the number; with no number to choose the message is refused.
Choose(x, user, p) ==
  /\ ~panicked /\ CanHandle(x)
  /\ user.mx = x /\ Room(1, 0, 0)
  /\ \E n \in GetFrom(From[x], p, user.jid) :
       task' = [task EXCEPT ![x] = [step |-> "send", user |-> user, to |-> p, from |-> n]]
  /\ UNCHANGED <<histVars, linkVars, recvVars, written, panicked>>

\* SMPP.Send returns: the message is on its way, or it is refused.
SendOk(x) ==
  /\ ~panicked /\ task[x].step = "send"
  /\ task' = [task EXCEPT ![x].step = "add"]
  /\ written' = [written EXCEPT ![task[x].to][task[x].from] = task[x].user]
  /\ UNCHANGED <<histVars, linkVars, recvVars, panicked>>

SendFails(x) ==
  /\ ~panicked /\ task[x].step = "send"
  /\ task' = [task EXCEPT ![x] = Idle]
  /\ UNCHANGED <<histVars, linkVars, recvVars, written, panicked>>

\* Mutant: only the first user of a number is recorded.
RecordFirst(x) ==
  /\ ~panicked /\ task[x].step = "add"
  /\ IF list[task[x].to][task[x].from] = NoItem
     THEN Add(task[x].user, task[x].from, task[x].to)
     ELSE UNCHANGED histVars
  /\ task' = [task EXCEPT ![x] = Idle]
  /\ UNCHANGED <<linkVars, recvVars, written, panicked>>

Record(x) ==
  /\ ~panicked /\ task[x].step = "add"
  /\ Add(task[x].user, task[x].from, task[x].to)
  /\ task' = [task EXCEPT ![x] = Idle]
  /\ UNCHANGED <<linkVars, recvVars, written, panicked>>

-------------------------------------------------------------------------------
(* Transceiver.reading of session l, and the SMSC behind it.  Responses and  *)
(* receipts, which the receiver ignores, are left out.                       *)

\* Somebody outside writes to one of the gateway's numbers.  The reference means
\* nothing in an SMS that is not long.
Arrive(p, n, ref) ==
  /\ ~panicked /\ Room(0, 1, 0)
  /\ mail' = Append(mail, [from |-> p, to |-> n, part |-> "whole", ref |-> ref])
  /\ UNCHANGED <<histVars, linkVars, task, acked, up, cut, drops, sess, cacheVars, recv,
                 copies, written, panicked>>

\* A long SMS, in two parts.
ArriveLong(p, n, ref) ==
  /\ ~panicked /\ Room(0, 2, 0)
  /\ mail' = mail \o <<[from |-> p, to |-> n, part |-> "first", ref |-> ref],
                       [from |-> p, to |-> n, part |-> "last", ref |-> ref]>>
  /\ UNCHANGED <<histVars, linkVars, task, acked, up, cut, drops, sess, cacheVars, recv,
                 copies, written, panicked>>

\* The SMSC delivers an SMS that is not acknowledged, over one session at a time.
Undelivered(m) == m \notin acked /\ \A l \in up : sess[l].sms # m

\* What the last part of a long SMS is joined with.
Joined(l, m) == IF mail[m].part = "last" THEN kept[l][mail[m].ref] ELSE {}

Push(l, m) ==
  /\ ~panicked /\ l \in up /\ sess[l].step = "read" /\ Undelivered(m)
  /\ mail[m].part # "first"
  /\ sess' = [sess EXCEPT ![l] = [step |-> "push", sms |-> m, text |-> {m} \cup Joined(l, m)]]
  /\ kept' = [kept EXCEPT ![l][mail[m].ref] = @ \ Joined(l, m)]

\* Mutant: the SMS is acknowledged before it is passed on.
ReadAndReply(l, m) ==
  /\ Push(l, m)
  /\ acked' = acked \cup {m}
  /\ UNCHANGED <<histVars, linkVars, task, mail, up, cut, drops, gone, recv, copies, written,
                 panicked>>

\* A DELIVER_SM is read, an SMS or the last part of one; reading blocks in
\* receive <- msg.
ReadSms(l, m) ==
  /\ Push(l, m)
  /\ UNCHANGED <<histVars, linkVars, task, smscVars, gone, recv, copies, written, panicked>>

\* Another part is read: it goes into the cache, and reading answers at once.
ReadPart(l, m) ==
  /\ ~panicked /\ l \in up /\ sess[l].step = "read" /\ Undelivered(m)
  /\ mail[m].part = "first"
  /\ sess' = [sess EXCEPT ![l] = [step |-> "reply", sms |-> m, text |-> {}]]
  /\ kept' = [kept EXCEPT ![l][mail[m].ref] = {m}]
  /\ UNCHANGED <<histVars, linkVars, task, smscVars, gone, recv, copies, written, panicked>>

\* Mutant: the response is forgotten.
NoReply(l) ==
  /\ ~panicked /\ sess[l].step = "reply"
  /\ sess' = [sess EXCEPT ![l] = [step |-> "read", sms |-> 0, text |-> {}]]
  /\ UNCHANGED <<histVars, linkVars, task, smscVars, cacheVars, recv, copies, written, panicked>>

\* DeliverSmResp; its error is only logged.
Reply(l) ==
  /\ ~panicked /\ sess[l].step = "reply"
  /\ sess' = [sess EXCEPT ![l] = [step |-> "read", sms |-> 0, text |-> {}]]
  /\ acked' = IF l \in up THEN acked \cup {sess[l].sms} ELSE acked
  /\ UNCHANGED <<histVars, linkVars, task, mail, up, cut, drops, cacheVars, recv, copies,
                 written, panicked>>

\* The connection is lost, whatever reading is doing.
Drop(l) ==
  /\ ~panicked /\ l \in up /\ Room(0, 0, 1)
  /\ up' = up \ {l}
  /\ drops' = drops + 1
  /\ cut' = [m \in 1..MaxIn |-> IF sess[l].sms = m THEN cut[m] + 1 ELSE cut[m]]
  /\ UNCHANGED <<histVars, linkVars, task, mail, acked, sess, cacheVars, recv, copies, written,
                 panicked>>

\* Read fails; reading blocks in receive <- err.
ReadError(l) ==
  /\ ~panicked /\ l \notin up /\ sess[l].step = "read"
  /\ sess' = [sess EXCEPT ![l].step = "error"]
  /\ UNCHANGED <<histVars, linkVars, task, smscVars, cacheVars, recv, copies, written, panicked>>

\* The supervisor of the address (see SmppPool) has connected again; the new call
\* of reading starts with an empty cache.
Reconnect(l) ==
  /\ ~panicked /\ sess[l].step = "down"
  /\ sess' = [sess EXCEPT ![l].step = "read"]
  /\ up' = up \cup {l}
  /\ kept' = [kept EXCEPT ![l] = [r \in Refs |-> {}]]
  /\ gone' = gone \cup UNION {kept[l][r] : r \in Refs}
  /\ UNCHANGED <<histVars, linkVars, task, mail, acked, cut, drops, recv, copies, written,
                 panicked>>

-------------------------------------------------------------------------------
(* SMSGate.Connect and Receive: one goroutine, one SMS after the other.      *)

\* Those who may get an SMS from p to number n: the user of the history, or, if
\* there is none, the defaultJID of an MX server that has the number.
Routes(p, n) ==
  IF Get(n, p) # NoItem THEN {Get(n, p)}
  ELSE {[mx |-> x, jid |-> DefaultJid] : x \in {y \in Default : n \in From[y]}}

\* It is dropped if an MX server that has the number has no defaultJID, or if
\* none has it.
Dropped(p, n) ==
  /\ Get(n, p) = NoItem
  /\ \/ \E x \in Mxs \ Default : n \in From[x]
     \/ \A x \in Mxs : n \notin From[x]

\* The receiver takes the SMS of one of the sessions that offer one.
Route(l) ==
  /\ ~panicked /\ recv = Idle /\ sess[l].step = "push"
  /\ LET m == sess[l].sms IN
       \/ \E t \in Routes(mail[m].from, mail[m].to) :
            recv' = [step |-> "deliver", sms |-> m, target |-> t]
       \/ Dropped(mail[m].from, mail[m].to) /\ UNCHANGED recv
  /\ copies' = [m \in 1..MaxIn |-> IF m \in sess[l].text THEN copies[m] + 1 ELSE copies[m]]
  /\ sess' = [sess EXCEPT ![l].step = "reply", ![l].text = {}]
  /\ UNCHANGED <<histVars, linkVars, task, smscVars, cacheVars, written, panicked>>

\* It takes an error, which it ignores; the session's supervisor goes on.
TakeError(l) ==
  /\ ~panicked /\ recv = Idle /\ sess[l].step = "error"
  /\ sess' = [sess EXCEPT ![l].step = "down"]
  /\ UNCHANGED <<histVars, linkVars, task, smscVars, cacheVars, recv, copies, written, panicked>>

\* It waits for the MX handler and then uses the MX client, whose errors it
\* ignores and which it does not test for nil.
Deliver ==
  /\ ~panicked /\ recv # Idle
  /\ LET x == recv.target.mx IN
       /\ handler[x]
       /\ panicked' = (client[x] = "nil")
  /\ recv' = Idle
  /\ UNCHANGED <<histVars, linkVars, task, smscVars, sess, cacheVars, copies, written>>

-------------------------------------------------------------------------------
Supervisor(x) == DialFails(x) \/ DialOk(x) \/ LoginFails(x) \/ LoginOk(x) \/ EndDelay(x)

Next ==
  \/ \E x \in Mxs : Supervisor(x) \/ ReadingEnds(x)
                    \/ SendOk(x) \/ SendFails(x) \/ Record(x)
  \/ \E x \in Mxs, u \in Targets, p \in Contacts : Choose(x, u, p)
  \/ \E p \in Contacts, n \in Numbers, r \in Refs : Arrive(p, n, r) \/ ArriveLong(p, n, r)
  \/ \E l \in Links, m \in 1..Len(mail) : ReadSms(l, m) \/ ReadPart(l, m)
  \/ \E l \in Links : \/ Reply(l) \/ Drop(l) \/ ReadError(l) \/ Reconnect(l)
                       \/ Route(l) \/ TakeError(l)
  \/ Deliver

Spec == Init /\ [][Next]_vars

\* Dials and logins return, delays end, the goroutines are scheduled, those that
\* wait to send on the channel are served in turn.  Nothing is assumed of how often
\* a connection can be made.
Fairness ==
  /\ \A x \in Mxs : WF_vars(Supervisor(x)) /\ WF_vars(Record(x))
  /\ \A l \in Links : SF_vars(Route(l) \/ TakeError(l)) /\ WF_vars(Reply(l) \/ ReadError(l))
  /\ WF_vars(Deliver)

FairSpec == Spec /\ Fairness

-------------------------------------------------------------------------------
(* Safety.                                                                   *)

\* A message leaves from a number of an MX server that has a user with the sender's
\* jid (mx.go:11), also when the number was chosen from the history
\* (history.go:59-63).  It is a number of the sender's own server if nobody else has
\* his jid; that nobody has is said of one server only (sms/data.go:16).
NumberOfMx ==
  \A x \in Mxs : task[x] # Idle =>
    \E v \in Targets : v.jid = task[x].user.jid /\ task[x].from \in From[v.mx]

\* Nobody else has the user's jid.
Sole(u) == \A v \in Targets : v.jid = u.jid => v = u

\* To one contact a user whose jid is his alone writes from one number only, the
\* user's thread with the contact is never split over two numbers (smsgate.go:61-76).
OneNumberPerUser ==
  \A p \in Contacts : \A n, k \in Used(p) :
    list[p][n] = list[p][k] /\ Sole(list[p][n]) => n = k

\* A number that one MX server alone may use.  Two servers that share one choose
\* and record side by side, and the second record undoes what the first decided.
Own(n) == \A x, y \in Mxs : n \in From[x] \cap From[y] => x = y

\* No user of another server writes to p from a number of x.  One with the jid of a
\* user of x can come to do so.
NoStranger(x, p) == \A k \in From[x] : list[p][k] # NoItem => list[p][k].mx = x

\* Whoever loses a number to another user of that MX server is the one who used it
\* longest ago, and only when no number of the server was free, if the server
\* shares none of its numbers and no stranger uses one (history.go:64-78).
TakesOldestOnly ==
  [][\A p \in Contacts, n \in Numbers :
       LET x == list'[p][n].mx IN
       /\ list[p][n] # NoItem /\ list'[p][n] # list[p][n]
       /\ n \in From[x] /\ NoStranger(x, p) /\ \A k \in From[x] : Own(k)
       =>
         \A k \in From[x] : k \in Used(p) /\ sended[p][n] <= sended[p][k]]_vars

\* The number is one of the user's own server.
AtHome(u, n) == u # NoItem => n \in From[u.mx]

\* What a contact answers to a number of one MX server goes to the user who last
\* wrote to it from there, unless that message is not recorded yet, or a stranger
\* was the last to write from there or to be recorded (smsgate.go:70-76, 94).
RoutedToLastWriter ==
  [][\A p \in Contacts, n \in Numbers :
       recv = Idle /\ recv' # Idle /\ mail[recv'.sms].from = p /\ mail[recv'.sms].to = n
       /\ written[p][n] # NoItem /\ Own(n)
       /\ AtHome(written[p][n], n) /\ AtHome(list[p][n], n)
       /\ ~(\E x \in Mxs : task[x] # Idle /\ task[x].step = "add"
                            /\ task[x].to = p /\ task[x].from = n)
       => recv'.target = written[p][n]]_vars

\* The receiver never waits for a user it found in the history, nor uses a nil
\* client for one: he can only have written through a session that had set both
\* fields (mx.go:51-58, smsgate.go:121-125).
KnownUserReachable ==
  recv # Idle /\ recv.target.jid # DefaultJid =>
    handler[recv.target.mx] /\ client[recv.target.mx] # "nil"

\* An SMS is written to a client that was closed only between the end of one MX
\* session and the login of the next (smsgate.go:125 ignores the error).
LostOnlyOffline ==
  [][recv # Idle /\ recv' = Idle /\ client[recv.target.mx] = "closed"
       => link[recv.target.mx] # "reading"]_vars

\* A part that is not the last one of its SMS, and what became of it if it was not
\* handed over: it is in the cache or in the text a session is handing over; the call
\* of reading that had it in its cache has ended; or another part with its reference
\* has come, which may have taken its slot (sms/tranceiver.go:232-249).
PartOnly(m) ==
  /\ mail[m].part = "first"
  /\ \/ \E l \in Links : m \in sess[l].text \cup kept[l][mail[m].ref]
     \/ m \in gone
     \/ \E k \in 1..Len(mail) \ {m} : mail[k].part = "first" /\ mail[k].ref = mail[m].ref

\* What the SMSC has an acknowledgement for was handed to the receiver, whenever the
\* session was lost, if it is an SMS or the last part of one; of another part nothing
\* but what PartOnly lists can have become (sms/tranceiver.go:246, 255-258).
AckedWasTaken == \A m \in acked : copies[m] > 0 \/ PartOnly(m)

\* The receiver gets an SMS, or a part of one, again only if a session was lost while
\* the response to it was due.
AgainOnlyIfCut == \A m \in 1..MaxIn : copies[m] <= cut[m] + 1

(* What comments of the code say and the code does not do.                   *)

\* smsgate.go:80 "Receive processes incoming messages": an SMS does not wait for
\* ever behind one for an MX server that was never reached.
IncomingProcessed ==
  \A l \in Links : (sess[l].step = "push") ~> (sess[l].step # "push" \/ panicked)
===============================================================================
