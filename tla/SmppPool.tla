------------------------------- MODULE SmppPool -------------------------------
(*****************************************************************************)
(* sms/smpp.go: the SMPP object keeps one supervised connection per address  *)
(* and one unbuffered channel, send, that the MX handlers write outgoing SMS *)
(* to.  Every connection that is ever made starts a goroutine                *)
(* (Transceiver.sending) that takes messages from that channel and writes    *)
(* their parts to its socket; the supervisor of the address itself runs      *)
(* Transceiver.reading until the socket fails or Close() is called.  What    *)
(* reading hands up goes to one goroutine, the receiver of smsgate.go, which *)
(* can come to wait for ever (see Gateway) and then takes nothing any more.  *)
(*                                                                           *)
(* Text is abstracted to the number of SUBMIT_SM PDUs it is split into.      *)
(* Time appears only in recent[a]: lastErrorTime is at most 30 minutes ago.  *)
(*****************************************************************************)
EXTENDS Naturals, Sequences, FiniteSets

CONSTANTS Addrs,     \* SMPP.Address, the server addresses
          Msgs,      \* the messages handed to SMPP.Send
          Parts,     \* Parts[m]: number of PDUs message m is split into
          Conns,     \* the transceivers that can be created (bounds a run)
          NoConn,    \* "no transceiver"
          NoMsg,     \* "no message"
          MaxErrors  \* SMPP.MaxError, the error budget of an address

ASSUME PoolAssumption == /\ Parts \in [Msgs -> Nat \ {0}]
                         /\ NoConn \notin Conns
                         /\ NoMsg \notin Msgs
                         /\ MaxErrors \in Nat \ {0}

VARIABLES
  pc,        \* pc[a]: where the supervisor goroutine of address a stands
  errs,      \* errs[a]: its loop counter i
  recent,    \* recent[a]: its last failed dial was in the last 30 minutes
  conn,      \* conn[a]: the transceiver it made last
  failed,    \* failed[a]: what reading() returned is an error
  trxs,      \* SMPP.trxs; NoConn where the map has no entry
  trxsNil,   \* SMPP.trxs is nil: before Connect and after Close
  closePc,   \* the caller of SMPP.Close: "none", "loop" (read lock held), "done"
  toClose,   \* the transceivers its loop has still to close
  sock,      \* sock[c]: "none", "up", "dropped" (by the peer), "closed" (by us)
  isClosed,  \* isClosed[c]: Transceiver.isClosed
  downBy,    \* downBy[c]: who took the socket down first (history)
  senders,   \* the transceivers whose sending goroutine has been started
  work,      \* work[c]: the message that goroutine is in Transceiver.Send with
  part,      \* part[c]: the parts of it that are written, its loop variable
  msg,       \* msg[m]: how far SMPP.Send / Transceiver.Send of m has come
  wire,      \* wire[c]: the parts <<m, k>> written to c, in order (history)
  stalled,   \* the receiver waits for an MX server that is never reached
  panicked   \* a write to the nil map has ended the process

supVars  == <<pc, errs, recent, conn, failed>>
mapVars  == <<trxs, trxsNil, closePc, toClose>>
sockVars == <<sock, isClosed, downBy>>
sendVars == <<senders, work, part, msg, wire>>
procVars == <<stalled, panicked>>
vars     == <<supVars, mapVars, sockVars, sendVars, procVars>>

\* The supervisor has registered its transceiver and not yet removed it.
InSession == {"reading", "handover", "report", "leave", "unregister"}

TypeOK ==
  /\ pc \in [Addrs -> {"init", "dial", "delay", "register", "shut", "shutsock",
                       "looptest", "ended"} \cup InSession]
  /\ errs \in [Addrs -> 0..MaxErrors]
  /\ recent \in [Addrs -> BOOLEAN]
  /\ conn \in [Addrs -> Conns \cup {NoConn}]
  /\ failed \in [Addrs -> BOOLEAN]
  /\ trxs \in [Addrs -> Conns \cup {NoConn}]
  /\ trxsNil \in BOOLEAN
  /\ closePc \in {"none", "loop", "done"}
  /\ toClose \subseteq Conns
  /\ sock \in [Conns -> {"none", "up", "dropped", "closed"}]
  /\ isClosed \in [Conns -> BOOLEAN]
  /\ downBy \in [Conns -> {"none", "link", "user"}]
  /\ senders \subseteq Conns
  /\ work \in [Conns -> Msgs \cup {NoMsg}]
  /\ part \in [Conns -> Nat]
  /\ msg \in [Msgs -> {"new", "rejected", "offered", "taken", "sent", "lost"}]
  /\ wire \in [Conns -> Seq(Msgs \X Nat)]
  /\ stalled \in BOOLEAN
  /\ panicked \in BOOLEAN

Init ==
  /\ pc = [a \in Addrs |-> "init"]
  /\ errs = [a \in Addrs |-> 0]
  /\ recent = [a \in Addrs |-> FALSE]  \* lastErrorTime is the zero time
  /\ conn = [a \in Addrs |-> NoConn]
  /\ failed = [a \in Addrs |-> FALSE]
  /\ trxs = [a \in Addrs |-> NoConn]
  /\ trxsNil = TRUE
  /\ closePc = "none"
  /\ toClose = {}
  /\ sock = [c \in Conns |-> "none"]
  /\ isClosed = [c \in Conns |-> FALSE]
  /\ downBy = [c \in Conns |-> "none"]
  /\ senders = {}
  /\ work = [c \in Conns |-> NoMsg]
  /\ part = [c \in Conns |-> 0]
  /\ msg = [m \in Msgs |-> "new"]
  /\ wire = [c \in Conns |-> <<>>]
  /\ stalled = FALSE
  /\ panicked = FALSE

-------------------------------------------------------------------------------
(* SMPP.Connect makes the channel and the map, then starts one supervisor    *)
(* goroutine per address.                                                    *)
Connect ==
  /\ ~panicked /\ \A a \in Addrs : pc[a] = "init"
  /\ pc' = [a \in Addrs |-> "dial"]
  /\ trxsNil' = FALSE
  /\ UNCHANGED <<errs, recent, conn, failed, trxs, closePc, toClose,
                 sockVars, sendVars, procVars>>

\* Mutant: i <= maxErrors.
NextRoundTooMany(a, i) ==
  /\ errs' = [errs EXCEPT ![a] = i + 1]
  /\ pc' = [pc EXCEPT ![a] = IF i + 1 <= MaxErrors THEN "dial" ELSE "ended"]

\* i++; i < maxErrors: another round, or the supervisor gives the address up.
NextRound(a, i) ==
  /\ errs' = [errs EXCEPT ![a] = i + 1]
  /\ pc' = [pc EXCEPT ![a] = IF i + 1 < MaxErrors THEN "dial" ELSE "ended"]

\* smpp.NewTransceiver has dialled and bound: a new transceiver exists.  Which of the
\* unused ones it is makes no difference.
Fresh == CHOOSE c \in Conns : sock[c] = "none"
DialOK(a, c) ==
  /\ ~panicked /\ pc[a] = "dial"
  /\ sock[c] = "none" /\ c = Fresh
  /\ sock' = [sock EXCEPT ![c] = "up"]
  /\ conn' = [conn EXCEPT ![a] = c]
  /\ pc' = [pc EXCEPT ![a] = "register"]
  /\ UNCHANGED <<errs, recent, failed, mapVars, isClosed, downBy, sendVars,
                 procVars>>

\* It has not: reset the counter if the last error was long ago, then sleep.
DialFail(a) ==
  /\ ~panicked /\ pc[a] = "dial"
  /\ errs' = [errs EXCEPT ![a] = IF recent[a] THEN @ ELSE 0]
  /\ pc' = [pc EXCEPT ![a] = "delay"]
  /\ UNCHANGED <<recent, conn, failed, mapVars, sockVars, sendVars, procVars>>

\* The reconnect delay is over; lastErrorTime is now; continue.
EndDelay(a) ==
  /\ ~panicked /\ pc[a] = "delay"
  /\ recent' = [recent EXCEPT ![a] = TRUE]
  /\ NextRound(a, errs[a])
  /\ UNCHANGED <<conn, failed, mapVars, sockVars, sendVars, procVars>>

\* Mutant: the map is written without the lock.
RegisterUnlocked(a) ==
  /\ ~panicked /\ pc[a] = "register"
  /\ IF trxsNil
     THEN panicked' = TRUE /\ UNCHANGED <<pc, trxs, senders>>
     ELSE /\ trxs' = [trxs EXCEPT ![a] = conn[a]]
          /\ senders' = senders \cup {conn[a]}
          /\ pc' = [pc EXCEPT ![a] = "reading"]
          /\ UNCHANGED panicked
  /\ UNCHANGED <<errs, recent, conn, failed, trxsNil, closePc, toClose,
                 sockVars, work, part, msg, wire, stalled>>

\* s.trxs[addr] = transceiver under the write lock, then go sending(s.send).
\* After Close the map is nil and the assignment panics.
Register(a) ==
  /\ ~panicked /\ pc[a] = "register"
  /\ closePc # "loop"
  /\ IF trxsNil
     THEN panicked' = TRUE /\ UNCHANGED <<pc, trxs, senders>>
     ELSE /\ trxs' = [trxs EXCEPT ![a] = conn[a]]
          /\ senders' = senders \cup {conn[a]}
          /\ pc' = [pc EXCEPT ![a] = "reading"]
          /\ UNCHANGED panicked
  /\ UNCHANGED <<errs, recent, conn, failed, trxsNil, closePc, toClose,
                 sockVars, work, part, msg, wire, stalled>>

-------------------------------------------------------------------------------
(* The session: Transceiver.reading, and what happens around it.             *)

\* A PDU is read that reading hands up: an SMS, a receipt or a response.
ReadMsg(a) ==
  /\ ~panicked /\ pc[a] = "reading"
  /\ sock[conn[a]] = "up"
  /\ pc' = [pc EXCEPT ![a] = "handover"]
  /\ UNCHANGED <<errs, recent, conn, failed, mapVars, sockVars, sendVars, procVars>>

\* receive <- msg: the receiver takes it, whatever has become of the socket.
HandOver(a) ==
  /\ ~panicked /\ pc[a] = "handover"
  /\ ~stalled
  /\ pc' = [pc EXCEPT ![a] = "reading"]
  /\ UNCHANGED <<errs, recent, conn, failed, mapVars, sockVars, sendVars, procVars>>

\* The receiver waits for ever for an MX handler.
Stall ==
  /\ ~panicked /\ ~stalled /\ \A a \in Addrs : pc[a] # "init"
  /\ stalled' = TRUE
  /\ UNCHANGED <<supVars, mapVars, sockVars, sendVars, panicked>>

\* The peer, the network or the enquire-link watchdog takes the socket down, or the
\* peer sends what the reader rejects: for the pool the link is over either way, and
\* what is still buffered counts as read before.
LinkDown(c) ==
  /\ ~panicked /\ sock[c] = "up"
  /\ sock' = [sock EXCEPT ![c] = "dropped"]
  /\ downBy' = [downBy EXCEPT ![c] = "link"]
  /\ UNCHANGED <<supVars, mapVars, isClosed, sendVars, procVars>>

\* A session, or a dial, has lasted until the last failed dial is 30 minutes ago.
QuietSpell(a) ==
  /\ ~panicked /\ pc[a] \in {"dial", "reading"} /\ recent[a]
  /\ recent' = [recent EXCEPT ![a] = FALSE]
  /\ UNCHANGED <<pc, errs, conn, failed, mapVars, sockVars, sendVars, procVars>>

\* trx.Read fails; the error is reported unless Close() was called before.
ReadError(a) ==
  /\ ~panicked /\ pc[a] = "reading"
  /\ sock[conn[a]] # "up"
  /\ pc' = [pc EXCEPT ![a] = IF isClosed[conn[a]] THEN "leave" ELSE "report"]
  /\ UNCHANGED <<errs, recent, conn, failed, mapVars, sockVars, sendVars, procVars>>

\* Mutant: the receive loop ends when the gateway is being closed.
ReportUntilClose(a) ==
  /\ ~panicked /\ pc[a] = "report"
  /\ ~stalled /\ closePc = "none"
  /\ pc' = [pc EXCEPT ![a] = "leave"]
  /\ UNCHANGED <<errs, recent, conn, failed, mapVars, sockVars, sendVars, procVars>>

\* receive <- err: the receiver takes it (and ignores it).
Report(a) ==
  /\ ~panicked /\ pc[a] = "report"
  /\ ~stalled
  /\ pc' = [pc EXCEPT ![a] = "leave"]
  /\ UNCHANGED <<errs, recent, conn, failed, mapVars, sockVars, sendVars, procVars>>

\* Mutant: no deferred function.
LeaveWithError(a) ==
  /\ ~panicked /\ pc[a] = "leave"
  /\ failed' = [failed EXCEPT ![a] = TRUE]
  /\ pc' = [pc EXCEPT ![a] = "unregister"]
  /\ UNCHANGED <<errs, recent, conn, mapVars, sockVars, sendVars, procVars>>

\* The deferred function: a connection closed on purpose returns no error.
Leave(a) ==
  /\ ~panicked /\ pc[a] = "leave"
  /\ failed' = [failed EXCEPT ![a] = ~isClosed[conn[a]]]
  /\ pc' = [pc EXCEPT ![a] = "unregister"]
  /\ UNCHANGED <<errs, recent, conn, mapVars, sockVars, sendVars, procVars>>

\* Mutant: the entry is left for the next connection to overwrite.
UnregisterNot(a) ==
  /\ ~panicked /\ pc[a] = "unregister"
  /\ closePc # "loop"
  /\ pc' = [pc EXCEPT ![a] = "shut"]
  /\ UNCHANGED <<errs, recent, conn, failed, mapVars, sockVars, sendVars, procVars>>

\* delete(s.trxs, addr) under the write lock; on a nil map it does nothing.
Unregister(a) ==
  /\ ~panicked /\ pc[a] = "unregister"
  /\ closePc # "loop"
  /\ trxs' = [trxs EXCEPT ![a] = NoConn]
  /\ pc' = [pc EXCEPT ![a] = "shut"]
  /\ UNCHANGED <<errs, recent, conn, failed, trxsNil, closePc, toClose,
                 sockVars, sendVars, procVars>>

-------------------------------------------------------------------------------
(* Transceiver.Close: first the flag, then the socket.                       *)
SetClosed(c) == isClosed' = [isClosed EXCEPT ![c] = TRUE] /\ UNCHANGED <<sock, downBy>>

\* Mutant: only the flag is set.
CloseSocketNot(c) == UNCHANGED sockVars

CloseSocket(c) ==
  /\ sock' = [sock EXCEPT ![c] = "closed"]
  /\ downBy' = [downBy EXCEPT ![c] = IF @ = "none" THEN "user" ELSE @]
  /\ UNCHANGED isClosed

\* transceiver.Close() by the supervisor, at the end of the session.
ShutFlag(a) ==
  /\ ~panicked /\ pc[a] = "shut"
  /\ SetClosed(conn[a])
  /\ pc' = [pc EXCEPT ![a] = "shutsock"]
  /\ UNCHANGED <<errs, recent, conn, failed, mapVars, sendVars, procVars>>

ShutSocket(a) ==
  /\ ~panicked /\ pc[a] = "shutsock"
  /\ CloseSocket(conn[a])
  /\ pc' = [pc EXCEPT ![a] = "looptest"]
  /\ UNCHANGED <<errs, recent, conn, failed, mapVars, sendVars, procVars>>

\* err != nil: go round the loop again; else the stop was planned.
LoopTest(a) ==
  /\ ~panicked /\ pc[a] = "looptest"
  /\ IF failed[a]
     THEN NextRound(a, errs[a])
     ELSE pc' = [pc EXCEPT ![a] = "ended"] /\ UNCHANGED errs
  /\ UNCHANGED <<recent, conn, failed, mapVars, sockVars, sendVars, procVars>>

(* SMPP.Close holds the read lock while it closes every registered           *)
(* transceiver, one after the other, and drops the map.                      *)
CloseBegin ==
  /\ ~panicked /\ closePc = "none"
  /\ \A a \in Addrs : pc[a] # "init"
  /\ closePc' = "loop"
  /\ toClose' = {trxs[a] : a \in Addrs} \ {NoConn}
  /\ UNCHANGED <<supVars, trxs, trxsNil, sockVars, sendVars, procVars>>

CloseFlag(c) ==
  /\ ~panicked /\ closePc = "loop"
  /\ c \in toClose
  /\ \A d \in toClose : ~isClosed[d]
  /\ SetClosed(c)
  /\ UNCHANGED <<supVars, mapVars, sendVars, procVars>>

CloseTrx(c) ==
  /\ ~panicked /\ closePc = "loop"
  /\ c \in toClose
  /\ isClosed[c]
  /\ CloseSocket(c)
  /\ toClose' = toClose \ {c}
  /\ UNCHANGED <<supVars, trxs, trxsNil, closePc, sendVars, procVars>>

CloseEnd ==
  /\ ~panicked /\ closePc = "loop"
  /\ toClose = {}
  /\ closePc' = "done"
  /\ trxsNil' = TRUE
  /\ trxs' = [a \in Addrs |-> NoConn]
  /\ UNCHANGED <<supVars, toClose, sockVars, sendVars, procVars>>

-------------------------------------------------------------------------------
(* Outgoing messages: SMPP.Send, Transceiver.sending and Transceiver.Send.   *)

\* SMPP.Send before Connect: the channel is nil, an error is returned.
Reject(m) ==
  /\ ~panicked /\ msg[m] = "new"
  /\ \A a \in Addrs : pc[a] = "init"
  /\ msg' = [msg EXCEPT ![m] = "rejected"]
  /\ UNCHANGED <<supVars, mapVars, sockVars, senders, work, part, wire, procVars>>

\* SMPP.Send blocks on the unbuffered channel; Close does not close it.
Offer(m) ==
  /\ ~panicked /\ msg[m] = "new"
  /\ \A a \in Addrs : pc[a] # "init"
  /\ msg' = [msg EXCEPT ![m] = "offered"]
  /\ UNCHANGED <<supVars, mapVars, sockVars, senders, work, part, wire, procVars>>

\* Mutants: the message stays in the channel; the goroutine of a closed
\* transceiver has ended.
TakeCopy(c, m) ==
  /\ ~panicked /\ c \in senders /\ work[c] = NoMsg
  /\ msg[m] = "offered" /\ ~isClosed[c]
  /\ work' = [work EXCEPT ![c] = m]
  /\ part' = [part EXCEPT ![c] = 0]
  /\ UNCHANGED <<supVars, mapVars, sockVars, senders, msg, wire, procVars>>
TakeOpenOnly(c, m) ==
  /\ ~panicked /\ c \in senders /\ work[c] = NoMsg
  /\ msg[m] = "offered" /\ ~isClosed[c]
  /\ msg' = [msg EXCEPT ![m] = "taken"]
  /\ work' = [work EXCEPT ![c] = m]
  /\ part' = [part EXCEPT ![c] = 0]
  /\ UNCHANGED <<supVars, mapVars, sockVars, senders, wire, procVars>>

\* A sending goroutine receives m and enters Transceiver.Send, which refuses
\* a closed transceiver: the error is logged and the message is gone.
Take(c, m) ==
  /\ ~panicked /\ c \in senders /\ work[c] = NoMsg
  /\ msg[m] = "offered"
  /\ IF isClosed[c]
     THEN msg' = [msg EXCEPT ![m] = "lost"] /\ UNCHANGED <<work, part>>
     ELSE /\ msg' = [msg EXCEPT ![m] = "taken"]
          /\ work' = [work EXCEPT ![c] = m]
          /\ part' = [part EXCEPT ![c] = 0]
  /\ UNCHANGED <<supVars, mapVars, sockVars, senders, wire, procVars>>

\* SubmitSm of the next part is written (to a dropped link it may be, too).
SubmitPart(c) ==
  LET m == work[c]
      k == part[c] + 1
  IN /\ ~panicked /\ c \in senders /\ m # NoMsg
     /\ sock[c] \in {"up", "dropped"}
     /\ wire' = [wire EXCEPT ![c] = Append(@, <<m, k>>)]
     /\ part' = [part EXCEPT ![c] = k]
     /\ IF k = Parts[m]
        THEN msg' = [msg EXCEPT ![m] = "sent"] /\ work' = [work EXCEPT ![c] = NoMsg]
        ELSE UNCHANGED <<msg, work>>
     /\ UNCHANGED <<supVars, mapVars, sockVars, senders, procVars>>

\* Mutant: a message whose write failed is offered again.
SubmitFailRetry(c) ==
  /\ ~panicked /\ c \in senders /\ work[c] # NoMsg
  /\ sock[c] # "up"
  /\ msg' = [msg EXCEPT ![work[c]] = "offered"]
  /\ work' = [work EXCEPT ![c] = NoMsg]
  /\ UNCHANGED <<supVars, mapVars, sockVars, senders, part, wire, procVars>>

\* The write fails: Transceiver.Send returns at once, later parts are not sent.
SubmitFail(c) ==
  /\ ~panicked /\ c \in senders /\ work[c] # NoMsg
  /\ sock[c] # "up"
  /\ msg' = [msg EXCEPT ![work[c]] = "lost"]
  /\ work' = [work EXCEPT ![c] = NoMsg]
  /\ UNCHANGED <<supVars, mapVars, sockVars, senders, part, wire, procVars>>

-------------------------------------------------------------------------------
Supervisor(a) ==
  \/ \E c \in Conns : DialOK(a, c)
  \/ DialFail(a) \/ EndDelay(a) \/ Register(a)
  \/ HandOver(a) \/ ReadError(a) \/ Report(a) \/ Leave(a) \/ Unregister(a)
  \/ ShutFlag(a) \/ ShutSocket(a) \/ LoopTest(a)

Closer ==
  \/ CloseEnd
  \/ \E c \in Conns : CloseFlag(c) \/ CloseTrx(c)

Sending(c) ==
  \/ \E m \in Msgs : Take(c, m)
  \/ SubmitPart(c) \/ SubmitFail(c)

\* A panic in any goroutine ends the process: every action requires ~panicked.
Next ==
  \/ Connect
  \/ CloseBegin
  \/ Closer
  \/ \E a \in Addrs : Supervisor(a) \/ ReadMsg(a) \/ QuietSpell(a)
  \/ Stall
  \/ \E c \in Conns : LinkDown(c) \/ Sending(c)
  \/ \E m \in Msgs : Reject(m) \/ Offer(m)

Spec == Init /\ [][Next]_vars

\* The goroutines are scheduled: each one that can take a step takes it.  The
\* environment (Connect, Close, Send, the link, what is read, time) promises nothing,
\* and nothing is promised of a receiver that has stalled.
Fairness ==
  /\ WF_vars(Closer)
  /\ \A a \in Addrs : WF_vars(Supervisor(a))
  /\ \A c \in Conns : WF_vars(Sending(c))

FairSpec == Spec /\ Fairness

-------------------------------------------------------------------------------
(* Safety.                                                                   *)

\* Until Close, SMPP.trxs holds exactly the transceivers whose session runs: a
\* reconnect or a late delete (smpp.go:95-104) leaves neither a stale entry nor
\* a running session that Close would miss.
RegisteredIsCurrent ==
  closePc # "done" =>
    \A a \in Addrs : trxs[a] = IF pc[a] \in InSession THEN conn[a] ELSE NoConn

\* When SMPP.Close has returned, every session still running is on a transceiver
\* it has closed, even one that was being registered meanwhile (smpp.go:117-124).
CloseReachesAll ==
  closePc = "done" =>
    \A a \in Addrs : pc[a] \in InSession =>
      isClosed[conn[a]] /\ sock[conn[a]] = "closed"

\* A session that ended because Close took its socket down counts as a planned
\* stop, never as an error to reconnect after: isClosed is set before the socket
\* is closed (tranceiver.go:46-50), so the reader cannot see one without the other.
PlannedStop ==
  \A a \in Addrs :
    /\ pc[a] \in {"unregister", "shut", "shutsock", "looptest"}
    /\ downBy[conn[a]] = "user"
    => ~failed[a]

\* The parts of a message are written once, by one transceiver, in order and
\* with no part of another message between them, whatever goroutines compete for
\* the channel; a message reported sent has all of them (tranceiver.go:107-139).
Places(m) == {p \in UNION {{c} \X DOMAIN wire[c] : c \in Conns} :
                wire[p[1]][p[2]][1] = m}
PartsOnceInOrder ==
  \A m \in Msgs :
    /\ \A p, q \in Places(m) :
         wire[p[1]][p[2]][2] - p[2] = wire[q[1]][q[2]][2] - q[2] /\ p[1] = q[1]
    /\ \A p \in Places(m) : wire[p[1]][p[2]][2] > 1 => <<p[1], p[2] - 1>> \in Places(m)
    /\ msg[m] = "sent" => Cardinality(Places(m)) = Parts[m]

(* What callers of SMPP.Send may rely on, stated by the module Outbox.       *)
Fate == [new |-> "new", rejected |-> "refused", offered |-> "queued",
         taken |-> "accepted", sent |-> "sent", lost |-> "lost"]
Box == INSTANCE Outbox WITH fate <- [m \in Msgs |-> Fate[msg[m]]],
                            out <- [m \in Msgs |-> Cardinality(Places(m))]

\* The pool implements the outbox: at most once, a prefix of the parts, and a
\* message that is settled is never touched again.
OutboxSpec == Box!Spec

(* Liveness.                                                                 *)

\* Once any session has ever been made, a message handed to SMPP.Send does not
\* block its caller for good: it is sent or (by a dead session's goroutine) lost.
OfferedSettles ==
  \A m \in Msgs : (msg[m] = "offered" /\ senders # {})
                    ~> (msg[m] \in {"sent", "lost"} \/ panicked)

\* The receiver will not take what the session of address a wants to hand up.
Stuck(a) == stalled /\ pc[a] \in {"handover", "report"}

\* A session whose socket is down is taken out of the map: its supervisor gets
\* through what it has to hand up and the map's lock (smpp.go:101-104), unless the
\* receiver stalled first.  Then the dead session stays in the map.
DeadSessionRemoved ==
  \A a \in Addrs : (pc[a] \in InSession /\ sock[conn[a]] # "up")
                     ~> (pc[a] \notin InSession \/ panicked \/ Stuck(a))

\* Close returns, and the supervisors that were reading then end, or wait for a
\* stalled receiver with a PDU; none waits with an error, which it does not hand up
\* once Close has set the flag (tranceiver.go:170-175).
CloseStops ==
  /\ closePc = "loop" ~> closePc = "done" \/ panicked
  /\ \A a \in Addrs : (closePc = "done" /\ pc[a] \in {"reading", "handover"})
                        ~> (pc[a] = "ended" \/ panicked \/ (stalled /\ pc[a] = "handover"))

(* What the comments of the code say and the code does not do.               *)

\* smpp.go:126 "sends an outgoing SMS for processing and sending to the server":
\* a message is not thrown away while a live session waits for one.
NoLossWhileConnected ==
  [][\A m \in Msgs :
       msg[m] = "offered" /\ msg'[m] = "lost"
       => ~\E c \in senders : sock[c] = "up" /\ ~isClosed[c] /\ work[c] = NoMsg]_vars

\* smsgate.go:57 "stop connection with SMPP": the stop does not end the process.
NoPanic == ~panicked
===============================================================================
