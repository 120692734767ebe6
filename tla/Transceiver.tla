------------------------------ MODULE Transceiver ------------------------------
(*****************************************************************************)
(* smpp/transceiver.go: one SMPP transceiver from its bind request to the    *)
(* end of its session.  Four goroutines share it: the one that runs          *)
(* newTransceiver, the bind check, the enquire-link loop, and the reader     *)
(* (sms.Transceiver.reading, whose owner closes the transceiver when it      *)
(* ends); SMPP.Close may close it at any time.                               *)
(*                                                                           *)
(* PDUs are their kinds.  Time is counted in units of 5 seconds, the delay   *)
(* of the bind check; timers have the semantics of Go before 1.23 (go.mod    *)
(* says 1.21): Stop and Reset leave a value that is already in the channel.  *)
(*****************************************************************************)
EXTENDS Naturals, Sequences

CONSTANTS Eli,      \* enquire-link interval, in units; at least 10 seconds
          PipeMax,  \* PDUs the peer has in flight, and requests it still answers: more
            \* go unanswered (bounds a run)
          Requests  \* PDUs the peer may send unasked (bounds a run)

ASSUME TimerAssumption == Eli \in Nat /\ Eli >= 2
ASSUME BoundAssumption == PipeMax \in Nat \ {0} /\ Requests \in Nat

CheckDelay == Eli \div 2   \* eli / 2, the delay of the check timer
BindDelay  == 1            \* the 5 seconds of bindCheck

VARIABLES
  creator,   \* newTransceiver: "bind", "wait" (for the response), "got",
             \* "done" (it returned the transceiver) or "failed"
  answer,    \* the PDU Bind has read, while "got"
  bound,     \* Smpp.Bound
  checker,   \* bindCheck: "none", "asleep" or "ended"
  napLeft,   \* units it has still to sleep
  err,       \* Transceiver.Err: "none", "BindResp", "ELWrite" or "ELResp"
  sock,      \* "up", "dropped" (by the peer) or "closed" (by us)
  enquirer,  \* startEnquireLink: "none", "start", "select", "write", "reset", "ended"
  ticker,    \* units to the next tick; 0: eLTicker stopped or not made
  tickC,     \* its channel holds a tick
  check,     \* units until eLCheckTimer expires; 0: stopped or not made
  checkC,    \* its channel holds an expiry
  reader,    \* "none", "read", "unbind" (about to Close after UNBIND),
             \* "closing" (its owner is about to Close) or "ended"
  toUs,      \* PDUs the peer has sent, oldest first
  peer,      \* "alive", "silent" (TCP stays up) or "gone" (it closed)
  pending,   \* requests the peer has got and not answered
  budget,    \* PDUs the peer may still send unasked
  owed       \* no response to the last enquire link has been read (history)

bindVars == <<creator, answer, checker, napLeft>>
timeVars == <<ticker, tickC, check, checkC>>
peerVars == <<peer, pending, budget>>
linkVars == <<bound, err, sock>>
vars == <<bindVars, timeVars, peerVars, linkVars, enquirer, reader, toUs, owed>>

\* What the peer sends of its own accord.  It sends no ENQUIRE_LINK_RESP that was not
\* asked for: one read before MakeTimers would make Read call Stop on a nil timer.
Unasked == {"el", "unbind", "data", "bad"}
Kinds   == {"bind_ok", "bind_no", "el_resp"} \cup Unasked

TypeOK ==
  /\ creator \in {"bind", "wait", "got", "done", "failed"}
  /\ answer \in Kinds \cup {"none"}
  /\ bound \in BOOLEAN
  /\ checker \in {"none", "asleep", "ended"}
  /\ napLeft \in 0..BindDelay
  /\ err \in {"none", "BindResp", "ELWrite", "ELResp"}
  /\ sock \in {"up", "dropped", "closed"}
  /\ enquirer \in {"none", "start", "select", "write", "reset", "ended"}
  /\ ticker \in 0..Eli /\ check \in 0..CheckDelay
  /\ tickC \in BOOLEAN /\ checkC \in BOOLEAN
  /\ reader \in {"none", "read", "unbind", "closing", "ended"}
  /\ toUs \in Seq(Kinds)
  /\ peer \in {"alive", "silent", "gone"}
  /\ pending \in Seq({"bind", "el"})
  /\ budget \in 0..Requests
  /\ owed \in BOOLEAN

\* The TCP connection has been made, Bind is about to be called.
Init ==
  /\ creator = "bind" /\ answer = "none" /\ checker = "none" /\ napLeft = 0
  /\ bound = FALSE /\ err = "none" /\ sock = "up"
  /\ enquirer = "none" /\ ticker = 0 /\ check = 0 /\ tickC = FALSE /\ checkC = FALSE
  /\ reader = "none" /\ toUs = <<>>
  /\ peer = "alive" /\ pending = <<>> /\ budget = Requests
  /\ owed = FALSE

-------------------------------------------------------------------------------
(* The socket.  A write fails when it is closed and may fail when the peer   *)
(* has gone; a silent peer's window takes the few small PDUs of a session.   *)
CanWrite == sock \in {"up", "dropped"}
CanFail  == sock \in {"dropped", "closed"}
Ask(kind) == pending' = IF peer = "alive" /\ Len(pending) < PipeMax
                        THEN Append(pending, kind) ELSE pending

\* A read returns the next PDU, or an error.
HasPdu    == sock # "closed" /\ toUs # <<>>
ReadFails == sock = "closed" \/ (sock = "dropped" /\ toUs = <<>>)

\* Transceiver.Close: stop the timers that exist, close the connection.
Close == sock' = "closed" /\ ticker' = 0 /\ check' = 0 /\ UNCHANGED <<tickC, checkC>>

-------------------------------------------------------------------------------
(* newTransceiver, Bind and bindCheck.                                       *)

\* Mutant: bindCheck is not started before the response has been read.
BindWriteUnchecked ==
  /\ creator = "bind" /\ CanWrite
  /\ creator' = "wait" /\ Ask("bind")
  /\ UNCHANGED <<answer, checker, napLeft, timeVars, peer, budget, linkVars,
                 enquirer, reader, toUs, owed>>

\* Mutant: bindCheck sleeps for the enquire-link interval.
BindWriteLongNap ==
  /\ creator = "bind" /\ CanWrite
  /\ creator' = "wait" /\ Ask("bind")
  /\ checker' = "asleep" /\ napLeft' = Eli
  /\ UNCHANGED <<answer, timeVars, peer, budget, linkVars, enquirer, reader,
                 toUs, owed>>

\* The bind request is written and bindCheck started.
BindWrite ==
  /\ creator = "bind" /\ CanWrite
  /\ creator' = "wait" /\ Ask("bind")
  /\ checker' = "asleep" /\ napLeft' = BindDelay
  /\ UNCHANGED <<answer, timeVars, peer, budget, linkVars, enquirer, reader,
                 toUs, owed>>

BindWriteFails ==
  /\ creator = "bind" /\ CanFail
  /\ creator' = "failed"
  /\ UNCHANGED <<answer, checker, napLeft, timeVars, peerVars, linkVars,
                 enquirer, reader, toUs, owed>>

\* The blocking Read of Bind.
BindRead ==
  /\ creator = "wait"
  /\ \/ /\ HasPdu
        /\ creator' = "got" /\ answer' = Head(toUs) /\ toUs' = Tail(toUs)
     \/ /\ ReadFails
        /\ creator' = "failed" /\ UNCHANGED <<answer, toUs>>
  /\ UNCHANGED <<checker, napLeft, timeVars, peerVars, linkVars, enquirer,
                 reader, owed>>

\* Not a bind response, or a refusal: Bind fails and leaves the connection open
\* for bindCheck to close.
BindRefused ==
  /\ creator = "got" /\ answer # "bind_ok"
  /\ creator' = "failed" /\ answer' = "none"
  /\ UNCHANGED <<checker, napLeft, timeVars, peerVars, linkVars, enquirer,
                 reader, toUs, owed>>

\* Bound: the enquire-link goroutine and the caller's reader start.
BindAccepted ==
  /\ creator = "got" /\ answer = "bind_ok"
  /\ creator' = "done" /\ answer' = "none" /\ bound' = TRUE
  /\ enquirer' = "start" /\ reader' = "read"
  /\ UNCHANGED <<checker, napLeft, timeVars, peerVars, err, sock, toUs, owed>>

\* bindCheck wakes up 5 seconds after the request.
BindCheck ==
  /\ checker = "asleep" /\ napLeft = 0
  /\ checker' = "ended"
  /\ IF bound
     THEN UNCHANGED <<err, sock, timeVars>>
     ELSE err' = "BindResp" /\ Close
  /\ UNCHANGED <<creator, answer, napLeft, bound, peerVars, enquirer, reader,
                 toUs, owed>>

-------------------------------------------------------------------------------
(* startEnquireLink.                                                         *)

\* Both timers are made, the check timer stopped.
MakeTimers ==
  /\ enquirer = "start"
  /\ enquirer' = "select" /\ ticker' = Eli
  /\ UNCHANGED <<bindVars, tickC, check, checkC, peerVars, linkVars, reader,
                 toUs, owed>>

Tick ==
  /\ enquirer = "select" /\ tickC
  /\ enquirer' = "write" /\ tickC' = FALSE
  /\ UNCHANGED <<bindVars, ticker, check, checkC, peerVars, linkVars, reader,
                 toUs, owed>>

WriteEnquire ==
  /\ enquirer = "write" /\ CanWrite
  /\ enquirer' = "reset" /\ Ask("el") /\ owed' = TRUE
  /\ UNCHANGED <<bindVars, timeVars, peer, budget, linkVars, reader, toUs>>

\* Mutant: the loop goes on after a failed write.
WriteEnquireIgnored ==
  /\ enquirer = "write" /\ CanFail
  /\ enquirer' = "select" /\ err' = "ELWrite"
  /\ UNCHANGED <<bindVars, timeVars, peerVars, bound, sock, reader, toUs, owed>>

WriteEnquireFails ==
  /\ enquirer = "write" /\ CanFail
  /\ enquirer' = "ended" /\ err' = "ELWrite" /\ Close
  /\ UNCHANGED <<bindVars, bound, peerVars, reader, toUs, owed>>

\* Mutant: the check timer is left stopped.
ResetNothing ==
  /\ enquirer = "reset"
  /\ enquirer' = "select"
  /\ UNCHANGED <<bindVars, timeVars, peerVars, linkVars, reader, toUs, owed>>

\* eLCheckTimer.Reset(d), whatever has happened since the write.
ResetCheck ==
  /\ enquirer = "reset"
  /\ enquirer' = "select" /\ check' = CheckDelay
  /\ UNCHANGED <<bindVars, ticker, tickC, checkC, peerVars, linkVars, reader,
                 toUs, owed>>

CheckExpired ==
  /\ enquirer = "select" /\ checkC
  /\ enquirer' = "ended" /\ err' = "ELResp"
  /\ sock' = "closed" /\ ticker' = 0 /\ check' = 0 /\ checkC' = FALSE
  /\ UNCHANGED <<bindVars, tickC, bound, peerVars, reader, toUs, owed>>

-------------------------------------------------------------------------------
(* Read, called by the reader in a loop until it returns an error.           *)

\* Mutant: the reader goes on after an error.
ReadErrorIgnored ==
  /\ reader = "read" /\ ReadFails
  /\ UNCHANGED vars

ReadError ==
  /\ reader = "read" /\ ReadFails
  /\ reader' = "closing"
  /\ UNCHANGED <<bindVars, timeVars, peerVars, linkVars, enquirer, toUs, owed>>

\* SUBMIT_SM_RESP, DELIVER_SM: handed up.  Unknown PDUs: SmppPduErr.
ReadPlain ==
  /\ reader = "read" /\ HasPdu /\ Head(toUs) \notin {"el", "el_resp", "unbind"}
  /\ toUs' = Tail(toUs)
  /\ reader' = IF Head(toUs) = "data" THEN "read" ELSE "closing"
  /\ UNCHANGED <<bindVars, timeVars, peerVars, linkVars, enquirer, owed>>

\* ENQUIRE_LINK: answered; if the answer cannot be written Read fails.
ReadEnquire ==
  /\ reader = "read" /\ HasPdu /\ Head(toUs) = "el"
  /\ toUs' = Tail(toUs)
  /\ reader' \in {r \in {"read", "closing"} : r = "closing" => CanFail}
  /\ UNCHANGED <<bindVars, timeVars, peerVars, linkVars, enquirer, owed>>

\* ENQUIRE_LINK_RESP: eLCheckTimer.Stop().
ReadEnquireResp ==
  /\ reader = "read" /\ HasPdu /\ Head(toUs) = "el_resp"
  /\ toUs' = Tail(toUs) /\ check' = 0 /\ owed' = FALSE
  /\ UNCHANGED <<bindVars, ticker, tickC, checkC, peerVars, linkVars, enquirer,
                 reader>>

\* UNBIND: UnbindResp clears Bound if it could be written, then Close.
ReadUnbind ==
  /\ reader = "read" /\ HasPdu /\ Head(toUs) = "unbind"
  /\ toUs' = Tail(toUs)
  /\ bound' \in {b \in BOOLEAN : b => CanFail}
  /\ reader' = "unbind"
  /\ UNCHANGED <<bindVars, timeVars, peerVars, err, sock, enquirer, owed>>

UnbindClose ==
  /\ reader = "unbind"
  /\ reader' = "read" /\ Close
  /\ UNCHANGED <<bindVars, peerVars, bound, err, enquirer, toUs, owed>>

\* The owner of a reader that has ended closes the transceiver.
OwnerClose ==
  /\ reader = "closing"
  /\ reader' = "ended" /\ Close
  /\ UNCHANGED <<bindVars, peerVars, bound, err, enquirer, toUs, owed>>

\* SMPP.Close, any time after newTransceiver has returned.
UserClose ==
  /\ creator = "done" /\ sock # "closed"
  /\ Close
  /\ UNCHANGED <<bindVars, peerVars, bound, err, enquirer, reader, toUs, owed>>

-------------------------------------------------------------------------------
(* The SMSC and the network: answers in order, sends unasked, goes.          *)
CanDeliver == peer = "alive" /\ sock = "up" /\ Len(toUs) < PipeMax

PeerAnswer ==
  /\ CanDeliver /\ pending # <<>>
  /\ \E r \in IF Head(pending) = "bind" THEN {"bind_ok", "bind_no"} ELSE {"el_resp"} :
       toUs' = Append(toUs, r)
  /\ pending' = Tail(pending)
  /\ UNCHANGED <<bindVars, timeVars, peer, budget, linkVars, enquirer, reader, owed>>

PeerSend ==
  /\ CanDeliver /\ budget > 0
  /\ \E k \in Unasked : toUs' = Append(toUs, k)
  /\ budget' = budget - 1
  /\ UNCHANGED <<bindVars, timeVars, peer, pending, linkVars, enquirer, reader, owed>>

PeerGoes ==
  /\ peer = "alive"
  /\ \/ peer' = "silent" /\ UNCHANGED sock
     \/ peer' = "gone" /\ sock' = IF sock = "up" THEN "dropped" ELSE sock
  /\ pending' = <<>>
  /\ UNCHANGED <<bindVars, timeVars, budget, bound, err, enquirer, reader, toUs, owed>>

\* 5 seconds pass.  The channels hold one value each.
Elapse ==
  /\ napLeft > 0 \/ ticker > 0 \/ check > 0
  /\ napLeft' = IF napLeft > 0 THEN napLeft - 1 ELSE 0
  /\ ticker' = IF ticker = 1 THEN Eli ELSE IF ticker > 1 THEN ticker - 1 ELSE 0
  /\ tickC' = (tickC \/ ticker = 1)
  /\ check' = IF check > 0 THEN check - 1 ELSE 0
  /\ checkC' = (checkC \/ check = 1)
  /\ UNCHANGED <<creator, answer, checker, peerVars, linkVars, enquirer, reader,
                 toUs, owed>>

-------------------------------------------------------------------------------
Creating  == BindWrite \/ BindWriteFails \/ BindRead \/ BindRefused \/ BindAccepted
Enquiring == MakeTimers \/ Tick \/ WriteEnquire \/ WriteEnquireFails \/ ResetCheck
             \/ CheckExpired
Reading   == ReadError \/ ReadPlain \/ ReadEnquire \/ ReadEnquireResp \/ ReadUnbind
             \/ UnbindClose \/ OwnerClose

Next == Creating \/ BindCheck \/ Enquiring \/ Reading \/ UserClose
        \/ PeerAnswer \/ PeerSend \/ PeerGoes \/ Elapse

Spec == Init /\ [][Next]_vars

\* Goroutines are scheduled and time passes; a select with both channels ready
\* picks either at random, so it does not pass over the check timer for ever.
Fairness ==
  /\ WF_vars(Creating) /\ WF_vars(BindCheck)
  /\ WF_vars(Enquiring) /\ SF_vars(CheckExpired)
  /\ WF_vars(Reading) /\ WF_vars(Elapse)

FairSpec == Spec /\ Fairness

-------------------------------------------------------------------------------
(* Liveness.                                                                 *)

\* A peer that falls silent during a session is noticed, even if responses of
\* its are still in flight: enquire links end the connection (transceiver.go:126-148).
DeadPeerDetected == (creator = "done" /\ peer = "silent") ~> sock = "closed"

\* newTransceiver returns, whatever the peer does after the TCP connect.
BindDecides == (creator = "wait") ~> (creator \in {"done", "failed"})

\* A bind that was refused, or failed, leaves no open connection behind, though
\* newTransceiver itself returns without closing it (transceiver.go:43-45, 62-73).
FailedBindClosed == (creator = "failed") ~> (sock # "up")

\* A session whose connection is down ends, and its owner learns of it.
ReaderEnds == (reader = "read" /\ sock # "up") ~> reader = "ended"

\* Nothing runs on behalf of a transceiver that was closed, whoever closed it and
\* whatever the enquire-link goroutine was doing, making its timers included: in
\* the end it has returned, or waits in its select for timers that are stopped and
\* channels that are empty (transceiver.go:126-148, 185-194).
ClosedGoesQuiet ==
  (sock = "closed") ~>
    [](/\ ticker = 0 /\ check = 0
       /\ enquirer \in {"none", "ended"} \/ (enquirer = "select" /\ ~tickC /\ ~checkC))

(* What the code's own error values say and the code does not do.            *)

\* smpp.go:34 "No enquire link response": the check timer expires only while
\* the response to the last enquire link has not been read.
TimerOnlyWhenOwed == [][checkC' /\ ~checkC => owed]_vars
===============================================================================
