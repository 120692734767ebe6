--------------------------- MODULE TransceiverProofs ---------------------------
(* Type correctness of Transceiver, for every enquire-link interval and any  *)
(* number of PDUs in flight.                                                 *)
EXTENDS Transceiver, TLAPS

\* TypeOK is not inductive: the creator looks at an answer only if it has read one,
\* and the timers run only between their making and the end of the loop.
TimersMade ==
  /\ enquirer \in {"none", "start", "ended"} => ticker = 0 /\ check = 0
  /\ enquirer = "none" <=> creator # "done"

TimerInv == TypeOK /\ TimersMade

\* What a timer may be set to.
LEMMA Delays ==
  /\ 0 \in 0..Eli /\ Eli \in 0..Eli
  /\ 0 \in 0..CheckDelay /\ CheckDelay \in 0..CheckDelay
  /\ 0 \in 0..BindDelay /\ BindDelay \in 0..BindDelay
BY TimerAssumption DEF CheckDelay, BindDelay

LEMMA TimerInit == Init => TimerInv
<1> SUFFICES ASSUME Init PROVE TimerInv
  OBVIOUS
<1>1. budget \in 0..Requests
  BY BoundAssumption DEF Init
<1>2. toUs \in Seq(Kinds) /\ pending \in Seq({"bind", "el"})
  BY DEF Init
<1> QED BY <1>1, <1>2, Delays DEF Init, TimerInv, TypeOK, TimersMade

\* Queues of PDUs and of requests.
LEMMA QueueTyped ==
  ASSUME NEW S, NEW q \in Seq(S)
  PROVE  /\ \A e \in S : Append(q, e) \in Seq(S)
         /\ q # <<>> => Head(q) \in S /\ Tail(q) \in Seq(S)
OBVIOUS

LEMMA AskTyped ==
  ASSUME TypeOK, NEW k \in {"bind", "el"}, Ask(k)
  PROVE  pending' \in Seq({"bind", "el"})
BY QueueTyped DEF TypeOK, Ask

LEMMA TakenTyped ==
  ASSUME TypeOK, HasPdu
  PROVE  Head(toUs) \in Kinds /\ Tail(toUs) \in Seq(Kinds)
BY QueueTyped DEF TypeOK, HasPdu

LEMMA TimerStep == TimerInv /\ [Next]_vars => TimerInv'
<1> SUFFICES ASSUME TimerInv, [Next]_vars PROVE TimerInv'
  OBVIOUS
<1> USE DEF TimerInv, TypeOK, TimersMade
<1>1. CASE UNCHANGED vars
  BY <1>1 DEF vars, bindVars, timeVars, peerVars, linkVars
<1>2. CASE Creating
  <2>1. CASE BindWrite
    <3>1. pending' \in Seq({"bind", "el"})
      BY <2>1, AskTyped DEF BindWrite
    <3>2. /\ creator = "bind" /\ creator' = "wait" /\ checker' = "asleep"
          /\ napLeft' \in 0..BindDelay
          /\ UNCHANGED <<answer, timeVars, peer, budget, linkVars, enquirer, reader, toUs,
                         owed>>
      BY <2>1, Delays DEF BindWrite
    <3> QED BY <3>1, <3>2 DEF timeVars, linkVars
  <2>2. CASE BindWriteFails
    BY <2>2 DEF BindWriteFails, timeVars, peerVars, linkVars
  <2>3. CASE BindRead
    BY <2>3, TakenTyped DEF BindRead, timeVars, peerVars, linkVars
  <2>4. CASE BindRefused
    BY <2>4 DEF BindRefused, timeVars, peerVars, linkVars
  <2>5. CASE BindAccepted
    BY <2>5 DEF BindAccepted, timeVars, peerVars
  <2> QED BY <1>2, <2>1, <2>2, <2>3, <2>4, <2>5 DEF Creating
<1>3. CASE BindCheck
  BY <1>3, Delays DEF BindCheck, Close, timeVars, peerVars
<1>4. CASE Enquiring
  <2>1. CASE MakeTimers
    BY <2>1, Delays DEF MakeTimers, bindVars, peerVars, linkVars
  <2>2. CASE Tick
    <3>1. /\ enquirer = "select" /\ enquirer' = "write" /\ tickC' \in BOOLEAN
          /\ UNCHANGED <<bindVars, ticker, check, checkC, peerVars, linkVars, reader, toUs,
                         owed>>
      BY <2>2 DEF Tick
    <3> QED BY <3>1 DEF bindVars, peerVars, linkVars
  <2>3. CASE WriteEnquire
    BY <2>3, AskTyped DEF WriteEnquire, bindVars, timeVars, linkVars
  <2>4. CASE WriteEnquireFails
    BY <2>4, Delays DEF WriteEnquireFails, Close, bindVars, peerVars
  <2>5. CASE ResetCheck
    BY <2>5, Delays DEF ResetCheck, bindVars, peerVars, linkVars
  <2>6. CASE CheckExpired
    BY <2>6, Delays DEF CheckExpired, bindVars, peerVars
  <2> QED BY <1>4, <2>1, <2>2, <2>3, <2>4, <2>5, <2>6 DEF Enquiring
<1>5. CASE Reading
  <2>1. CASE ReadError
    BY <2>1 DEF ReadError, bindVars, timeVars, peerVars, linkVars
  <2>2. CASE ReadPlain
    BY <2>2, TakenTyped DEF ReadPlain, bindVars, timeVars, peerVars, linkVars
  <2>3. CASE ReadEnquire
    BY <2>3, TakenTyped DEF ReadEnquire, bindVars, timeVars, peerVars, linkVars
  <2>4. CASE ReadEnquireResp
    <3>1. toUs' \in Seq(Kinds) /\ check' \in 0..CheckDelay /\ owed' \in BOOLEAN
      BY <2>4, TakenTyped, Delays DEF ReadEnquireResp
    <3>2. /\ check' = 0
          /\ UNCHANGED <<bindVars, ticker, tickC, checkC, peerVars, linkVars, enquirer,
                         reader>>
      BY <2>4 DEF ReadEnquireResp
    <3> QED BY <3>1, <3>2 DEF bindVars, peerVars, linkVars
  <2>5. CASE ReadUnbind
    BY <2>5, TakenTyped DEF ReadUnbind, bindVars, timeVars, peerVars
  <2>6. CASE UnbindClose
    BY <2>6, Delays DEF UnbindClose, Close, bindVars, peerVars
  <2>7. CASE OwnerClose
    BY <2>7, Delays DEF OwnerClose, Close, bindVars, peerVars
  <2> QED BY <1>5, <2>1, <2>2, <2>3, <2>4, <2>5, <2>6, <2>7 DEF Reading
<1>6. CASE UserClose
  BY <1>6, Delays DEF UserClose, Close, bindVars, peerVars
<1>7. CASE PeerAnswer
  <2>1. PICK r \in Kinds : toUs' = Append(toUs, r)
    BY <1>7 DEF PeerAnswer, Kinds
  <2>2. toUs' \in Seq(Kinds)
    BY <2>1, QueueTyped
  <2>3. pending' \in Seq({"bind", "el"})
    BY <1>7, QueueTyped DEF PeerAnswer
  <2> QED BY <1>7, <2>2, <2>3 DEF PeerAnswer, bindVars, timeVars, linkVars
<1>8. CASE PeerSend
  <2>1. PICK k \in Kinds : toUs' = Append(toUs, k)
    BY <1>8 DEF PeerSend, Kinds
  <2>2. toUs' \in Seq(Kinds)
    BY <2>1, QueueTyped
  <2>3. budget' \in 0..Requests
    BY <1>8, BoundAssumption DEF PeerSend
  <2> QED BY <1>8, <2>2, <2>3 DEF PeerSend, bindVars, timeVars, linkVars
<1>9. CASE PeerGoes
  BY <1>9 DEF PeerGoes, bindVars, timeVars
<1>10. CASE Elapse
  <2>1. napLeft' \in 0..BindDelay /\ ticker' \in 0..Eli /\ check' \in 0..CheckDelay
    BY <1>10, TimerAssumption DEF Elapse, CheckDelay, BindDelay
  <2>2. TimersMade'
    BY <1>10 DEF Elapse
  <2> QED BY <1>10, <2>1, <2>2 DEF Elapse, peerVars, linkVars
<1> QED
  BY <1>1, <1>2, <1>3, <1>4, <1>5, <1>6, <1>7, <1>8, <1>9, <1>10 DEF Next

\* Every variable of a transceiver keeps its type; in particular no timer is ever set
\* for longer than the interval it was made with (transceiver.go:109-148), and only
\* the enquire-link loop has timers.
THEOREM TransceiverTypes == Spec => []TypeOK
<1>1. TimerInv => TypeOK
  BY DEF TimerInv
<1> QED BY <1>1, TimerInit, TimerStep, PTL DEF Spec
===============================================================================
