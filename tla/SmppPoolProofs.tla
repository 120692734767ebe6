---------------------------- MODULE SmppPoolProofs ----------------------------
(* Proofs about SmppPool, for every set of addresses, messages, connections  *)
(* and every error budget.                                                   *)
EXTENDS SmppPool, TLAPS

-------------------------------------------------------------------------------
(* Types.  TypeOK is not inductive: the loop counter stays in range because  *)
(* a supervisor that goes on has budget left, and the goroutine started by   *)
(* Register is that of a transceiver because the supervisor has made one.    *)

Owning == {"register", "shut", "shutsock", "looptest"} \cup InSession

BudgetLeft == \A a \in Addrs : pc[a] # "ended" => errs[a] < MaxErrors
HasConn == \A a \in Addrs : pc[a] \in Owning => conn[a] \in Conns

TypeInv == TypeOK /\ BudgetLeft /\ HasConn

LEMMA TypeInit == Init => TypeInv
<1> SUFFICES ASSUME Init PROVE TypeInv
  OBVIOUS
<1>1. MaxErrors \in Nat /\ 0 < MaxErrors
  BY PoolAssumption
<1>2. wire \in [Conns -> Seq(Msgs \X Nat)]
  BY DEF Init
<1>a. errs \in [Addrs -> 0..MaxErrors] /\ part \in [Conns -> Nat]
  BY <1>1 DEF Init
<1>3. TypeOK
  BY <1>2, <1>a DEF Init, TypeOK
<1>4. BudgetLeft /\ HasConn
  BY <1>1 DEF Init, BudgetLeft, HasConn, Owning, InSession
<1> QED BY <1>3, <1>4 DEF TypeInv

\* i++ of a supervisor with budget left stays within the budget.
LEMMA RoundInBudget ==
  ASSUME TypeInv, NEW a \in Addrs, pc[a] # "ended", NextRound(a, errs[a])
  PROVE  /\ errs' \in [Addrs -> 0..MaxErrors]
         /\ pc' \in [Addrs -> {"init", "dial", "delay", "register", "shut",
                               "shutsock", "looptest", "ended"} \cup InSession]
         /\ BudgetLeft'
         /\ \A b \in Addrs : pc'[b] \in Owning => pc[b] \in Owning
<1>1. /\ MaxErrors \in Nat
      /\ errs \in [Addrs -> Nat]
      /\ errs[a] < MaxErrors
  BY PoolAssumption DEF TypeInv, TypeOK, BudgetLeft
<1>2. errs' \in [Addrs -> 0..MaxErrors]
  BY <1>1 DEF NextRound, TypeInv, TypeOK
<1>3. /\ pc' \in [Addrs -> {"init", "dial", "delay", "register", "shut",
                            "shutsock", "looptest", "ended"} \cup InSession]
      /\ \A b \in Addrs : pc'[b] \in Owning => pc[b] \in Owning
  BY DEF NextRound, TypeInv, TypeOK, Owning, InSession
<1>4. BudgetLeft'
  BY <1>1 DEF NextRound, TypeInv, TypeOK, BudgetLeft
<1> QED BY <1>2, <1>3, <1>4

\* Append keeps the type of a sequence.
LEMMA AppendTyped ==
  ASSUME NEW S, NEW s \in Seq(S), NEW e \in S
  PROVE  Append(s, e) \in Seq(S)
OBVIOUS

LEMMA TypeStep == TypeInv /\ [Next]_vars => TypeInv'
<1> SUFFICES ASSUME TypeInv, [Next]_vars PROVE TypeInv'
  OBVIOUS
<1> USE PoolAssumption DEF TypeInv, TypeOK, BudgetLeft, HasConn, Owning, InSession
<1>1. CASE UNCHANGED vars
  BY <1>1 DEF vars, supVars, mapVars, sockVars, sendVars, procVars
<1>2. CASE Connect
  BY <1>2 DEF Connect, sockVars, sendVars, procVars
<1>3. CASE CloseBegin
  BY <1>3 DEF CloseBegin, supVars, sockVars, sendVars, procVars
<1>4. CASE Closer
  <2>1. CASE CloseEnd
    BY <2>1 DEF CloseEnd, supVars, sockVars, sendVars, procVars
  <2>2. ASSUME NEW c \in Conns, CloseFlag(c) PROVE TypeInv'
    BY <2>2 DEF CloseFlag, SetClosed, supVars, mapVars, sendVars, procVars
  <2>3. ASSUME NEW c \in Conns, CloseTrx(c) PROVE TypeInv'
    BY <2>3 DEF CloseTrx, CloseSocket, supVars, sendVars, procVars
  <2> QED BY <1>4, <2>1, <2>2, <2>3 DEF Closer
<1>5. ASSUME NEW a \in Addrs, Supervisor(a) PROVE TypeInv'
  <2>1. ASSUME NEW c \in Conns, DialOK(a, c) PROVE TypeInv'
    BY <2>1 DEF DialOK, mapVars, sendVars, procVars
  <2>2. CASE DialFail(a)
    <3>1. errs' \in [Addrs -> 0..MaxErrors]
      BY <2>2 DEF DialFail
    <3>2. BudgetLeft'
      BY <2>2 DEF DialFail
    <3> QED BY <2>2, <3>1, <3>2 DEF DialFail, mapVars, sockVars, sendVars, procVars
  <2>3. CASE EndDelay(a)
    <3>1. NextRound(a, errs[a]) /\ pc[a] # "ended"
      BY <2>3 DEF EndDelay
    <3> QED BY <2>3, <3>1, RoundInBudget DEF EndDelay, mapVars, sockVars, sendVars, procVars
  <2>4. CASE Register(a)
    <3>1. CASE trxsNil
      BY <2>4, <3>1 DEF Register, sockVars
    <3>2. CASE ~trxsNil
      <4>1. conn[a] \in Conns
        BY <2>4 DEF Register
      <4>2. /\ trxs' = [trxs EXCEPT ![a] = conn[a]]
            /\ senders' = senders \cup {conn[a]}
        BY <2>4, <3>2 DEF Register
      <4>3. senders' \subseteq Conns
        BY <4>1, <4>2
      <4>4. trxs' \in [Addrs -> Conns \cup {NoConn}]
        BY <4>1, <4>2
      <4> QED BY <2>4, <3>2, <4>1, <4>3, <4>4 DEF Register, sockVars
    <3> QED BY <3>1, <3>2
  <2>5. CASE ReadError(a)
    BY <2>5 DEF ReadError, mapVars, sockVars, sendVars, procVars
  <2>6. CASE Report(a)
    BY <2>6 DEF Report, mapVars, sockVars, sendVars, procVars
  <2>7. CASE Leave(a)
    BY <2>7 DEF Leave, mapVars, sockVars, sendVars, procVars
  <2>8. CASE Unregister(a)
    BY <2>8 DEF Unregister, sockVars, sendVars, procVars
  <2>9. CASE ShutFlag(a)
    BY <2>9 DEF ShutFlag, SetClosed, mapVars, sendVars, procVars
  <2>10. CASE ShutSocket(a)
    BY <2>10 DEF ShutSocket, CloseSocket, mapVars, sendVars, procVars
  <2>11. CASE LoopTest(a)
    <3>1. CASE failed[a]
      <4>1. NextRound(a, errs[a]) /\ pc[a] # "ended"
        BY <2>11, <3>1 DEF LoopTest
      <4> QED BY <2>11, <3>1, <4>1, RoundInBudget
            DEF LoopTest, mapVars, sockVars, sendVars, procVars
    <3>2. CASE ~failed[a]
      BY <2>11, <3>2 DEF LoopTest, mapVars, sockVars, sendVars, procVars
    <3> QED BY <3>1, <3>2
  <2>12. CASE HandOver(a)
    BY <2>12 DEF HandOver, mapVars, sockVars, sendVars, procVars
  <2> QED BY <1>5, <2>1, <2>2, <2>3, <2>4, <2>5, <2>6, <2>7, <2>8, <2>9, <2>10,
             <2>11, <2>12 DEF Supervisor
<1>6. ASSUME NEW a \in Addrs, QuietSpell(a) PROVE TypeInv'
  BY <1>6 DEF QuietSpell, mapVars, sockVars, sendVars, procVars
<1>7. ASSUME NEW c \in Conns, LinkDown(c) PROVE TypeInv'
  BY <1>7 DEF LinkDown, supVars, mapVars, sendVars, procVars
<1>8. ASSUME NEW c \in Conns, Sending(c) PROVE TypeInv'
  <2>1. ASSUME NEW m \in Msgs, Take(c, m) PROVE TypeInv'
    <3>1. /\ msg' \in [Msgs -> {"new", "rejected", "offered", "taken", "sent", "lost"}]
          /\ part' \in [Conns -> Nat]
          /\ work' \in [Conns -> Msgs \cup {NoMsg}]
      <4>1. CASE isClosed[c]
        BY <2>1, <4>1 DEF Take
      <4>2. CASE ~isClosed[c]
        <5>1. /\ msg' = [msg EXCEPT ![m] = "taken"]
              /\ work' = [work EXCEPT ![c] = m]
              /\ part' = [part EXCEPT ![c] = 0]
          BY <2>1, <4>2 DEF Take
        <5> QED BY <5>1
      <4> QED BY <4>1, <4>2
    <3> QED BY <2>1, <3>1 DEF Take, supVars, mapVars, sockVars, procVars
  <2>2. CASE SubmitPart(c)
    <3>1. work[c] \in Msgs /\ part[c] + 1 \in Nat
      BY <2>2 DEF SubmitPart
    <3>2. /\ wire[c] \in Seq(Msgs \X Nat)
          /\ <<work[c], part[c] + 1>> \in Msgs \X Nat
      <4>1. wire[c] \in Seq(Msgs \X Nat)
        OBVIOUS
      <4> QED BY <3>1, <4>1
    <3>5. Append(wire[c], <<work[c], part[c] + 1>>) \in Seq(Msgs \X Nat)
      BY ONLY <3>2, AppendTyped
    <3>6. wire' = [wire EXCEPT ![c] = Append(@, <<work[c], part[c] + 1>>)]
      BY <2>2 DEF SubmitPart
    <3>3. wire' \in [Conns -> Seq(Msgs \X Nat)]
      BY <3>5, <3>6
    <3>4. /\ part' \in [Conns -> Nat]
          /\ work' \in [Conns -> Msgs \cup {NoMsg}]
          /\ msg' \in [Msgs -> {"new", "rejected", "offered", "taken", "sent", "lost"}]
      BY <2>2, <3>1 DEF SubmitPart
    <3> QED BY <2>2, <3>3, <3>4 DEF SubmitPart, supVars, mapVars, sockVars, procVars
  <2>3. CASE SubmitFail(c)
    BY <2>3 DEF SubmitFail, supVars, mapVars, sockVars, procVars
  <2> QED BY <1>8, <2>1, <2>2, <2>3 DEF Sending
<1>9. ASSUME NEW m \in Msgs, Reject(m) \/ Offer(m) PROVE TypeInv'
  BY <1>9 DEF Reject, Offer, supVars, mapVars, sockVars, procVars
<1>10. ASSUME NEW a \in Addrs, ReadMsg(a) PROVE TypeInv'
  BY <1>10 DEF ReadMsg, mapVars, sockVars, sendVars, procVars
<1>11. CASE Stall
  BY <1>11 DEF Stall, supVars, mapVars, sockVars, sendVars
<1> QED
  BY <1>1, <1>2, <1>3, <1>4, <1>5, <1>6, <1>7, <1>8, <1>9, <1>10, <1>11 DEF Next

\* Every variable keeps its type, in particular the loop counter of smpp.go:61
\* never passes the error budget.
THEOREM TypeCorrect == Spec => []TypeOK
<1>1. Spec => []TypeInv
  BY TypeInit, TypeStep, PTL DEF Spec
<1>2. TypeInv => TypeOK
  BY DEF TypeInv
<1> QED BY <1>1, <1>2, PTL

-------------------------------------------------------------------------------
(* Sessions and Close.  RegisteredIsCurrent, CloseReachesAll and PlannedStop *)
(* are not inductive either; what they rest on:                              *)

\* No two supervisors share a transceiver, and one that was made stays made.
ConnOwned ==
  /\ \A a, b \in Addrs : conn[a] = conn[b] /\ conn[a] # NoConn => a = b
  /\ \A a \in Addrs : conn[a] # NoConn => sock[conn[a]] # "none"

\* The socket that ended a session stays down.
DownStaysDown ==
  /\ \A a \in Addrs : pc[a] \in Owning \ {"register", "reading", "handover"}
                        => sock[conn[a]] \in {"dropped", "closed"}
  /\ \A c \in Conns : sock[c] \in {"dropped", "closed"} => downBy[c] # "none"

\* We close a socket only after its flag is set.
FlagFirst ==
  /\ \A c \in Conns : downBy[c] = "user" => isClosed[c]
  /\ \A a \in Addrs : pc[a] = "shutsock" => isClosed[conn[a]]

\* While Close runs, each session is closed or still on its list.
LoopCovers ==
  closePc = "loop" => \A a \in Addrs : pc[a] \in InSession =>
    conn[a] \in toClose \/ (isClosed[conn[a]] /\ sock[conn[a]] = "closed")

\* Close runs after Connect, and the map it drops is not made again.
MapDropped ==
  /\ closePc # "none" => \A a \in Addrs : pc[a] # "init"
  /\ closePc = "done" => \A a \in Addrs : trxsNil

SessionInv ==
  /\ ConnOwned
  /\ DownStaysDown
  /\ FlagFirst
  /\ LoopCovers
  /\ MapDropped
  /\ RegisteredIsCurrent
  /\ CloseReachesAll
  /\ PlannedStop

LEMMA SessionInit == Init => SessionInv
BY DEF Init, SessionInv, ConnOwned, DownStaysDown, FlagFirst, LoopCovers, MapDropped,
       RegisteredIsCurrent, CloseReachesAll, PlannedStop, Owning, InSession

\* Closing a socket changes nothing about who took down a session that is over.
LEMMA SocketDownOnce ==
  ASSUME TypeInv, SessionInv, NEW c \in Conns, CloseSocket(c)
  PROVE  \A a \in Addrs : pc[a] \in Owning \ {"register", "reading", "handover"}
           => downBy'[conn[a]] = downBy[conn[a]]
BY DEF TypeInv, TypeOK, HasConn, Owning, InSession, SessionInv, DownStaysDown, CloseSocket

LEMMA SessionStep ==
  ASSUME TypeInv, SessionInv, [Next]_vars
  PROVE  SessionInv'
<1> USE DEF TypeInv, TypeOK, HasConn, Owning, InSession, SessionInv, ConnOwned,
            DownStaysDown, FlagFirst, LoopCovers, MapDropped, RegisteredIsCurrent,
            CloseReachesAll, PlannedStop
\* Outgoing messages, time and stuttering touch none of it.
<1>1. CASE UNCHANGED <<pc, conn, failed, mapVars, sockVars>>
  BY <1>1 DEF mapVars, sockVars
<1>2. CASE Connect
  BY <1>2 DEF Connect, sockVars, sendVars, procVars
<1>3. CASE CloseBegin
  <2>1. /\ toClose' = {trxs[a] : a \in Addrs} \ {NoConn}
        /\ UNCHANGED <<pc, conn, failed, trxs, trxsNil, sockVars>>
        /\ closePc' = "loop" /\ closePc # "done" /\ \A a \in Addrs : pc[a] # "init"
    BY <1>3 DEF CloseBegin, supVars
  <2>2. \A a \in Addrs : pc[a] \in InSession => conn[a] \in toClose'
    <3> SUFFICES ASSUME NEW a \in Addrs, pc[a] \in InSession PROVE conn[a] \in toClose'
      OBVIOUS
    <3>1. conn[a] \in Conns /\ trxs[a] = conn[a]
      BY <2>1
    <3> QED BY <2>1, <3>1, PoolAssumption
  <2>3. LoopCovers'
    BY <2>1, <2>2
  <2> QED BY <2>1, <2>3 DEF sockVars
<1>4. CASE CloseEnd
  BY <1>4 DEF CloseEnd, supVars, sockVars, sendVars, procVars
<1>5. ASSUME NEW c \in Conns, CloseFlag(c) PROVE SessionInv'
  BY <1>5 DEF CloseFlag, SetClosed, supVars, mapVars, sendVars, procVars
<1>6. ASSUME NEW c \in Conns, CloseTrx(c) PROVE SessionInv'
  <2>1. PlannedStop'
    BY <1>6, SocketDownOnce DEF CloseTrx, supVars
  <2>2. FlagFirst' /\ DownStaysDown' /\ ConnOwned' /\ MapDropped'
    BY <1>6 DEF CloseTrx, CloseSocket, supVars
  <2>3. LoopCovers'
    BY <1>6 DEF CloseTrx, CloseSocket, supVars
  <2>4. RegisteredIsCurrent' /\ CloseReachesAll'
    BY <1>6 DEF CloseTrx, supVars
  <2> QED BY <2>1, <2>2, <2>3, <2>4
<1>7. ASSUME NEW a \in Addrs, NEW c \in Conns, DialOK(a, c) PROVE SessionInv'
  BY <1>7 DEF DialOK, mapVars, sendVars, procVars
<1>8. ASSUME NEW a \in Addrs, DialFail(a) PROVE SessionInv'
  BY <1>8 DEF DialFail, mapVars, sockVars, sendVars, procVars
<1>9. ASSUME NEW a \in Addrs, EndDelay(a) PROVE SessionInv'
  BY <1>9 DEF EndDelay, NextRound, mapVars, sockVars, sendVars, procVars
<1>10. ASSUME NEW a \in Addrs, Register(a) PROVE SessionInv'
  <2>1. CASE trxsNil
    <3>1. UNCHANGED <<pc, conn, failed, mapVars, sockVars>>
      BY <1>10, <2>1 DEF Register, mapVars
    <3> QED BY <1>1, <3>1
  <2>2. CASE ~trxsNil
    <3>1. /\ pc' = [pc EXCEPT ![a] = "reading"] /\ pc[a] = "register"
          /\ trxs' = [trxs EXCEPT ![a] = conn[a]]
          /\ closePc = "none" /\ closePc' = closePc
          /\ UNCHANGED <<conn, failed, trxsNil, toClose, sock, isClosed, downBy>>
      BY <1>10, <2>2 DEF Register, sockVars
    <3> QED BY <3>1
  <2> QED BY <2>1, <2>2
<1>11. ASSUME NEW a \in Addrs, ReadError(a) PROVE SessionInv'
  <2>1. conn[a] \in Conns /\ conn[a] # NoConn /\ sock[conn[a]] # "up"
    BY <1>11, PoolAssumption DEF ReadError
  <2>2. sock[conn[a]] \in {"dropped", "closed"}
    BY <2>1
  <2>3. DownStaysDown'
    BY <1>11, <2>2 DEF ReadError, sockVars
  <2> QED BY <1>11, <2>3 DEF ReadError, mapVars, sockVars, sendVars, procVars
<1>12. ASSUME NEW a \in Addrs, Report(a) PROVE SessionInv'
  BY <1>12 DEF Report, mapVars, sockVars, sendVars, procVars
<1>13. ASSUME NEW a \in Addrs, Leave(a) PROVE SessionInv'
  <2>1. downBy[conn[a]] = "user" => failed'[a] = FALSE
    BY <1>13 DEF Leave
  <2>2. PlannedStop'
    BY <1>13, <2>1 DEF Leave, sockVars
  <2> QED BY <1>13, <2>2 DEF Leave, mapVars, sockVars, sendVars, procVars
<1>14. ASSUME NEW a \in Addrs, Unregister(a) PROVE SessionInv'
  BY <1>14 DEF Unregister, sockVars, sendVars, procVars
<1>15. ASSUME NEW a \in Addrs, ShutFlag(a) PROVE SessionInv'
  BY <1>15 DEF ShutFlag, SetClosed, mapVars, sendVars, procVars
<1>16. ASSUME NEW a \in Addrs, ShutSocket(a) PROVE SessionInv'
  <2>1. conn[a] \in Conns
    BY <1>16 DEF ShutSocket
  <2>2. PlannedStop'
    <3>1. \A b \in Addrs : pc'[b] \in Owning \ {"register", "reading", "handover"}
                             => pc[b] \in Owning \ {"register", "reading", "handover"}
      BY <1>16 DEF ShutSocket
    <3>2. \A b \in Addrs : pc'[b] \in Owning \ {"register", "reading", "handover"}
                             => downBy'[conn[b]] = downBy[conn[b]]
      BY <1>16, <2>1, <3>1, SocketDownOnce DEF ShutSocket
    <3> QED BY <1>16, <3>1, <3>2 DEF ShutSocket
  <2>3. FlagFirst' /\ DownStaysDown' /\ ConnOwned' /\ MapDropped'
    BY <1>16, <2>1 DEF ShutSocket, CloseSocket, mapVars
  <2>4. \A b \in Addrs : pc'[b] \in InSession =>
          /\ pc[b] \in InSession /\ conn'[b] = conn[b]
          /\ isClosed'[conn[b]] = isClosed[conn[b]]
          /\ sock[conn[b]] = "closed" => sock'[conn[b]] = "closed"
    BY <1>16, <2>1 DEF ShutSocket, CloseSocket
  <2>5. LoopCovers' /\ CloseReachesAll'
    BY <1>16, <2>4 DEF ShutSocket, mapVars
  <2>6. RegisteredIsCurrent'
    BY <1>16 DEF ShutSocket, mapVars
  <2> QED BY <2>2, <2>3, <2>5, <2>6
<1>17. ASSUME NEW a \in Addrs, LoopTest(a) PROVE SessionInv'
  <2>1. PICK p \in {"dial", "ended"} : pc' = [pc EXCEPT ![a] = p]
    BY <1>17 DEF LoopTest, NextRound
  <2>2. pc[a] = "looptest" /\ UNCHANGED <<conn, failed, mapVars, sockVars>>
    BY <1>17 DEF LoopTest
  <2> QED BY <2>1, <2>2 DEF mapVars, sockVars
<1>18. ASSUME NEW c \in Conns, LinkDown(c) PROVE SessionInv'
  BY <1>18 DEF LinkDown, supVars, mapVars, sendVars, procVars
<1>19. ASSUME NEW a \in Addrs, QuietSpell(a)
       PROVE  UNCHANGED <<pc, conn, failed, mapVars, sockVars>>
  BY <1>19 DEF QuietSpell
<1>20. ASSUME NEW c \in Conns, Sending(c)
       PROVE  UNCHANGED <<pc, conn, failed, mapVars, sockVars>>
  BY <1>20 DEF Sending, Take, SubmitPart, SubmitFail, supVars
<1>21. ASSUME NEW m \in Msgs, Reject(m) \/ Offer(m)
       PROVE  UNCHANGED <<pc, conn, failed, mapVars, sockVars>>
  BY <1>21 DEF Reject, Offer, supVars
<1>22. CASE UNCHANGED vars
  BY <1>1, <1>22 DEF vars, supVars
<1>23. ASSUME NEW a \in Addrs, HandOver(a) \/ ReadMsg(a) PROVE SessionInv'
  BY <1>23 DEF HandOver, ReadMsg, mapVars, sockVars, sendVars
<1>25. CASE Stall
  BY <1>1, <1>25 DEF Stall, supVars
<1>26. ASSUME NEW a \in Addrs, Supervisor(a) PROVE SessionInv'
  BY <1>7, <1>8, <1>9, <1>10, <1>11, <1>12, <1>13, <1>14, <1>15, <1>16, <1>17, <1>23, <1>26
     DEF Supervisor
<1>24. CASE Closer
  BY <1>4, <1>5, <1>6, <1>24 DEF Closer
<1> QED
  BY <1>1, <1>2, <1>3, <1>18, <1>19, <1>20, <1>21, <1>22, <1>23, <1>24, <1>25, <1>26 DEF Next

\* Supervisors own their transceivers, flags are set before sockets are closed, and
\* Close has every session on its list (smpp.go:52-124, tranceiver.go:46-50).
THEOREM PoolInvariant == Spec => [](TypeInv /\ SessionInv)
<1>1. Init => TypeInv /\ SessionInv
  BY TypeInit, SessionInit
<1>2. TypeInv /\ SessionInv /\ [Next]_vars => (TypeInv /\ SessionInv)'
  BY TypeStep, SessionStep
<1> QED BY <1>1, <1>2, PTL DEF Spec

\* The map holds exactly the transceivers whose session runs, until Close
\* (smpp.go:95-104), however many addresses reconnect at once.
THEOREM MapIsCurrent == Spec => []RegisteredIsCurrent
<1>1. SessionInv => RegisteredIsCurrent
  BY DEF SessionInv
<1> QED BY <1>1, PoolInvariant, PTL

\* No session outlives SMPP.Close on a transceiver that Close has not closed
\* (smpp.go:117-124).
THEOREM CloseIsComplete == Spec => []CloseReachesAll
<1>1. SessionInv => CloseReachesAll
  BY DEF SessionInv
<1> QED BY <1>1, PoolInvariant, PTL

\* A session Close took down is never counted as an error: its address is not
\* dialled again (tranceiver.go:46-50, 162-166).
THEOREM StopIsPlanned == Spec => []PlannedStop
<1>1. SessionInv => PlannedStop
  BY DEF SessionInv
<1> QED BY <1>1, PoolInvariant, PTL
===============================================================================
