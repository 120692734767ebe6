--------------------------- MODULE SmppServerProofs ---------------------------
(* Proofs about SmppServer, for every set of connections, system ids and     *)
(* messages and every capacity of the channel.                               *)
EXTENDS SmppServer, TLAPS

\* A handler holds a message exactly while it submits it.
Busy(s) == pc[s] \in {"auth", "push", "reply"}

\* A session that has come past bindClient without an error has its id.
SessionInv ==
  \A s \in Sessions :
    /\ current[s] # None <=> Busy(s)
    /\ pc[s] \in {"register", "serve"} \/ Busy(s) => systemID[s] \in Ids

\* A message nobody has submitted is nowhere.
FreshInv ==
  \A m \in Subs : owner[m] = None =>
    /\ pending[m] = None /\ m \notin asked /\ receipt[m] = "none"
    /\ \A s \in Sessions : current[s] # m

\* A message is submitted by one handler and has no receipt goroutine until then.
SubmitInv ==
  /\ \A s, t \in Sessions : current[s] # None /\ current[s] = current[t] => s = t
  /\ \A s \in Sessions : current[s] # None =>
       /\ owner[current[s]] = systemID[s]
       /\ receipt[current[s]] = "none"
       /\ pc[s] = "auth" => current[s] \notin asked

\* What the receipt goroutine goes by: the id in pendingReceipts is the submitter's,
\* and the session it has found has that id for good.
ReceiptInv ==
  \A m \in Subs :
    /\ pending[m] # None => pending[m] = owner[m]
    /\ receipt[m] = "asleep" => m \in asked
    /\ receipt[m] = "send" =>
         /\ target[m] \in Sessions
         /\ pc[target[m]] \notin {"none", "bind"}
         /\ systemID[target[m]] = owner[m]

ServerInv ==
  /\ TypeOK /\ NoDeadClient /\ PendingExact
  /\ SessionInv /\ FreshInv /\ SubmitInv /\ ReceiptInv

\* Append keeps the type of a sequence and adds one to its length.
LEMMA AppendTyped ==
  ASSUME NEW S, NEW s \in Seq(S), NEW e \in S
  PROVE  Append(s, e) \in Seq(S) /\ Len(Append(s, e)) = Len(s) + 1 /\ Len(s) \in Nat
OBVIOUS

LEMMA TailTyped ==
  ASSUME NEW S, NEW s \in Seq(S), s # <<>>
  PROVE  Tail(s) \in Seq(S) /\ Len(Tail(s)) = Len(s) - 1 /\ Len(s) \in Nat
OBVIOUS

LEMMA ServerInit == Init => ServerInv
<1> SUFFICES ASSUME Init PROVE ServerInv
  OBVIOUS
<1> USE ServerAssumption
<1>1. incoming \in Seq(Subs) /\ Len(incoming) <= Cap
  BY DEF Init
<1>2. TypeOK
  BY <1>1 DEF Init, TypeOK
<1>3. NoDeadClient /\ PendingExact
  BY DEF Init, NoDeadClient, PendingExact
<1>4. SessionInv /\ FreshInv /\ SubmitInv /\ ReceiptInv
  BY DEF Init, SessionInv, FreshInv, SubmitInv, ReceiptInv, Busy
<1> QED BY <1>2, <1>3, <1>4 DEF ServerInv

\* Steps that leave the messages alone: the handler of one session goes on.
LEMMA SessionSteps ==
  ASSUME ServerInv, NEW s \in Sessions,
         Accept(s) \/ BindFails(s) \/ ReadError(s) \/ CloseSession(s) \/ Drop(s)
  PROVE  ServerInv'
<1> USE ServerAssumption DEF At, Goto, sessVars, mapVars, subVars
<1>0. CASE Accept(s) \/ BindFails(s) \/ ReadError(s)
  <2>1. TypeOK'
    BY <1>0 DEF ServerInv, TypeOK, Accept, BindFails, ReadError
  <2>2. NoDeadClient' /\ PendingExact'
    BY <1>0 DEF ServerInv, TypeOK, NoDeadClient, PendingExact, Accept, BindFails, ReadError
  <2>3. SessionInv' /\ FreshInv' /\ SubmitInv' /\ ReceiptInv'
    BY <1>0 DEF ServerInv, TypeOK, SessionInv, FreshInv, SubmitInv, ReceiptInv, Busy,
                Accept, BindFails, ReadError
  <2> QED BY <2>1, <2>2, <2>3 DEF ServerInv
<1>1. CASE CloseSession(s) \/ Drop(s)
  <2>1. TypeOK'
    BY <1>1 DEF ServerInv, TypeOK, CloseSession, Drop
  <2>2. NoDeadClient' /\ PendingExact'
    BY <1>1 DEF ServerInv, TypeOK, NoDeadClient, PendingExact, CloseSession, Drop
  <2>3. SessionInv' /\ FreshInv' /\ SubmitInv' /\ ReceiptInv'
    BY <1>1 DEF ServerInv, TypeOK, SessionInv, FreshInv, SubmitInv, ReceiptInv, Busy,
                CloseSession, Drop
  <2> QED BY <2>1, <2>2, <2>3 DEF ServerInv
<1> QED BY <1>0, <1>1

\* Binding, registering and unregistering a session.
LEMMA ClientSteps ==
  ASSUME ServerInv, NEW s \in Sessions,
         (\E i \in Ids : BindOk(s, i)) \/ AddClient(s) \/ RemoveClient(s)
  PROVE  ServerInv'
<1> USE ServerAssumption DEF At, Goto, mapVars, subVars
<1>1. ASSUME NEW i \in Ids, BindOk(s, i) PROVE ServerInv'
  <2>1. TypeOK'
    BY <1>1 DEF ServerInv, TypeOK, BindOk
  <2>2. NoDeadClient' /\ PendingExact'
    BY <1>1 DEF ServerInv, TypeOK, NoDeadClient, PendingExact, BindOk
  <2>3. SessionInv' /\ FreshInv' /\ SubmitInv' /\ ReceiptInv'
    BY <1>1 DEF ServerInv, TypeOK, SessionInv, FreshInv, SubmitInv, ReceiptInv, Busy, BindOk
  <2> QED BY <2>1, <2>2, <2>3 DEF ServerInv
<1>2. CASE AddClient(s)
  <2>1. TypeOK'
    BY <1>2 DEF ServerInv, TypeOK, AddClient
  <2>2. NoDeadClient' /\ PendingExact'
    BY <1>2 DEF ServerInv, TypeOK, NoDeadClient, PendingExact, SessionInv, Busy, AddClient
  <2>3. SessionInv' /\ FreshInv' /\ SubmitInv' /\ ReceiptInv'
    BY <1>2 DEF ServerInv, TypeOK, SessionInv, FreshInv, SubmitInv, ReceiptInv, Busy, AddClient
  <2> QED BY <2>1, <2>2, <2>3 DEF ServerInv
<1>3. CASE RemoveClient(s)
  <2>1. TypeOK'
    BY <1>3 DEF ServerInv, TypeOK, RemoveClient
  <2>2. NoDeadClient' /\ PendingExact'
    BY <1>3 DEF ServerInv, TypeOK, NoDeadClient, PendingExact, RemoveClient
  <2>3. SessionInv' /\ FreshInv' /\ SubmitInv' /\ ReceiptInv'
    BY <1>3 DEF ServerInv, TypeOK, SessionInv, FreshInv, SubmitInv, ReceiptInv, Busy,
                RemoveClient
  <2> QED BY <2>1, <2>2, <2>3 DEF ServerInv
<1> QED BY <1>1, <1>2, <1>3

\* A message on its way through its handler.
LEMMA SubmitSteps ==
  ASSUME ServerInv, NEW s \in Sessions,
         (\E m \in Subs : ReadSubmit(s, m)) \/ Authenticated(s) \/ Push(s) \/ Reply(s)
  PROVE  ServerInv'
<1> USE ServerAssumption DEF At, Goto, mapVars, subVars
<1>1. ASSUME NEW m \in Subs, ReadSubmit(s, m) PROVE ServerInv'
  <2>0. systemID[s] \in Ids /\ m # None /\ current[s] = None
    BY <1>1 DEF ServerInv, SessionInv, ReadSubmit, Busy
  <2>1. TypeOK'
    BY <1>1, <2>0 DEF ServerInv, TypeOK, ReadSubmit
  <2>2. NoDeadClient'
    BY <1>1 DEF ServerInv, TypeOK, NoDeadClient, ReadSubmit
  <2>3. PendingExact'
    BY <1>1, <2>0 DEF ServerInv, TypeOK, PendingExact, FreshInv, ReadSubmit
  <2>4. SessionInv' /\ FreshInv'
    BY <1>1, <2>0 DEF ServerInv, TypeOK, SessionInv, FreshInv, Busy, ReadSubmit
  <2>5. SubmitInv'
    BY <1>1, <2>0 DEF ServerInv, TypeOK, FreshInv, SubmitInv, ReadSubmit
  <2>6. ReceiptInv'
    BY <1>1, <2>0 DEF ServerInv, TypeOK, FreshInv, ReceiptInv, ReadSubmit
  <2> QED BY <2>1, <2>2, <2>3, <2>4, <2>5, <2>6 DEF ServerInv
<1>2. CASE Authenticated(s)
  <2>0. systemID[s] \in Ids /\ current[s] \in Subs /\ owner[current[s]] # None
    BY <1>2 DEF ServerInv, TypeOK, SessionInv, FreshInv, Authenticated, Busy
  <2>1. TypeOK'
    BY <1>2, <2>0 DEF ServerInv, TypeOK, Authenticated
  <2>2. NoDeadClient'
    BY <1>2 DEF ServerInv, TypeOK, NoDeadClient, Authenticated
  <2>3. PendingExact'
    BY <1>2, <2>0 DEF ServerInv, TypeOK, PendingExact, Authenticated
  <2>4. SessionInv' /\ FreshInv'
    BY <1>2, <2>0 DEF ServerInv, TypeOK, SessionInv, FreshInv, Busy, Authenticated
  <2>5. SubmitInv'
    BY <1>2, <2>0 DEF ServerInv, TypeOK, SubmitInv, SessionInv, Authenticated
  <2>6. ReceiptInv'
    BY <1>2, <2>0 DEF ServerInv, TypeOK, SubmitInv, ReceiptInv, Authenticated
  <2> QED BY <2>1, <2>2, <2>3, <2>4, <2>5, <2>6 DEF ServerInv
<1>3. CASE Push(s)
  <2>0. current[s] \in Subs
    BY <1>3 DEF ServerInv, TypeOK, SessionInv, Push, Busy
  <2>a. incoming \in Seq(Subs) /\ Len(incoming) <= Cap
    BY DEF ServerInv, TypeOK
  <2>b. ASSUME stop # "done" PROVE incoming' \in Seq(Subs) /\ Len(incoming') <= Cap
    <3>1. incoming' = Append(incoming, current[s]) /\ Len(incoming) < Cap
      BY <1>3, <2>b DEF Push
    <3> QED BY <3>1, <2>0, <2>a, AppendTyped
  <2>c. ASSUME stop = "done" PROVE incoming' \in Seq(Subs) /\ Len(incoming') <= Cap
    BY <1>3, <2>a, <2>c DEF Push
  <2>d. incoming' \in Seq(Subs) /\ Len(incoming') <= Cap
    BY <2>b, <2>c
  <2>e. pc' = [pc EXCEPT ![s] = "reply"] \/ pc' = pc
    BY <1>3 DEF Push
  <2>f. panicked' = panicked \/ panicked' = TRUE
    BY <1>3 DEF Push
  <2>g. panicked' \in BOOLEAN
    BY <2>f DEF ServerInv, TypeOK
  <2>1. TypeOK'
    BY <1>3, <2>d, <2>e, <2>g DEF ServerInv, TypeOK, Push
  <2>2. NoDeadClient' /\ PendingExact'
    BY <1>3 DEF ServerInv, TypeOK, NoDeadClient, PendingExact, Push
  <2>3. SessionInv' /\ FreshInv' /\ SubmitInv' /\ ReceiptInv'
    BY <1>3 DEF ServerInv, TypeOK, SessionInv, FreshInv, SubmitInv, ReceiptInv, Busy, Push
  <2> QED BY <2>1, <2>2, <2>3 DEF ServerInv
<1>4. CASE Reply(s)
  <2>0. current[s] \in Subs /\ owner[current[s]] # None /\ receipt[current[s]] = "none"
    BY <1>4 DEF ServerInv, TypeOK, SessionInv, FreshInv, SubmitInv, Reply, Busy
  <2>1. TypeOK'
    BY <1>4, <2>0 DEF ServerInv, TypeOK, Reply
  <2>2. NoDeadClient'
    BY <1>4 DEF ServerInv, TypeOK, NoDeadClient, Reply
  <2>3. PendingExact'
    BY <1>4, <2>0 DEF ServerInv, TypeOK, PendingExact, SubmitInv, Reply
  <2>4. SessionInv' /\ FreshInv'
    BY <1>4, <2>0 DEF ServerInv, TypeOK, SessionInv, FreshInv, Busy, Reply
  <2>5. SubmitInv'
    BY <1>4, <2>0 DEF ServerInv, TypeOK, SubmitInv, SessionInv, Reply
  <2>6. ReceiptInv'
    BY <1>4, <2>0 DEF ServerInv, TypeOK, ReceiptInv, Reply
  <2> QED BY <2>1, <2>2, <2>3, <2>4, <2>5, <2>6 DEF ServerInv
<1> QED BY <1>1, <1>2, <1>3, <1>4

\* The receipt goroutine of a message.
LEMMA ReceiptSteps ==
  ASSUME ServerInv, NEW m \in Subs, Lookup(m) \/ SendReceipt(m)
  PROVE  ServerInv'
<1> USE ServerAssumption DEF sessVars, mapVars
<1>1. CASE Lookup(m)
  <2>0. pending[m] = owner[m] /\ owner[m] \in Ids
    BY <1>1 DEF ServerInv, TypeOK, PendingExact, ReceiptInv, FreshInv, Lookup
  <2>1. TypeOK'
    BY <1>1, <2>0 DEF ServerInv, TypeOK, Lookup
  <2>2. NoDeadClient'
    BY <1>1 DEF ServerInv, TypeOK, NoDeadClient, Lookup
  <2>3. \A s \in Sessions : current[s] # m
    BY <1>1 DEF ServerInv, SubmitInv, Lookup
  <2>4. PendingExact'
    BY <1>1, <2>3 DEF ServerInv, TypeOK, PendingExact, Lookup
  <2>5. SessionInv' /\ FreshInv' /\ SubmitInv'
    BY <1>1, <2>0, <2>3 DEF ServerInv, TypeOK, SessionInv, FreshInv, SubmitInv, Busy, Lookup
  <2>6. ReceiptInv'
    BY <1>1, <2>0 DEF ServerInv, TypeOK, NoDeadClient, ReceiptInv, Lookup
  <2> QED BY <2>1, <2>2, <2>4, <2>5, <2>6 DEF ServerInv
<1>2. CASE SendReceipt(m)
  <2>1. TypeOK'
    BY <1>2 DEF ServerInv, TypeOK, SendReceipt
  <2>2. NoDeadClient' /\ PendingExact'
    BY <1>2 DEF ServerInv, TypeOK, NoDeadClient, PendingExact, SendReceipt
  <2>3. \A s \in Sessions : current[s] # m
    BY <1>2 DEF ServerInv, SubmitInv, SendReceipt
  <2>4. SessionInv' /\ FreshInv' /\ SubmitInv' /\ ReceiptInv'
    BY <1>2, <2>3 DEF ServerInv, TypeOK, SessionInv, FreshInv, SubmitInv, ReceiptInv, Busy,
                      SendReceipt
  <2> QED BY <2>1, <2>2, <2>4 DEF ServerInv
<1> QED BY <1>1, <1>2

\* The consumer and Stop.
LEMMA OtherSteps ==
  ASSUME ServerInv, Consume \/ StopBegin \/ StopEnd \/ UNCHANGED vars
  PROVE  ServerInv'
<1> USE ServerAssumption DEF vars, sessVars, mapVars, subVars
<1>a. incoming \in Seq(Subs) /\ Len(incoming) <= Cap
  BY DEF ServerInv, TypeOK
<1>b. ASSUME Consume PROVE incoming' \in Seq(Subs) /\ Len(incoming') <= Cap
  <2>1. incoming # <<>> /\ incoming' = Tail(incoming)
    BY <1>b DEF Consume
  <2> QED BY <2>1, <1>a, TailTyped
<1>1. incoming' \in Seq(Subs) /\ Len(incoming') <= Cap
  BY <1>a, <1>b DEF StopBegin, StopEnd
<1>2. TypeOK'
  BY <1>1 DEF ServerInv, TypeOK, Consume, StopBegin, StopEnd
<1>3. NoDeadClient' /\ PendingExact'
  BY DEF ServerInv, TypeOK, NoDeadClient, PendingExact, Consume, StopBegin, StopEnd
<1>4. SessionInv' /\ FreshInv' /\ SubmitInv' /\ ReceiptInv'
  BY DEF ServerInv, TypeOK, SessionInv, FreshInv, SubmitInv, ReceiptInv, Busy,
         Consume, StopBegin, StopEnd
<1> QED BY <1>2, <1>3, <1>4 DEF ServerInv

LEMMA ServerStep == ServerInv /\ [Next]_vars => ServerInv'
<1> SUFFICES ASSUME ServerInv, [Next]_vars PROVE ServerInv'
  OBVIOUS
<1> QED BY SessionSteps, ClientSteps, SubmitSteps, ReceiptSteps, OtherSteps DEF Next, Handler

\* Handlers, registrations and receipts agree at every step (server.go:73-299).
THEOREM ServerInvariant == Spec => []ServerInv
BY ServerInit, ServerStep, PTL DEF Spec

\* Every variable keeps its type: IncomingChannel never holds more than its
\* capacity, and only submitted messages.
THEOREM ServerTypes == Spec => []TypeOK
<1>1. ServerInv => TypeOK
  BY DEF ServerInv
<1> QED BY <1>1, ServerInvariant, PTL

\* Server.Clients never names a session whose goroutine has ended, nor one of
\* another system id (server.go:88-91, 271-287).
THEOREM ClientsAlive == Spec => []NoDeadClient
<1>1. ServerInv => NoDeadClient
  BY DEF ServerInv
<1> QED BY <1>1, ServerInvariant, PTL

\* pendingReceipts holds exactly the messages whose receipt is still to be looked up
\* (server.go:164-191).
THEOREM PendingIsExact == Spec => []PendingExact
<1>1. ServerInv => PendingExact
  BY DEF ServerInv
<1> QED BY <1>1, ServerInvariant, PTL

\* A receipt goes to a session of the id that submitted the message
\* (server.go:188-212).
THEOREM ReceiptsGoHome == Spec => []ReceiptToSubmitter
<1>1. ServerInv => ReceiptToSubmitter
  BY DEF ServerInv, ReceiptInv, ReceiptToSubmitter
<1> QED BY <1>1, ServerInvariant, PTL
===============================================================================
