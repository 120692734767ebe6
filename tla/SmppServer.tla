------------------------------- MODULE SmppServer -------------------------------
(*****************************************************************************)
(* smpp/server.go: the SMPP server that ESMEs connect to.  One goroutine per *)
(* connection authenticates it, registers it under its system id and then    *)
(* serves its PDUs one after the other; a submitted message goes into the    *)
(* bounded IncomingChannel, is answered, and gets a receipt from a goroutine *)
(* of its own five seconds later, sent to whatever session the system id has *)
(* by then.  Stop closes the sessions and the channels.                      *)
(*****************************************************************************)
EXTENDS Naturals, Sequences, FiniteSets

CONSTANTS Sessions, \* the connections that can be accepted, one per address
          Ids,      \* the system ids authHandler accepts
          Subs,     \* the messages that can be submitted (their message ids)
          Cap,      \* capacity of IncomingChannel
          None      \* no session, no id

ASSUME ServerAssumption == /\ Cap \in Nat \ {0}
                           /\ None \notin Sessions \cup Ids \cup Subs

VARIABLES
  pc,        \* pc[s]: "none", "bind", "register", "serve", "auth", "push",
             \* "reply", "close", "remove", "done"
  sock,      \* sock[s]: "up", "dropped" or "closed"
  systemID,  \* systemID[s]: ClientSession.systemID
  current,   \* current[s]: the message its handler is submitting
  Clients,   \* Server.Clients
  addresses, \* keys of Server.clientAddresses that are addresses of sessions
  pending,   \* Server.pendingReceipts
  owner,     \* owner[m]: the id that submitted m (history)
  asked,     \* messages submitted with REGISTERED_DELIVERY
  incoming,  \* IncomingChannel
  receipt,   \* receipt[m]: its goroutine: "none", "asleep", "send" or "ended"
  target,    \* target[m]: the session that goroutine has looked up
  answered,  \* messages whose SubmitSmResp was handed to the socket (history)
  stop,      \* Stop: "no", "running" (clientsMu held), "done"
  panicked   \* a send on a closed channel has ended the process

sessVars == <<pc, sock, systemID, current>>
mapVars  == <<Clients, addresses>>
subVars  == <<pending, owner, asked, receipt, target, answered>>
vars == <<sessVars, mapVars, subVars, incoming, stop, panicked>>

TypeOK ==
  /\ pc \in [Sessions -> {"none", "bind", "register", "serve", "auth", "push",
                          "reply", "close", "remove", "done"}]
  /\ sock \in [Sessions -> {"up", "dropped", "closed"}]
  /\ systemID \in [Sessions -> Ids \cup {None}]
  /\ current \in [Sessions -> Subs \cup {None}]
  /\ Clients \in [Ids -> Sessions \cup {None}]
  /\ addresses \subseteq Sessions
  /\ pending \in [Subs -> Ids \cup {None}]
  /\ owner \in [Subs -> Ids \cup {None}]
  /\ asked \subseteq Subs
  /\ incoming \in Seq(Subs) /\ Len(incoming) <= Cap
  /\ receipt \in [Subs -> {"none", "asleep", "send", "ended"}]
  /\ target \in [Subs -> Sessions \cup {None}]
  /\ answered \subseteq Subs
  /\ stop \in {"no", "running", "done"}
  /\ panicked \in BOOLEAN

Init ==
  /\ pc = [s \in Sessions |-> "none"]
  /\ sock = [s \in Sessions |-> "up"]
  /\ systemID = [s \in Sessions |-> None]
  /\ current = [s \in Sessions |-> None]
  /\ Clients = [i \in Ids |-> None]
  /\ addresses = {}
  /\ pending = [m \in Subs |-> None]
  /\ owner = [m \in Subs |-> None]
  /\ asked = {}
  /\ incoming = <<>>
  /\ receipt = [m \in Subs |-> "none"]
  /\ target = [m \in Subs |-> None]
  /\ answered = {}
  /\ stop = "no"
  /\ panicked = FALSE

At(s, label)   == ~panicked /\ pc[s] = label
Goto(s, label) == pc' = [pc EXCEPT ![s] = label]
MapFree        == stop # "running"   \* clientsMu is not held by Stop

-------------------------------------------------------------------------------
(* handleConnection and bindClient.                                          *)

\* Accept: the listener is closed last, by Stop.
Accept(s) ==
  /\ At(s, "none") /\ stop # "done"
  /\ Goto(s, "bind")
  /\ UNCHANGED <<sock, systemID, current, mapVars, subVars, incoming, stop, panicked>>

\* A Bind PDU that authHandler accepts, answered: addClient comes next.  (The
\* write of the response may still succeed on a connection the peer has left.)
BindOk(s, i) ==
  /\ At(s, "bind") /\ sock[s] # "closed"
  /\ systemID' = [systemID EXCEPT ![s] = i]
  /\ Goto(s, "register")
  /\ UNCHANGED <<sock, current, mapVars, subVars, incoming, stop, panicked>>

\* Anything else: another PDU, a refusal, a read or write error.
BindFails(s) ==
  /\ At(s, "bind")
  /\ Goto(s, "close")
  /\ UNCHANGED <<sock, systemID, current, mapVars, subVars, incoming, stop, panicked>>

\* addClient: the latest session of a system id replaces an earlier one.
AddClient(s) ==
  /\ At(s, "register") /\ MapFree
  /\ Clients' = [Clients EXCEPT ![systemID[s]] = s]
  /\ addresses' = addresses \cup {s}
  /\ Goto(s, "serve")
  /\ UNCHANGED <<sock, systemID, current, subVars, incoming, stop, panicked>>

\* Read fails: the loop breaks and the deferred function runs.
ReadError(s) ==
  /\ At(s, "serve") /\ sock[s] # "up"
  /\ Goto(s, "close")
  /\ UNCHANGED <<sock, systemID, current, mapVars, subVars, incoming, stop, panicked>>

CloseSession(s) ==
  /\ At(s, "close")
  /\ sock' = [sock EXCEPT ![s] = "closed"]
  /\ Goto(s, "remove")
  /\ UNCHANGED <<systemID, current, mapVars, subVars, incoming, stop, panicked>>

\* Mutant: a session that never bound is the only one removed.
RemoveUnbound(s) ==
  /\ At(s, "remove") /\ MapFree
  /\ Goto(s, "done")
  /\ UNCHANGED <<sock, systemID, current, mapVars, subVars, incoming, stop, panicked>>

\* removeClient: by system id in both maps, so in clientAddresses, which is
\* keyed by address, it deletes nothing.
RemoveClient(s) ==
  /\ At(s, "remove") /\ MapFree
  /\ Clients' = [i \in Ids |-> IF i = systemID[s] THEN None ELSE Clients[i]]
  /\ Goto(s, "done")
  /\ UNCHANGED <<sock, systemID, current, addresses, subVars, incoming, stop, panicked>>

-------------------------------------------------------------------------------
(* handlePDU and handleSubmitSM.  The other PDUs (ENQUIRE_LINK, UNBIND,       *)
(* DELIVER_SM_RESP, unknown ones) are answered or logged and change nothing   *)
(* another step reads (bound, which UNBIND clears, is never read).            *)

\* A SUBMIT_SM is read; isAuthenticated, whose result is not used, comes next.
ReadSubmit(s, m) ==
  /\ At(s, "serve") /\ sock[s] # "closed"
  /\ owner[m] = None
  /\ owner' = [owner EXCEPT ![m] = systemID[s]]
  /\ current' = [current EXCEPT ![s] = m]
  /\ Goto(s, "auth")
  /\ UNCHANGED <<sock, systemID, mapVars, pending, asked, receipt, target, answered,
                 incoming, stop, panicked>>

\* isAuthenticated takes clientsMu.  Then the message gets an id and, if it asks
\* for a receipt, an entry in pendingReceipts.
Authenticated(s) ==
  /\ At(s, "auth") /\ MapFree
  /\ \/ /\ pending' = [pending EXCEPT ![current[s]] = systemID[s]]
        /\ asked' = asked \cup {current[s]}
     \/ UNCHANGED <<pending, asked>>
  /\ Goto(s, "push")
  /\ UNCHANGED <<sock, systemID, current, mapVars, owner, receipt, target, answered,
                 incoming, stop, panicked>>

\* Mutant: nobody waits for room in the channel.
PushNoWait(s) ==
  /\ At(s, "push") /\ stop # "done"
  /\ incoming' = Append(incoming, current[s])
  /\ Goto(s, "reply")
  /\ UNCHANGED <<sock, systemID, current, mapVars, subVars, stop, panicked>>

\* Mutant: one place of the channel stays unused.
PushBelowCap(s) ==
  /\ At(s, "push")
  /\ stop # "done" /\ Len(incoming) + 1 < Cap
  /\ incoming' = Append(incoming, current[s])
  /\ Goto(s, "reply")
  /\ UNCHANGED <<sock, systemID, current, mapVars, subVars, stop, panicked>>

\* s.IncomingChannel <- SMS{...}: waits for room; panics once it is closed.
Push(s) ==
  /\ At(s, "push")
  /\ \/ /\ stop # "done" /\ Len(incoming) < Cap
        /\ incoming' = Append(incoming, current[s])
        /\ Goto(s, "reply") /\ UNCHANGED panicked
     \/ /\ stop = "done"
        /\ panicked' = TRUE /\ UNCHANGED <<pc, incoming>>
  /\ UNCHANGED <<sock, systemID, current, mapVars, subVars, stop>>

\* Mutant: the receipt goroutine is started only if the response was written.
ReplyOrForget(s) ==
  /\ At(s, "reply")
  /\ answered' = answered \cup {current[s]}
  /\ receipt' = [receipt EXCEPT ![current[s]] = IF sock[s] = "up" /\ current[s] \in asked
                                                    THEN "asleep" ELSE @]
  /\ current' = [current EXCEPT ![s] = None]
  /\ Goto(s, "serve")
  /\ UNCHANGED <<sock, systemID, mapVars, pending, owner, asked, target,
                 incoming, stop, panicked>>

\* The response is written, its error ignored, and the receipt goroutine starts.
Reply(s) ==
  /\ At(s, "reply")
  /\ answered' = answered \cup {current[s]}
  /\ receipt' = [receipt EXCEPT ![current[s]] = IF current[s] \in asked
                                                    THEN "asleep" ELSE @]
  /\ current' = [current EXCEPT ![s] = None]
  /\ Goto(s, "serve")
  /\ UNCHANGED <<sock, systemID, mapVars, pending, owner, asked, target,
                 incoming, stop, panicked>>

\* processIncomingMessages takes from the channel; it drains a closed one.
Consume ==
  /\ ~panicked /\ incoming # <<>>
  /\ incoming' = Tail(incoming)
  /\ UNCHANGED <<sessVars, mapVars, subVars, stop, panicked>>

-------------------------------------------------------------------------------
(* simulateDeliveryAndSendReceipt.                                           *)

\* Mutant: any session that is there will do.
LookupAny(m) ==
  /\ ~panicked /\ receipt[m] = "asleep" /\ MapFree
  /\ pending' = [pending EXCEPT ![m] = None]
  /\ \/ \E i \in Ids : /\ Clients[i] # None
                       /\ target' = [target EXCEPT ![m] = Clients[i]]
                       /\ receipt' = [receipt EXCEPT ![m] = "send"]
     \/ /\ \A i \in Ids : Clients[i] = None
        /\ receipt' = [receipt EXCEPT ![m] = "ended"] /\ UNCHANGED target
  /\ UNCHANGED <<sessVars, mapVars, owner, asked, answered, incoming, stop, panicked>>

\* Five seconds later: the entry is taken, the session of its id looked up.
Lookup(m) ==
  /\ ~panicked /\ receipt[m] = "asleep" /\ MapFree
  /\ LET s == IF pending[m] = None THEN None ELSE Clients[pending[m]] IN
       /\ target' = [target EXCEPT ![m] = s]
       /\ receipt' = [receipt EXCEPT ![m] = IF s = None THEN "ended" ELSE "send"]
  /\ pending' = [pending EXCEPT ![m] = None]
  /\ UNCHANGED <<sessVars, mapVars, owner, asked, answered, incoming, stop, panicked>>

\* The receipt is written to that session, which may be closed by now.
SendReceipt(m) ==
  /\ ~panicked /\ receipt[m] = "send"
  /\ receipt' = [receipt EXCEPT ![m] = "ended"]
  /\ UNCHANGED <<sessVars, mapVars, pending, owner, asked, target, answered, incoming,
                 stop, panicked>>

-------------------------------------------------------------------------------
(* Stop holds clientsMu while it closes the registered sessions and then the *)
(* channels and the listener.                                                *)

StopBegin ==
  /\ ~panicked /\ stop = "no"
  /\ stop' = "running"
  /\ sock' = [s \in Sessions |->
                IF \E i \in Ids : Clients[i] = s THEN "closed" ELSE sock[s]]
  /\ UNCHANGED <<pc, systemID, current, mapVars, subVars, incoming, panicked>>

StopEnd ==
  /\ ~panicked /\ stop = "running"
  /\ stop' = "done"
  /\ UNCHANGED <<sessVars, mapVars, subVars, incoming, panicked>>

\* The ESME's connection goes away.
Drop(s) ==
  /\ ~panicked /\ pc[s] # "none" /\ sock[s] = "up"
  /\ sock' = [sock EXCEPT ![s] = "dropped"]
  /\ UNCHANGED <<pc, systemID, current, mapVars, subVars, incoming, stop, panicked>>

-------------------------------------------------------------------------------
Handler(s) ==
  \/ AddClient(s) \/ Authenticated(s) \/ Reply(s)
  \/ ReadError(s) \/ CloseSession(s) \/ RemoveClient(s)

Next ==
  \/ \E s \in Sessions : Accept(s) \/ BindFails(s) \/ Handler(s) \/ Push(s) \/ Drop(s)
  \/ \E s \in Sessions, i \in Ids : BindOk(s, i)
  \/ \E s \in Sessions, m \in Subs : ReadSubmit(s, m)
  \/ \E m \in Subs : Lookup(m) \/ SendReceipt(m)
  \/ Consume \/ StopBegin \/ StopEnd

Spec == Init /\ [][Next]_vars

\* Goroutines are scheduled; a Read on a dead connection returns, one on a live
\* connection may wait for ever; senders blocked on a channel are served in turn
\* (strong fairness of Push); the consumer of IncomingChannel keeps consuming.
Fairness ==
  /\ \A s \in Sessions : /\ WF_vars(Handler(s)) /\ SF_vars(Push(s))
                         /\ WF_vars(sock[s] # "up" /\ BindFails(s))
  /\ \A m \in Subs : WF_vars(Lookup(m) \/ SendReceipt(m))
  /\ WF_vars(Consume) /\ WF_vars(StopEnd)

FairSpec == Spec /\ Fairness

-------------------------------------------------------------------------------
(* Safety.                                                                   *)

\* Clients never names a session whose goroutine has ended, nor one under an id
\* it did not authenticate as: every exit passes through removeClient.
NoDeadClient ==
  \A i \in Ids : Clients[i] # None =>
    /\ systemID[Clients[i]] = i
    /\ pc[Clients[i]] \notin {"none", "bind", "done"}

\* pendingReceipts holds exactly the messages whose receipt is still to be looked
\* up: an entry is neither leaked when the submitter goes nor dropped early
\* (server.go:164-191).
PendingExact ==
  \A m \in Subs : pending[m] # None <=>
    m \in asked /\ (receipt[m] = "asleep" \/ \E s \in Sessions : current[s] = m)

\* A receipt goes to a session of the system id that submitted the message, also
\* when that id has reconnected meanwhile (server.go:197-212).
ReceiptToSubmitter ==
  \A m \in Subs : receipt[m] = "send" => systemID[target[m]] = owner[m]

(* Liveness.                                                                 *)

\* A submitted message is answered however full the channel is and however many
\* sessions wait for it; only Stop gets in the way.
SubmitAnswered ==
  \A m \in Subs : (owner[m] # None) ~> (m \in answered \/ stop # "no" \/ panicked)

\* A connection that is gone is unregistered, even while Stop runs.
DeadSessionRemoved ==
  \A s \in Sessions : (sock[s] # "up") ~> (panicked \/ \A i \in Ids : Clients[i] # s)
===============================================================================
