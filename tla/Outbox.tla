-------------------------------- MODULE Outbox --------------------------------
(*****************************************************************************)
(* What a caller of sms.SMPP.Send (sms/smpp.go:126-133) may rely on, without *)
(* connections, addresses or goroutines: a message is refused or queued; once*)
(* queued it is accepted or lost; its parts then leave one by one, never more*)
(* than it has, and it is sent with the last; it may be lost on the way.     *)
(*****************************************************************************)
EXTENDS Naturals

CONSTANTS Msgs,   \* the messages
          Parts   \* Parts[m]: number of PDUs message m is split into

VARIABLES fate,   \* fate[m]: "new", "refused", "queued", "accepted", "sent", "lost"
          out     \* out[m]: how many of its parts have left

vars == <<fate, out>>

Init == fate = [m \in Msgs |-> "new"] /\ out = [m \in Msgs |-> 0]

Become(m, from, to) == fate[m] = from /\ fate' = [fate EXCEPT ![m] = to]

Queue(m)  == \E f \in {"refused", "queued"} : Become(m, "new", f) /\ UNCHANGED out
Accept(m) == Become(m, "queued", "accepted") /\ UNCHANGED out
Lose(m)   == \E f \in {"queued", "accepted"} : Become(m, f, "lost") /\ UNCHANGED out

Emit(m) ==
  /\ Become(m, "accepted", IF out[m] + 1 = Parts[m] THEN "sent" ELSE "accepted")
  /\ out' = [out EXCEPT ![m] = @ + 1]

Next == \E m \in Msgs : Queue(m) \/ Accept(m) \/ Lose(m) \/ Emit(m)

Spec == Init /\ [][Next]_vars
===============================================================================
