-------------------------------- MODULE History --------------------------------
(*****************************************************************************)
(* history.go: for every outside phone number and every number of the        *)
(* gateway, the MX user who last wrote from the one to the other, and when.  *)
(* It decides which number a user writes from and who gets the answers.      *)
(*****************************************************************************)
EXTENDS Naturals, FiniteSets

CONSTANTS Contacts, \* the outside phone numbers
          Numbers,  \* the gateway's numbers
          Targets,  \* the pairs [mx, jid] that identify a user
          NoItem    \* "no entry"

ASSUME HistoryAssumption == /\ NoItem \notin Targets \cup Numbers
                            /\ IsFiniteSet(Numbers)

VARIABLES
  list,   \* list[p][n]: the user in History.list[p][n], or NoItem
  sended, \* sended[p][n]: when that entry was written
  clock   \* time.Now(), counted in calls of Add

histVars == <<list, sended, clock>>

HistTypeOK ==
  /\ list \in [Contacts -> [Numbers -> Targets \cup {NoItem}]]
  /\ sended \in [Contacts -> [Numbers -> Nat]]
  /\ clock \in Nat

HistInit ==
  /\ list = [p \in Contacts |-> [n \in Numbers |-> NoItem]]
  /\ sended = [p \in Contacts |-> [n \in Numbers |-> 0]]
  /\ clock = 0

\* The numbers that have an entry for contact p.
Used(p) == {n \in Numbers : list[p][n] # NoItem}

Add(user, n, p) ==
  /\ clock' = clock + 1
  /\ list' = [list EXCEPT ![p][n] = user]
  /\ sended' = [sended EXCEPT ![p][n] = clock + 1]

Get(n, p) == list[p][n]

\* Mutants: any number will do; a used number is as good as a free one; the
\* number the user already has is not looked for.
GetFromWide(froms, p, jid) ==
  LET mine == {n \in Used(p) : list[p][n].jid = jid}
  IN  IF mine # {} THEN mine ELSE Numbers \ Used(p)

GetFromAny(froms, p, jid) ==
  LET mine == {n \in Used(p) : list[p][n].jid = jid}
  IN  IF mine # {} THEN mine ELSE froms

GetFromFree(froms, p, jid) ==
  LET free == froms \ Used(p)
  IN  IF free # {} THEN free
      ELSE {n \in froms : \A k \in froms : sended[p][n] <= sended[p][k]}

\* The numbers GetFrom may return (maps are iterated in any order): one that the
\* jid already writes to p from, whoever's number it is; else one of froms that
\* nobody writes to p from; else the one of froms used longest ago.
GetFrom(froms, p, jid) ==
  LET mine   == {n \in Used(p) : list[p][n].jid = jid}
      free   == froms \ Used(p)
      oldest == {n \in froms : \A k \in froms : sended[p][n] <= sended[p][k]}
  IN  IF mine # {} THEN mine ELSE IF free # {} THEN free ELSE oldest
===============================================================================
