--------------------------------- MODULE MCWire ---------------------------------
(* PDUs for Wire: one of each kind the program builds, and what an SMSC sends *)
(* (an empty text, and a long one with an optional field).  The texts of 220  *)
(* and 224 bytes make the PDU 256 bytes long, so that its length ends in a    *)
(* zero byte, and 260.  The optional field makes it 384 bytes long: three     *)
(* bytes of that length turn it into a GENERIC_NACK of 256 and a rest.        *)
EXTENDS Wire

Text(n) == [i \in 1..n |-> 65]
Params  == [dest_addr_ton |-> <<1>>, data_coding |-> <<8>>, registered_delivery |-> <<1>>]

Samples ==
  {Bind(<<97>>, <<98, 99>>, [system_type |-> <<83>>]),
   BindResp(0, <<97>>),
   SubmitSm(<<49, 50>>, <<51>>, Text(220), Params),
   SubmitSm(<<49, 50>>, <<51>>, Text(224), Params),
   SetFields(New("DELIVER_SM"), [source_addr |-> <<51>>, destination_addr |-> <<49>>]),
   SetTlv(SetFields(New("DELIVER_SM"), [short_message |-> Text(254)]), 5120, Text(93)),
   SubmitSmResp(0, <<55, 56>>), DeliverSmResp(0), QuerySm(<<55>>, <<49>>, <<>>),
   EnquireLink, UnbindResp, GenericNack(3)}

\* Every ASCII character that is lost by itself, all the others together; beyond
\* ASCII the first character, mixtures with what ASCII loses, a byte order mark
\* and a surrogate pair.
SampleTexts ==
  {<<c>> : c \in Lossy} \cup
  {SelectSeq([i \in 1..128 |-> i - 1], LAMBDA c : c \notin Lossy), <<128>>, <<96, 228>>, <<91, 8364, 93>>,
   <<65279, 65>>, <<126, 128512, 10>>}
===============================================================================
