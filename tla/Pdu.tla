---------------------------------- MODULE Pdu ----------------------------------
(*****************************************************************************)
(* smpp/pdu*.go: what an SMPP PDU is and how it is written and parsed.  A    *)
(* PDU is a record [id, status, seq, fields, tlvs]: fields gives every       *)
(* mandatory field a byte string (a one-byte field a string of length 1),    *)
(* tlvs every optional tag one.  Bytes are numbers 0..255.                   *)
(*****************************************************************************)
EXTENDS Naturals, Sequences, SequencesExt, Functions

\* The PDUs the program builds and the layouts of their mandatory fields.
MessageFields ==
  <<"service_type", "source_addr_ton", "source_addr_npi", "source_addr",
    "dest_addr_ton", "dest_addr_npi", "destination_addr", "esm_class",
    "protocol_id", "priority_flag", "schedule_delivery_time", "validity_period",
    "registered_delivery", "replace_if_present_flag", "data_coding",
    "sm_default_msg_id", "sm_length", "short_message">>

BindFields == <<"system_id", "password", "system_type", "interface_version",
                "addr_ton", "addr_npi", "address_range">>

QueryFields == <<"message_id", "source_addr_ton", "source_addr_npi", "source_addr">>

\* Command ids, by the low byte and whether it is a response.
Cmd == [GENERIC_NACK |-> <<128, 0>>, SUBMIT_SM |-> <<0, 4>>, SUBMIT_SM_RESP |-> <<128, 4>>,
        DELIVER_SM |-> <<0, 5>>, DELIVER_SM_RESP |-> <<128, 5>>,
        UNBIND |-> <<0, 6>>, UNBIND_RESP |-> <<128, 6>>, QUERY_SM |-> <<0, 3>>,
        BIND_TRANSCEIVER |-> <<0, 9>>, BIND_TRANSCEIVER_RESP |-> <<128, 9>>,
        ENQUIRE_LINK |-> <<0, 21>>, ENQUIRE_LINK_RESP |-> <<128, 21>>]

FieldsOf(id) ==
  CASE id \in {"SUBMIT_SM", "DELIVER_SM"} -> MessageFields
    [] id = "BIND_TRANSCEIVER" -> BindFields
    [] id = "QUERY_SM" -> QueryFields
    [] id = "BIND_TRANSCEIVER_RESP" -> <<"system_id">>
    [] id \in {"SUBMIT_SM_RESP", "DELIVER_SM_RESP"} -> <<"message_id">>
    [] OTHER -> <<>>

\* Only these keep the optional fields that they are parsed with.
HasTlvs == {"SUBMIT_SM", "DELIVER_SM", "BIND_TRANSCEIVER_RESP"}

\* Fields read and written as C strings; the others are single bytes.
Variable == {"service_type", "source_addr", "destination_addr",
             "schedule_delivery_time", "validity_period", "system_id", "password",
             "system_type", "address_range", "message_id"}

Byte == 0..255

\* packUi16 and packUi32; no number that is written here reaches 2^24.
U16(n) == <<(n \div 256) % 256, n % 256>>
U32(n) == <<0, (n \div 65536) % 256, (n \div 256) % 256, n % 256>>

-------------------------------------------------------------------------------
(* Writer.                                                                   *)

\* FixedField.ByteArray, VariableField.ByteArray, SMField.ByteArray.
FieldBytes(f, v) == IF f \in Variable THEN Append(v, 0) ELSE v

\* The writers of SUBMIT_SM and DELIVER_SM set SM_LENGTH, a byte, first.
SetLength(p) ==
  IF "short_message" \in DOMAIN p.fields
  THEN [p EXCEPT !.fields["sm_length"] = <<Len(p.fields["short_message"]) % 256>>]
  ELSE p

WriteFields(p) ==
  FlattenSeq([i \in DOMAIN FieldsOf(p.id) |->
                LET f == FieldsOf(p.id)[i] IN FieldBytes(f, p.fields[f])])

WriteTlvs(p) ==
  FlattenSeq([i \in 1..Len(SetToSeq(DOMAIN p.tlvs)) |->
                LET t == SetToSeq(DOMAIN p.tlvs)[i]
                IN  U16(t) \o U16(Len(p.tlvs[t])) \o p.tlvs[t]])

Header(p, n) ==
  U32(n + 16) \o <<Cmd[p.id][1], 0, 0, Cmd[p.id][2]>> \o U32(p.status) \o U32(p.seq)

Body(p) == WriteFields(p) \o WriteTlvs(p)

\* Mutant: the optional fields are not counted.
WriterUncounted(p) ==
  LET q == SetLength(p)
  IN  Header(q, Len(WriteFields(q))) \o Body(q)

Writer(p) ==
  LET q == SetLength(p)
  IN  Header(q, Len(Body(q))) \o Body(q)

-------------------------------------------------------------------------------
(* ParsePdu.                                                                 *)

NoPdu == [id |-> "none"]

Take(s, n) == SubSeq(s, 1, IF n < Len(s) THEN n ELSE Len(s))
Drop(s, n) == SubSeq(s, n + 1, Len(s))

\* make([]byte, n) filled by a Read that finds too little: zeros remain.
Padded(s, n) == [i \in 1..n |-> IF i <= Len(s) THEN s[i] ELSE 0]

\* Where the zero stands that ends a C string.
Zeros(r) == {i \in DOMAIN r : r[i] = 0 /\ \A j \in 1..(i - 1) : r[j] # 0}
FirstZero(r) == CHOOSE i \in Zeros(r) : TRUE

\* Field f got the value v; the error at the end of the buffer is not looked at here.
Got(st, f, v, rest, end) ==
  [rest |-> rest, eof |-> st.eof \/ end,
   fields |-> [g \in DOMAIN st.fields \cup {f} |-> IF g = f THEN v ELSE st.fields[g]]]

\* One field is read from st = [rest, fields, eof].  A C string without its
\* terminator ends the buffer and loses its last byte.
ReadField(st, f) ==
  LET r == st.rest
      n == IF f = "short_message" THEN st.fields["sm_length"][1] ELSE 1
  IN  CASE f \in Variable /\ Zeros(r) # {} ->
             Got(st, f, SubSeq(r, 1, FirstZero(r) - 1), Drop(r, FirstZero(r)), FALSE)
        [] f \in Variable /\ Zeros(r) = {} ->
             Got(st, f, SubSeq(r, 1, Len(r) - 1), <<>>, TRUE)
        [] OTHER -> Got(st, f, Padded(Take(r, n), n), Drop(r, n), r = <<>> /\ n > 0)

\* create_pdu_fields: all the fields, in order.
ReadFields(names, bytes) ==
  LET Read[k \in 0..Len(names)] ==
        IF k = 0 THEN [rest |-> bytes, fields |-> <<>>, eof |-> FALSE]
        ELSE ReadField(Read[k - 1], names[k])
  IN  Read[Len(names)]

\* An optional field with tag t and length n, its value at the front of v.  A value
\* of which not one byte is there is an error.
GotTlv(st, t, n, v) ==
  [rest |-> Drop(v, n), err |-> v = <<>> /\ n > 0,
   tlvs |-> [g \in DOMAIN st.tlvs \cup {t} |->
               IF g = t THEN Padded(Take(v, n), n) ELSE st.tlvs[g]]]

ReadTlv(st) ==
  LET h == Padded(Take(st.rest, 4), 4)
  IN  GotTlv(st, h[1] * 256 + h[2], h[3] * 256 + h[4], Drop(st.rest, 4))

\* parse_tlv_fields: one after the other until nothing is left.
ReadTlvs(bytes) ==
  LET Read[k \in 0..Len(bytes)] ==
        IF k = 0 THEN [rest |-> bytes, tlvs |-> <<>>, err |-> FALSE]
        ELSE LET st == Read[k - 1]
             IN  IF st.err \/ st.rest = <<>> THEN st ELSE ReadTlv(st)
  IN  Read[Len(bytes)]

Low24(b, i) == (b[i + 1] * 256 + b[i + 2]) * 256 + b[i + 3]

\* The commands whose number the PDU bears; the table has one or none.
Ids(bytes) ==
  {id \in DOMAIN Cmd : SubSeq(bytes, 5, 8) = <<Cmd[id][1], 0, 0, Cmd[id][2]>>}

\* The PDU, or NoPdu for every error.  No number that is written reaches 2^24; of
\* the status and the sequence number of a PDU nobody wrote the low 24 bits are kept.
ParsePdu(bytes) ==
  LET id   == CHOOSE id \in Ids(bytes) : TRUE
      got  == ReadFields(FieldsOf(id), Drop(bytes, 16))
      opt  == IF got.eof \/ FieldsOf(id) = <<>>
              THEN [tlvs |-> <<>>, err |-> FALSE] ELSE ReadTlvs(got.rest)
  IN  IF Len(bytes) < 16 THEN NoPdu
      ELSE IF Low24(bytes, 1) # Len(bytes) \/ Ids(bytes) = {} \/ opt.err THEN NoPdu
      ELSE [id |-> id, status |-> Low24(bytes, 9), seq |-> Low24(bytes, 13),
            fields |-> got.fields, tlvs |-> IF id \in HasTlvs THEN opt.tlvs ELSE <<>>]

-------------------------------------------------------------------------------
IsWord(n) == n \in Nat /\ n < 65536
IsLong(n) == n \in Nat /\ n < 16777216

(* What the layout of a PDU can hold: C strings without a zero in them, one   *)
(* byte for the length of the text, two for a tag or the length of a value.  *)

FieldFits(f, v) ==
  IF f \in Variable THEN \A j \in DOMAIN v : v[j] # 0
  ELSE IF f = "short_message" THEN Len(v) < 256 ELSE Len(v) = 1

TlvsFit(tlvs) ==
  /\ IsFiniteSet(DOMAIN tlvs) /\ tlvs \in [DOMAIN tlvs -> Seq(Byte)]
  /\ \A t \in DOMAIN tlvs : IsWord(t) /\ IsWord(Len(tlvs[t]))

Fits(p) ==
  /\ p.id \in DOMAIN Cmd /\ IsLong(p.status) /\ IsLong(p.seq) /\ IsLong(Len(Body(SetLength(p))) + 16)
  /\ p = [id |-> p.id, status |-> p.status, seq |-> p.seq, fields |-> p.fields,
          tlvs |-> p.tlvs]
  /\ p.fields \in [Range(FieldsOf(p.id)) -> Seq(Byte)]
  /\ \A f \in DOMAIN p.fields : FieldFits(f, p.fields[f])
  /\ TlvsFit(p.tlvs) /\ (p.id \notin HasTlvs => p.tlvs = <<>>)

-------------------------------------------------------------------------------
(* The PDUs Smpp builds.  NewX parses an empty body; SetField replaces fields.*)

New(id) ==
  [id |-> id, status |-> 0, seq |-> 0, tlvs |-> <<>>,
   fields |-> ReadFields(FieldsOf(id), <<>>).fields]

SetFields(p, fields) ==
  [p EXCEPT !.fields = [f \in DOMAIN @ |-> IF f \in DOMAIN fields THEN fields[f] ELSE @[f]]]

SetTlv(p, tag, v) ==
  [p EXCEPT !.tlvs = [t \in DOMAIN @ \cup {tag} |-> IF t = tag THEN v ELSE @[t]]]

Bind(systemId, password, params) ==
  SetFields(SetFields(New("BIND_TRANSCEIVER"),
                      [interface_version |-> <<52>>, system_id |-> systemId,
                       password |-> password]), params)

\* 528 is 0x0210, sc_interface_version.
BindResp(status, systemId) ==
  SetTlv(SetFields([New("BIND_TRANSCEIVER_RESP") EXCEPT !.status = status],
                   [system_id |-> systemId]), 528, <<52>>)

SubmitSm(source, destination, text, params) ==
  SetFields(SetFields(New("SUBMIT_SM"),
                      [source_addr |-> source, destination_addr |-> destination,
                       short_message |-> text]), params)

SubmitSmResp(status, messageId) ==
  SetFields([New("SUBMIT_SM_RESP") EXCEPT !.status = status], [message_id |-> messageId])

QuerySm(messageId, source, params) ==
  SetFields(SetFields(New("QUERY_SM"),
                      [message_id |-> messageId, source_addr |-> source]), params)

EnquireLink           == New("ENQUIRE_LINK")
EnquireLinkResp       == New("ENQUIRE_LINK_RESP")
Unbind                == New("UNBIND")
UnbindResp            == New("UNBIND_RESP")
DeliverSmResp(status) == [New("DELIVER_SM_RESP") EXCEPT !.status = status]
GenericNack(status)   == [New("GENERIC_NACK") EXCEPT !.status = status]
===============================================================================
