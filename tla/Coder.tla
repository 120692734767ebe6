--------------------------------- MODULE Coder ---------------------------------
(*****************************************************************************)
(* sms/coder.go and the choice of a coding in sms/tranceiver.go: how a text  *)
(* becomes the bytes of SHORT_MESSAGE and bytes become a text.  A text is a  *)
(* sequence of code points; a byte above 127 that a Go string holds outside  *)
(* any UTF-8 sequence is the code point 56320 + byte, which no text has.     *)
(*****************************************************************************)
EXTENDS Pdu

Unknown == 65533   \* U+FFFD

-------------------------------------------------------------------------------
(* Data coding 0: GSM 03.38.                                                 *)

\* utf8GsmChars by its single bytes: bytes 0..31 (0: no entry), 91..96, 123..127.
Low == <<64, 163, 36, 165, 232, 233, 249, 236, 242, 199, 0, 216, 248, 0, 197, 0,
         916, 95, 934, 915, 923, 937, 928, 936, 931, 920, 926, 0, 198, 230, 223, 201>>

Coded == [b \in {n \in 0..31 : Low[n + 1] # 0} \cup 91..96 \cup 123..127 |->
            CASE b < 32     -> Low[b + 1]
              [] b \in 91..96 -> <<196, 214, 209, 220, 167, 191>>[b - 90]
              [] OTHER      -> <<228, 246, 241, 252, 224>>[b - 122]]

\* The characters written as an escape and a second byte: ^ { } \ [ ~ ] | and the euro.
Escaped == [c \in 91..94 \cup 123..126 \cup {8364} |->
              CASE c \in 91..94   -> <<60, 47, 62, 20>>[c - 90]
                [] c \in 123..126 -> <<40, 64, 41, 61>>[c - 122]
                [] OTHER          -> 101]

\* gsmUtf8Chars: the inverse of the single bytes but for these seven.
Decoded == [b \in {14, 15, 20, 32, 36, 64, 123} \cup DOMAIN Coded |->
              CASE b = 14 -> 248 [] b = 15 -> 229 [] b = 20 -> 928 [] b = 32 -> 32
                [] b = 36 -> 164 [] b = 64 -> 161 [] b = 123 -> 232 [] OTHER -> Coded[b]]

EncodeGsm(c) ==
  LET bytes == {b \in DOMAIN Coded : Coded[b] = c}
  IN  CASE c \in DOMAIN Escaped -> <<27, Escaped[c]>>
        [] bytes # {}           -> <<CHOOSE b \in bytes : TRUE>>
        [] OTHER                -> <<IF c > 127 THEN 63 ELSE c>>

\* One byte at a time: a second byte of an escape is read like any other.
DecodeGsm(b) ==
  CASE b \in DOMAIN Decoded -> Decoded[b]
    [] b > 127              -> 56320 + b
    [] OTHER                -> b

-------------------------------------------------------------------------------
(* Data coding 8: UTF-16, big-endian, no byte order mark.  Data coding 3:    *)
(* Windows-1252.                                                             *)

\* The two halves of what is beyond U+FFFF.
Upper(c)    == 55296 + ((c - 65536) \div 1024)
Lower(c)    == 56320 + ((c - 65536) % 1024)
Joint(h, l) == 65536 + (h - 55296) * 1024 + (l - 56320)
HighHalf    == 55296..56319
LowHalf     == 56320..57343

EncodeUcs2(c) == IF IsWord(c) THEN U16(c) ELSE U16(Upper(c)) \o U16(Lower(c))

\* st is the text so far and the surrogate that waits for the next unit; what does
\* not pair, and a last odd byte, is Unknown.
Flush(st) == IF st.wait = 0 THEN st.out ELSE Append(st.out, Unknown)

ReadUnit(st, u) ==
  CASE u \in LowHalf /\ st.wait \in HighHalf ->
         [out |-> Append(st.out, Joint(st.wait, u)), wait |-> 0]
    [] u \in LowHalf /\ st.wait \in LowHalf ->
         [out |-> Flush(st), wait |-> 0]
    [] OTHER ->
         [out  |-> IF u \in HighHalf \cup LowHalf THEN Flush(st) ELSE Append(Flush(st), u),
          wait |-> IF u \in HighHalf \cup LowHalf THEN u ELSE 0]

DecodeUcs2(bytes) ==
  LET Read[k \in 0..(Len(bytes) \div 2)] ==
        IF k = 0 THEN [out |-> <<>>, wait |-> 0]
        ELSE ReadUnit(Read[k - 1], bytes[2 * k - 1] * 256 + bytes[2 * k])
      text == Flush(Read[Len(bytes) \div 2])
  IN  IF Len(bytes) % 2 = 1 THEN Append(text, Unknown) ELSE text

DecodeLatin(b) ==
  IF b \notin 128..159 THEN b
  ELSE <<8364, 129, 8218, 402, 8222, 8230, 8224, 8225, 710, 8240, 352, 8249, 338, 141,
         381, 143, 144, 8216, 8217, 8220, 8221, 8226, 8211, 8212, 732, 8482, 353, 8250,
         339, 157, 382, 376>>[b - 127]

-------------------------------------------------------------------------------
\* A byte as Go takes it.
Raw(b) == IF b > 127 THEN 56320 + b ELSE b

\* Encode is called with 0 and 8 only.
Encode(code, text) ==
  FlattenSeq([i \in DOMAIN text |-> IF code = 8 THEN EncodeUcs2(text[i]) ELSE EncodeGsm(text[i])])

Decode(code, bytes) ==
  IF code = 8 THEN DecodeUcs2(bytes)
  ELSE [i \in DOMAIN bytes |->
          CASE code = 3 -> DecodeLatin(bytes[i])
            [] code = 0 -> DecodeGsm(bytes[i])
            [] OTHER    -> Raw(bytes[i])]

\* What a text is made of.
IsRune(c) == c \in Nat /\ c <= 1114111 /\ c \notin HighHalf \cup LowHalf
IsText(t) == t \in Seq(Nat) /\ \A i \in DOMAIN t : IsRune(t[i])

Beyond(text) == \E i \in DOMAIN text : text[i] > 127

\* Mutant: characters that Windows-1252 has do not ask for UTF-16.
CodingOfWide(text) == IF \E i \in DOMAIN text : text[i] > 255 THEN 8 ELSE 0

\* Transceiver.Send: one character outside ASCII and the whole text is UTF-16.
CodingOf(text) == IF Beyond(text) THEN 8 ELSE 0

\* Transceiver.Send of a text that fits into one message.
Submitted(source, destination, text) ==
  SubmitSm(source, destination, Encode(CodingOf(text), text),
           [dest_addr_ton |-> <<1>>, dest_addr_npi |-> <<1>>,
            data_coding |-> <<CodingOf(text)>>, registered_delivery |-> <<1>>])

\* What the SMSC makes of it for the other side: text and coding stay as they are.
Forwarded(p) ==
  SetFields(New("DELIVER_SM"),
            [f \in {"source_addr", "destination_addr", "data_coding", "short_message"} |->
               p.fields[f]])

\* Transceiver.reading: the text of an incoming message.
TextOf(p) == Decode(p.fields["data_coding"][1], p.fields["short_message"])

-------------------------------------------------------------------------------
(* What data coding 0 loses of ASCII: the escaped characters, whose two bytes *)
(* are read as two; the grave accent and DEL, which are written as they are   *)
(* and read as others; and the control characters but LF, CR and ESC.         *)
Lossy == (0..31 \ {10, 13, 27}) \cup {91, 92, 93, 94, 96, 123, 124, 125, 126, 127}
================================================================================
