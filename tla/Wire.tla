---------------------------------- MODULE Wire ----------------------------------
(*****************************************************************************)
(* Smpp.Write and Smpp.Read (smpp/smpp.go) over one connection.  Write hands *)
(* a whole PDU to the connection; Read takes its length with one conn.Read   *)
(* and the rest with another, each of which may return less than asked,      *)
(* wherever TCP or TLS has cut the stream.  Every error ends the session.    *)
(* Some of the PDUs carry a text that another gateway has sent to the SMSC.  *)
(*****************************************************************************)
EXTENDS Coder

CONSTANTS Pdus,    \* the PDUs that are written, but for their sequence numbers
          Texts,   \* the texts that are written, each as an incoming message
          MaxSent, \* bound on the PDUs written
          MaxPdu   \* MAX_PDU_SIZE

VARIABLES
  sent,     \* the PDUs written (history); Smpp.Sequence is its length
  texts,    \* texts[i]: the text sent[i] was made of, or <<>> (history)
  stream,   \* the bytes on their way
  phase,    \* the reader: "length", "body", or "closed" after an error
  head,     \* the four bytes of the length it has read
  received, \* the PDUs Read has returned (history)
  short     \* some conn.Read has returned less than was asked for (history)

vars == <<sent, texts, stream, phase, head, received, short>>

Init ==
  /\ sent = <<>> /\ texts = <<>> /\ stream = <<>> /\ received = <<>>
  /\ phase = "length" /\ head = <<0, 0, 0, 0>> /\ short = FALSE

NewSeqNum == Len(sent) + 1

\* The PDUs that are written, but for their numbers.
AllPdus == Pdus \cup {Forwarded(Submitted(<<49>>, <<50>>, t)) : t \in Texts}

\* A PDU that fits its layout and the reader.
Sendable(p) == Fits(p) /\ Len(Writer(p)) <= MaxPdu + 4

ASSUME WireAssumption ==
  /\ MaxSent \in Nat /\ MaxPdu \in Nat /\ IsWord(MaxPdu + 4)
  /\ \A p \in AllPdus, n \in 1..MaxSent : Sendable([p EXCEPT !.seq = n])
  /\ \A t \in Texts : IsText(t)

Write(p, text) ==
  /\ Len(sent) < MaxSent
  /\ LET q == [p EXCEPT !.seq = NewSeqNum] IN
       /\ sent' = Append(sent, SetLength(q))
       /\ texts' = Append(texts, text)
       /\ stream' = stream \o Writer(q)
  /\ UNCHANGED <<phase, head, received, short>>

\* What conn.Read may return of n bytes: at least one, at most what is there.
Chunks(n) == 1..(IF n < Len(stream) THEN n ELSE Len(stream))

Size == Low24(head, 1)

\* The length: bytes that are not there count as zero.  A length below four wraps
\* around and is too large, too.
ReadLength ==
  /\ phase = "length"
  /\ \E k \in Chunks(4) :
       /\ head' = Padded(Take(stream, k), 4)
       /\ stream' = Drop(stream, k)
       /\ short' = (short \/ k < 4)
  /\ phase' = IF head'[1] = 0 /\ Low24(head', 1) \in 5..(MaxPdu + 4)
              THEN "body" ELSE "closed"
  /\ UNCHANGED <<sent, texts, received>>

\* Mutants of ReadBody: the bytes that are missing count as zero; a PDU that does
\* not parse is skipped.
ReadBodyShort ==
  /\ phase = "body"
  /\ \E k \in Chunks(Size - 4) :
       LET p == ParsePdu(head \o Padded(Take(stream, k), Size - 4)) IN
         /\ short' = (short \/ k < Size - 4)
         /\ stream' = Drop(stream, k)
         /\ IF p # NoPdu
            THEN phase' = "length" /\ received' = Append(received, p)
            ELSE phase' = "closed" /\ UNCHANGED received
  /\ UNCHANGED <<sent, texts, head>>

ReadBodySkips ==
  /\ phase = "body"
  /\ \E k \in Chunks(Size - 4) :
       LET p == ParsePdu(head \o Take(stream, k)) IN
         /\ short' = (short \/ k < Size - 4)
         /\ stream' = Drop(stream, k)
         /\ phase' = "length"
         /\ received' = IF p # NoPdu THEN Append(received, p) ELSE received
  /\ UNCHANGED <<sent, texts, head>>

ReadBody ==
  /\ phase = "body"
  /\ \E k \in Chunks(Size - 4) :
       LET p == ParsePdu(head \o Take(stream, k)) IN
         /\ short' = (short \/ k < Size - 4)
         /\ stream' = Drop(stream, k)
         /\ IF k = Size - 4 /\ p # NoPdu
            THEN phase' = "length" /\ received' = Append(received, p)
            ELSE phase' = "closed" /\ UNCHANGED received
  /\ UNCHANGED <<sent, texts, head>>

Next ==
  \/ \E p \in Pdus : Write(p, <<>>)
  \/ \E t \in Texts : Write(Forwarded(Submitted(<<49>>, <<50>>, t)), t)
  \/ ReadLength \/ ReadBody

Spec == Init /\ [][Next]_vars

-------------------------------------------------------------------------------
\* Read returned a GENERIC_NACK in the place of a PDU of 384, 640, 896... bytes, the
\* first it did not return as it was written.  When conn.Read gives three bytes of
\* such a length and then as many as these announce, what stands where the command
\* should be is 0x80 and the front of the command of a request (smpp.go:232-252).
PhantomAt(i) ==
  /\ i \in DOMAIN sent /\ received[i].id = "GENERIC_NACK"
  /\ Len(Writer(sent[i])) > 255 /\ Len(Writer(sent[i])) % 256 = 128
  /\ \A j \in 1..(i - 1) : received[j] = sent[j]

Deceived == \E i \in DOMAIN received : PhantomAt(i)

\* What Read returns is what was written, field by field and in order, wherever the
\* stream is cut, with one exception: a cut can turn a PDU of 384, 640, 896... bytes
\* into a GENERIC_NACK that nobody sent.  No other length, no other cut and no other
\* command does; of what is read behind it nothing is said (smpp.go:230-257).
ReceivedIsSent == IsPrefix(received, sent) \/ Deceived

\* A reader between two PDUs that has read all there is has returned all that was
\* written, unless it has made up a GENERIC_NACK: nothing else is swallowed or shifted.
NothingSwallowed == phase = "length" /\ stream = <<>> => received = sent \/ Deceived

\* Only a cut inside a PDU ends a session: every PDU the writers produce is
\* accepted when it comes in two whole reads.
ClosedMeansCut == phase = "closed" => short

\* A text that was sent is read as it was written, through both codings and the
\* wire, exactly when it has a character outside ASCII, which makes all of it
\* UTF-16, or none of the characters that the two GSM tables do not carry over
\* (coder.go:12-131, sms/tranceiver.go:66-78, 200-201, 252).
TextReadBack ==
  ~ Deceived =>
    \A i \in DOMAIN received : texts[i] # <<>> =>
      (TextOf(received[i]) = texts[i] <=> Beyond(texts[i]) \/ Range(texts[i]) \cap Lossy = {})
===============================================================================
