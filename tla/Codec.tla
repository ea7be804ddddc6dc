------------------------------- MODULE Codec --------------------------------
(***************************************************************************)
(* internal/smpp and the end of the read loop that uses it: what Encode    *)
(* puts on a connection, how ReadPDU cuts the octets that arrive back into *)
(* frames, what Decode makes of one, and how a session answers one that    *)
(* does not decode. The layout is the code's with smaller octets and       *)
(* words: an octet is a digit to the base Base (256), a uint32 is Word (4) *)
(* octets, a uint16 half of them. A session reads octet by octet, so the   *)
(* peer may stop, hang up or stall after any of them. What a session does  *)
(* with a frame that decodes, with quit and with its deadlines is          *)
(* Session's.                                                              *)
(***************************************************************************)
EXTENDS Integers, Sequences, SequencesExt, FiniteSetsExt

CONSTANTS
  Base, Word,                          \* 256 and 4
  MaxPDULen, maxCOctetLen, maxTLVs,    \* 65536, 256 and 64
  Scripts                              \* what the peer may send: sequences of Sends, Malforms and Raw

\* How many values n octets have.
Values(n) == LET p[i \in 0..n] == IF i = 0 THEN 1 ELSE Base * p[i - 1] IN p[n]

\* Of the code's numbers only this is used: a frame that is too long by a header still has a
\* length, and the commands lie below the response bit and the one that stands for unknown.
ASSUME CodecConfig ==
  /\ Base \in Nat \ {0} /\ Base % 2 = 0 /\ Word \in Nat \ {0} /\ Word % 2 = 0
  /\ MaxPDULen \in (4 * Word + 1)..(Values(Word) - 4 * Word - 1)
  /\ maxCOctetLen \in Nat \ {0} /\ maxTLVs \in Nat
  /\ 22 < Values(Word) \div 2

Octet == 0..(Base - 1)
HeaderLen == 4 * Word
maxShortMessageLen == Base - 2
responseBit == Values(Word) \div 2

BindReceiver == 1
BindTransmitter == 2
SubmitSM == 4
DeliverSM == 5
Unbind == 6
BindTransceiver == 9
EnquireLink == 21
GenericNack == responseBit
IsResponse(id) == id >= responseBit
Response(id) == IF IsResponse(id) THEN id ELSE id + responseBit

StatusROK == 0
StatusInvMsgLen == 1
StatusInvCmdLen == 2
StatusInvCmdID == 3
StatusSysErr == 8

ESMClassDeliveryReceipt == 4
TagReceiptedMessageID == 1
TagMessageState == 2

PDU(id, status, seq, body) == [id |-> id, status |-> status, seq |-> seq, body |-> body]
NoBody == <<>>
-----------------------------------------------------------------------------
(***************************************************************************)
(* The bodies. A body is the sequence of its fields' values; its layout    *)
(* says how each is written: a null-terminated string, an octet, a counted *)
(* short message, the optional parameters that fill the rest.              *)
(***************************************************************************)
Binds == {BindReceiver, BindTransmitter, BindTransceiver}
Messages == {SubmitSM, DeliverSM}
Bodiless == {EnquireLink, Response(EnquireLink), Unbind, Response(Unbind), GenericNack}
Responses(ids) == {Response(id) : id \in ids}
KnownCommands == Binds \cup Messages \cup Responses(Binds) \cup Responses(Messages) \cup Bodiless
Layouts ==
  [id \in KnownCommands |->
     CASE id \in Binds -> <<"string", "string", "string", "octet", "octet", "octet", "string">>
       [] id \in Messages ->
            <<"string", "octet", "octet", "string", "octet", "octet", "string", "octet", "octet", "octet",
              "string", "string", "octet", "octet", "octet", "octet", "message", "tlvs">>
       [] id \in Responses(Binds) -> <<"string", "tlvs">>
       [] id \in Responses(Messages) -> <<"string">>
       [] id \in Bodiless -> <<>>]
\* A bind_resp or submit_sm_resp that reports an error may have no body.
BodyOptional(id) == IsResponse(id) /\ Layouts[id] # <<>>
EmptyBody(id) == [i \in DOMAIN Layouts[id] |-> <<>>]

\* The fields the simulator sets in a deliver_sm: addresses, esm_class, text, parameters.
Deliver(seq, source, dest, esmClass, text, tlvs) ==
  PDU(DeliverSM, StatusROK, seq, <<<<>>, 0, 0, source, 0, 0, dest, esmClass, 0, 0, <<>>, <<>>, 0, 0, 0, 0,
                                   text, tlvs>>)
\* NewMobileOriginated
NewMobileOriginated(seq, source, dest, content) == Deliver(seq, source, dest, 0, content, <<>>)
\* NewDeliveryReceipt: the id is in the text, and null-terminated in a parameter of its own
\* with the state in another. The text is reduced to the id and the state.
NewDeliveryReceipt(seq, source, dest, messageID, state) ==
  Deliver(seq, source, dest, ESMClassDeliveryReceipt, messageID \o <<state>>,
          <<[tag |-> TagReceiptedMessageID, value |-> messageID \o <<0>>],
            [tag |-> TagMessageState, value |-> <<state>>]>>)

\* A number in n octets, most significant first, and back.
BigEndian(x, n) == [i \in 1..n |-> (x \div Values(n - i)) % Base]
Number(octets) ==
  LET upTo[i \in 0..Len(octets)] == IF i = 0 THEN 0 ELSE upTo[i - 1] * Base + octets[i] IN upTo[Len(octets)]
\* The k-th word of a frame, from 1.
Header(frame, k) == Number(SubSeq(frame, (k - 1) * Word + 1, k * Word))
SetHeader(frame, k, x) ==
  [i \in DOMAIN frame |-> IF i \in ((k - 1) * Word + 1)..(k * Word)
                          THEN BigEndian(x % Values(Word), Word)[i - (k - 1) * Word] ELSE frame[i]]

\* writer and the marshal methods: a short_message too long for its count is cut.
Marshal(kind, v) ==
  CASE kind = "string" -> v \o <<0>>
    [] kind = "octet" -> <<v>>
    [] kind = "message" -> LET sm == SubSeq(v, 1, Min({Len(v), maxShortMessageLen})) IN <<Len(sm)>> \o sm
    [] kind = "tlvs" ->
         FlattenSeq([i \in DOMAIN v |-> BigEndian(v[i].tag, Word \div 2)
                                        \o BigEndian(Len(v[i].value), Word \div 2) \o v[i].value])

\* Encode: command_length is computed from the body that was marshalled.
Encode(p) ==
  LET body == FlattenSeq([i \in DOMAIN p.body |-> Marshal(Layouts[p.id][i], p.body[i])])
      total == HeaderLen + Len(body)
  IN  IF total > MaxPDULen THEN [err |-> "ErrBadCommandLength"]
      ELSE [err |-> "none",
            frame |-> FlattenSeq([i \in 1..4 |-> BigEndian(<<total, p.id, p.status, p.seq>>[i], Word)]) \o body]

\* The kinds of malformation, each of one word of the header.
badLengthInflation == HeaderLen
unknownCommandID == responseBit - 1
badSequenceOffset == Base

\* Faulty variant: the sequence number moves by a multiple of what it counts to.
EncodeEdgeCaseWrapping(p, kind) ==
  LET frame == Encode(p).frame
  IN  CASE kind = "bad_length" -> SetHeader(frame, 1, Header(frame, 1) + badLengthInflation)
        [] kind = "unknown_command_id" -> SetHeader(frame, 2, unknownCommandID)
        [] kind = "bad_sequence" -> SetHeader(frame, 4, Header(frame, 4) + Values(Word))

\* EncodeEdgeCase
EncodeEdgeCase(p, kind) ==
  LET frame == Encode(p).frame
  IN  CASE kind = "bad_length" -> SetHeader(frame, 1, Header(frame, 1) + badLengthInflation)
        [] kind = "unknown_command_id" -> SetHeader(frame, 2, unknownCommandID)
        [] kind = "bad_sequence" -> SetHeader(frame, 4, Header(frame, 4) + badSequenceOffset)
-----------------------------------------------------------------------------
(***************************************************************************)
(* reader: a cursor over a frame. It carries the first error, the octets   *)
(* taken and the values read.                                              *)
(***************************************************************************)
Fails(r, sentinel) == [r EXCEPT !.err = sentinel]
Takes(r, n, value) == [r EXCEPT !.pos = @ + n, !.out = Append(@, value)]
Rest(f, r) == Len(f) - r.pos
Octets(f, r, n) == SubSeq(f, r.pos + 1, r.pos + n)

\* reader.cOctetString: the terminator is looked for among the next maxCOctetLen octets.
ReadCOctetString(f, r) ==
  LET ends == {i \in (r.pos + 1)..Min({Len(f), r.pos + maxCOctetLen}) : f[i] = 0}
  IN  IF ends = {} THEN Fails(r, "ErrUnterminated")
      ELSE Takes(r, Min(ends) - r.pos, SubSeq(f, r.pos + 1, Min(ends) - 1))

\* reader.byte
ReadByte(f, r) == IF Rest(f, r) < 1 THEN Fails(r, "ErrTruncated") ELSE Takes(r, 1, f[r.pos + 1])

\* Faulty variant: a length the encoder would cut is read.
ReadShortMessageAny(f, r) ==
  IF Rest(f, r) < 1 \/ Rest(f, r) < 1 + f[r.pos + 1] THEN Fails(r, "ErrTruncated")
  ELSE LET n == f[r.pos + 1] IN Takes(r, 1 + n, SubSeq(f, r.pos + 2, r.pos + 1 + n))

\* decodeMessage, sm_length and short_message: no length that Encode would not write.
ReadShortMessage(f, r) ==
  IF Rest(f, r) < 1 THEN Fails(r, "ErrTruncated")
  ELSE LET n == f[r.pos + 1]
       IN  IF n > maxShortMessageLen THEN Fails(r, "ErrBadShortMessage")
           ELSE IF Rest(f, r) < 1 + n THEN Fails(r, "ErrTruncated")
           ELSE Takes(r, 1 + n, SubSeq(f, r.pos + 2, r.pos + 1 + n))

\* One turn of reader.tlvs; r.out holds the parameters read so far.
ReadTLV(f, r) ==
  LET half == Word \div 2
      length == Number(SubSeq(f, r.pos + half + 1, r.pos + Word))
  IN  IF r.err # "none" \/ Rest(f, r) = 0 THEN r
      ELSE IF Rest(f, r) < Word THEN Fails(r, "ErrTruncated")
      ELSE IF Len(r.out) = maxTLVs THEN Fails(r, "ErrTooManyTLVs")
      ELSE IF Rest(f, r) < Word + length THEN Fails(r, "ErrTruncated")
      ELSE Takes(r, Word + length, [tag |-> Number(Octets(f, r, half)),
                                    value |-> SubSeq(f, r.pos + Word + 1, r.pos + Word + length)])

\* reader.tlvs: turns until nothing is left, at most one past the cap.
TLVTurns(f, r, n) ==
  LET turn[i \in 0..n] == IF i = 0 THEN [r EXCEPT !.out = <<>>] ELSE ReadTLV(f, turn[i - 1]) IN turn[n]
ReadTLVs(f, r) ==
  LET all == TLVTurns(f, r, maxTLVs + 1)
  IN  IF all.err # "none" THEN Fails(r, all.err) ELSE Takes(r, all.pos - r.pos, all.out)

ReadField(f, r, kind) ==
  IF r.err # "none" THEN r
  ELSE CASE kind = "string" -> ReadCOctetString(f, r)
         [] kind = "octet" -> ReadByte(f, r)
         [] kind = "message" -> ReadShortMessage(f, r)
         [] kind = "tlvs" -> ReadTLVs(f, r)

\* The first n fields of a body, one after the other.
ReadFields(f, r, kinds, n) ==
  LET read[i \in 0..n] == IF i = 0 THEN r ELSE ReadField(f, read[i - 1], kinds[i]) IN read[n]

\* decodeBind, decodeBindResp, decodeMessage, decodeSubmitResp. Octets after the last field of
\* a body with no optional parameters are not looked at.
DecodeBody(id, f) ==
  LET r == [pos |-> HeaderLen, err |-> "none", out |-> <<>>]
  IN  IF BodyOptional(id) /\ Rest(f, r) = 0 THEN [r EXCEPT !.out = EmptyBody(id)]
      ELSE ReadFields(f, r, Layouts[id], Len(Layouts[id]))

\* Decode: command_length is skipped, not checked against the frame.
Decode(f) ==
  LET id == Header(f, 2)
      body == DecodeBody(id, f)
  IN  IF Len(f) < HeaderLen THEN [err |-> "ErrShortPDU"]
      ELSE IF id \notin KnownCommands THEN [err |-> "ErrUnknownCommand"]
      ELSE IF body.err # "none" THEN [err |-> body.err]
      ELSE [err |-> "none", pdu |-> PDU(id, Header(f, 3), Header(f, 4), body.out)]
-----------------------------------------------------------------------------
(***************************************************************************)
(* The connection. What the peer sends next is one of these.               *)
(***************************************************************************)
Sends(p) == [kind |-> "as_meant", meant |-> p, frame |-> Encode(p).frame]
Malforms(p, kind) == [kind |-> kind, meant |-> p, frame |-> EncodeEdgeCase(p, kind)]
Raw(frame) == [kind |-> "raw", meant |-> PDU(GenericNack, 0, 0, NoBody), frame |-> frame]

\* What a field holds so that a frame can carry it: a string has no null and ends within what is
\* looked at, a short message is not cut, a parameter's tag and length have their octets.
Fits(kind, v) ==
  CASE kind = "string" -> v \in Seq(1..(Base - 1)) /\ Len(v) < maxCOctetLen
    [] kind = "octet" -> v \in Octet
    [] kind = "message" -> v \in Seq(Octet) /\ Len(v) <= maxShortMessageLen
    [] kind = "tlvs" -> /\ v \in Seq([tag : 0..(Values(Word \div 2) - 1), value : Seq(Octet)]) /\ Len(v) <= maxTLVs
                        /\ \A i \in DOMAIN v : Len(v[i].value) < Values(Word \div 2)
WellFormed(p) ==
  /\ p = PDU(p.id, p.status, p.seq, p.body) /\ p.id \in KnownCommands
  /\ p.status \in 0..(Values(Word) - 1) /\ p.seq \in 0..(Values(Word) - 1)
  /\ \/ BodyOptional(p.id) /\ p.body = NoBody
     \/ /\ p.body = [i \in DOMAIN Layouts[p.id] |-> p.body[i]]
        /\ \A i \in DOMAIN p.body : Fits(Layouts[p.id][i], p.body[i])

\* A peer sends PDUs, PDUs malformed on purpose, and any other octets.
ASSUME ScriptsAreSent ==
  \A s \in Scripts :
    /\ Len(s) \in Nat /\ DOMAIN s = 1..Len(s)
    /\ \A i \in DOMAIN s :
         \/ s[i].kind = "raw" /\ s[i].frame \in Seq(Octet)
         \/ /\ WellFormed(s[i].meant) /\ Encode(s[i].meant).err = "none"
            /\ \/ s[i] = Sends(s[i].meant)
               \/ \E kind \in {"bad_length", "unknown_command_id", "bad_sequence"} : s[i] = Malforms(s[i].meant, kind)

VARIABLES
  script, stream,   \* what the peer sends, and its octets
  pos,              \* how many of them have been read
  rpc,              \* where the read loop is
  frame,            \* what ReadPDU has of the current frame
  got,              \* the frames ReadPDU returned, with what Decode made of them
  answers,          \* what was sent because a frame could not be read or decoded
  reason            \* why the session closed

vars == <<script, stream, pos, rpc, frame, got, answers, reason>>

Init ==
  /\ script \in Scripts /\ stream = FlattenSeq([i \in DOMAIN script |-> script[i].frame])
  /\ pos = 0 /\ rpc = "read" /\ frame = <<>> /\ got = <<>> /\ answers = <<>> /\ reason = "none"

\* readLoop's exits.
CloseWith(why) == reason' = why /\ rpc' = "closed"

\* io.ReadFull: the end of the input after some but not all octets is unexpected.
ReadFull(taken, err) == IF err = "EOF" /\ taken > 0 THEN "ErrUnexpectedEOF" ELSE err

\* Faulty variant: the cause is passed on.
PartialBare(err) == err

\* partial: but for a truncation, the cause of a failure inside a frame is hidden.
Partial(err) == IF err = "ErrUnexpectedEOF" THEN err ELSE "ErrPartialFrame"

\* ReadPDU's error when the connection fails with err: the length, then the rest of the frame.
ReadPDUError(err) ==
  CASE frame = <<>> -> ReadFull(0, err)
    [] Len(frame) \in 1..(Word - 1) -> Partial(ReadFull(Len(frame), err))
    [] OTHER -> Partial(ReadFull(Len(frame) - Word, err))

\* One more octet arrives. The length and the frame are looked at once they are whole.
ReadOctet ==
  /\ rpc = "read" /\ pos < Len(stream)
  /\ pos' = pos + 1 /\ frame' = Append(frame, stream[pos + 1])
  /\ rpc' = IF Len(frame') = Word THEN "length"
            ELSE IF Len(frame') > Word /\ Len(frame') = Header(frame', 1) THEN "decode" ELSE "read"
  /\ UNCHANGED <<script, stream, got, answers, reason>>

\* ReadPDU on the command_length: what is out of range cannot be skipped. The loop says so and
\* closes; nothing has been allocated.
ReadLength ==
  /\ rpc = "length"
  /\ IF Header(frame, 1) < HeaderLen \/ Header(frame, 1) > MaxPDULen
     THEN /\ CloseWith("protocol_error")
          /\ answers' = Append(answers, [to |-> 0, pdu |-> PDU(GenericNack, StatusInvCmdLen, 0, NoBody)])
     ELSE rpc' = "read" /\ UNCHANGED <<answers, reason>>
  /\ UNCHANGED <<script, stream, pos, frame, got>>

\* readFailure, once quit is ruled out: deadlinePassed tells a stall from a cut.
ReadFailure(err, deadlinePassed) ==
  CASE err = "EOF" -> "client_eof"
    [] err = "ErrPartialFrame" /\ deadlinePassed -> "partial_frame_timeout"
    [] OTHER -> "read_error"

\* The peer hangs up or resets, or the read deadline passes. A timeout between frames is a
\* wake-up (the loop goes on) or an idle peer (it ends), by what is pending: Session's part.
ReadFails ==
  /\ rpc = "read"
  /\ \E cause \in {"EOF", "reset", "timeout"}, deadlinePassed \in BOOLEAN :
       LET err == ReadPDUError(cause)
       IN  /\ cause = "timeout" => deadlinePassed
           /\ IF err = "timeout"
              THEN CloseWith("idle_timeout") \/ (rpc' = "rearm" /\ UNCHANGED reason)
              ELSE CloseWith(ReadFailure(err, deadlinePassed))
  /\ UNCHANGED <<script, stream, pos, frame, got, answers>>

\* readLoop, continue: the next ReadPDU starts from nothing.
Rearm ==
  /\ rpc = "rearm" /\ rpc' = "read" /\ frame' = <<>>
  /\ UNCHANGED <<script, stream, pos, got, answers, reason>>

\* Faulty variant: a response that does not decode is answered like a request.
RejectMalformedAll(err, id, seq) ==
  IF err = "ErrUnknownCommand" THEN {PDU(GenericNack, StatusInvCmdID, seq, NoBody)}
  ELSE {PDU(Response(id), StatusSysErr, seq, NoBody)}

\* rejectMalformed: the answer to a frame that did not decode, or none.
RejectMalformed(err, id, seq) ==
  CASE err = "ErrUnknownCommand" -> {PDU(GenericNack, StatusInvCmdID, seq, NoBody)}
    [] err # "ErrUnknownCommand" /\ IsResponse(id) -> {}
    [] OTHER -> {PDU(Response(id), CASE err = "ErrBadShortMessage" -> StatusInvMsgLen
                                     [] err = "ErrTruncated" -> StatusInvCmdLen
                                     [] OTHER -> StatusSysErr, seq, NoBody)}

\* readLoop with a whole frame: decode it, hand it on or reject it, read the next.
HandleFrame ==
  /\ rpc = "decode"
  /\ LET d == Decode(frame)
         reply == IF d.err = "none" THEN {} ELSE RejectMalformed(d.err, Header(frame, 2), Header(frame, 4))
     IN  /\ got' = Append(got, [frame |-> frame, decoded |-> d])
         /\ answers' = answers \o SetToSeq({[to |-> Len(got) + 1, pdu |-> p] : p \in reply})
  /\ frame' = <<>> /\ rpc' = "read"
  /\ UNCHANGED <<script, stream, pos, reason>>

Next == ReadOctet \/ ReadLength \/ ReadFails \/ Rearm \/ HandleFrame

Spec == Init /\ [][Next]_vars
-----------------------------------------------------------------------------
\* ReadPDU, readLoop: however the octets arrive and however often the loop is woken between
\* frames, the frames it has read and the part it holds are exactly the octets it took, for as
\* long as it goes on reading. A close that says the peer hung up or fell silent cuts no frame.
\* No frame is longer than the cap, whatever a length says.
NoOctetLost ==
  /\ reason \in {"none", "client_eof", "idle_timeout"} =>
       FlattenSeq([i \in DOMAIN got |-> got[i].frame]) \o frame = SubSeq(stream, 1, pos)
  /\ reason \in {"client_eof", "idle_timeout"} => frame = <<>>
  /\ \A i \in DOMAIN got : Len(got[i].frame) \in HeaderLen..MaxPDULen

\* The PDU a peer sees: a response sent without its body has the empty one.
Seen(p) == IF BodyOptional(p.id) /\ p.body = NoBody THEN [p EXCEPT !.body = EmptyBody(p.id)] ELSE p

\* Encode, EncodeEdgeCase, ReadPDU, Decode from end to end, up to the first length that lies: a
\* PDU arrives as it was meant, and a malformed one never passes for what was meant with the
\* rest of the stream intact: it is unknown, or it has another sequence number, or it has
\* taken octets of the next.
DecodesAsMeant ==
  \A i \in DOMAIN got :
    (script[i].kind # "raw" /\ \A j \in 1..(i - 1) : script[j].kind \notin {"bad_length", "raw"}) =>
      LET d == got[i].decoded
          meant == Seen(script[i].meant)
      IN  CASE script[i].kind = "as_meant" -> d = [err |-> "none", pdu |-> meant]
            [] script[i].kind = "unknown_command_id" -> d.err = "ErrUnknownCommand"
            [] script[i].kind = "bad_sequence" ->
                 d.err = "none" /\ d.pdu.seq # meant.seq /\ [d.pdu EXCEPT !.seq = meant.seq] = meant
            [] script[i].kind = "bad_length" -> Len(got[i].frame) > Len(script[i].frame)

\* FuzzDecode: decoding is a fixed point: what a frame decodes to can be encoded, and decodes
\* to itself.
DecodeIsStable ==
  \A i \in DOMAIN got : got[i].decoded.err = "none" =>
    LET again == Encode(got[i].decoded.pdu)
    IN  again.err = "none" /\ Decode(again.frame) = got[i].decoded

\* rejectMalformed: every answer is a response its receiver can decode, with the sequence number
\* of the frame it is about. A frame that does not decode is answered once, unless it is a
\* malformed response of a known command, which is not answered. No frame is left out: one with
\* an unknown command_id is answered with generic_nack even when its response bit is set
\* (session.go:572-573), although the comment above says "a response is never answered"
\* (session.go:566).
AnswersCorrelate ==
  /\ \A k \in DOMAIN answers :
       LET a == answers[k]
       IN  /\ IsResponse(a.pdu.id) /\ Decode(Encode(a.pdu).frame) = [err |-> "none", pdu |-> Seen(a.pdu)]
           /\ a.to # 0 => a.pdu.seq = Header(got[a.to].frame, 4)
  /\ \A i \in DOMAIN got :
       LET id == Header(got[i].frame, 2)
           about == {k \in DOMAIN answers : answers[k].to = i}
       IN  Cardinality(about) =
             IF got[i].decoded.err # "none" /\ ~(IsResponse(id) /\ id \in KnownCommands) THEN 1 ELSE 0
=============================================================================
