------------------------------ MODULE MCCodec -------------------------------
(***************************************************************************)
(* Instances of Codec for TLC: the PDUs of a session from both of its      *)
(* ends, and frames that no encoder writes.                                *)
(***************************************************************************)
EXTENDS Codec

Bind(seq) == PDU(BindTransceiver, 0, seq, <<<<3>>, <<4, 5>>, <<>>, 3, 0, 1, <<>>>>)
BindResp(seq) == PDU(Response(BindTransceiver), 0, seq, <<<<7>>, <<[tag |-> 3, value |-> <<4>>]>>>>)
BindFailed(seq) == PDU(Response(BindTransceiver), 13, seq, NoBody)
Submit(seq, sm) == PDU(SubmitSM, 0, seq, <<<<>>, 1, 1, <<9>>, 1, 1, <<8, 8>>, 0, 0, 0, <<>>, <<>>, 1, 0, 0, 0,
                                           sm, <<[tag |-> 9, value |-> <<>>]>>>>)
SubmitResp(seq) == PDU(Response(SubmitSM), 0, seq, <<<<1, 2>>>>)
SubmitFailed(seq) == PDU(Response(SubmitSM), 8, seq, NoBody)
Enquire(seq) == PDU(EnquireLink, 0, seq, NoBody)
Full == [i \in 1..maxShortMessageLen |-> i]

Honest == {Sends(Bind(1)), Sends(BindResp(2)), Sends(BindFailed(3)), Sends(Submit(4, <<>>)), Sends(Submit(5, Full)),
           Sends(SubmitResp(6)), Sends(SubmitFailed(7)), Sends(Enquire(8)), Sends(Enquire(Values(Word) - 1)),
           Sends(NewMobileOriginated(9, <<1>>, <<2>>, <<0, 1>>)),
           Sends(NewDeliveryReceipt(10, <<1>>, <<2>>, <<1, 2>>, 2))}
Malformed == {Malforms(p, k) : p \in {SubmitResp(6), SubmitFailed(7), BindResp(Values(Word) - 1)},
                               k \in {"bad_length", "unknown_command_id", "bad_sequence"}}

\* A body that Encode did not write, under a true header.
Framed(id, body) ==
  FlattenSeq([i \in 1..4 |-> BigEndian(<<HeaderLen + Len(body), id, 0, 11>>[i], Word)]) \o body
Body(p) == SubSeq(Encode(p).frame, HeaderLen + 1, Len(Encode(p).frame))
Fields(n) == SubSeq(Body(Submit(0, <<>>)), 1, n)
BeforeLength == Len(Body(Submit(0, <<>>))) - Word - 1

Irregular == {
  Raw(BigEndian(0, Word)), Raw(BigEndian(HeaderLen - 1, Word)), Raw(BigEndian(MaxPDULen + 1, Word)),
  Raw(BigEndian(MaxPDULen, Word) \o BigEndian(EnquireLink, Word)),
  Raw(Framed(EnquireLink + 1, <<>>)), Raw(Framed(Response(EnquireLink + 1), <<>>)),
  Raw(Framed(EnquireLink, <<1, 2>>)), Raw(Framed(Response(SubmitSM), <<1, 0, 7>>)),
  Raw(Framed(BindTransmitter, <<1, 2, 0>>)), Raw(Framed(BindReceiver, <<1, 1, 1, 1, 1, 0>>)),
  Raw(Framed(Response(SubmitSM), <<1, 2>>)), Raw(Framed(Response(BindReceiver), <<0, 1, 2, 3>>)),
  Raw(Framed(Response(BindReceiver), <<0>> \o [i \in 1..(Word * (maxTLVs + 1)) |-> 0])),
  Raw(Framed(SubmitSM, Fields(BeforeLength))), Raw(Framed(SubmitSM, Fields(BeforeLength) \o <<3, 1, 1>>)),
  Raw(Framed(SubmitSM, Fields(BeforeLength) \o <<Base - 1>> \o [i \in 1..(Base - 1) |-> 1])),
  Raw(Framed(SubmitSM, Fields(BeforeLength) \o <<0, 1>>))}

\* Every pair, and a malformed length between two others.
MCScripts == {<<a, b>> : a, b \in Honest \cup Malformed \cup Irregular}
             \cup {<<a, b, c>> : a \in {Sends(Enquire(8))}, b \in Malformed, c \in Honest}
=============================================================================
