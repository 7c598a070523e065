--------------------------- MODULE MPaxosMessages ---------------------------
(***************************************************************************)
(* mpaxos.pb-c.c and rs_helper.h: the descriptors of the messages the      *)
(* nodes exchange, and how a value becomes coded values.  A descriptor is  *)
(* its fields and its ranges of field numbers, each range with its first   *)
(* number and the index of that field, the last one a sentinel.            *)
(***************************************************************************)
EXTENDS ProtobufC, Fec

Field(label, type, name, id, descriptor) ==
  [label |-> label, type |-> type, name |-> name, id |-> id, descriptor |-> descriptor]

required(type, name, id)            == Field("REQUIRED", type, name, id, NULL)
required_message(name, id, desc)    == Field("REQUIRED", "MESSAGE", name, id, desc)
repeated_message(name, id, desc)    == Field("REPEATED", "MESSAGE", name, id, desc)

Descriptor(fields, ranges) == [fields |-> fields, field_ranges |-> ranges]

\* msg_header.msgtype_t and ack_enum.
PREPARE  == 0
PROMISE  == 1
ACCEPT   == 2
ACCEPTED == 3

SUCCESS == 0
ERR_BID == 1

roundid_t == Descriptor(
  <<required("UINT32", "gid", 1), required("UINT64", "sid", 2), required("UINT64", "bid", 3)>>,
  << <<1, 0>>, <<0, 3>> >>)

msg_header == Descriptor(
  <<required("ENUM", "t", 1), required("UINT32", "nid", 2), required("UINT64", "tid", 3)>>,
  << <<1, 0>>, <<0, 3>> >>)

coded_value_t == Descriptor(
  <<required("UINT32", "sz", 1), required("UINT32", "k", 2), required("UINT32", "n", 3),
    required("UINT32", "id", 4), required("BYTES", "value", 5)>>,
  << <<1, 0>>, <<0, 5>> >>)

proposal == Descriptor(
  <<repeated_message("rids", 1, roundid_t), required("UINT64", "tid", 2),
    required("UINT32", "nid", 3), Field("OPTIONAL", "BYTES", "value", 4, NULL),
    Field("OPTIONAL", "MESSAGE", "coded_value", 5, coded_value_t)>>,
  << <<1, 0>>, <<0, 5>> >>)

response_t == Descriptor(
  <<required_message("rid", 1, roundid_t), required("ENUM", "ack", 2),
    repeated_message("props", 3, proposal)>>,
  << <<1, 0>>, <<0, 3>> >>)

msg_prepare == Descriptor(
  <<required_message("h", 1, msg_header), repeated_message("rids", 2, roundid_t)>>,
  << <<1, 0>>, <<0, 2>> >>)

msg_promise == Descriptor(
  <<required_message("h", 1, msg_header), repeated_message("ress", 2, response_t)>>,
  << <<1, 0>>, <<0, 2>> >>)

\* The field numbers of this message have a gap, and so two ranges.
msg_accept == Descriptor(
  <<required_message("h", 1, msg_header), required_message("prop", 3, proposal)>>,
  << <<1, 0>>, <<3, 1>>, <<0, 2>> >>)

msg_accepted == Descriptor(
  <<required_message("h", 1, msg_header), repeated_message("ress", 2, response_t)>>,
  << <<1, 0>>, <<0, 2>> >>)

\* What the members of these messages hold; no has_... of theirs is ever set.
\* MaxValueLen leaves room for the other fields in a uint32_t length.
MaxValueLen == 2^30
Roundid    == [gid : UInt32, sid : UInt64, bid : UInt64, has : {{}}, unknown : {<<>>}]
Header_t   == [t : PREPARE .. ACCEPTED, nid : UInt32, tid : UInt64, has : {{}}, unknown : {<<>>}]
CodedValue == [sz : UInt32, k : UInt32, n : UInt32, id : UInt32,
               value : {v \in Seq(Octet) : Len(v) <= MaxValueLen}, has : {{}}, unknown : {<<>>}]
Proposal   == [rids : Seq(Roundid), tid : UInt64, nid : UInt32, value : Seq(Octet),
               coded_value : CodedValue \cup {NULL}, has : {{}}, unknown : {<<>>}]
Response_t == [rid : Roundid, ack : {SUCCESS, ERR_BID}, props : Seq(Proposal),
               has : {{}}, unknown : {<<>>}]

\* The whole messages, as the nodes exchange them while no slot is used twice: one
\* round to a proposal, no proposal in an answer.
Bare      == {res \in Response_t : res.props = <<>>}
Prepare_t == [h : Header_t, rids : Seq(Roundid), has : {{}}, unknown : {<<>>}]
Answer_t  == [h : Header_t, ress : Seq(Bare), has : {{}}, unknown : {<<>>}]
Accept_t  == [h : Header_t, prop : {p \in Proposal : Len(p.rids) = 1}, has : {{}}, unknown : {<<>>}]

ASSUME NullAssumption ==
  /\ NULL \notin Roundid /\ NULL \notin Header_t /\ NULL \notin CodedValue
  /\ NULL \notin Proposal /\ NULL \notin Response_t

DescriptorOf(t) == IF t = PREPARE THEN msg_prepare ELSE IF t = PROMISE THEN msg_promise
                   ELSE IF t = ACCEPT THEN msg_accept ELSE msg_accepted

\* A message as its init function leaves it, with the given members set.
Message(desc, members) ==
  [name \in MemberNames(desc) |-> IF name \in DOMAIN members THEN members[name]
                                  ELSE message_init(desc)[name]]

-----------------------------------------------------------------------------
\* Numbers below 256 as elements of the field, and back.
Bits(number)   == {i \in 0 .. 7 : (number \div 2^i) % 2 = 1}
Number(byte)   == LET bit(i) == IF i \in byte THEN 2^i ELSE 0
                  IN  bit(0) + bit(1) + bit(2) + bit(3) + bit(4) + bit(5) + bit(6) + bit(7)
BlockOf(bytes) == [i \in DOMAIN bytes |-> Bits(bytes[i])]
BytesOf(block, len) == [i \in 1 .. len |-> Number(block[i])]

sz_share(sz_data, k) == (sz_data + k - 1) \div k

\* How far the k copies of rs_encode read past the end of the data.
Overread(data, k) == sz_share(Len(data), k) * k - Len(data)

\* Mutant of Slice: the copies overlap by a byte.
SliceBehind(data, i, size) ==
  IF i = 0 THEN SubSeq(data, 1, size) ELSE SubSeq(data, i * size, i * size + size - 1)

Slice(data, i, size) == SubSeq(data, i * size + 1, i * size + size)

\* rs_encode: k shares with the data, of equal size, and n - k with check blocks.
\* tail is what lies in memory behind the data.
rs_encode(data, tail, k, n) ==
  LET size   == sz_share(Len(data), k)
      source == Array(k, LAMBDA i : BlockOf(Slice(data \o tail, i, size)))
      nums   == [j \in 1 .. n - k |-> k + j - 1]
      checks == fec_encode(fec_new(k, n), source, nums)
      share(i) == IF i < k THEN source[i] ELSE checks[i - k + 1]
  IN  [i \in 0 .. n - 1 |->
        Message(coded_value_t, [sz |-> Len(data), k |-> k, n |-> n, id |-> i,
                                value |-> BytesOf(share(i), size)])]
=============================================================================
