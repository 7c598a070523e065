------------------------------ MODULE ProtobufC ------------------------------
(***************************************************************************)
(* protobuf-c/protobuf-c.c: the packed size of a message, packing it and   *)
(* unpacking it, driven by the descriptors of the generated code.  A       *)
(* message is a record: its fields by name, "has" with the names of the    *)
(* optional members whose quantifier (has_...) is set, and "unknown" with  *)
(* the fields its descriptor does not know.  A packed message is a         *)
(* sequence of bytes.  The types are those the repository's messages use,  *)
(* none of which has a packed repeated field or a default value.           *)
(*                                                                         *)
(* TLC's integers end at 2^31 - 1: a uint32_t is below 2^31 here, and a    *)
(* uint64_t is its two words [hi, lo], as uint64_pack takes it apart.      *)
(*                                                                         *)
(* The library calls itself for embedded messages.  Here an operator gets  *)
(* what these calls return as a function, inner, of the descriptor and the *)
(* message (or its bytes), and there is a definition per level of nesting: *)
(* four, as in a msg_promise with the coded value of a proposal in it.     *)
(***************************************************************************)
EXTENDS Integers, Sequences, FiniteSets, SequencesExt

CONSTANT NULL    \* the null pointer: an absent message, and a failed unpack

VARINT          == 0    \* ProtobufCWireType
WIRE_64BIT      == 1
LENGTH_PREFIXED == 2
WIRE_32BIT      == 5

Octet  == 0 .. 255
UInt32 == {n \in Nat : n <= 2147483647}
UInt64 == [hi : UInt32, lo : UInt32]
Word64(n) == [hi |-> 0, lo |-> n]

Least(a, b) == IF a <= b THEN a ELSE b

\* The sum of a sequence of numbers.
Total(numbers) ==
  LET sum[i \in 0 .. Len(numbers)] == IF i = 0 THEN 0 ELSE sum[i - 1] + numbers[i]
  IN  sum[Len(numbers)]

\* The messages embedded in a message, each with its descriptor.
MembersOf(field, message) == IF field.label = "REPEATED" THEN Range(message[field.name])
                             ELSE {message[field.name]} \ {NULL}
Embedded(desc, message) ==
  UNION {{<<field.descriptor, member>> : member \in MembersOf(field, message)} :
           field \in {f \in Range(desc.fields) : f.type = "MESSAGE"}}

-----------------------------------------------------------------------------
\* Sizes.

get_tag_size(number) == IF number < 2^4 THEN 1 ELSE IF number < 2^11 THEN 2
                        ELSE IF number < 2^18 THEN 3 ELSE IF number < 2^25 THEN 4 ELSE 5

uint32_size(v) == IF v < 2^7 THEN 1 ELSE IF v < 2^14 THEN 2
                  ELSE IF v < 2^21 THEN 3 ELSE IF v < 2^28 THEN 4 ELSE 5

\* Mutant of uint64_size: a boundary one bit too high.
uint64_size_16(v) == IF v.hi = 0 THEN uint32_size(v.lo) ELSE IF v.hi < 2^4 THEN 5 ELSE 6

uint64_size(v) == IF v.hi = 0 THEN uint32_size(v.lo)
                  ELSE IF v.hi < 2^3 THEN 5 ELSE IF v.hi < 2^10 THEN 6
                  ELSE IF v.hi < 2^17 THEN 7 ELSE IF v.hi < 2^24 THEN 8 ELSE 9

required_field_get_packed_size(field, member, inner) ==
  LET prefixed(len) == uint32_size(len) + len
  IN  get_tag_size(field.id)
      + (IF field.type \in {"UINT32", "ENUM"} THEN uint32_size(member)
         ELSE IF field.type = "UINT64" THEN uint64_size(member)
         ELSE IF field.type = "BYTES" THEN prefixed(Len(member))
         ELSE prefixed(IF member = NULL THEN 0 ELSE inner[<<field.descriptor, member>>]))

\* An optional message is there if it is not null, an optional scalar if its
\* quantifier says so, whatever the member itself holds.
IsSet(field, message) ==
  IF field.type = "MESSAGE" THEN message[field.name] # NULL ELSE field.name \in message.has

optional_field_get_packed_size(field, message, inner) ==
  IF IsSet(field, message)
  THEN required_field_get_packed_size(field, message[field.name], inner) ELSE 0

repeated_field_get_packed_size(field, array, inner) ==
  Total([i \in 1 .. Len(array) |-> required_field_get_packed_size(field, array[i], inner)])

unknown_field_get_packed_size(field) == get_tag_size(field.tag) + Len(field.data)

field_get_packed_size(field, message, inner) ==
  IF field.label = "REQUIRED"
  THEN required_field_get_packed_size(field, message[field.name], inner)
  ELSE IF field.label = "OPTIONAL" THEN optional_field_get_packed_size(field, message, inner)
  ELSE repeated_field_get_packed_size(field, message[field.name], inner)

fields_get_packed_size(desc, message, inner) ==
  Total([i \in 1 .. Len(desc.fields) |->
           field_get_packed_size(desc.fields[i], message, inner)])
  + Total([i \in 1 .. Len(message.unknown) |->
             unknown_field_get_packed_size(message.unknown[i])])

packed_size1(p) == fields_get_packed_size(p[1], p[2], <<>>)
packed_size2(p) == fields_get_packed_size(p[1], p[2],
                     [q \in Embedded(p[1], p[2]) |-> packed_size1(q)])
packed_size3(p) == fields_get_packed_size(p[1], p[2],
                     [q \in Embedded(p[1], p[2]) |-> packed_size2(q)])
message_get_packed_size(desc, message) ==
  fields_get_packed_size(desc, message, [q \in Embedded(desc, message) |-> packed_size3(q)])

-----------------------------------------------------------------------------
\* Packing.

\* uint32_pack: groups of 7 bits, the lowest first, with the high bit on all but
\* the last.
uint32_pack(v) ==
  LET more(x) == 128 + (x % 128)
  IN  IF v < 2^7 THEN <<v>>
      ELSE IF v < 2^14 THEN <<more(v), v \div 2^7>>
      ELSE IF v < 2^21 THEN <<more(v), more(v \div 2^7), v \div 2^14>>
      ELSE IF v < 2^28 THEN <<more(v), more(v \div 2^7), more(v \div 2^14), v \div 2^21>>
      ELSE <<more(v), more(v \div 2^7), more(v \div 2^14), more(v \div 2^21), v \div 2^28>>

\* Mutant of uint64_pack: the bits of hi in the fifth group are not shifted out.
uint64_pack_hi(v) ==
  LET more(x) == 128 + (x % 128)
      lo4    == <<more(v.lo), more(v.lo \div 2^7), more(v.lo \div 2^14), more(v.lo \div 2^21)>>
      middle == (v.hi % 8) * 16 + (v.lo \div 2^28)
  IN  IF v.hi = 0 THEN uint32_pack(v.lo) ELSE lo4 \o <<128 + middle>> \o uint32_pack(v.hi)

\* uint64_pack: four groups of lo, one shared by lo and hi, the rest of hi.
uint64_pack(v) ==
  LET more(x) == 128 + (x % 128)
      lo4    == <<more(v.lo), more(v.lo \div 2^7), more(v.lo \div 2^14), more(v.lo \div 2^21)>>
      middle == (v.hi % 8) * 16 + (v.lo \div 2^28)
  IN  IF v.hi = 0 THEN uint32_pack(v.lo)
      ELSE IF v.hi < 8 THEN lo4 \o <<middle>>
      ELSE lo4 \o (<<128 + middle>> \o uint32_pack(v.hi \div 8))

binary_data_pack(bd) == uint32_pack(Len(bd)) \o bd

prefixed_message_pack(field, member, inner) ==
  IF member = NULL THEN <<0>> ELSE binary_data_pack(inner[<<field.descriptor, member>>])

\* tag_pack, and the wire type the callers or into its first byte.
tag_pack(id, wire_type) == uint32_pack(id * 8 + wire_type)

WireType(type) ==
  IF type \in {"UINT32", "ENUM", "UINT64"} THEN VARINT ELSE LENGTH_PREFIXED

required_field_pack(field, member, inner) ==
  tag_pack(field.id, WireType(field.type)) \o
    (IF field.type \in {"UINT32", "ENUM"} THEN uint32_pack(member)
     ELSE IF field.type = "UINT64" THEN uint64_pack(member)
     ELSE IF field.type = "BYTES" THEN binary_data_pack(member)
     ELSE prefixed_message_pack(field, member, inner))

optional_field_pack(field, message, inner) ==
  IF IsSet(field, message) THEN required_field_pack(field, message[field.name], inner) ELSE <<>>

repeated_field_pack(field, array, inner) ==
  FlattenSeq([i \in 1 .. Len(array) |-> required_field_pack(field, array[i], inner)])

unknown_field_pack(field) == tag_pack(field.tag, field.wire_type) \o field.data

field_pack(field, message, inner) ==
  IF field.label = "REQUIRED" THEN required_field_pack(field, message[field.name], inner)
  ELSE IF field.label = "OPTIONAL" THEN optional_field_pack(field, message, inner)
  ELSE repeated_field_pack(field, message[field.name], inner)

fields_pack(desc, message, inner) ==
  FlattenSeq([i \in 1 .. Len(desc.fields) |-> field_pack(desc.fields[i], message, inner)])
  \o FlattenSeq([i \in 1 .. Len(message.unknown) |-> unknown_field_pack(message.unknown[i])])

pack1(p) == fields_pack(p[1], p[2], <<>>)
pack2(p) == fields_pack(p[1], p[2], [q \in Embedded(p[1], p[2]) |-> pack1(q)])
pack3(p) == fields_pack(p[1], p[2], [q \in Embedded(p[1], p[2]) |-> pack2(q)])
message_pack(desc, message) ==
  fields_pack(desc, message, [q \in Embedded(desc, message) |-> pack3(q)])

-----------------------------------------------------------------------------
\* Unpacking.

\* int_range_lookup: the index of the field with the given tag, or -1, by binary
\* search in n ranges from start.  A range is its first tag and the index of that
\* field, and ends where the index of the next range begins; the last one is a
\* sentinel.
int_range_lookup(ranges, value) ==
  LET first(r) == ranges[r + 1][1]
      after(r) == first(r) + ranges[r + 2][2] - ranges[r + 1][2]
      index(r) == value - first(r) + ranges[r + 1][2]
      search[part \in Nat \X Nat] ==
        LET start == part[1]
            n     == part[2]
            mid   == start + n \div 2
        IN  IF n > 1 /\ value < first(mid) THEN search[<<start, mid - start>>]
            ELSE IF n > 1 /\ value >= after(mid) THEN search[<<mid + 1, start + n - (mid + 1)>>]
            ELSE IF n > 1 THEN index(mid)
            ELSE IF n = 1 /\ first(start) <= value /\ value < after(start) THEN index(start)
            ELSE -1
  IN  search[<<0, Len(ranges) - 1>>]

\* The number of bytes of the varint at the head of data, of at most max: 0 if it
\* does not end there.
VarintLen(data, max) ==
  LET ends == {i \in 1 .. Least(Len(data), max) : data[i] < 128}
  IN  IF ends = {} THEN 0 ELSE CHOOSE i \in ends : \A j \in ends : i <= j

\* The i-th group of a varint of len bytes, shifted to its place.
Group(i, len, data, weight) == IF i <= len THEN (data[i] % 128) * weight ELSE 0

\* parse_uint32 of len bytes: those after the fifth are ignored.
parse_uint32(len, data) ==
  Group(1, len, data, 1) + Group(2, len, data, 2^7) + Group(3, len, data, 2^14)
  + Group(4, len, data, 2^21) + (IF 5 <= len THEN (data[5] % 16) * 2^28 ELSE 0)

\* parse_uint64: the groups from the fifth on belong to hi, but for 4 bits; a
\* tenth would to the bit of hi left out here.
parse_uint64(len, data) ==
  IF len < 5 THEN Word64(parse_uint32(len, data))
  ELSE [hi |-> ((data[5] % 128) \div 16) + Group(6, len, data, 2^3) + Group(7, len, data, 2^10)
               + Group(8, len, data, 2^17) + Group(9, len, data, 2^24),
        lo |-> parse_uint32(5, data)]

\* parse_tag_and_wiretype: used is 0 for a bad header.
parse_tag_and_wiretype(data) ==
  LET used == VarintLen(data, 5)
  IN  [used |-> used, wire_type |-> data[1] % 8,
       tag  |-> IF used = 0 THEN 0 ELSE parse_uint32(used, data) \div 8]

\* scan_length_prefixed_data: 0 if the length does not end or the data is short.
scan_length_prefixed_data(data) ==
  LET hdr_len == VarintLen(data, 5)
      len     == hdr_len + parse_uint32(hdr_len, data)
  IN  [prefix_len |-> hdr_len, len |-> IF hdr_len = 0 \/ len > Len(data) THEN 0 ELSE len]

\* The extent of the member that follows a tag; a len of 0 is an error.
MemberExtent(wire_type, data) ==
  LET fixed(n) == [prefix_len |-> 0, len |-> IF Len(data) < n THEN 0 ELSE n]
  IN  IF wire_type = VARINT THEN [prefix_len |-> 0, len |-> VarintLen(data, 10)]
      ELSE IF wire_type = WIRE_64BIT THEN fixed(8)
      ELSE IF wire_type = LENGTH_PREFIXED THEN scan_length_prefixed_data(data)
      ELSE IF wire_type = WIRE_32BIT THEN fixed(4)
      ELSE [prefix_len |-> 0, len |-> 0]

\* One round of the first loop of message_unpack: the member at the head of data,
\* with the index of its field, or -1.  Without data it is an error.
ScanMember(desc, data) ==
  LET header == parse_tag_and_wiretype(data)
      body   == SubSeq(data, header.used + 1, Len(data))
      extent == MemberExtent(header.wire_type, body)
  IN  [tag |-> header.tag, wire_type |-> header.wire_type, used |-> header.used,
       index |-> int_range_lookup(desc.field_ranges, header.tag),
       prefix_len |-> extent.prefix_len,
       data |-> IF header.used = 0 THEN <<>> ELSE SubSeq(body, 1, extent.len)]

\* The member at the head of data and, unless it is an error, what scan finds in the
\* bytes behind it.
ScanOn(member, data, scan) ==
  LET end == member.used + Len(member.data)
  IN  IF member.data = <<>> THEN <<member>>
      ELSE <<member>> \o scan[SubSeq(data, end + 1, Len(data))]

\* All of the loop: the members in data, up to an error.
ScanMembers(desc, data) ==
  LET scan[rest \in Seq(Octet)] ==
        IF rest = <<>> THEN <<>> ELSE ScanOn(ScanMember(desc, rest), rest, scan)
  IN  scan[data]

\* The generated init functions: every member 0, empty or null.
EmptyMember(field) == IF field.label = "REPEATED" \/ field.type = "BYTES" THEN <<>>
               ELSE IF field.type = "MESSAGE" THEN NULL
               ELSE IF field.type = "UINT64" THEN Word64(0) ELSE 0
FieldNamed(desc, name) == CHOOSE f \in Range(desc.fields) : f.name = name
MemberNames(desc) == {f.name : f \in Range(desc.fields)} \cup {"has", "unknown"}
message_init(desc) ==
  [name \in MemberNames(desc) |->
     IF name = "has" THEN {} ELSE IF name = "unknown" THEN <<>> ELSE EmptyMember(FieldNamed(desc, name))]

\* merge_messages: what an earlier instance of an embedded message adds to a
\* later one.  Without a default value, an optional byte string is not merged.
merge_fields(desc, earlier, latter, inner) ==
  LET scalar(f) == f.label = "OPTIONAL" /\ f.type \in {"UINT32", "UINT64", "ENUM"}
      added == {f.name : f \in {g \in Range(desc.fields) :
                                  scalar(g) /\ g.name \in earlier.has \ latter.has}}
      member(f, e, l) ==
        IF f.label = "REPEATED" THEN l \o e
        ELSE IF f.type = "MESSAGE"
        THEN IF e = NULL THEN l ELSE IF l = NULL THEN e ELSE inner[<<f.descriptor, e, l>>]
        ELSE IF f.name \in added THEN e ELSE l
  IN  [name \in DOMAIN latter |->
         IF name = "has" THEN latter.has \cup added
         ELSE IF name = "unknown" THEN latter.unknown
         ELSE member(FieldNamed(desc, name), earlier[name], latter[name])]

\* The embedded messages that both have.
InBoth(desc, earlier, latter) ==
  {<<f.descriptor, earlier[f.name], latter[f.name]>> :
     f \in {g \in Range(desc.fields) : /\ g.type = "MESSAGE" /\ g.label # "REPEATED"
                                       /\ NULL \notin {earlier[g.name], latter[g.name]}}}

merge1(q) == merge_fields(q[1], q[2], q[3], <<>>)
merge2(q) == merge_fields(q[1], q[2], q[3], [r \in InBoth(q[1], q[2], q[3]) |-> merge1(r)])
merge_messages(desc, earlier, latter) ==
  merge_fields(desc, earlier, latter, [r \in InBoth(desc, earlier, latter) |-> merge2(r)])

\* The bytes of a member behind its length.
ContentOf(scanned) == SubSeq(scanned.data, scanned.prefix_len + 1, Len(scanned.data))

\* Whether parse_required_member returns true.
Parses(field, scanned, inner) ==
  /\ scanned.wire_type = WireType(field.type)
  /\ field.type = "MESSAGE" => inner[<<field.descriptor, ContentOf(scanned)>>] # NULL

\* parse_required_member: the new value of the member.
parse_required_member(field, scanned, old, maybe_clear, inner) ==
  LET subm == inner[<<field.descriptor, ContentOf(scanned)>>]
  IN  IF field.type \in {"UINT32", "ENUM"} THEN parse_uint32(Len(scanned.data), scanned.data)
      ELSE IF field.type = "UINT64" THEN parse_uint64(Len(scanned.data), scanned.data)
      ELSE IF field.type = "BYTES" THEN ContentOf(scanned)
      ELSE IF maybe_clear /\ old # NULL THEN merge_messages(field.descriptor, old, subm)
      ELSE subm

\* parse_member, parse_optional_member, parse_repeated_member: the message with
\* the scanned member in it.
parse_member(desc, message, scanned, inner) ==
  LET field == desc.fields[scanned.index + 1]
      value(old, maybe_clear) == parse_required_member(field, scanned, old, maybe_clear, inner)
  IN  IF scanned.index < 0
      THEN [message EXCEPT !.unknown = Append(@, [tag |-> scanned.tag,
              wire_type |-> scanned.wire_type, data |-> scanned.data])]
      ELSE IF field.label = "REPEATED"
      THEN [message EXCEPT ![field.name] = Append(@, value(NULL, FALSE))]
      ELSE [message EXCEPT ![field.name] = value(@, TRUE),
              !.has = IF field.label = "OPTIONAL" /\ field.type # "MESSAGE"
                      THEN @ \cup {field.name} ELSE @]

\* The last loop of message_unpack: parse into an initialised message, in order.
parse_all(desc, members, inner) ==
  LET parsed[i \in 0 .. Len(members)] ==
        IF i = 0 THEN message_init(desc)
        ELSE parse_member(desc, parsed[i - 1], members[i], inner)
  IN  parsed[Len(members)]

\* What follows the first loop: NULL if a member could not be scanned or does not
\* parse, or a required field is missing.
parse_members(desc, members, inner) ==
  LET indexes  == {scanned.index : scanned \in Range(members)}
      complete == \A i \in 1 .. Len(desc.fields) :
                    desc.fields[i].label = "REQUIRED" => i - 1 \in indexes
      good(scanned) ==
        /\ scanned.data # <<>>
        /\ scanned.index >= 0 => Parses(desc.fields[scanned.index + 1], scanned, inner)
  IN  IF complete /\ \A i \in 1 .. Len(members) : good(members[i])
      THEN parse_all(desc, members, inner) ELSE NULL

\* The messages embedded in a packed one, as bytes, each with its descriptor.
PackedIn(desc, members) ==
  {<<desc.fields[m.index + 1].descriptor, ContentOf(m)>> :
     m \in {s \in Range(members) : s.index >= 0 /\ desc.fields[s.index + 1].type = "MESSAGE"}}

unpack1(p) == parse_members(p[1], ScanMembers(p[1], p[2]), <<>>)
unpack2(p) == LET members == ScanMembers(p[1], p[2])
              IN  parse_members(p[1], members, [q \in PackedIn(p[1], members) |-> unpack1(q)])
unpack3(p) == LET members == ScanMembers(p[1], p[2])
              IN  parse_members(p[1], members, [q \in PackedIn(p[1], members) |-> unpack2(q)])
message_unpack(desc, data) ==
  LET members == ScanMembers(desc, data)
  IN  parse_members(desc, members, [q \in PackedIn(desc, members) |-> unpack3(q)])
=============================================================================
