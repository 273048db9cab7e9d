------------------------------- MODULE Codec --------------------------------
(***************************************************************************)
(* crates/ais: AIS messages packed into bits, armored into characters, and *)
(* read back.                                                              *)
(*                                                                         *)
(* A packet is its type and its fields.  The encoder pushes one field      *)
(* after the other and knows widths; the decoder reads at offsets of its   *)
(* own: two tables, as in the source.  Strings are sequences of ASCII      *)
(* codes.  A field the structs hold as a float is counted in tenths of the *)
(* unit it is sent in, so that rounding shows.                             *)
(***************************************************************************)
EXTENDS Integers, Sequences, SequencesExt

-----------------------------------------------------------------------------
\* encode.rs: the fields, in the order in which they are pushed.

Pushed(f, w, as) == [field |-> f, width |-> w, as |-> as]
U(f, w) == Pushed(f, w, "unsigned")
I(f, w) == Pushed(f, w, "signed")
R(f, w) == Pushed(f, w, "real")
D(f, w) == Pushed(f, w, "degrees")
S(f, w) == Pushed(f, w, "string")
Blank(w) == Pushed("blank", w, "blank")

Header == <<U("MessageID", 6), U("RepeatIndicator", 2), U("UserID", 30)>>

\* Mutation: the last two are as wide as the first two.
WideDimension == <<U("A", 9), U("B", 9), U("C", 9), U("D", 9)>>
Dimension == <<U("A", 9), U("B", 9), U("C", 6), U("D", 6)>>

Place == <<D("Longitude", 28), D("Latitude", 27)>>
Motion == <<R("Sog", 10), U("PositionAccuracy", 1)>> \o Place
            \o <<R("Cog", 12), U("TrueHeading", 9), U("Timestamp", 6)>>

Encoder == [
  PositionReport |-> Header \o <<U("NavigationalStatus", 4), I("RateOfTurn", 8)>>
    \o Motion \o <<U("SpecialManoeuvreIndicator", 2), U("Spare", 3), U("Raim", 1),
                   U("CommunicationState", 19)>>,
  BaseStationReport |-> Header
    \o <<U("UtcYear", 14), U("UtcMonth", 4), U("UtcDay", 5), U("UtcHour", 5),
         U("UtcMinute", 6), U("UtcSecond", 6), U("PositionAccuracy", 1)>> \o Place
    \o <<U("FixType", 4), U("Spare", 10), U("Raim", 1), U("CommunicationState", 19)>>,
  ShipStaticData |-> Header
    \o <<U("AisVersion", 2), U("ImoNumber", 30), S("CallSign", 42), S("Name", 120),
         U("Type", 8)>> \o Dimension
    \o <<U("FixType", 4), U("Month", 4), U("Day", 5), U("Hour", 5), U("Minute", 6),
         R("MaximumStaticDraught", 8), S("Destination", 120), U("Dte", 1),
         U("Spare", 1)>>,
  SarAircraft |-> Header
    \o <<U("Altitude", 12), U("Sog", 10), U("PositionAccuracy", 1)>> \o Place
    \o <<R("Cog", 12), U("Timestamp", 6), U("AltFromBaro", 1), Blank(7), U("Dte", 1),
         Blank(3), U("AssignedMode", 1), U("Raim", 1), U("CommunicationState", 20)>>,
  StandardClassB |-> Header \o <<Blank(8)>> \o Motion
    \o <<Blank(2), U("ClassBUnit", 1), U("ClassBDisplay", 1), U("ClassBDsc", 1),
         U("ClassBBand", 1), U("ClassBMsg22", 1), U("AssignedMode", 1), U("Raim", 1),
         U("CommunicationStateIsItdma", 1), U("CommunicationState", 19)>>,
  ExtendedClassB |-> Header \o <<Blank(8)>> \o Motion
    \o <<Blank(4), S("Name", 120), U("Type", 8)>> \o Dimension
    \o <<U("FixType", 4), U("Raim", 1), U("Dte", 1), U("AssignedMode", 1), Blank(4)>>,
  AidsToNavigation |-> Header
    \o <<U("Type", 5), S("Name", 120), U("PositionAccuracy", 1)>> \o Place \o Dimension
    \o <<U("FixType", 4), U("Timestamp", 6), U("OffPosition", 1), U("AtoN", 8),
         U("Raim", 1), U("VirtualAtoN", 1), U("AssignedMode", 1), Blank(1)>>,
  StaticDataA |-> Header \o <<U("PartNumber", 2), S("Name", 120)>>,
  StaticDataB |-> Header
    \o <<U("PartNumber", 2), U("ShipType", 8), S("VendorIDName", 18),
         U("VenderIDModel", 4), U("VenderIDSerial", 20), S("CallSign", 42)>>
    \o Dimension \o <<U("Spare", 6)>>,
  LongRange |-> Header
    \o <<U("PositionAccuracy", 1), U("Raim", 1), U("NavigationalStatus", 4),
         D("Longitude", 18), D("Latitude", 17), R("Sog", 6), R("Cog", 9),
         U("PositionLatency", 1), U("Spare", 1)>>]

Type == DOMAIN Encoder

\* 2 to the n, for the widths there are.
TwoTo ==
  LET twice[n \in 0..30] == IF n = 0 THEN 1 ELSE 2 * twice[n - 1] IN twice

\* push_uint: the low bits, whatever else v has.
PushUint(v, w) == [i \in 1..w |-> (v \div TwoTo[w - i]) % 2]

\* Half away from zero.  A cast to u64 then takes a negative number to 0.
Round(v) == IF v >= 0 THEN (v + 5) \div 10 ELSE -((5 - v) \div 10)
Unsigned(v) == IF v < 0 THEN 0 ELSE v

ToUpper(c) == IF c \in 97..122 THEN c - 32 ELSE c
SixBits(c) ==
  LET low == IF ToUpper(c) >= 64 THEN ToUpper(c) - 64 ELSE ToUpper(c)
  IN  IF low > 63 THEN 0 ELSE low

PushStr(s, w) ==
  FlattenSeq([i \in 1..(w \div 6) |->
                PushUint(IF i <= Len(s) THEN SixBits(s[i]) ELSE 0, 6)])

Push(f, v) ==
  CASE f.as = "unsigned" -> PushUint(v, f.width)
    [] f.as = "signed"   -> PushUint(v % TwoTo[f.width], f.width)
    [] f.as = "real"     -> PushUint(Unsigned(Round(v)), f.width)
    [] f.as = "degrees"  -> PushUint(Round(v) % TwoTo[f.width], f.width)
    [] f.as = "string"   -> PushStr(v, f.width)

EncodeBits(p) ==
  FlattenSeq([i \in DOMAIN Encoder[p.type] |->
    LET f == Encoder[p.type][i]
    IN  IF f.as = "blank" THEN PushUint(0, f.width) ELSE Push(f, p.is[f.field])])

\* to_payload: six bits a character, with fill bits up to a whole one.
Armored(v) == IF v < 40 THEN v + 48 ELSE v + 56

Number(bits) ==
  LET upTo[i \in 0..Len(bits)] == IF i = 0 THEN 0 ELSE 2 * upTo[i - 1] + bits[i]
  IN  upTo[Len(bits)]

Encode(p) ==
  LET bits == EncodeBits(p)
      fill == (6 - (Len(bits) % 6)) % 6
      full == bits \o PushUint(0, fill)
  IN  [chars |-> [i \in 1..(Len(full) \div 6) |->
                    Armored(Number(SubSeq(full, 6 * i - 5, 6 * i)))],
       fill |-> fill]

-----------------------------------------------------------------------------
\* bits.rs.

\* from_payload, for characters parse let pass.
Dearmored(c) == IF c - 48 > 40 THEN c - 56 ELSE c - 48

FromPayload(payload) ==
  LET bits == FlattenSeq([i \in DOMAIN payload.chars |->
                            PushUint(Dearmored(payload.chars[i]), 6)])
  IN  SubSeq(bits, 1, Len(bits) - payload.fill)

\* Past the end is 0.
Uint(bits, start, w) ==
  IF start + w > Len(bits) THEN 0 ELSE Number(SubSeq(bits, start + 1, start + w))

SignedInt(bits, start, w) ==
  LET v == Uint(bits, start, w) IN IF v >= TwoTo[w - 1] THEN v - TwoTo[w] ELSE v

\* Without the spaces at its end.
Trimmed(s) == SubSeq(s, 1, SelectLastInSeq(s, LAMBDA c : c # 32))

\* Up to the first "@", or the last whole character there is, without the
\* spaces at the end.
String(bits, start, w) ==
  LET there == IF start + w > Len(bits) THEN Len(bits) - start ELSE w
      codes == [i \in 1..(there \div 6) |-> Uint(bits, start + 6 * (i - 1), 6)]
      stop  == SelectInSeq(codes, LAMBDA c : c = 0)
      text  == IF stop = 0 THEN codes ELSE SubSeq(codes, 1, stop - 1)
  IN  Trimmed([i \in DOMAIN text |->
                 IF text[i] < 32 THEN text[i] + 64 ELSE text[i]])

-----------------------------------------------------------------------------
\* decode.rs: where each field is read.

At(f, start, w, as) == [field |-> f, start |-> start, width |-> w, as |-> as]
UAt(f, start, w) == At(f, start, w, "unsigned")
IAt(f, start, w) == At(f, start, w, "signed")
RAt(f, start, w) == At(f, start, w, "real")
DAt(f, start, w) == At(f, start, w, "degrees")
SAt(f, start, w) == At(f, start, w, "string")

HeaderRead == {UAt("MessageID", 0, 6), UAt("RepeatIndicator", 6, 2),
UAt("UserID", 8, 30)}

DimensionAt(n) ==
  {UAt("A", n, 9), UAt("B", n + 9, 9), UAt("C", n + 18, 6), UAt("D", n + 24, 6)}

\* The fields class A and class B reports share, in the same order.
MotionAt(n) ==
  {RAt("Sog", n, 10), UAt("PositionAccuracy", n + 10, 1),
   DAt("Longitude", n + 11, 28),
   DAt("Latitude", n + 39, 27), RAt("Cog", n + 66, 12),
   UAt("TrueHeading", n + 78, 9),
   UAt("Timestamp", n + 87, 6)}

Decoder == [
  PositionReport |-> MotionAt(50) \cup
    {UAt("NavigationalStatus", 38, 4), IAt("RateOfTurn", 42, 8),
     UAt("SpecialManoeuvreIndicator", 143, 2), UAt("Spare", 145, 3),
     UAt("Raim", 148, 1),
     UAt("CommunicationState", 149, 19)},
  BaseStationReport |->
    {UAt("UtcYear", 38, 14), UAt("UtcMonth", 52, 4), UAt("UtcDay", 56, 5),
     UAt("UtcHour", 61, 5), UAt("UtcMinute", 66, 6), UAt("UtcSecond", 72, 6),
     UAt("PositionAccuracy", 78, 1), DAt("Longitude", 79, 28),
     DAt("Latitude", 107, 27),
     UAt("FixType", 134, 4), UAt("Spare", 138, 10), UAt("Raim", 148, 1),
     UAt("CommunicationState", 149, 19)},
  ShipStaticData |-> DimensionAt(240) \cup
    {UAt("AisVersion", 38, 2), UAt("ImoNumber", 40, 30), SAt("CallSign", 70, 42),
     SAt("Name", 112, 120), UAt("Type", 232, 8), UAt("FixType", 270, 4),
     UAt("Month", 274, 4), UAt("Day", 278, 5), UAt("Hour", 283, 5),
     UAt("Minute", 288, 6),
     RAt("MaximumStaticDraught", 294, 8), SAt("Destination", 302, 120),
     UAt("Dte", 422, 1), UAt("Spare", 423, 1)},
  SarAircraft |->
    {UAt("Altitude", 38, 12), UAt("Sog", 50, 10), UAt("PositionAccuracy", 60, 1),
     DAt("Longitude", 61, 28), DAt("Latitude", 89, 27), RAt("Cog", 116, 12),
     UAt("Timestamp", 128, 6), UAt("AltFromBaro", 134, 1), UAt("Dte", 142, 1),
     UAt("AssignedMode", 146, 1), UAt("Raim", 147, 1),
     UAt("CommunicationState", 148, 20)},
  StandardClassB |-> MotionAt(46) \cup
    {UAt("ClassBUnit", 141, 1), UAt("ClassBDisplay", 142, 1),
     UAt("ClassBDsc", 143, 1),
     UAt("ClassBBand", 144, 1), UAt("ClassBMsg22", 145, 1),
     UAt("AssignedMode", 146, 1),
     UAt("Raim", 147, 1), UAt("CommunicationStateIsItdma", 148, 1),
     UAt("CommunicationState", 149, 19)},
  ExtendedClassB |-> MotionAt(46) \cup DimensionAt(271) \cup
    {SAt("Name", 143, 120), UAt("Type", 263, 8), UAt("FixType", 301, 4),
     UAt("Raim", 305, 1),
     UAt("Dte", 306, 1), UAt("AssignedMode", 307, 1)},
  AidsToNavigation |-> DimensionAt(219) \cup
    {UAt("Type", 38, 5), SAt("Name", 43, 120), UAt("PositionAccuracy", 163, 1),
     DAt("Longitude", 164, 28), DAt("Latitude", 192, 27), UAt("FixType", 249, 4),
     UAt("Timestamp", 253, 6), UAt("OffPosition", 259, 1), UAt("AtoN", 260, 8),
     UAt("Raim", 268, 1), UAt("VirtualAtoN", 269, 1),
     UAt("AssignedMode", 270, 1)},
  StaticDataA |-> {UAt("PartNumber", 38, 2), SAt("Name", 40, 120)},
  StaticDataB |-> DimensionAt(132) \cup
    {UAt("PartNumber", 38, 2), UAt("ShipType", 40, 8),
     SAt("VendorIDName", 48, 18),
     UAt("VenderIDModel", 66, 4), UAt("VenderIDSerial", 70, 20),
     SAt("CallSign", 90, 42),
     UAt("Spare", 162, 6)},
  LongRange |->
    {UAt("PositionAccuracy", 38, 1), UAt("Raim", 39, 1),
     UAt("NavigationalStatus", 40, 4),
     DAt("Longitude", 44, 18), DAt("Latitude", 62, 17), RAt("Sog", 79, 6),
     RAt("Cog", 85, 9),
     UAt("PositionLatency", 94, 1), UAt("Spare", 95, 1)}]

\* A type 5 may lack its last bits, which then read as 0.
Needed == [PositionReport |-> 168, BaseStationReport |-> 168, ShipStaticData |-> 420,
           SarAircraft |-> 168, StandardClassB |-> 168, ExtendedClassB |-> 312,
           AidsToNavigation |-> 272, StaticDataA |-> 160, StaticDataB |-> 168,
           LongRange |-> 96]

\* The reserved halves of type 24 carry neither half; other types are Unknown.
KindOf(id, part) ==
  CASE id \in 1..3         -> "PositionReport"
    [] id \in {4, 11}      -> "BaseStationReport"
    [] id = 5              -> "ShipStaticData"
    [] id = 9              -> "SarAircraft"
    [] id = 18             -> "StandardClassB"
    [] id = 19             -> "ExtendedClassB"
    [] id = 21             -> "AidsToNavigation"
    [] id = 24 /\ part = 0 -> "StaticDataA"
    [] id = 24 /\ part = 1 -> "StaticDataB"
    [] id = 27             -> "LongRange"
    [] OTHER               -> "Unknown"

TypeOf(bits) == KindOf(Uint(bits, 0, 6), Uint(bits, 38, 2))

Read(bits, f) ==
  CASE f.as = "unsigned" -> Uint(bits, f.start, f.width)
    [] f.as = "signed"   -> SignedInt(bits, f.start, f.width)
    [] f.as = "real"     -> 10 * Uint(bits, f.start, f.width)
    [] f.as = "degrees"  -> 10 * SignedInt(bits, f.start, f.width)
    [] f.as = "string"   -> String(bits, f.start, f.width)

TooShort == [type |-> "TooShort"]
Unknown == [type |-> "Unknown"]

Decode(payload) ==
  LET bits == FromPayload(payload)
      type == TypeOf(bits)
      read == HeaderRead \cup Decoder[type]
  IN  IF Len(bits) < 38 THEN TooShort
      ELSE IF type = "Unknown" THEN Unknown
      ELSE IF Len(bits) < Needed[type] THEN TooShort
      ELSE [type |-> type,
            is |-> [f \in {x.field : x \in read} |->
                      Read(bits, CHOOSE x \in read : x.field = f)]]

\* A degree, in the tenths of the unit the packet's type counts in.
Degree(type) == IF type = "LongRange" THEN 6000 ELSE 6000000

\* What the pipeline acts on: valid_position, and the name if there is one.
Position(p) ==
  IF /\ "Latitude" \in DOMAIN p.is
     /\ p.is["Latitude"] \in (-90 * Degree(p.type))..(90 * Degree(p.type))
     /\ p.is["Longitude"] \in (-180 * Degree(p.type))..(180 * Degree(p.type))
    THEN <<p.is["Latitude"], p.is["Longitude"]>> ELSE <<>>
=============================================================================
