------------------------------- MODULE Uplink -------------------------------
(***************************************************************************)
(* From what a feed tells a worker to what the pipeline decodes: the       *)
(* worker turns a frame of Digitraffic or aisstream into a packet          *)
(* (finland.rs, aisstream.rs) and that into sentences (Codec, encode.rs),  *)
(* the gateway reassembles them (Reassembly), the pipeline decodes the     *)
(* payload (Codec).                                                        *)
(*                                                                         *)
(* In the regime "single" there is one frame, any of Frames, and what it   *)
(* says is followed through; the other regimes are those of Reassembly.    *)
(* A frame that does not parse, or that no packet can be made of, is only  *)
(* counted.                                                                *)
(***************************************************************************)
EXTENDS Reassembly, Codec

CONSTANT Frames   \* what the feeds may say

\* The largest payload, a type 5, takes two sentences.
ASSUME SentencesAssumption == "single" \in Regimes => MaxFragments >= 2

VARIABLE frame

Nobodys == [feed |-> "none"]

UplinkInit ==
  /\ Init
  /\ frame \in IF regime = "single" THEN Frames ELSE {Nobodys}

-----------------------------------------------------------------------------
\* finland.rs.  A frame of Digitraffic is an object some of whose members may
\* be missing.

Get(json, member, default) ==
  IF member \in DOMAIN json THEN json[member] ELSE default

Clamped(v, low, high) == IF v < low THEN low ELSE IF v > high THEN high ELSE v

\* location_to_sentences.
FromLocation(mmsi, loc) ==
  [type |-> "PositionReport",
   is |-> [MessageID |-> 1, RepeatIndicator |-> 0, UserID |-> mmsi,
           NavigationalStatus |-> Get(loc, "navStat", 15),
           RateOfTurn |-> Clamped(Get(loc, "rot", -128), -128, 127),
           Sog |-> Get(loc, "sog", 10230), PositionAccuracy |-> Get(loc, "posAcc", 0),
           Longitude |-> Get(loc, "lon", 0), Latitude |-> Get(loc, "lat", 0),
           Cog |-> Get(loc, "cog", 36000), TrueHeading |-> Get(loc, "heading", 511),
           Timestamp |-> Get(loc, "time", 0) % 60, SpecialManoeuvreIndicator |-> 0,
           Spare |-> 0, Raim |-> Get(loc, "raim", 0), CommunicationState |-> 0]]

\* unpack_eta: month, day, hour and minute of the 20 bits of the field.
UnpackEta(raw) == [Month |-> (raw \div 65536) % 16, Day |-> (raw \div 2048) % 32,
                   Hour |-> (raw \div 64) % 32, Minute |-> raw % 64]

\* metadata_to_sentences: the draught comes in decimeters.
FromMetadata(mmsi, md) ==
  LET eta == UnpackEta(Get(md, "eta", 0))
  IN  [type |-> "ShipStaticData",
       is |-> [MessageID |-> 5, RepeatIndicator |-> 0, UserID |-> mmsi, AisVersion |-> 0,
               ImoNumber |-> Get(md, "imo", 0), CallSign |-> Get(md, "callSign", <<>>),
               Name |-> Get(md, "name", <<>>), Type |-> Get(md, "type", 0),
               A |-> Get(md, "refA", 0), B |-> Get(md, "refB", 0),
               C |-> Get(md, "refC", 0), D |-> Get(md, "refD", 0),
               FixType |-> Get(md, "posType", 0), Month |-> eta.Month, Day |-> eta.Day,
               Hour |-> eta.Hour, Minute |-> eta.Minute,
               MaximumStaticDraught |-> 10 * Get(md, "draught", 0),
               Destination |-> Get(md, "destination", <<>>), Dte |-> 0, Spare |-> 0]]

\* aisstream.rs: the frame's message is a packet already.
ToPacket(f) ==
  CASE f.feed = "location"  -> FromLocation(f.mmsi, f.json)
    [] f.feed = "metadata"  -> FromMetadata(f.mmsi, f.json)
    [] f.feed = "aisstream" -> f.packet

-----------------------------------------------------------------------------
\* What a feed may say: serde refuses a frame whose members are of other types,
\* a feed names each message by its own number, and a part of type 24 says
\* which it is.

Location == [navStat |-> Nat, rot |-> Int, sog |-> Int, posAcc |-> Nat, lon |-> Int,
             lat |-> Int, cog |-> Int, heading |-> Nat, time |-> Int, raim |-> Nat]
Metadata == [eta |-> Nat, imo |-> Nat, callSign |-> Seq(Nat), name |-> Seq(Nat),
             type |-> Nat, refA |-> Nat, refB |-> Nat, refC |-> Nat, refD |-> Nat,
             posType |-> Nat, draught |-> Int, destination |-> Seq(Nat)]
Obeys(json, members) ==
  /\ DOMAIN json \subseteq DOMAIN members
  /\ \A m \in DOMAIN json : json[m] \in members[m]

Holds(f, v) == CASE f.as = "unsigned" -> v \in Nat
                 [] f.as = "string"   -> v \in Seq(Nat)
                 [] OTHER             -> v \in Int
FieldsOf(type) == {Encoder[type][k] : k \in DOMAIN Encoder[type]}
WellFormed(p) ==
  /\ p.type \in Type
  /\ DOMAIN p.is = {f.field : f \in FieldsOf(p.type)} \ {"blank"}
  /\ \A f \in FieldsOf(p.type) : f.as # "blank" => Holds(f, p.is[f.field])
  /\ KindOf(p.is["MessageID"], Get(p.is, "PartNumber", 0)) = p.type

ASSUME FramesAssumption ==
  \A f \in Frames :
    \/ f.feed = "location" /\ f.mmsi \in Nat /\ Obeys(f.json, Location)
    \/ f.feed = "metadata" /\ f.mmsi \in Nat /\ Obeys(f.json, Metadata)
    \/ f.feed = "aisstream" /\ WellFormed(f.packet)

-----------------------------------------------------------------------------
\* to_sentences: at most 60 characters each, the fill bits with the last.

PerSentence == 60

Chunks(payload) ==
  LET total == IF payload.chars = <<>> THEN 1
               ELSE (Len(payload.chars) + PerSentence - 1) \div PerSentence
      end(i) == IF i = total THEN Len(payload.chars) ELSE i * PerSentence
  IN  [i \in 1..total |->
         [chars |-> SubSeq(payload.chars, (i - 1) * PerSentence + 1, end(i)),
          fill  |-> IF i = total THEN payload.fill ELSE 0]]

\* parse: what a payload may be made of.
Parses(chunk) ==
  /\ \A i \in DOMAIN chunk.chars : chunk.chars[i] \in (48..87) \cup (96..119)
  /\ chunk.fill \in 0..5

Content == Chunks(Encode(ToPacket(frame)))

\* ingest_line lets through what parses.
ConvertFrame ==
  /\ regime = "single" /\ sent = 0
  /\ LET content == Content
     IN  /\ \A i \in DOMAIN content : Parses(content[i])
         /\ Convert(Len(content))
  /\ UNCHANGED frame

UplinkNext ==
  \/ ConvertFrame
  \/ Next /\ UNCHANGED frame

UplinkSpec == UplinkInit /\ [][UplinkNext]_<<vars, frame>>

-----------------------------------------------------------------------------
\* Properties.

\* The payload of the published group, as Assembler::add joins it.
Joined ==
  LET content == Content
  IN  [chars |-> FlattenSeq([i \in DOMAIN group |-> content[i].chars]),
       fill  |-> content[Cardinality(DOMAIN group)].fill]

Distance(a, b) == IF a < b THEN b - a ELSE a - b
Sendable(c) == c \in (32..95) \ {64} \/ c \in 97..122
Legible(text, w) ==
  LET upper == [i \in DOMAIN text |-> ToUpper(text[i])]
  IN  Trimmed(SubSeq(upper, 1, Min({Len(text), w \div 6})))

Fits(f, told) ==
  CASE f.as = "unsigned" -> told < TwoTo[f.width]
    [] f.as = "signed"   -> told \in -TwoTo[f.width - 1]..(TwoTo[f.width - 1] - 1)
    [] f.as = "real"     -> told \in 0..(10 * (TwoTo[f.width] - 1))
    [] f.as = "degrees"  -> Distance(told, 0) <= 10 * (TwoTo[f.width - 1] - 1)
    [] f.as = "string"   -> \A i \in DOMAIN told : Sendable(told[i])

\* What is heard of a field is what was told, if that fits the field: numbers
\* to half a unit, text in capitals and to the field's length.
Kept(f, told, heard) ==
  Fits(f, told) =>
    CASE f.as \in {"unsigned", "signed"} -> heard = told
      [] f.as \in {"real", "degrees"}    -> Distance(told, heard) <= 5
      [] f.as = "string"                 -> heard = Legible(told, f.width)

\* The packet with its coordinates in the unit they are sent in.
Rounded(p) ==
  [type |-> p.type,
   is |-> [x \in DOMAIN p.is |-> IF x \in {"Latitude", "Longitude"}
                                  THEN 10 * Round(p.is[x]) ELSE p.is[x]]]

\* "Decoding the re-encoded payload must yield an identical packet": whatever
\* a frame says, the pipeline decodes one message of the same type in which
\* each field that fits is what was told, and no field that does not fit
\* spoils another; a vessel is placed where the frame places it, to the unit,
\* and nowhere when the frame gives a position that is none (coordinates that
\* do not fit their fields, which are wider than the chart, come out as
\* others); the packed time of arrival of Digitraffic comes out bit by bit.
FramesSurvive ==
  regime = "single" =>
    /\ sent = 0 => LET content == Content
                   IN  \A i \in DOMAIN content : Parses(content[i])
    /\ sent = 1 /\ link = <<>> =>
       LET told  == ToPacket(frame)
           heard == Decode(Joined)
       IN  /\ published = 1
           /\ heard.type = told.type
           /\ \A f \in FieldsOf(told.type) :
                f.as # "blank" => Kept(f, told.is[f.field], heard.is[f.field])
           /\ (\A f \in FieldsOf(told.type) :
                f.as = "degrees" => Fits(f, told.is[f.field]))
              => Position(heard) = Position(Rounded(told))
           /\ frame.feed = "metadata" =>
                Get(frame.json, "eta", 0) % TwoTo[20] =
                  Number(PushUint(heard.is["Month"], 4) \o PushUint(heard.is["Day"], 5)
                         \o PushUint(heard.is["Hour"], 5)
                         \o PushUint(heard.is["Minute"], 6))
=============================================================================
