------------------------------ MODULE MCUplink ------------------------------
(* Uplink with two sequence ids and a counter that wraps at five, so that  *)
(* an id comes back after two messages, and at once where it wraps; and    *)
(* frames that put each field of each type at its limits in turn, among    *)
(* fields that are all empty or all full.  A bool or a u8 of eight bits    *)
(* cannot be beyond its limit.                                             *)
EXTENDS Uplink

Full(n) == [i \in 1..n |-> 95]

Limits(f, type) ==
  CASE f.as = "unsigned" /\ f.width \in {1, 8} -> {0, 1, 2 ^ f.width - 1}
    [] f.as = "unsigned" -> {0, 1, 2 ^ f.width - 1, 2 ^ f.width}
    [] f.as = "signed"   -> {-(2 ^ (f.width - 1)), -1, 0, 2 ^ (f.width - 1) - 1}
    [] f.as = "real"     -> {-10, 0, 4, 5, 10 * (2 ^ f.width - 1)}
    [] f.as = "degrees"  ->
         LET half == (IF f.field = "Longitude" THEN 180 ELSE 90) * Degree(type)
         IN  {-half, -4, 5, half, half + 4, half + 10,
              half + Degree(type), half + 50 * Degree(type)}
    [] f.as = "string"   -> {<<>>, <<65, 64, 66>>, <<97, 32, 57, 32>>, <<32, 195, 132>>,
                             Full(f.width \div 6), Full(f.width \div 6 + 1)}

Lowest(f) == IF f.as = "string" THEN <<>> ELSE 0
Highest(f) == CASE f.as = "unsigned" -> 2 ^ f.width - 1
                [] f.as = "signed"   -> -1
                [] f.as = "real"     -> 10 * (2 ^ f.width - 1)
                [] f.as = "degrees"  -> -10
                [] f.as = "string"   -> Full(f.width \div 6)

IdOf == [PositionReport |-> {1, 3}, BaseStationReport |-> {4, 11}, ShipStaticData |-> {5},
         SarAircraft |-> {9}, StandardClassB |-> {18}, ExtendedClassB |-> {19},
         AidsToNavigation |-> {21}, StaticDataA |-> {24}, StaticDataB |-> {24},
         LongRange |-> {27}]

Fields == [t \in Type |-> {Encoder[t][k] : k \in DOMAIN Encoder[t]}]
Named == [t \in Type |-> {f.field : f \in Fields[t]} \ {"blank"}]
Free == [t \in Type |->
           {f \in Fields[t] : f.field \notin {"MessageID", "PartNumber", "blank"}}]

\* A packet whose fields are as in others, but for what is said of some.
Lows == [t \in Type |-> [x \in Named[t] |->
           Lowest(CHOOSE f \in Fields[t] : f.field = x)]]
Highs == [t \in Type |-> [x \in Named[t] |->
            Highest(CHOOSE f \in Fields[t] : f.field = x)]]

Among(others, type, id, field, v) ==
  [type |-> type,
   is |-> [x \in Named[type] |->
             CASE x = "MessageID"  -> id
               [] x = "PartNumber" -> IF type = "StaticDataB" THEN 1 ELSE 0
               [] x = field        -> v
               [] OTHER            -> others[type][x]]]

Packets ==
  UNION {UNION {UNION {{Among(Lows, type, id, f.field, v), Among(Highs, type, id, f.field, v)} :
                         v \in Limits(f, type)} :
                  f \in Free[type]} :
           <<type, id>> \in {<<t, n>> \in Type \X (1..27) : n \in IdOf[t]}}

Members(values) == {[x \in {m} |-> values[m]] : m \in DOMAIN values}

Locations ==
  {[x \in {} |-> 0], [lon |-> 149630400, lat |-> 361019400],
   [lon |-> -1079999995, lat |-> -5], [sog |-> 1235, cog |-> 35994, rot |-> 720]} \cup
  Members([sog |-> 10224, cog |-> 35999, rot |-> -731, heading |-> 360,
           lon |-> 1086000000, lat |-> 546000000, time |-> 1690000031, navStat |-> 14])
Metadatas ==
  {[x \in {} |-> 0], [eta |-> 1048575, draught |-> 255], [eta |-> 7 * 65536 + 51614]} \cup
  Members([eta |-> 65536, name |-> Full(21), callSign |-> Full(7), imo |-> 9074729,
           draught |-> 71, refD |-> 63])

MCFrames ==
  {[feed |-> "aisstream", packet |-> p] : p \in Packets} \cup
  {[feed |-> "location", mmsi |-> 230123456, json |-> j] : j \in Locations} \cup
  {[feed |-> "metadata", mmsi |-> 230123456, json |-> j] : j \in Metadatas}
=============================================================================
