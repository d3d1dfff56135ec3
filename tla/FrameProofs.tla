----------------------------- MODULE FrameProofs -----------------------------
(* From bytes to the status: a packet of readings is decoded as what was      *)
(* measured, as far as the ids reach; whatever bytes arrive, what is decoded  *)
(* has the form the status takes; and what the status is after a frame.       *)
EXTENDS CanSimulator, GatewayStatus, FiniteSetTheorems, TLAPS

Words == 0 .. 65535

LEMMA BytesOfWord ==
    ASSUME NEW n \in Words
    PROVE  /\ LowByte(n) \in Byte
           /\ LowByte(Shifted(n)) \in Byte
           /\ LowByte(n) + 256 * LowByte(Shifted(n)) = n
<1>1. n \in 0 .. 65535
  BY DEF Words
<1>2. /\ n \div 256 \in Int
      /\ n % 256 \in 0 .. 255
      /\ n = 256 * (n \div 256) + (n % 256)
  BY <1>1, SMT
<1>3. n \div 256 \in 0 .. 255
  BY <1>1, <1>2, SMT
<1>4. (n \div 256) % 256 = n \div 256
  BY <1>3, SMT
<1> QED
  BY <1>2, <1>3, <1>4 DEF LowByte, Shifted, Byte

(* A signed current survives its two bytes: the lower half of the words is    *)
(* read as it is, the upper half, which two's complement uses for negative    *)
(* numbers, 65536 below (docs/protocols/can-gateway-protocol.md, 0x120).      *)
THEOREM SignedRoundTrip ==
    ASSUME NEW c \in Int16
    PROVE  Signed(LowByte(c) + 256 * LowByte(Shifted(c))) = c
<1>1. c \in Int /\ -32768 <= c /\ c <= 32767
  BY DEF Int16
<1>2. /\ c \div 256 \in Int
      /\ c % 256 \in 0 .. 255
      /\ c = 256 * (c \div 256) + (c % 256)
  BY <1>1, SMT
<1>3. c \div 256 \in -128 .. 127
  BY <1>1, <1>2, SMT
<1>4. CASE c >= 0
  <2>1. c \div 256 \in 0 .. 127
    BY <1>1, <1>2, <1>4, SMT
  <2>2. (c \div 256) % 256 = c \div 256
    BY <2>1, SMT
  <2> QED
    BY <1>1, <1>2, <1>4, <2>2 DEF LowByte, Shifted, Signed
<1>5. CASE c < 0
  <2>1. c \div 256 \in -128 .. -1
    BY <1>1, <1>2, <1>3, <1>5, SMT
  <2>2. (c \div 256) % 256 = (c \div 256) + 256
    BY <2>1, SMT
  <2>3. LowByte(c) + 256 * LowByte(Shifted(c)) = c + 65536
    BY <1>1, <1>2, <2>2 DEF LowByte, Shifted
  <2> QED
    BY <1>1, <1>5, <2>3 DEF Signed
<1> QED
  BY <1>1, <1>4, <1>5

(* Up to packet 15, that is 48 cells, a packet of three cell voltages reaches *)
(* the status as what was put in, under the number of its first cell.         *)
THEOREM CellPacketRoundTrip ==
    ASSUME NEW p \in 0 .. 15, NEW v \in [1 .. 3 -> Words],
           NEW m, m = CellPacket(CellVoltageBase, p, v)
    PROVE  DecodeFrame(m.id, m.data) =
               [name |-> "cell_voltages", first |-> 3 * p,
                values |-> <<v[1], v[2], v[3]>>]
<1> DEFINE d == Padded(m.data)
<1>1. m.id \in 272 .. 287
  BY DEF CellPacket, CellVoltageBase
<1>2. /\ d[2] = LowByte(3 * p)
      /\ d[3] = LowByte(v[1]) /\ d[4] = LowByte(Shifted(v[1]))
      /\ d[5] = LowByte(v[2]) /\ d[6] = LowByte(Shifted(v[2]))
      /\ d[7] = LowByte(v[3]) /\ d[8] = LowByte(Shifted(v[3]))
  BY DEF CellPacket, Padded
<1>3. LowByte(3 * p) = 3 * p
  BY SMT DEF LowByte
<1>4. v[1] \in Words /\ v[2] \in Words /\ v[3] \in Words
  OBVIOUS
<1>5. Word(d, 3) = v[1] /\ Word(d, 5) = v[2] /\ Word(d, 7) = v[3]
  BY <1>2, <1>4, BytesOfWord DEF Word
<1>6. DecodeFrame(m.id, m.data) = DecodeCells("cell_voltages", d)
  BY <1>1 DEF DecodeFrame, SystemStatusId, PackMeasurementId, CellVoltageBase,
              FaultId, CellResistanceBase, CommandFrameId, CommandAckId
<1> QED
  BY <1>2, <1>3, <1>5, <1>6 DEF DecodeCells

(* The same for a packet of resistances; their ids end far from the next.     *)
THEOREM ResistancePacketRoundTrip ==
    ASSUME NEW p \in 0 .. 15, NEW v \in [1 .. 3 -> Words],
           NEW m, m = CellPacket(CellResistanceBase, p, v)
    PROVE  DecodeFrame(m.id, m.data) =
               [name |-> "cell_resistances", first |-> 3 * p,
                values |-> <<v[1], v[2], v[3]>>]
<1> DEFINE d == Padded(m.data)
<1>1. m.id \in 400 .. 415
  BY DEF CellPacket, CellResistanceBase
<1>2. /\ d[2] = LowByte(3 * p)
      /\ d[3] = LowByte(v[1]) /\ d[4] = LowByte(Shifted(v[1]))
      /\ d[5] = LowByte(v[2]) /\ d[6] = LowByte(Shifted(v[2]))
      /\ d[7] = LowByte(v[3]) /\ d[8] = LowByte(Shifted(v[3]))
  BY DEF CellPacket, Padded
<1>3. LowByte(3 * p) = 3 * p
  BY SMT DEF LowByte
<1>4. v[1] \in Words /\ v[2] \in Words /\ v[3] \in Words
  OBVIOUS
<1>5. Word(d, 3) = v[1] /\ Word(d, 5) = v[2] /\ Word(d, 7) = v[3]
  BY <1>2, <1>4, BytesOfWord DEF Word
<1>6. DecodeFrame(m.id, m.data) = DecodeCells("cell_resistances", d)
  BY <1>1 DEF DecodeFrame, SystemStatusId, PackMeasurementId, CellVoltageBase,
              FaultId, CellResistanceBase, CommandFrameId, CommandAckId
<1> QED
  BY <1>2, <1>3, <1>5, <1>6 DEF DecodeCells

(* The 17th packet of voltages, cells 49 to 51, has the id of the pack        *)
(* measurement: its number and first cell become the pack's voltage. The      *)
(* simulator keeps --cells below that, but not --cell-packets.                *)
THEOREM SeventeenthPacketIsPack ==
    ASSUME NEW v \in [1 .. 3 -> Words],
           NEW m, m = CellPacket(CellVoltageBase, 16, v)
    PROVE  /\ DecodeFrame(m.id, m.data).name = "pack_measurement"
           /\ DecodeFrame(m.id, m.data).payload.voltage_dv = 16 + 256 * 48
<1> DEFINE d == Padded(m.data)
<1>1. m.id = 288
  BY DEF CellPacket, CellVoltageBase
<1>2. d[1] = 16 /\ d[2] = 48
  BY SMT DEF CellPacket, Padded, LowByte
<1>3. DecodeFrame(m.id, m.data) = DecodePackMeasurement(d)
  BY <1>1 DEF DecodeFrame, SystemStatusId, PackMeasurementId, CellVoltageBase,
              FaultId, CellResistanceBase, CommandFrameId, CommandAckId
<1>4. Word(d, 1) = 16 + 256 * 48
  BY <1>2 DEF Word
<1> QED
  BY <1>3, <1>4 DEF DecodePackMeasurement

-----------------------------------------------------------------------------
(* What the tables take: readings of a packet, and where they begin; and what *)
(* is taken for a current.                                                    *)
Decoded(f) ==
    f.name \in {"cell_voltages", "cell_resistances"} =>
        f.first \in Nat /\ f.values \in Seq(Nat)

CurrentDecoded(f) ==
    f.name = "pack_measurement" => f.payload.current_ca \in Int

LEMMA PaddedBytes ==
    ASSUME NEW data \in Seq(Byte)
    PROVE  /\ Padded(data) \in [1 .. 8 -> Byte]
           /\ \A i \in 1 .. 7 : Word(Padded(data), i) \in Words
<1>1. DOMAIN data = 1 .. Len(data) /\ \A i \in DOMAIN data : data[i] \in Byte
  OBVIOUS
<1>2. 0 \in Byte
  BY SMT DEF Byte
<1>3. Padded(data) \in [1 .. 8 -> Byte]
  BY <1>1, <1>2 DEF Padded
<1>4. ASSUME NEW x \in Byte, NEW y \in Byte PROVE x + 256 * y \in Words
  <2>1. x \in Int /\ 0 <= x /\ x <= 255 /\ y \in Int /\ 0 <= y /\ y <= 255
    BY DEF Byte
  <2> QED BY <2>1 DEF Words
<1>5. ASSUME NEW i \in 1 .. 7 PROVE Word(Padded(data), i) \in Words
  <2>1. i \in 1 .. 8 /\ i + 1 \in 1 .. 8
    BY SMT
  <2> QED BY <1>3, <1>4, <2>1 DEF Word
<1> QED BY <1>3, <1>5

LEMMA BytesNat == (\A b \in Byte : b \in Nat) /\ (\A w \in Words : w \in Nat)
BY SMT DEF Byte, Words

LEMMA CellsDecoded ==
    ASSUME NEW data \in Seq(Byte), NEW name \in {"cell_voltages", "cell_resistances"}
    PROVE  LET f == DecodeCells(name, Padded(data))
           IN  Decodable(f) /\ Decoded(f) /\ CurrentDecoded(f)
<1> DEFINE d == Padded(data)
<1>1. d \in [1 .. 8 -> Byte] /\ \A i \in 1 .. 7 : Word(d, i) \in Words
  BY PaddedBytes
<1> HIDE DEF d
<1>2. Word(d, 3) \in Nat /\ Word(d, 5) \in Nat /\ Word(d, 7) \in Nat
  <2>1. 3 \in 1 .. 7 /\ 5 \in 1 .. 7 /\ 7 \in 1 .. 7
    BY SMT
  <2> QED BY <1>1, <2>1, BytesNat, Zenon
<1>3. <<Word(d, 3), Word(d, 5), Word(d, 7)>> \in Seq(Nat)
  BY <1>2
<1>4. d[2] \in Nat
  <2>1. 2 \in 1 .. 8
    BY SMT
  <2>2. d[2] \in Byte
    BY <1>1, <2>1, Zenon
  <2> QED BY <2>2, BytesNat
<1> QED BY <1>3, <1>4 DEF d, DecodeCells, Decodable, Decoded,
             CurrentDecoded

(* Whatever arrives on the bus, decode_frame gives None or a frame the status *)
(* takes: the assumption FramesDecoded of CanService and ServiceRecords is    *)
(* what the codec guarantees.                                                 *)
THEOREM AnythingDecodes ==
    ASSUME NEW id \in Nat, NEW data \in Seq(Byte)
    PROVE  \/ DecodeFrame(id, data) = NoFrame
           \/ /\ Decodable(DecodeFrame(id, data))
              /\ Decoded(DecodeFrame(id, data))
              /\ CurrentDecoded(DecodeFrame(id, data))
<1> DEFINE f == DecodeFrame(id, data)
           d == Padded(data)
<1> HIDE DEF d
<1>1. CASE f = DecodeSystemStatus(d)
  BY <1>1 DEF DecodeSystemStatus, Decodable, Decoded, CurrentDecoded
<1>2. CASE f = DecodePackMeasurement(d)
  <2>1. Word(d, 3) \in Words
    BY PaddedBytes DEF d
  <2>2. Word(d, 3) \in Int
    BY <2>1, BytesNat
  <2> DEFINE w == Word(d, 3)
  <2> HIDE DEF w
  <2>3. Signed(w) \in Int
    BY <2>2 DEF Signed, w
  <2> QED BY <1>2, <2>3 DEF w, DecodePackMeasurement, Decodable, Decoded, CurrentDecoded
<1>3. CASE f = DecodeCells("cell_voltages", d) \/ f = DecodeCells("cell_resistances", d)
  BY <1>3, CellsDecoded DEF d
<1>4. CASE f = DecodeFault(d)
  BY <1>4 DEF DecodeFault, Decodable, Decoded, CurrentDecoded
<1>5. CASE f = DecodeCommandAck(d)
  BY <1>5 DEF DecodeCommandAck, Decodable, Decoded, CurrentDecoded
<1>6. CASE f = NoFrame
  BY <1>6
<1>7. \/ f \in {DecodeSystemStatus(d), DecodePackMeasurement(d), DecodeFault(d)}
      \/ f \in {DecodeCells("cell_voltages", d), DecodeCells("cell_resistances", d)}
      \/ f \in {DecodeCommandAck(d), NoFrame}
  BY DEF DecodeFrame, d
<1> QED BY <1>1, <1>2, <1>3, <1>4, <1>5, <1>6, <1>7

-----------------------------------------------------------------------------
(* The status keeps its shape, and its tables hold readings or nothing.       *)
Fields ==
    {"connected", "can_error", "age", "system", "pack", "fault", "ack",
     "cell_voltages_mv", "cell_resistances", "resistance_measurement_running",
     "min_cell_mv", "max_cell_mv", "cell_delta_mv", "max_cell_resistance"}

Reading == Nat \cup {None}

Shaped(st) ==
    /\ st = [x \in Fields |-> st[x]]
    /\ st.cell_voltages_mv \in Seq(Reading)
    /\ st.cell_resistances \in Seq(Reading)

(* The summary is that of the table.                                          *)
Summarized(st) ==
    LET valid == Readings(st.cell_voltages_mv) IN
    valid # {} =>
        /\ st.min_cell_mv = Min(valid)
        /\ st.max_cell_mv = Max(valid)
        /\ st.cell_delta_mv = Max(valid) - Min(valid)

Same(s, t, but) == \A x \in Fields \ but : t[x] = s[x]

-----------------------------------------------------------------------------
(* A family of subsets of a finite set has one that contains no other.        *)
LEMMA SmallestMember ==
    ASSUME NEW S, IsFiniteSet(S), NEW Family,
           \A U \in Family : U \subseteq S, Family # {}
    PROVE  \E U \in Family : \A V \in Family : ~(V \subseteq U /\ V # U)
<1>1. Family \subseteq FiniteSubsetsOf(S)
  <2>1. \A U \in SUBSET S : IsFiniteSet(U)
    BY FS_Subset
  <2>. QED BY <2>1 DEF FiniteSubsetsOf
<1>2. PICK U \in Family : \A V \in Family : ~(<<V, U>> \in StrictSubsetOrdering(S))
  BY <1>1, FS_StrictSubsetOrderingWellFounded, WFMin
<1>. QED
  BY <1>2 DEF StrictSubsetOrdering

(* A non-empty finite set of numbers has a greatest and a least element.      *)
LEMMA FiniteMax ==
    ASSUME NEW S \in SUBSET Int, IsFiniteSet(S), S # {}
    PROVE  Max(S) \in S /\ \A x \in S : Max(S) >= x
<1>. DEFINE Bounded(U) == \E m \in U : \A x \in U : m >= x
            Unbounded == {U \in SUBSET S : U # {} /\ ~Bounded(U)}
<1>1. ASSUME NEW U \in Unbounded PROVE \E V \in Unbounded : V \subseteq U /\ V # U
  <2>1. U \in SUBSET S /\ U \subseteq Int /\ U # {} /\ ~Bounded(U)
    OBVIOUS
  <2>2. PICK x \in U : TRUE
    BY <2>1
  <2>3. U \ {x} # {}
    BY <2>1, <2>2
  <2>4. ~Bounded(U \ {x})
    BY <2>1, <2>2
  <2>5. U \ {x} \in SUBSET S /\ U \ {x} \subseteq U /\ U \ {x} # U
    BY <2>1, <2>2
  <2>6. U \ {x} \in Unbounded
    BY <2>3, <2>4, <2>5
  <2>. QED BY <2>5, <2>6
<1>2. \A U \in Unbounded : U \subseteq S
  OBVIOUS
<1>. HIDE DEF Unbounded
<1>3. Unbounded = {}
  <2>1. Unbounded # {} =>
            \E U \in Unbounded : \A V \in Unbounded : ~(V \subseteq U /\ V # U)
    BY <1>2, SmallestMember
  <2>. QED BY <1>1, <2>1
<1>4. Bounded(S)
  BY <1>3 DEF Unbounded
<1>. QED BY <1>4 DEF Max

LEMMA FiniteMin ==
    ASSUME NEW S \in SUBSET Int, IsFiniteSet(S), S # {}
    PROVE  Min(S) \in S /\ \A x \in S : Min(S) <= x
<1>. DEFINE Bounded(U) == \E m \in U : \A x \in U : m <= x
            Unbounded == {U \in SUBSET S : U # {} /\ ~Bounded(U)}
<1>1. ASSUME NEW U \in Unbounded PROVE \E V \in Unbounded : V \subseteq U /\ V # U
  <2>1. U \in SUBSET S /\ U \subseteq Int /\ U # {} /\ ~Bounded(U)
    OBVIOUS
  <2>2. PICK x \in U : TRUE
    BY <2>1
  <2>3. U \ {x} # {}
    BY <2>1, <2>2
  <2>4. ~Bounded(U \ {x})
    BY <2>1, <2>2
  <2>5. U \ {x} \in SUBSET S /\ U \ {x} \subseteq U /\ U \ {x} # U
    BY <2>1, <2>2
  <2>6. U \ {x} \in Unbounded
    BY <2>3, <2>4, <2>5
  <2>. QED BY <2>5, <2>6
<1>2. \A U \in Unbounded : U \subseteq S
  OBVIOUS
<1>. HIDE DEF Unbounded
<1>3. Unbounded = {}
  <2>1. Unbounded # {} =>
            \E U \in Unbounded : \A V \in Unbounded : ~(V \subseteq U /\ V # U)
    BY <1>2, SmallestMember
  <2>. QED BY <1>1, <2>1
<1>4. Bounded(S)
  BY <1>3 DEF Unbounded
<1>. QED BY <1>4 DEF Min

(* The readings of a table are finitely many, so it has a lowest and a        *)
(* highest as soon as it has one.                                             *)
LEMMA ReadingsFinite ==
    ASSUME NEW table \in Seq(Reading)
    PROVE  /\ IsFiniteSet(Readings(table))
           /\ \A x \in Readings(table) : x \in Nat /\ x > 0
<1>. DEFINE D == {j \in DOMAIN table : table[j] # None /\ table[j] > 0}
            f == [i \in D |-> table[i]]
<1>1. Len(table) \in Nat /\ DOMAIN table = 1 .. Len(table)
  BY SMT
<1>2. IsFiniteSet(1 .. Len(table))
  BY <1>1, FS_Interval
<1>3. IsFiniteSet(D)
  BY <1>1, <1>2, FS_Subset
<1>4. Readings(table) = {table[i] : i \in D}
  BY DEF Readings
<1>5. f \in Surjection(D, Readings(table))
  BY <1>4 DEF Surjection
<1>6. IsFiniteSet(Readings(table))
  <2>. HIDE DEF D, f
  <2>. QED BY <1>3, <1>5, FS_Surjection
<1>7. ASSUME NEW i \in D PROVE table[i] \in Nat /\ table[i] > 0
  BY DEF Reading
<1>. HIDE DEF D
<1>. QED BY <1>4, <1>6, <1>7

LEMMA ExtremeReadings ==
    ASSUME NEW table \in Seq(Reading), Readings(table) # {}
    PROVE  /\ Min(Readings(table)) \in Readings(table)
           /\ Max(Readings(table)) \in Readings(table)
           /\ Min(Readings(table)) \in Nat /\ Min(Readings(table)) > 0
           /\ Max(Readings(table)) \in Nat /\ Max(Readings(table)) > 0
           /\ \A x \in Readings(table) :
                  Min(Readings(table)) <= x /\ x <= Max(Readings(table))
<1>. DEFINE R == Readings(table)
<1>1. IsFiniteSet(R) /\ \A x \in R : x \in Nat /\ x > 0
  BY ReadingsFinite
<1>. HIDE DEF R
<1>2. R \in SUBSET Int
  BY <1>1
<1>3. R # {}
  BY DEF R
<1>4. Min(R) \in R /\ \A x \in R : Min(R) <= x
  BY <1>1, <1>2, <1>3, FiniteMin
<1>5. Max(R) \in R /\ \A x \in R : Max(R) >= x
  BY <1>1, <1>2, <1>3, FiniteMax
<1>6. \A x \in R : Min(R) <= x /\ x <= Max(R)
  BY <1>1, <1>4, <1>5
<1>. QED BY <1>1, <1>4, <1>5, <1>6 DEF R

-----------------------------------------------------------------------------
(* A cycle of the simulator: its packets, flattened, are packets of readings  *)
(* of the cells it was started with, at most 48 of them.                      *)

LEMMA LeastIndex ==
    ASSUME NEW n \in Nat, NEW B \in SUBSET (1 .. n), B # {}
    PROVE  \E k \in B : /\ k \in 1 .. n
                        /\ k # 1 => k - 1 \in 1 .. n /\ k - 1 \notin B
<1>1. IsFiniteSet(B)
  <2>1. IsFiniteSet(1 .. n)
    BY FS_Interval
  <2> QED BY <2>1, FS_Subset
<1>2. B \in SUBSET Int
  OBVIOUS
<1>3. Min(B) \in B /\ \A x \in B : Min(B) <= x
  BY <1>1, <1>2, FiniteMin
<1> DEFINE k == Min(B)
<1> HIDE DEF k
<1>4. k \in B /\ \A x \in B : k <= x
  BY <1>3 DEF k
<1>5. k \in 1 .. n /\ (k # 1 => k - 1 \in 1 .. n)
  BY <1>4
<1>6. k - 1 \notin B
  BY <1>4, <1>5
<1> QED BY <1>4, <1>5, <1>6

(* The recursive function of FlattenSeq exists, as no length is the least     *)
(* without one, and each of its values is a sequence, as no index is the      *)
(* least where it is not.                                                     *)
LEMMA FlattenInSeq ==
    ASSUME NEW M, NEW seqs \in Seq(Seq(M))
    PROVE  FlattenSeq(seqs) \in Seq(M)
<1> DEFINE n == Len(seqs)
           Piece(g, i) == IF i = 1 THEN seqs[i] ELSE g[i-1] \o seqs[i]
           Flattens(g, k) == g = [i \in 1 .. k |-> Piece(g, i)]
<1>1. n \in Nat /\ \A i \in 1 .. n : seqs[i] \in Seq(M)
  OBVIOUS
<1>2. CASE n = 0
  <2>1. FlattenSeq(seqs) = seqs /\ seqs = <<>>
    BY <1>2 DEF FlattenSeq
  <2> QED BY <2>1
<1>3. CASE n > 0
  <2>1. \E g : Flattens(g, n)
    <3> DEFINE B == {k \in 1 .. n : ~\E g : Flattens(g, k)}
    <3>1. SUFFICES ASSUME ~\E g : Flattens(g, n) PROVE FALSE
      OBVIOUS
    <3> HIDE DEF Flattens
    <3>2. n \in B
      BY <1>1, <1>3, <3>1
    <3>3. PICK k \in B : /\ k \in 1 .. n
                        /\ k # 1 => k - 1 \in 1 .. n /\ k - 1 \notin B
      <4> HIDE DEF B
      <4>1. B \in SUBSET (1 .. n)
        BY DEF B
      <4> QED BY <1>1, <3>2, <4>1, LeastIndex
    <3>4. ~\E g : Flattens(g, k)
      OBVIOUS
    <3>5. CASE k = 1
      <4>1. Flattens([i \in 1 .. 1 |-> seqs[i]], 1)
        BY DEF Flattens
      <4> QED BY <3>4, <3>5, <4>1
    <3>6. CASE k # 1
      <4>1. PICK g : Flattens(g, k - 1)
        BY <3>3, <3>6
      <4> DEFINE h == [i \in 1 .. k |-> Piece(g, i)]
      <4>2. ASSUME NEW i \in 1 .. k - 1 PROVE h[i] = g[i]
        <5>1. g[i] = Piece(g, i)
          <6>1. g = [j \in 1 .. k - 1 |-> Piece(g, j)]
            BY <4>1 DEF Flattens
          <6> HIDE DEF Piece
          <6> QED BY <6>1
        <5>2. i \in 1 .. k
          BY <1>1, <3>3
        <5> QED BY <5>1, <5>2
      <4>3. ASSUME NEW i \in 1 .. k PROVE Piece(g, i) = Piece(h, i)
        <5>1. CASE i = 1
          BY <5>1
        <5>2. CASE i # 1
          <6>1. i - 1 \in 1 .. k - 1
            BY <1>1, <3>3, <5>2
          <6>2. h[i - 1] = g[i - 1]
            BY <4>2, <6>1
          <6> HIDE DEF h
          <6> QED BY <5>2, <6>2
        <5> QED BY <5>1, <5>2
      <4>4. Flattens(h, k)
        <5> HIDE DEF Piece
        <5>1. [i \in 1 .. k |-> Piece(g, i)] = [i \in 1 .. k |-> Piece(h, i)]
          BY <4>3
        <5> QED BY <5>1 DEF Flattens
      <4> QED BY <3>4, <4>4
    <3> QED BY <3>5, <3>6
  <2> DEFINE f == CHOOSE g : Flattens(g, n)
  <2>2. Flattens(f, n)
    BY <2>1, Zenon
  <2>3. FlattenSeq(seqs) = f[n]
    BY <1>1, <1>3 DEF FlattenSeq
  <2> HIDE DEF f
  <2>4. f[n] \in Seq(M)
    <3> DEFINE B == {k \in 1 .. n : f[k] \notin Seq(M)}
    <3>1. SUFFICES ASSUME f[n] \notin Seq(M) PROVE FALSE
      OBVIOUS
    <3>2. n \in B
      BY <1>1, <1>3, <3>1
    <3>3. PICK k \in B : /\ k \in 1 .. n
                        /\ k # 1 => k - 1 \in 1 .. n /\ k - 1 \notin B
      <4> HIDE DEF B
      <4>1. B \in SUBSET (1 .. n)
        BY DEF B
      <4> QED BY <1>1, <3>2, <4>1, LeastIndex
    <3>4. f[k] = Piece(f, k)
      <4>1. f = [j \in 1 .. n |-> Piece(f, j)]
        BY <2>2
      <4> HIDE DEF Piece
      <4> QED BY <3>3, <4>1
    <3>5. CASE k = 1
      BY <1>1, <3>3, <3>4, <3>5
    <3>6. CASE k # 1
      <4>1. f[k - 1] \in Seq(M) /\ seqs[k] \in Seq(M)
        BY <1>1, <3>3, <3>6
      <4>2. f[k - 1] \o seqs[k] \in Seq(M)
        BY <4>1
      <4> QED BY <3>3, <3>4, <3>6, <4>2
    <3> QED BY <3>5, <3>6
  <2> QED BY <2>3, <2>4
<1> QED BY <1>1, <1>2, <1>3

(* What the readings of a packet are: those of its cells, or 0 beyond them.   *)
Carries(v, p, cellCount, sent) ==
    \A k \in 1 .. 3 :
        v[k] = IF 3 * p + k - 1 >= cellCount THEN 0 ELSE sent[3 * p + k - 1]

VoltagesOf(c) == [i \in 0 .. 47 |-> SimulatedVoltage(c, i)]
ResistancesOf(c) == [i \in 0 .. 47 |-> SimulatedResistance(c, i)]

LEMMA ReadingsAreWords ==
    ASSUME NEW c \in Nat, NEW i \in 0 .. 47
    PROVE  SimulatedVoltage(c, i) \in Words /\ SimulatedResistance(c, i) \in Words
<1>1. c % 8 \in 0 .. 7 /\ c % 5 \in 0 .. 4
  BY SMT
<1>2. i \div 18 \in 0 .. 2 /\ i % 18 \in 0 .. 17
  BY SMT
<1> DEFINE a == c % 8
           b == c % 5
           q == i \div 18
           r == i % 18
<1> HIDE DEF a, b, q, r
<1>3. a \in 0 .. 7 /\ b \in 0 .. 4 /\ q \in 0 .. 2 /\ r \in 0 .. 17
  BY <1>1, <1>2 DEF a, b, q, r
<1>4. 3700 + a + q * 3 + r - 9 \in 3691 .. 3730
  BY <1>3, SMT
<1>5. 180 + b + q * 8 + r * 3 \in 180 .. 251
  BY <1>3, SMT
<1>6. \A x \in (3691 .. 3730) \cup (180 .. 251) : x \in Words
  BY SMT DEF Words
<1> QED BY <1>4, <1>5, <1>6 DEF SimulatedVoltage, SimulatedResistance, a, b, q, r

LEMMA PacketsCarry ==
    ASSUME NEW c \in Nat, NEW n \in 1 .. 48, NEW p \in 0 .. 15
    PROVE  /\ \E v \in [1 .. 3 -> Words] :
                  /\ BuildCellVoltages(c, p, n) = CellPacket(CellVoltageBase, p, v)
                  /\ Carries(v, p, n, VoltagesOf(c))
           /\ \E v \in [1 .. 3 -> Words] :
                  /\ BuildCellResistances(c, p, n) = CellPacket(CellResistanceBase, p, v)
                  /\ Carries(v, p, n, ResistancesOf(c))
<1> DEFINE u == [k \in 1 .. 3 |-> LET i == 3 * p + k - 1 IN
                    IF i >= n THEN 0 ELSE SimulatedVoltage(c, i)]
           w == [k \in 1 .. 3 |-> LET i == 3 * p + k - 1 IN
                    IF i >= n THEN 0 ELSE SimulatedResistance(c, i)]
<1>1. /\ BuildCellVoltages(c, p, n) = CellPacket(CellVoltageBase, p, u)
      /\ BuildCellResistances(c, p, n) = CellPacket(CellResistanceBase, p, w)
  BY DEF BuildCellVoltages, BuildCellResistances
<1>2. ASSUME NEW k \in 1 .. 3, ~(3 * p + k - 1 >= n)
      PROVE  3 * p + k - 1 \in 0 .. 47
  BY <1>2
<1>3. 0 \in Words
  BY DEF Words
<1>4. u \in [1 .. 3 -> Words] /\ w \in [1 .. 3 -> Words]
  BY <1>2, <1>3, ReadingsAreWords
<1>5. Carries(u, p, n, VoltagesOf(c)) /\ Carries(w, p, n, ResistancesOf(c))
  BY <1>2 DEF Carries, VoltagesOf, ResistancesOf
<1> HIDE DEF u, w
<1> QED BY <1>1, <1>4, <1>5

CellPacketsOf(c, n) ==
    {BuildCellVoltages(c, p, n) : p \in 0 .. 15}
        \cup {BuildCellResistances(c, p, n) : p \in 0 .. 15}

LEMMA CycleMessages ==
    ASSUME NEW c \in Nat, NEW cells \in Nat, NEW e,
           NEW m \in ToSet(Cycle(c, cells, e)),
           m.id # SystemStatusId, m.id # PackMeasurementId
    PROVE  /\ CellCount(cells) \in 1 .. 48
           /\ m \in CellPacketsOf(c, CellCount(cells)) \cup {BuildFault(c)}
<1> DEFINE n == CellCount(cells)
           P == CellPackets(n)
           M == CellPacketsOf(c, n) \cup
                  {BuildSystemStatus(c), BuildPackMeasurement(c), BuildFault(c)}
           pairs == [p \in 1 .. P |-> <<BuildCellVoltages(c, p - 1, n),
                                       BuildCellResistances(c, p - 1, n)>>]
           first == <<BuildSystemStatus(c), BuildPackMeasurement(c)>>
           last == IF e > 0 /\ c > 0 /\ c % e = 0 THEN <<BuildFault(c)>> ELSE <<>>
<1>1. n \in 1 .. 48
  BY DEF CellCount, MaxCells
<1> HIDE DEF n
<1>2. P \in 1 .. 16
  <2>1. (n + 2) \div 3 \in 1 .. 16
    BY <1>1
  <2> QED BY <2>1 DEF CellPackets
<1> HIDE DEF P
<1>3. pairs \in Seq(Seq(M))
  <2>1. ASSUME NEW p \in 1 .. P
        PROVE  <<BuildCellVoltages(c, p - 1, n), BuildCellResistances(c, p - 1, n)>> \in Seq(M)
    <3>1. p - 1 \in 0 .. 15
      BY <1>2
    <3>2. BuildCellVoltages(c, p - 1, n) \in M /\ BuildCellResistances(c, p - 1, n) \in M
      BY <3>1 DEF CellPacketsOf
    <3> HIDE DEF M
    <3> QED BY <3>2
  <2> HIDE DEF M
  <2> QED BY <1>2, <2>1
<1>4. FlattenSeq(pairs) \in Seq(M)
  <2> HIDE DEF M, pairs
  <2> QED BY <1>3, FlattenInSeq
<1>5. first \in Seq(M) /\ last \in Seq(M)
  <2>1. /\ BuildSystemStatus(c) \in M /\ BuildPackMeasurement(c) \in M
        /\ BuildFault(c) \in M
    OBVIOUS
  <2> HIDE DEF M
  <2> QED BY <2>1
<1>6. Cycle(c, cells, e) = first \o FlattenSeq(pairs) \o last
  BY DEF Cycle, n, P
<1>7. Cycle(c, cells, e) \in Seq(M)
  <2> HIDE DEF M, first, last, pairs
  <2> QED BY <1>4, <1>5, <1>6
<1>8. m \in M
  <2> HIDE DEF M
  <2> QED BY <1>7 DEF ToSet
<1>9. BuildSystemStatus(c).id = SystemStatusId /\ BuildPackMeasurement(c).id = PackMeasurementId
  BY DEF BuildSystemStatus, BuildPackMeasurement
<1> QED BY <1>1, <1>8, <1>9 DEF n

-----------------------------------------------------------------------------
LEMMA MaxOfTwo ==
    ASSUME NEW a \in Nat, NEW b \in Nat
    PROVE  Max({a, b}) \in Nat
<1>1. \E x \in {a, b} : \A y \in {a, b} : x >= y
  BY SMT
<1> QED BY <1>1 DEF Max

LEMMA StoreKeepsReadings ==
    ASSUME NEW table \in Seq(Reading), NEW first \in Nat, NEW values \in Seq(Nat)
    PROVE  Store(table, first, values) \in Seq(Reading)
<1> DEFINE n == Max({Len(table), first + Len(values)})
           cell(i) == IF i - first \in DOMAIN values THEN values[i - first]
                      ELSE IF i \in DOMAIN table THEN table[i] ELSE None
<1>1. n \in Nat
  <2>1. Len(table) \in Nat /\ first + Len(values) \in Nat
    BY SMT
  <2> QED BY <2>1, MaxOfTwo
<1>2. ASSUME NEW i \in 1 .. n PROVE cell(i) \in Reading
  BY SMT DEF Reading
<1>3. Store(table, first, values) = [i \in 1 .. n |-> cell(i)]
  BY DEF Store
<1> HIDE DEF n, cell
<1> QED BY <1>1, <1>2, <1>3, SMT

LEMMA InitialShape == Shaped(InitialStatus) /\ Summarized(InitialStatus)
<1>1. Readings(<<>>) = {}
  BY DEF Readings
<1> QED BY <1>1 DEF Shaped, Summarized, InitialStatus, Fields, Reading

LEMMA VoltagesApplied ==
    ASSUME NEW st, Shaped(st), NEW f, f.first \in Nat, f.values \in Seq(Nat),
           Summarized(st)
    PROVE  LET t == ApplyCellVoltages(st, f) IN
           /\ Shaped(t) /\ Summarized(t)
           /\ Same(st, t, {"cell_voltages_mv", "min_cell_mv", "max_cell_mv",
                           "cell_delta_mv"})
           /\ t.cell_delta_mv = st.cell_delta_mv \/ t.cell_delta_mv \in Nat
           /\ t.cell_voltages_mv = Store(st.cell_voltages_mv, f.first, f.values)
<1> DEFINE table == Store(st.cell_voltages_mv, f.first, f.values)
           stored == [st EXCEPT !.cell_voltages_mv = table]
<1>1. table \in Seq(Reading)
  BY StoreKeepsReadings DEF Shaped
<1> HIDE DEF table
<1>2. /\ Shaped(stored) /\ stored.cell_voltages_mv = table
      /\ Same(st, stored, {"cell_voltages_mv"})
  BY <1>1 DEF Shaped, Same, Fields
<1>3. ASSUME NEW a, NEW b, NEW c
      PROVE  LET t == [stored EXCEPT !.min_cell_mv = a, !.max_cell_mv = b,
                                     !.cell_delta_mv = c]
             IN  /\ Shaped(t) /\ t.cell_voltages_mv = table
                 /\ t.min_cell_mv = a /\ t.max_cell_mv = b /\ t.cell_delta_mv = c
                 /\ Same(stored, t, {"min_cell_mv", "max_cell_mv", "cell_delta_mv"})
  <2> HIDE DEF stored
  <2> QED BY <1>2 DEF Shaped, Same, Fields
<1>4. CASE Readings(table) = {}
  <2>1. ApplyCellVoltages(st, f) = stored
    BY <1>4 DEF ApplyCellVoltages, table
  <2>2. Summarized(stored)
    BY <1>2, <1>4 DEF Summarized
  <2>3. stored.cell_delta_mv = st.cell_delta_mv
    BY <1>2 DEF Same, Fields
  <2> QED BY <1>2, <2>1, <2>2, <2>3 DEF Same, table
<1>5. CASE Readings(table) # {}
  <2> DEFINE lo == Min(Readings(table))
             hi == Max(Readings(table))
             t == [stored EXCEPT !.min_cell_mv = lo, !.max_cell_mv = hi,
                                 !.cell_delta_mv = hi - lo]
  <2>1. ApplyCellVoltages(st, f) = t
    BY <1>5 DEF ApplyCellVoltages, table
  <2> HIDE DEF stored
  <2>2. /\ Shaped(t) /\ t.cell_voltages_mv = table
        /\ t.min_cell_mv = lo /\ t.max_cell_mv = hi /\ t.cell_delta_mv = hi - lo
        /\ Same(stored, t, {"min_cell_mv", "max_cell_mv", "cell_delta_mv"})
    BY <1>3
  <2>3. hi - lo \in Nat
    <3>1. /\ lo \in Nat /\ hi \in Nat /\ hi \in Readings(table)
          /\ \A x \in Readings(table) : lo <= x
      BY <1>1, <1>5, ExtremeReadings
    <3> HIDE DEF lo, hi
    <3> QED BY <3>1
  <2> HIDE DEF t
  <2>4. Summarized(t)
    BY <2>2 DEF Summarized
  <2> QED BY <1>2, <2>1, <2>2, <2>3, <2>4 DEF Same, table
<1> QED BY <1>4, <1>5

LEMMA ResistancesApplied ==
    ASSUME NEW st, Shaped(st), NEW f, f.first \in Nat, f.values \in Seq(Nat)
    PROVE  LET t == ApplyCellResistances(st, f) IN
           /\ Shaped(t)
           /\ Same(st, t, {"cell_resistances", "max_cell_resistance"})
           /\ \/ t.cell_resistances = st.cell_resistances
              \/ t.cell_resistances = Store(st.cell_resistances, f.first, f.values)
<1> DEFINE table == Store(st.cell_resistances, f.first, f.values)
           stored == [st EXCEPT !.cell_resistances = table]
<1>1. table \in Seq(Reading)
  BY StoreKeepsReadings DEF Shaped
<1> HIDE DEF table
<1>2. /\ Shaped(stored) /\ Same(st, stored, {"cell_resistances"})
      /\ stored.cell_resistances = table
  BY <1>1 DEF Shaped, Same, Fields
<1>3. ASSUME NEW a
      PROVE  LET t == [stored EXCEPT !.max_cell_resistance = a] IN
             Shaped(t) /\ Same(stored, t, {"max_cell_resistance"})
  <2> HIDE DEF stored
  <2> QED BY <1>2 DEF Shaped, Same, Fields
<1>4. \/ ApplyCellResistances(st, f) = st
      \/ ApplyCellResistances(st, f) = stored
      \/ \E a : ApplyCellResistances(st, f) = [stored EXCEPT !.max_cell_resistance = a]
  BY DEF ApplyCellResistances, table
<1> HIDE DEF stored
<1>5. /\ Shaped(ApplyCellResistances(st, f))
      /\ Same(st, ApplyCellResistances(st, f), {"cell_resistances", "max_cell_resistance"})
  BY <1>2, <1>3, <1>4 DEF Same
<1>6. ASSUME NEW a PROVE [stored EXCEPT !.max_cell_resistance = a].cell_resistances = table
  BY <1>2, <1>3 DEF Same, Fields
<1>7. ApplyCellResistances(st, f).cell_resistances \in {st.cell_resistances, table}
  BY <1>2, <1>4, <1>6
<1> QED BY <1>5, <1>7 DEF table

(* What a frame leaves of the status: its shape, the summary of its table,    *)
(* the measurement flag; and what it sets: the connection, and the field of   *)
(* its kind only.                                                             *)
LEMMA FrameApplied ==
    ASSUME NEW st, Shaped(st), Summarized(st), NEW f, Decodable(f), Decoded(f)
    PROVE  LET t == Apply(st, f) IN
           /\ Shaped(t) /\ Summarized(t)
           /\ t.connected = TRUE /\ t.age = 0
           /\ t.resistance_measurement_running = st.resistance_measurement_running
           /\ t.fault = (IF f.name = "fault" THEN f.payload ELSE st.fault)
           /\ t.pack = (IF f.name = "pack_measurement" THEN f.payload ELSE st.pack)
           /\ t.ack = (IF f.name = "command_ack" THEN f.payload ELSE st.ack)
           /\ t.cell_voltages_mv =
                  (IF f.name = "cell_voltages"
                   THEN Store(st.cell_voltages_mv, f.first, f.values)
                   ELSE st.cell_voltages_mv)
           /\ \/ t.cell_resistances = st.cell_resistances
              \/ /\ f.name = "cell_resistances"
                 /\ t.cell_resistances = Store(st.cell_resistances, f.first, f.values)
           /\ t.cell_delta_mv = st.cell_delta_mv \/ t.cell_delta_mv \in Nat
<1> DEFINE s == [st EXCEPT !.connected = TRUE, !.age = 0]
<1>1. /\ Shaped(s) /\ Summarized(s) /\ s.connected = TRUE /\ s.age = 0
      /\ Same(st, s, {"connected", "age"})
  BY DEF Shaped, Summarized, Same, Fields
<1> HIDE DEF s
<1>2. CASE f.name = "cell_voltages"
  <2> DEFINE t == Apply(st, f)
  <2>1. t = ApplyCellVoltages(s, f)
    BY <1>2 DEF Apply, s
  <2>2. /\ Shaped(t) /\ Summarized(t)
        /\ Same(s, t, {"cell_voltages_mv", "min_cell_mv", "max_cell_mv",
                       "cell_delta_mv"})
        /\ t.cell_delta_mv = s.cell_delta_mv \/ t.cell_delta_mv \in Nat
        /\ t.cell_voltages_mv = Store(s.cell_voltages_mv, f.first, f.values)
    BY <1>1, <1>2, <2>1, VoltagesApplied DEF Decoded
  <2> HIDE DEF t
  <2>3. Same(st, t, {"connected", "age", "cell_voltages_mv", "min_cell_mv",
                     "max_cell_mv", "cell_delta_mv"})
    BY <1>1, <2>2 DEF Same
  <2>4. t.connected = TRUE /\ t.age = 0
    BY <1>1, <2>2 DEF Same, Fields
  <2>5. /\ s.cell_delta_mv = st.cell_delta_mv
        /\ s.cell_voltages_mv = st.cell_voltages_mv
    BY <1>1 DEF Same, Fields
  <2>6. /\ t.resistance_measurement_running = st.resistance_measurement_running
        /\ t.fault = st.fault /\ t.pack = st.pack /\ t.ack = st.ack
        /\ t.cell_resistances = st.cell_resistances
    BY <2>3 DEF Same, Fields
  <2> QED BY <1>2, <2>2, <2>4, <2>5, <2>6 DEF t
<1>3. CASE f.name = "cell_resistances"
  <2> DEFINE t == Apply(st, f)
  <2>1. t = ApplyCellResistances(s, f)
    BY <1>3 DEF Apply, s
  <2>2. /\ Shaped(t)
        /\ Same(s, t, {"cell_resistances", "max_cell_resistance"})
        /\ t.cell_resistances \in
               {s.cell_resistances, Store(s.cell_resistances, f.first, f.values)}
    BY <1>1, <1>3, <2>1, ResistancesApplied DEF Decoded
  <2> HIDE DEF t
  <2>3. Summarized(t)
    BY <1>1, <2>2 DEF Summarized, Same, Fields
  <2>4. Same(st, t, {"connected", "age", "cell_resistances", "max_cell_resistance"})
    BY <1>1, <2>2 DEF Same
  <2>5. t.connected = TRUE /\ t.age = 0
    BY <1>1, <2>2 DEF Same, Fields
  <2>6. s.cell_resistances = st.cell_resistances
    BY <1>1 DEF Same, Fields
  <2>7. /\ t.resistance_measurement_running = st.resistance_measurement_running
        /\ t.fault = st.fault /\ t.pack = st.pack /\ t.ack = st.ack
        /\ t.cell_voltages_mv = st.cell_voltages_mv
        /\ t.cell_delta_mv = st.cell_delta_mv
    BY <2>4 DEF Same, Fields
  <2> QED BY <1>3, <2>2, <2>3, <2>5, <2>6, <2>7 DEF t
<1>4. CASE f.name = "fault"
  <2>1. Apply(st, f) = [s EXCEPT !.fault = f.payload]
    BY <1>4 DEF Apply, s
  <2> QED BY <1>1, <1>4, <2>1 DEF Same, Fields, Shaped, Summarized
<1>5. CASE f.name = "command_ack"
  <2>1. Apply(st, f) = [s EXCEPT !.ack = f.payload]
    BY <1>5 DEF Apply, s
  <2> QED BY <1>1, <1>5, <2>1 DEF Same, Fields, Shaped, Summarized
<1>6. CASE f.name = "system_status"
  <2>1. Apply(st, f) = [s EXCEPT !.system = f.payload]
    BY <1>6 DEF Apply, s
  <2> QED BY <1>1, <1>6, <2>1 DEF Same, Fields, Shaped, Summarized
<1>7. CASE f.name = "pack_measurement"
  <2>1. Apply(st, f) = [s EXCEPT !.pack = f.payload]
    BY <1>7 DEF Apply, s
  <2> QED BY <1>1, <1>7, <2>1 DEF Same, Fields, Shaped, Summarized
<1> QED BY <1>2, <1>3, <1>4, <1>5, <1>6, <1>7 DEF Decodable

=============================================================================
