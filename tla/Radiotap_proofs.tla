---------------------------- MODULE Radiotap_proofs ----------------------------
(***************************************************************************)
(* Proofs about RadiotapWalk, for every packet.                            *)
(***************************************************************************)
EXTENDS RadiotapWalk, FiniteSetTheorems, TLAPS

(* The alignments and sizes of the table of field_layout.                  *)
LEMMA Layout ==
  ASSUME NEW field
  PROVE  /\ Align(field) \in {1, 2, 4, 8}
         /\ Size(field) \in Nat \ {0}
BY DEF Align, Size

(* align_up gives the next multiple of a power of two.                     *)
LEMMA AlignUpIsNext ==
  ASSUME NEW v \in Nat, NEW a \in {1, 2, 4, 8}
  PROVE  /\ AlignUp(v, a) \in Nat
         /\ AlignUp(v, a) % a = 0
         /\ v <= AlignUp(v, a)
         /\ AlignUp(v, a) < v + a
<1>1. CASE a = 1
  BY <1>1 DEF AlignUp
<1>2. CASE a = 2
  BY <1>2 DEF AlignUp
<1>3. CASE a = 4
  BY <1>3 DEF AlignUp
<1>4. CASE a = 8
  BY <1>4 DEF AlignUp
<1> QED
  BY <1>1, <1>2, <1>3, <1>4
-----------------------------------------------------------------------------
(* The invariant is about the walk as it is, with the table of the code    *)
(* and with bits that it takes for fields without data.  It holds of every *)
(* header; what the properties ask follows from it in those of the         *)
(* radiotap namespace, where the standard's fields with data are the same, *)
(* because the table agrees with the standard's on the fields it knows.    *)

DataByTable(words, n) ==
  {i \in 0 .. n - 1 : Present(words, i) /\ Field(i) \notin Namespaces}

TableEnd(r) == r.at + Size(Field(r.index))

PlacedByTable(r, start) ==
  LET a == Align(Field(r.index))
  IN  r.at % a = 0 /\ start <= r.at /\ r.at < start + a

LaidByTable(seq, start) ==
  \A k \in 1 .. Len(seq) :
    PlacedByTable(seq[k], IF k = 1 THEN start ELSE TableEnd(seq[k - 1]))

ReadsByTable ==
  /\ LaidByTable(reads, ArgsOffset(present_words))
  /\ \A k \in 1 .. Len(reads) : TableEnd(reads[k]) <= pkt.len

TableWalkedTo == IF reads = << >> THEN ArgsOffset(present_words) ELSE TableEnd(reads[Len(reads)])

(* The slots are filled as the property says, whatever the bits of a word  *)
(* name.                                                                   *)
SlotsFilled ==
  \A k \in 1 .. Len(reads) :
    Field(reads[k].index) = RTAP_ANTENNA =>
      \E s \in 0 .. ant_idx - 1 :
        /\ meta.antenna[s] = reads[k].at
        /\ \A j \in SameWord(k, RTAP_DBM_ANTSIGNAL) : meta.rssi[s] = reads[j].at
        /\ \A j \in SameWord(k, RTAP_DBM_ANTNOISE) : meta.noise[s] = reads[j].at

RefusedByTable ==
  pc = "none" =>
    \/ pkt.len < 8 \/ pkt.version # 0 \/ pkt.radiotap_len > pkt.len
    \/ /\ \A i \in 1 .. Len(present_words) : EXT \in pkt.words[i]
       /\ 4 + 4 * (Len(present_words) + 1) > pkt.len
    \/ /\ {reads[k].index : k \in 1 .. Len(reads)} = DataByTable(present_words, field_index)
       /\ field_index < 32 * Len(present_words)
       /\ field_index \in DataByTable(present_words, field_index + 1)
       /\ Field(field_index) \in KnownFields
       /\ \E at \in TableWalkedTo .. TableWalkedTo + 7 :
            /\ PlacedByTable([index |-> field_index, at |-> at], TableWalkedTo)
            /\ at + Size(Field(field_index)) > pkt.len
-----------------------------------------------------------------------------
(* Before the walk nothing was read; p_off is behind the words read, and   *)
(* the walk stays among their bits.                                        *)
Stages ==
  /\ pkt.words # << >>
  /\ \A i \in 1 .. Len(pkt.words) - 1 : EXT \in pkt.words[i]
  /\ EXT \in pkt.words[Len(pkt.words)] => pkt.len < 8 + 4 * Len(pkt.words)
  /\ p_off = 4 + 4 * Len(present_words)
  /\ pc \in {"check", "present"} =>
       /\ reads = << >> /\ field_index = 0 /\ ant_idx = 0
       /\ Len(present_words) < Len(pkt.words) \/ pkt.len < 8 + 4 * Len(present_words)
  /\ pc \in {"walk", "some"} => Len(present_words) > 0
  /\ field_index <= 32 * Len(present_words)

(* Where the walk is, seen from the reads. *)
AtEnd ==
  pc = "walk" =>
    cur_off = IF reads = << >> THEN ArgsOffset(present_words) ELSE TableEnd(reads[Len(reads)])

(* The reads are of known fields, in the order of their indexes, and they  *)
(* are all the fields with data so far.                                    *)
InOrder ==
  /\ \A k \in 1 .. Len(reads) : Field(reads[k].index) \in KnownFields /\ reads[k].index < field_index
  /\ \A j, k \in 1 .. Len(reads) : j < k => reads[j].index < reads[k].index

Indexes == {reads[k].index : k \in 1 .. Len(reads)}

Covered == Indexes = DataByTable(present_words, field_index)

AntennaReads == {k \in 1 .. Len(reads) : Field(reads[k].index) = RTAP_ANTENNA}

Counted == IsFiniteSet(AntennaReads) /\ ant_idx = Cardinality(AntennaReads)

(* Why the walk stopped. *)
Stopped ==
  pc = "some" =>
    \/ field_index = 32 * Len(present_words)
    \/ /\ Present(present_words, field_index)
       /\ Field(field_index) \notin KnownFields \cup Namespaces
    \/ ant_idx = MAX_ANT

(* In the first word there is one antenna at most, at bit 11. *)
FirstAntenna ==
  /\ field_index <= RTAP_ANTENNA => ant_idx = 0
  /\ field_index <= 32 => ant_idx <= 1

FlagsKept ==
  /\ meta.self_injected <=> \E i \in Indexes : Field(i) = RTAP_TX_FLAGS
  /\ meta.rt_flags # Unset <=> \E i \in Indexes : Field(i) = RTAP_FLAGS

(* A level that waits for the antenna of its word is in the next slot. *)
Waits(levels, field) ==
  \A j \in 1 .. Len(reads) :
    /\ Field(reads[j].index) = field
    /\ field_index <= AlignDown(reads[j].index, 32) + RTAP_ANTENNA
    /\ ant_idx < MAX_ANT
    => levels[ant_idx] = reads[j].at

SlotsWait == Waits(meta.rssi, RTAP_DBM_ANTSIGNAL) /\ Waits(meta.noise, RTAP_DBM_ANTNOISE)

(* The words kept are those of the packet, without their top bits; while   *)
(* there is one to read, each of them has asked for the next.              *)
WordsKept ==
  /\ Len(present_words) <= Len(pkt.words)
  /\ \A i \in 1 .. Len(present_words) : present_words[i] = pkt.words[i] \ {EXT}
  /\ pc = "check" => present_words = << >>
  /\ pc = "present" => /\ p_off <= pkt.len
                       /\ \A i \in 1 .. Len(present_words) : EXT \in pkt.words[i]

(* The rate is that of an MCS field that has been read. *)
McsReads(flags) ==
  {k \in 1 .. Len(reads) : Field(reads[k].index) = RTAP_MCS /\ flags \subseteq reads[k].mcs}

RateKept ==
  /\ IF McsReads({"HAVE_MCS"}) = {} THEN meta.mcs_index = Unset
     ELSE \E k \in McsReads({"HAVE_MCS"}) : meta.mcs_index = reads[k].at + 2
  /\ meta.bandwidth = IF McsReads({"HAVE_BW", "BW_40"}) = {} THEN 20 ELSE 40

IInv ==
  /\ TypeOK /\ Stages /\ AtEnd /\ ReadsByTable /\ InOrder /\ Covered /\ Counted
  /\ Stopped /\ FirstAntenna /\ FlagsKept /\ SlotsWait /\ SlotsFilled
  /\ WordsKept /\ RateKept /\ RefusedByTable
-----------------------------------------------------------------------------
(* The words of the packet that the parser reads are there. *)
LEMMA WordThere ==
  ASSUME TypeOK, Stages, pc = "present", p_off + 4 <= pkt.len
  PROVE  /\ ((p_off - 4) \div 4) + 1 = Len(present_words) + 1
         /\ Len(present_words) + 1 \in 1 .. Len(pkt.words)
         /\ pkt.words[Len(present_words) + 1] \in SUBSET Bits
<1> DEFINE n == Len(present_words)
<1>1. n \in Nat /\ p_off = 4 + 4 * n /\ Len(pkt.words) \in Nat /\ pkt.len \in Nat
  BY DEF TypeOK, Stages, AnyPacket
<1>2. n < Len(pkt.words)
  BY <1>1 DEF Stages
<1>3. \A i \in 1 .. Len(pkt.words) : pkt.words[i] \in SUBSET Bits
  BY DEF TypeOK, AnyPacket
<1>4. (p_off - 4) \div 4 = n
  BY <1>1
<1> QED
  BY <1>1, <1>2, <1>3, <1>4

(* The effect of ReadWord, by name. *)
LEMMA WordFacts ==
  ASSUME TypeOK, Stages, ReadWord
  PROVE  \E w \in SUBSET Bits :
           /\ w = pkt.words[Len(present_words) + 1]
           /\ Len(present_words) + 1 \in 1 .. Len(pkt.words)
           /\ pc = "present" /\ p_off + 4 <= pkt.len
           /\ present_words' = Append(present_words, w \ {EXT})
           /\ p_off' = p_off + 4
           /\ pc' = IF EXT \in w THEN "present" ELSE "walk"
           /\ cur_off' = IF EXT \in w THEN cur_off ELSE ArgsOffset(present_words')
           /\ UNCHANGED <<pkt, field_index, ant_idx, meta, reads>>
<1>1. pc = "present" /\ p_off + 4 <= pkt.len
  BY DEF ReadWord
<1> QED
  BY <1>1, WordThere DEF ReadWord, Kept, NextWord

(* The effect of ReadField, by name: the new read and what became of the   *)
(* ones before it.                                                         *)
LEMMA ReadFacts ==
  ASSUME TypeOK, ReadField
  PROVE  \E mcs \in McsContents, at \in Nat :
           LET field == Field(field_index)
               r == [index |-> field_index, at |-> at, mcs |-> mcs]
           IN  /\ pc = "walk" /\ field_index < 32 * Len(present_words)
               /\ Present(present_words, field_index)
               /\ ant_idx \in Slots
               /\ field \in KnownFields
               /\ PlacedByTable(r, cur_off) /\ at + Size(field) <= pkt.len
               /\ meta' = Filled(field, at, mcs)
               /\ reads' = Append(reads, r) /\ Len(reads') = Len(reads) + 1
               /\ reads'[Len(reads) + 1] = r
               /\ \A k \in 1 .. Len(reads) : reads'[k] = reads[k]
               /\ ant_idx' = AntennaAfter(field)
               /\ cur_off' = at + Size(field)
               /\ field_index' = field_index + 1
               /\ UNCHANGED <<pkt, pc, p_off, present_words>>
<1> DEFINE field == Field(field_index)
           at == AlignUp(cur_off, Align(field))
<1>1. at \in Nat /\ at % Align(field) = 0 /\ cur_off <= at /\ at < cur_off + Align(field)
  BY Layout, AlignUpIsNext DEF TypeOK
<1>2. ant_idx \in Slots /\ field \in KnownFields /\ at + Size(field) <= pkt.len
  BY DEF ReadField, TypeOK, Slots, MAX_ANT
<1>3. PICK mcs \in McsContents :
        /\ meta' = Filled(field, at, mcs)
        /\ reads' = Append(reads, [index |-> field_index, at |-> at, mcs |-> mcs])
  BY DEF ReadField, McsContents
<1> DEFINE r == [index |-> field_index, at |-> at, mcs |-> mcs]
<1>4. reads \in Seq([index : Nat, at : Nat, mcs : McsContents])
  BY DEF TypeOK
<1>5. /\ Len(reads') = Len(reads) + 1
      /\ reads'[Len(reads) + 1] = r
      /\ \A k \in 1 .. Len(reads) : reads'[k] = reads[k]
  BY <1>3, <1>4
<1>6. PlacedByTable(r, cur_off)
  BY <1>1 DEF PlacedByTable
<1>7. /\ pc = "walk" /\ field_index < 32 * Len(present_words)
      /\ Present(present_words, field_index)
      /\ ant_idx' = AntennaAfter(field)
      /\ cur_off' = at + Size(field)
      /\ field_index' = field_index + 1
      /\ UNCHANGED <<pkt, pc, p_off, present_words>>
  BY DEF ReadField, AtPresent, AtBit
<1> HIDE DEF at
<1> QED
  BY <1>1, <1>2, <1>3, <1>5, <1>6, <1>7

LEMMA ReadTypes ==
  ASSUME TypeOK
  PROVE  /\ Len(reads) \in Nat
         /\ \A k \in 1 .. Len(reads) : reads[k].index \in Nat /\ reads[k].at \in Nat
<1> DEFINE Read == [index : Nat, at : Nat, mcs : McsContents]
<1>1. reads \in Seq(Read)
  BY DEF TypeOK
<1>2. \A r \in Read : r.index \in Nat /\ r.at \in Nat
  OBVIOUS
<1> HIDE DEF Read
<1>3. \A k \in 1 .. Len(reads) : reads[k] \in Read
  BY <1>1
<1> QED
  BY <1>1, <1>2, <1>3

(* Of those facts, the ones about the index read. *)
LEMMA ReadIndex ==
  ASSUME TypeOK, ReadField
  PROVE  /\ pc = "walk" /\ ant_idx \in Slots
         /\ field_index \in Nat /\ field_index < 32 * Len(present_words)
         /\ Present(present_words, field_index)
         /\ Field(field_index) \in KnownFields
         /\ Len(reads') = Len(reads) + 1
         /\ reads'[Len(reads) + 1].index = field_index
         /\ \A k \in 1 .. Len(reads) : reads'[k] = reads[k]
         /\ ant_idx' = AntennaAfter(Field(field_index))
         /\ field_index' = field_index + 1
         /\ UNCHANGED <<pkt, pc, p_off, present_words>>
<1>1. PICK mcs \in McsContents, at \in Nat :
         /\ pc = "walk" /\ ant_idx \in Slots
         /\ field_index < 32 * Len(present_words)
         /\ Present(present_words, field_index)
         /\ Field(field_index) \in KnownFields
         /\ Len(reads') = Len(reads) + 1
         /\ reads'[Len(reads) + 1] = [index |-> field_index, at |-> at, mcs |-> mcs]
         /\ \A k \in 1 .. Len(reads) : reads'[k] = reads[k]
         /\ ant_idx' = AntennaAfter(Field(field_index))
         /\ field_index' = field_index + 1
         /\ UNCHANGED <<pkt, pc, p_off, present_words>>
  BY ReadFacts
<1>2. reads'[Len(reads) + 1].index = field_index
  BY <1>1
<1> QED
  BY <1>1, <1>2 DEF TypeOK

(* The steps that only end a stage. *)
Quiet ==
  /\ UNCHANGED <<pkt, p_off, present_words, field_index, cur_off, ant_idx, meta, reads>>
  /\ \/ pc' = pc
     \/ pc' = "none"
     \/ pc = "check" /\ pc' = "present"
     \/ /\ pc = "walk" /\ pc' = "some"
        /\ \/ field_index = 32 * Len(present_words)
           \/ /\ Present(present_words, field_index)
              /\ Field(field_index) \notin KnownFields \cup Namespaces
           \/ ant_idx = MAX_ANT

LEMMA Kinds ==
  ASSUME TypeOK, [Next]_vars
  PROVE  ReadWord \/ Skip \/ ReadField \/ Quiet
<1>1. CASE UNCHANGED vars
  BY <1>1 DEF vars, Quiet
<1>2. CASE Refuse \/ Checked \/ WordOutside \/ FieldOutside
  BY <1>2 DEF Refuse, Checked, WordOutside, FieldOutside, Reached, Quiet
<1>3. CASE StopAtAntennas
  <2>1. ant_idx = MAX_ANT
    BY <1>3 DEF StopAtAntennas, TypeOK, MAX_ANT
  <2> QED
    BY <1>3, <2>1 DEF StopAtAntennas, AtPresent, AtBit, Reached, Quiet
<1>4. CASE StopAtUnknown
  BY <1>4 DEF StopAtUnknown, AtPresent, AtBit, Reached, Quiet
<1>5. CASE WalkEnds
  BY <1>5 DEF WalkEnds, Reached, Quiet
<1> QED
  BY <1>1, <1>2, <1>3, <1>4, <1>5 DEF Next

(* What the arms of the match change, for whichever field. *)
LEMMA FilledType ==
  ASSUME TypeOK, ant_idx \in Slots, NEW field, NEW at \in Nat, NEW mcs
  PROVE  Filled(field, at, mcs) \in RadiotapMeta
<1>1. meta \in RadiotapMeta /\ at \in Offset /\ at + 2 \in Offset
  BY DEF TypeOK, Offset
<1> QED
  BY <1>1 DEF Filled, RadiotapMeta, RTAP_ANTENNA, RTAP_DBM_ANTSIGNAL, RTAP_DBM_ANTNOISE,
     RTAP_CHANNEL, RTAP_FLAGS, RTAP_TX_FLAGS, RTAP_MCS

LEMMA FilledFields ==
  ASSUME TypeOK, ant_idx \in Slots, NEW field \in Bits, NEW at \in Nat, NEW mcs
  PROVE  LET m == Filled(field, at, mcs)
         IN  /\ m.self_injected <=> (meta.self_injected \/ field = RTAP_TX_FLAGS)
             /\ m.rt_flags = IF field = RTAP_FLAGS THEN at ELSE meta.rt_flags
             /\ m.antenna = IF field = RTAP_ANTENNA
                            THEN [meta.antenna EXCEPT ![ant_idx] = at] ELSE meta.antenna
             /\ m.rssi = IF field = RTAP_DBM_ANTSIGNAL
                         THEN [meta.rssi EXCEPT ![ant_idx] = at] ELSE meta.rssi
             /\ m.noise = IF field = RTAP_DBM_ANTNOISE
                          THEN [meta.noise EXCEPT ![ant_idx] = at] ELSE meta.noise
<1> USE DEF RTAP_ANTENNA, RTAP_DBM_ANTSIGNAL, RTAP_DBM_ANTNOISE, RTAP_CHANNEL, RTAP_FLAGS,
            RTAP_TX_FLAGS, RTAP_MCS
<1>1. meta \in RadiotapMeta /\ field \in 0 .. 31
  BY DEF TypeOK, Bits
<1>2. CASE field = 1
  <2>1. Filled(field, at, mcs) = [meta EXCEPT !.rt_flags = at]
    BY <1>2 DEF Filled
  <2> QED
    BY <1>1, <1>2, <2>1 DEF RadiotapMeta
<1>3. CASE field = 3
  <2>1. Filled(field, at, mcs) = [meta EXCEPT !.freq = at]
    BY <1>3 DEF Filled
  <2> QED
    BY <1>1, <1>3, <2>1 DEF RadiotapMeta
<1>4. CASE field = 5
  <2>1. Filled(field, at, mcs) = [meta EXCEPT !.rssi[ant_idx] = at]
    BY <1>4 DEF Filled
  <2> QED
    BY <1>1, <1>4, <2>1 DEF RadiotapMeta
<1>5. CASE field = 6
  <2>1. Filled(field, at, mcs) = [meta EXCEPT !.noise[ant_idx] = at]
    BY <1>5 DEF Filled
  <2> QED
    BY <1>1, <1>5, <2>1 DEF RadiotapMeta
<1>6. CASE field = 11
  <2>1. Filled(field, at, mcs) = [meta EXCEPT !.antenna[ant_idx] = at]
    BY <1>6 DEF Filled
  <2> QED
    BY <1>1, <1>6, <2>1 DEF RadiotapMeta
<1>7. CASE field = 15
  <2>1. Filled(field, at, mcs) = [meta EXCEPT !.self_injected = TRUE]
    BY <1>7 DEF Filled
  <2> QED
    BY <1>1, <1>7, <2>1 DEF RadiotapMeta
<1>8. CASE field = 19
  <2>1. PICK i \in Offset, b \in {20, 40} :
          Filled(field, at, mcs) = [meta EXCEPT !.mcs_index = i, !.bandwidth = b]
    <3>1. meta.mcs_index \in Offset /\ meta.bandwidth \in {20, 40} /\ at + 2 \in Offset
      BY <1>1 DEF RadiotapMeta, Offset
    <3> DEFINE i == IF "HAVE_MCS" \in mcs THEN at + 2 ELSE meta.mcs_index
               b == IF {"HAVE_BW", "BW_40"} \subseteq mcs THEN 40 ELSE meta.bandwidth
    <3>2. i \in Offset /\ b \in {20, 40}
      BY <3>1
    <3>3. Filled(field, at, mcs) = [meta EXCEPT !.mcs_index = i, !.bandwidth = b]
      BY <1>8 DEF Filled
    <3> QED
      BY <3>2, <3>3
  <2> DEFINE m == Filled(field, at, mcs)
  <2>2. m.self_injected = meta.self_injected
    BY <1>1, <2>1 DEF RadiotapMeta
  <2>3. m.rt_flags = meta.rt_flags /\ m.antenna = meta.antenna
    BY <1>1, <2>1 DEF RadiotapMeta
  <2>4. m.rssi = meta.rssi /\ m.noise = meta.noise
    BY <1>1, <2>1 DEF RadiotapMeta
  <2> QED
    BY <1>8, <2>2, <2>3, <2>4
<1>9. CASE field \notin {1, 3, 5, 6, 11, 15, 19}
  <2>1. Filled(field, at, mcs) = meta
    BY <1>9 DEF Filled
  <2> QED
    BY <1>9, <2>1
<1> QED
  BY <1>1, <1>2, <1>3, <1>4, <1>5, <1>6, <1>7, <1>8, <1>9

(* Every offset, count and slot of the parser keeps its type. *)
LEMMA TypeStep ==
  ASSUME TypeOK, Stages, [Next]_vars
  PROVE  TypeOK'
<1>1. CASE ReadWord
  <2>1. PICK w \in SUBSET Bits :
          /\ present_words' = Append(present_words, w \ {EXT})
          /\ p_off' = p_off + 4
          /\ pc' = IF EXT \in w THEN "present" ELSE "walk"
          /\ cur_off' = IF EXT \in w THEN cur_off ELSE ArgsOffset(present_words')
          /\ UNCHANGED <<pkt, field_index, ant_idx, meta, reads>>
    BY <1>1, WordFacts
  <2>2. w \ {EXT} \in SUBSET (0 .. 30)
    BY DEF Bits, EXT
  <2>3. present_words' \in Seq(SUBSET (0 .. 30)) /\ Len(present_words') \in Nat \ {0}
    BY <2>1, <2>2 DEF TypeOK
  <2>4. ArgsOffset(present_words') \in Nat
    BY <2>3 DEF ArgsOffset
  <2> QED
    BY <2>1, <2>3, <2>4 DEF TypeOK
<1>2. CASE Skip
  BY <1>2 DEF Skip, AtBit, TypeOK
<1>3. CASE ReadField
  <2> DEFINE field == Field(field_index)
  <2>1. PICK mcs \in McsContents, at \in Nat :
          /\ ant_idx \in Slots /\ field \in KnownFields
          /\ meta' = Filled(field, at, mcs)
          /\ reads' = Append(reads, [index |-> field_index, at |-> at, mcs |-> mcs])
          /\ ant_idx' = AntennaAfter(field)
          /\ cur_off' = at + Size(field)
          /\ field_index' = field_index + 1
          /\ UNCHANGED <<pkt, pc, p_off, present_words>>
    BY <1>3, ReadFacts
  <2>2. meta' \in RadiotapMeta
    BY <2>1, FilledType
  <2>3. reads' \in Seq([index : Nat, at : Nat, mcs : McsContents])
    BY <2>1 DEF TypeOK
  <2>4. cur_off' \in Nat /\ field_index' \in Nat
    BY <2>1, Layout DEF TypeOK
  <2>5. ant_idx' \in 0 .. MAX_ANT
    BY <2>1 DEF AntennaAfter, Slots, MAX_ANT
  <2> QED
    BY <2>1, <2>2, <2>3, <2>4, <2>5 DEF TypeOK
<1>4. CASE Quiet
  BY <1>4 DEF Quiet, TypeOK
<1> QED
  BY <1>1, <1>2, <1>3, <1>4, Kinds

LEMMA StagesStep ==
  ASSUME TypeOK, Stages, [Next]_vars
  PROVE  Stages'
<1>1. CASE ReadWord
  <2>1. PICK w \in SUBSET Bits :
          /\ w = pkt.words[Len(present_words) + 1]
          /\ Len(present_words) + 1 \in 1 .. Len(pkt.words)
          /\ pc = "present"
          /\ present_words' = Append(present_words, w \ {EXT})
          /\ p_off' = p_off + 4
          /\ pc' = IF EXT \in w THEN "present" ELSE "walk"
          /\ UNCHANGED <<pkt, field_index, ant_idx, reads>>
    BY <1>1, WordFacts
  <2>2. Len(present_words') = Len(present_words) + 1 /\ Len(present_words) \in Nat
    BY <2>1 DEF TypeOK
  <2>3. Len(pkt.words) \in Nat /\ pkt.len \in Nat
    BY DEF TypeOK, AnyPacket
  <2>4. EXT \in w =>
          Len(present_words') < Len(pkt.words) \/ pkt.len < 8 + 4 * Len(present_words')
    BY <2>1, <2>2, <2>3 DEF Stages
  <2>5. p_off' = 4 + 4 * Len(present_words')
    BY <2>1, <2>2 DEF Stages
  <2> QED
    BY <2>1, <2>2, <2>4, <2>5 DEF Stages
<1>2. CASE Skip
  BY <1>2 DEF Skip, AtBit, TypeOK, Stages
<1>3. CASE ReadField
  <2>1. /\ pc = "walk" /\ field_index < 32 * Len(present_words)
        /\ field_index' = field_index + 1
        /\ UNCHANGED <<pkt, pc, p_off, present_words>>
    BY <1>3, ReadFacts
  <2> QED
    BY <2>1 DEF TypeOK, Stages
<1>4. CASE Quiet
  BY <1>4 DEF Quiet, TypeOK, Stages
<1> QED
  BY <1>1, <1>2, <1>3, <1>4, Kinds

(* The walk reads nothing before the present words are complete. *)
LEMMA WordReadsNothing ==
  ASSUME TypeOK, Stages, ReadWord
  PROVE  /\ reads = << >> /\ reads' = << >> /\ meta' = meta
         /\ field_index = 0 /\ field_index' = 0 /\ ant_idx = 0 /\ ant_idx' = 0
BY WordFacts DEF Stages

LEMMA AtEndStep ==
  ASSUME TypeOK, Stages, AtEnd, [Next]_vars
  PROVE  AtEnd'
<1>1. CASE ReadWord
  <2>1. pc' = "walk" => cur_off' = ArgsOffset(present_words')
    BY <1>1, WordFacts
  <2> QED
    BY <1>1, <2>1, WordReadsNothing DEF AtEnd
<1>2. CASE Skip
  BY <1>2 DEF Skip, AtEnd
<1>3. CASE ReadField
  <2>1. PICK mcs \in McsContents, at \in Nat :
          /\ reads' = Append(reads, [index |-> field_index, at |-> at, mcs |-> mcs])
          /\ Len(reads') = Len(reads) + 1
          /\ reads'[Len(reads) + 1] = [index |-> field_index, at |-> at, mcs |-> mcs]
          /\ cur_off' = at + Size(Field(field_index))
    BY <1>3, ReadFacts
  <2>2. Len(reads') # 0
    BY <2>1 DEF TypeOK
  <2> QED
    BY <2>1, <2>2 DEF AtEnd, TableEnd
<1>4. CASE Quiet
  BY <1>4 DEF Quiet, AtEnd
<1> QED
  BY <1>1, <1>2, <1>3, <1>4, Kinds

LEMMA LaidOutStep ==
  ASSUME TypeOK, Stages, AtEnd, ReadsByTable, [Next]_vars
  PROVE  ReadsByTable'
<1>1. CASE ReadWord
  BY <1>1, WordReadsNothing DEF ReadsByTable, LaidByTable
<1>2. CASE Skip
  BY <1>2 DEF Skip, ReadsByTable
<1>3. CASE ReadField
  <2> DEFINE n == Len(reads)
             start == ArgsOffset(present_words)
  <2>1. PICK mcs \in McsContents, at \in Nat :
          LET r == [index |-> field_index, at |-> at, mcs |-> mcs]
          IN  /\ pc = "walk"
              /\ PlacedByTable(r, cur_off) /\ at + Size(Field(field_index)) <= pkt.len
              /\ Len(reads') = n + 1
              /\ reads'[n + 1] = r
              /\ \A k \in 1 .. n : reads'[k] = reads[k]
              /\ UNCHANGED <<pkt, pc, p_off, present_words>>
    BY <1>3, ReadFacts
  <2>2. n \in Nat
    BY DEF TypeOK
  <2>3. cur_off = IF n + 1 = 1 THEN start ELSE TableEnd(reads[n])
    <3>1. n = 0 <=> reads = << >>
      BY DEF TypeOK
    <3> QED
      BY <2>1, <2>2, <3>1 DEF AtEnd
  <2>4. PlacedByTable(reads'[n + 1], IF n + 1 = 1 THEN start ELSE TableEnd(reads'[n]))
    <3>1. n # 0 => reads'[n] = reads[n]
      BY <2>1, <2>2
    <3> QED
      BY <2>1, <2>2, <2>3, <3>1
  <2>5. \A k \in 1 .. n : PlacedByTable(reads'[k], IF k = 1 THEN start ELSE TableEnd(reads'[k - 1]))
    <3>1. TAKE k \in 1 .. n
    <3>2. PlacedByTable(reads[k], IF k = 1 THEN start ELSE TableEnd(reads[k - 1]))
      BY DEF ReadsByTable, LaidByTable
    <3>3. reads'[k] = reads[k] /\ (k # 1 => reads'[k - 1] = reads[k - 1])
      BY <2>1, <2>2
    <3> QED
      BY <3>2, <3>3
  <2>6. LaidByTable(reads', start)
    <3>1. \A k \in 1 .. n + 1 : k = n + 1 \/ k \in 1 .. n
      BY <2>2
    <3> QED
      BY <2>1, <2>4, <2>5, <3>1 DEF LaidByTable
  <2>7. \A k \in 1 .. n + 1 : TableEnd(reads'[k]) <= pkt.len
    <3>1. TableEnd(reads'[n + 1]) <= pkt.len
      BY <2>1 DEF TableEnd
    <3>2. \A k \in 1 .. n : TableEnd(reads'[k]) <= pkt.len
      BY <2>1 DEF ReadsByTable
    <3> QED
      BY <2>2, <3>1, <3>2
  <2> HIDE DEF n
  <2> QED
    BY <2>1, <2>6, <2>7 DEF ReadsByTable
<1>4. CASE Quiet
  BY <1>4 DEF Quiet, ReadsByTable
<1> QED
  BY <1>1, <1>2, <1>3, <1>4, Kinds

LEMMA InOrderStep ==
  ASSUME TypeOK, Stages, InOrder, [Next]_vars
  PROVE  InOrder'
<1>1. CASE ReadWord
  BY <1>1, WordReadsNothing DEF InOrder
<1>2. CASE Skip
  <2>1. \A k \in 1 .. Len(reads) : reads[k].index \in Nat
    BY ReadTypes
  <2> QED
    BY <1>2, <2>1 DEF Skip, InOrder, TypeOK
<1>3. CASE ReadField
  <2> DEFINE n == Len(reads)
  <2>1. /\ Field(field_index) \in KnownFields
        /\ Len(reads') = n + 1
        /\ reads'[n + 1].index = field_index
        /\ \A k \in 1 .. n : reads'[k] = reads[k]
        /\ field_index' = field_index + 1
    BY <1>3, ReadIndex
  <2>2. n \in Nat /\ field_index \in Nat /\ \A k \in 1 .. n : reads[k].index \in Nat
    BY ReadTypes DEF TypeOK
  <2>3. \A k \in 1 .. n : Field(reads[k].index) \in KnownFields /\ reads[k].index < field_index
    BY DEF InOrder
  <2>4. \A j, k \in 1 .. n : j < k => reads[j].index < reads[k].index
    BY DEF InOrder
  <2> HIDE DEF n
  <2>5. \A k \in 1 .. n + 1 : k = n + 1 \/ k \in 1 .. n
    BY <2>2
  <2>6. \A k \in 1 .. n + 1 :
          Field(reads'[k].index) \in KnownFields /\ reads'[k].index < field_index'
    BY <2>1, <2>2, <2>3, <2>5
  <2>7. \A j, k \in 1 .. n + 1 : j < k => reads'[j].index < reads'[k].index
    BY <2>1, <2>2, <2>3, <2>4, <2>5
  <2> QED
    BY <2>1, <2>6, <2>7 DEF InOrder
<1>4. CASE Quiet
  BY <1>4 DEF Quiet, InOrder
<1> QED
  BY <1>1, <1>2, <1>3, <1>4, Kinds

(* One more bit: its field, when it holds data. *)
LEMMA OneMoreField ==
  ASSUME NEW words, NEW n \in Nat
  PROVE  DataByTable(words, n + 1) =
           DataByTable(words, n) \cup
             (IF Present(words, n) /\ Field(n) \notin Namespaces THEN {n} ELSE {})
<1>1. 0 .. (n + 1) - 1 = (0 .. n - 1) \cup {n}
  OBVIOUS
<1> QED
  BY <1>1 DEF DataByTable

(* The indexes read, before and after a step. *)
LEMMA IndexesStep ==
  ASSUME TypeOK, ReadField
  PROVE  Indexes' = Indexes \cup {field_index}
<1> DEFINE n == Len(reads)
<1>1. /\ Len(reads') = n + 1
      /\ reads'[n + 1].index = field_index
      /\ \A k \in 1 .. n : reads'[k] = reads[k]
  BY ReadIndex
<1>2. 1 .. n + 1 = (1 .. n) \cup {n + 1}
  BY DEF TypeOK
<1> HIDE DEF n
<1>3. Indexes' = {reads'[k].index : k \in 1 .. n + 1}
  BY <1>1 DEF Indexes
<1>4. Indexes = {reads[k].index : k \in 1 .. n}
  BY DEF Indexes, n
<1> QED
  BY <1>1, <1>2, <1>3, <1>4

LEMMA CoveredStep ==
  ASSUME TypeOK, Stages, Covered, [Next]_vars
  PROVE  Covered'
<1>1. CASE ReadWord
  <2>1. Indexes' = {}
    BY <1>1, WordReadsNothing DEF Indexes
  <2>2. \A words : DataByTable(words, 0) = {}
    BY DEF DataByTable
  <2> QED
    BY <1>1, <2>1, <2>2, WordReadsNothing DEF Covered
<1>2. CASE Skip
  <2>1. pc = "walk" /\ Indexes' = Indexes
    BY <1>2 DEF Skip, AtBit, Indexes
  <2>2. ~ (Present(present_words, field_index) /\ Field(field_index) \notin Namespaces)
    BY <1>2 DEF Skip
  <2>3. DataByTable(present_words, field_index + 1) = DataByTable(present_words, field_index)
    <3>1. field_index \in Nat
      BY DEF TypeOK
    <3>2. DataByTable(present_words, field_index + 1) =
            DataByTable(present_words, field_index) \cup {}
      BY <2>2, <3>1, OneMoreField
    <3> QED
      BY <3>2
  <2> QED
    BY <1>2, <2>1, <2>3 DEF Skip, Covered
<1>3. CASE ReadField
  <2>1. /\ pc = "walk" /\ Present(present_words, field_index)
        /\ Field(field_index) \in KnownFields
        /\ field_index' = field_index + 1
        /\ UNCHANGED present_words
    BY <1>3, ReadIndex
  <2>2. Field(field_index) \notin Namespaces
    BY <2>1 DEF KnownFields, Namespaces, RADIOTAP_NAMESPACE, VENDOR_NAMESPACE
  <2>3. DataByTable(present_words, field_index + 1) =
          DataByTable(present_words, field_index) \cup {field_index}
    BY <2>1, <2>2, OneMoreField DEF TypeOK
  <2> QED
    BY <1>3, <2>1, <2>3, IndexesStep DEF Covered
<1>4. CASE Quiet
  <2>1. Indexes' = Indexes
    BY <1>4 DEF Quiet, Indexes
  <2> QED
    BY <1>4, <2>1 DEF Quiet, Covered
<1> QED
  BY <1>1, <1>2, <1>3, <1>4, Kinds

LEMMA CountedStep ==
  ASSUME TypeOK, Stages, Counted, [Next]_vars
  PROVE  Counted'
<1>1. CASE ReadWord
  <2>1. AntennaReads' = {}
    BY <1>1, WordReadsNothing DEF AntennaReads
  <2> QED
    BY <1>1, <2>1, WordReadsNothing, FS_EmptySet DEF Counted
<1>2. CASE Skip
  BY <1>2 DEF Skip, Counted, AntennaReads
<1>3. CASE ReadField
  <2> DEFINE n == Len(reads)
  <2>1. /\ Len(reads') = n + 1
        /\ reads'[n + 1].index = field_index
        /\ \A k \in 1 .. n : reads'[k] = reads[k]
        /\ ant_idx' = AntennaAfter(Field(field_index))
    BY <1>3, ReadIndex
  <2>2. n \in Nat /\ 1 .. n + 1 = (1 .. n) \cup {n + 1} /\ n + 1 \notin 1 .. n
    BY DEF TypeOK
  <2>3. AntennaReads \subseteq 1 .. n
    BY DEF AntennaReads
  <2> HIDE DEF n
  <2>4. AntennaReads' = {k \in 1 .. n + 1 : Field(reads'[k].index) = RTAP_ANTENNA}
    BY <2>1 DEF AntennaReads
  <2>5. AntennaReads = {k \in 1 .. n : Field(reads[k].index) = RTAP_ANTENNA}
    BY DEF AntennaReads, n
  <2>6. CASE Field(field_index) = RTAP_ANTENNA
    <3>1. AntennaReads' = AntennaReads \cup {n + 1} /\ n + 1 \notin AntennaReads
      BY <2>1, <2>2, <2>3, <2>4, <2>5, <2>6
    <3>2. IsFiniteSet(AntennaReads') /\ Cardinality(AntennaReads') = Cardinality(AntennaReads) + 1
      BY <3>1, FS_AddElement DEF Counted
    <3> QED
      BY <2>1, <2>6, <3>2 DEF Counted, AntennaAfter
  <2>7. CASE Field(field_index) # RTAP_ANTENNA
    <3>1. AntennaReads' = AntennaReads
      BY <2>1, <2>2, <2>4, <2>5, <2>7
    <3> QED
      BY <2>1, <2>7, <3>1 DEF Counted, AntennaAfter
  <2> QED
    BY <2>6, <2>7
<1>4. CASE Quiet
  BY <1>4 DEF Quiet, Counted, AntennaReads
<1> QED
  BY <1>1, <1>2, <1>3, <1>4, Kinds

LEMMA StoppedStep ==
  ASSUME TypeOK, Stages, Stopped, [Next]_vars
  PROVE  Stopped'
<1>1. CASE ReadWord
  <2>1. pc' # "some"
    BY <1>1, WordFacts
  <2> QED
    BY <2>1 DEF Stopped
<1>2. CASE Skip
  BY <1>2 DEF Skip, AtBit, Stopped
<1>3. CASE ReadField
  <2>1. pc' = "walk"
    BY <1>3, ReadIndex
  <2> QED
    BY <2>1 DEF Stopped
<1>4. CASE Quiet
  BY <1>4 DEF Quiet, Stopped
<1> QED
  BY <1>1, <1>2, <1>3, <1>4, Kinds

LEMMA FirstAntennaStep ==
  ASSUME TypeOK, Stages, FirstAntenna, [Next]_vars
  PROVE  FirstAntenna'
<1>1. CASE ReadWord
  BY <1>1, WordReadsNothing DEF FirstAntenna
<1>2. CASE Skip
  BY <1>2 DEF Skip, FirstAntenna, RTAP_ANTENNA, TypeOK, MAX_ANT
<1>3. CASE ReadField
  <2>1. /\ field_index' = field_index + 1 /\ ant_idx' = AntennaAfter(Field(field_index))
        /\ field_index \in Nat /\ ant_idx \in Nat
    BY <1>3, ReadIndex DEF TypeOK, MAX_ANT
  <2>2. field_index < 32 => Field(field_index) = field_index
    BY <2>1 DEF Field
  <2> QED
    BY <2>1, <2>2 DEF FirstAntenna, AntennaAfter, RTAP_ANTENNA
<1>4. CASE Quiet
  BY <1>4 DEF Quiet, FirstAntenna
<1> QED
  BY <1>1, <1>2, <1>3, <1>4, Kinds

LEMMA FlagsStep ==
  ASSUME TypeOK, Stages, FlagsKept, [Next]_vars
  PROVE  FlagsKept'
<1>1. CASE ReadWord
  <2>1. Indexes = {} /\ Indexes' = {} /\ meta' = meta
    BY <1>1, WordReadsNothing DEF Indexes
  <2> QED
    BY <2>1 DEF FlagsKept
<1>2. CASE Skip
  <2>1. Indexes' = Indexes /\ meta' = meta
    BY <1>2 DEF Skip, Indexes
  <2> QED
    BY <2>1 DEF FlagsKept
<1>3. CASE ReadField
  <2> DEFINE field == Field(field_index)
  <2>1. PICK mcs \in McsContents, at \in Nat :
          ant_idx \in Slots /\ meta' = Filled(field, at, mcs)
    BY <1>3, ReadFacts
  <2>2. field \in Bits /\ field \in Nat
    BY DEF Field, Bits, TypeOK
  <2>3. /\ meta'.self_injected <=> (meta.self_injected \/ field = RTAP_TX_FLAGS)
        /\ meta'.rt_flags = IF field = RTAP_FLAGS THEN at ELSE meta.rt_flags
    BY <2>1, <2>2, FilledFields
  <2>4. Indexes' = Indexes \cup {field_index}
    BY <1>3, IndexesStep
  <2>5. at # Unset
    BY <2>1 DEF Unset
  <2> HIDE DEF field
  <2>6. meta'.self_injected <=> \E i \in Indexes' : Field(i) = RTAP_TX_FLAGS
    BY <2>3, <2>4 DEF FlagsKept, field
  <2>7. meta'.rt_flags # Unset <=> \E i \in Indexes' : Field(i) = RTAP_FLAGS
    BY <2>3, <2>4, <2>5 DEF FlagsKept, field
  <2> QED
    BY <2>6, <2>7 DEF FlagsKept
<1>4. CASE Quiet
  <2>1. Indexes' = Indexes /\ meta' = meta
    BY <1>4 DEF Quiet, Indexes
  <2> QED
    BY <2>1 DEF FlagsKept
<1> QED
  BY <1>1, <1>2, <1>3, <1>4, Kinds

(* A bit behind another one of the same word and not past bit 10 is        *)
(* neither an antenna nor the same bit.                                    *)
LEMMA BeforeAntenna ==
  ASSUME NEW x \in Nat, NEW i \in Nat, x < i, i < AlignDown(x, 32) + 11
  PROVE  Field(i) # 11 /\ Field(i) # Field(x)
BY DEF AlignDown, Field

(* Levels that wait keep waiting, when they are read by one field and      *)
(* nothing but an antenna moves the slot.                                  *)
LEMMA WaitsStep ==
  ASSUME TypeOK, InOrder, ReadField, NEW field \in {5, 6},
         NEW levels \in [Slots -> Offset], NEW levels2 \in [Slots -> Offset],
         NEW at \in Nat, reads'[Len(reads) + 1].at = at,
         levels2 = IF Field(field_index) = field THEN [levels EXCEPT ![ant_idx] = at] ELSE levels,
         Waits(levels, field)
  PROVE  \A j \in 1 .. Len(reads') :
           /\ Field(reads'[j].index) = field
           /\ field_index' <= AlignDown(reads'[j].index, 32) + RTAP_ANTENNA
           /\ ant_idx' < MAX_ANT
           => levels2[ant_idx'] = reads'[j].at
<1> DEFINE n == Len(reads)
<1>1. /\ ant_idx \in Slots /\ field_index \in Nat
      /\ n \in Nat
      /\ Len(reads') = n + 1
      /\ reads'[n + 1].index = field_index
      /\ \A k \in 1 .. n : reads'[k] = reads[k]
      /\ ant_idx' = AntennaAfter(Field(field_index))
      /\ field_index' = field_index + 1
  BY ReadIndex, ReadTypes
<1> SUFFICES ASSUME NEW j \in 1 .. n + 1,
                    Field(reads'[j].index) = field,
                    field_index' <= AlignDown(reads'[j].index, 32) + RTAP_ANTENNA
             PROVE  levels2[ant_idx'] = reads'[j].at
  BY <1>1
<1>2. CASE j = n + 1
  <2>1. Field(field_index) = field
    BY <1>1, <1>2
  <2>2. ant_idx' = ant_idx
    BY <1>1, <2>1 DEF AntennaAfter, RTAP_ANTENNA
  <2> QED
    BY <1>1, <1>2, <2>1, <2>2
<1>3. CASE j \in 1 .. n
  <2> DEFINE x == reads[j].index
  <2>1. x \in Nat /\ x < field_index /\ reads'[j] = reads[j]
    BY <1>1, <1>3, ReadTypes DEF InOrder
  <2>2. AlignDown(x, 32) \in Int
    BY <2>1 DEF AlignDown
  <2>3. field_index < AlignDown(x, 32) + 11
    BY <1>1, <2>1, <2>2 DEF RTAP_ANTENNA
  <2>4. Field(field_index) # 11 /\ Field(field_index) # Field(x)
    BY <1>1, <2>1, <2>3, BeforeAntenna
  <2>5. levels2 = levels /\ ant_idx' = ant_idx
    BY <1>1, <2>1, <2>4 DEF AntennaAfter, RTAP_ANTENNA
  <2>6. levels[ant_idx] = reads[j].at
    <3>1. field_index <= AlignDown(x, 32) + RTAP_ANTENNA
      BY <1>1, <2>2, <2>3 DEF RTAP_ANTENNA
    <3>2. ant_idx < MAX_ANT
      BY <1>1 DEF Slots, MAX_ANT
    <3> QED
      BY <1>3, <2>1, <3>1, <3>2 DEF Waits
  <2> QED
    BY <2>1, <2>5, <2>6
<1> QED
  BY <1>1, <1>2, <1>3

(* What the match on the field did to the three arrays. *)
LEMMA SlotFacts ==
  ASSUME TypeOK, ReadField
  PROVE  LET field == Field(field_index)
             at == reads'[Len(reads) + 1].at
         IN  /\ at \in Nat
             /\ meta.antenna \in [Slots -> Offset]
             /\ meta.rssi \in [Slots -> Offset] /\ meta.noise \in [Slots -> Offset]
             /\ meta'.antenna = IF field = 11 THEN [meta.antenna EXCEPT ![ant_idx] = at]
                                ELSE meta.antenna
             /\ meta'.rssi = IF field = 5 THEN [meta.rssi EXCEPT ![ant_idx] = at]
                             ELSE meta.rssi
             /\ meta'.noise = IF field = 6 THEN [meta.noise EXCEPT ![ant_idx] = at]
                              ELSE meta.noise
<1>1. PICK mcs \in McsContents, at \in Nat :
        /\ ant_idx \in Slots /\ meta' = Filled(Field(field_index), at, mcs)
        /\ reads'[Len(reads) + 1] = [index |-> field_index, at |-> at, mcs |-> mcs]
  BY ReadFacts
<1>2. Field(field_index) \in Bits
  BY DEF Field, Bits, TypeOK
<1>3. reads'[Len(reads) + 1].at = at
  BY <1>1
<1>4. meta \in RadiotapMeta
  BY DEF TypeOK
<1>5. /\ meta.antenna \in [Slots -> Offset]
      /\ meta.rssi \in [Slots -> Offset] /\ meta.noise \in [Slots -> Offset]
  BY <1>4 DEF RadiotapMeta
<1> QED
  BY <1>1, <1>2, <1>3, <1>5, FilledFields DEF RTAP_ANTENNA, RTAP_DBM_ANTSIGNAL, RTAP_DBM_ANTNOISE

LEMMA SlotsWaitStep ==
  ASSUME TypeOK, Stages, InOrder, SlotsWait, [Next]_vars
  PROVE  SlotsWait'
<1>1. CASE ReadWord
  BY <1>1, WordReadsNothing DEF SlotsWait, Waits
<1>2. CASE Skip
  <2>1. \A k \in 1 .. Len(reads) : AlignDown(reads[k].index, 32) \in Int
    BY ReadTypes DEF AlignDown
  <2>2. field_index' = field_index + 1 /\ UNCHANGED <<reads, meta, ant_idx>> /\ field_index \in Nat
    BY <1>2 DEF Skip, TypeOK
  <2>3. \A k \in 1 .. Len(reads) :
          field_index' <= AlignDown(reads[k].index, 32) + RTAP_ANTENNA =>
            field_index <= AlignDown(reads[k].index, 32) + RTAP_ANTENNA
    BY <2>1, <2>2 DEF RTAP_ANTENNA
  <2> QED
    BY <2>2, <2>3 DEF SlotsWait, Waits
<1>3. CASE ReadField
  <2> DEFINE field == Field(field_index)
             at == reads'[Len(reads) + 1].at
  <2>1. /\ at \in Nat /\ ant_idx \in Slots
        /\ meta.rssi \in [Slots -> Offset] /\ meta.noise \in [Slots -> Offset]
        /\ meta'.rssi = IF field = 5 THEN [meta.rssi EXCEPT ![ant_idx] = at] ELSE meta.rssi
        /\ meta'.noise = IF field = 6 THEN [meta.noise EXCEPT ![ant_idx] = at] ELSE meta.noise
    BY <1>3, SlotFacts, ReadIndex
  <2>2. meta'.rssi \in [Slots -> Offset] /\ meta'.noise \in [Slots -> Offset]
    BY <2>1 DEF Offset
  <2>3. Waits(meta.rssi, 5) /\ Waits(meta.noise, 6)
    BY DEF SlotsWait, RTAP_DBM_ANTSIGNAL, RTAP_DBM_ANTNOISE
  <2>4. \A j \in 1 .. Len(reads') :
           /\ Field(reads'[j].index) = 5
           /\ field_index' <= AlignDown(reads'[j].index, 32) + RTAP_ANTENNA
           /\ ant_idx' < MAX_ANT
           => meta'.rssi[ant_idx'] = reads'[j].at
    BY <1>3, <2>1, <2>2, <2>3, WaitsStep
  <2>5. \A j \in 1 .. Len(reads') :
           /\ Field(reads'[j].index) = 6
           /\ field_index' <= AlignDown(reads'[j].index, 32) + RTAP_ANTENNA
           /\ ant_idx' < MAX_ANT
           => meta'.noise[ant_idx'] = reads'[j].at
    BY <1>3, <2>1, <2>2, <2>3, WaitsStep
  <2> QED
    BY <2>4, <2>5 DEF SlotsWait, Waits, RTAP_DBM_ANTSIGNAL, RTAP_DBM_ANTNOISE
<1>4. CASE Quiet
  BY <1>4 DEF Quiet, SlotsWait, Waits
<1> QED
  BY <1>1, <1>2, <1>3, <1>4, Kinds

(* The other bits of an antenna's word that the walk reads before bit 11. *)
LEMMA SameWordBefore ==
  ASSUME NEW x \in Nat, Field(x) = 11, NEW field \in {5, 6}, NEW y \in Nat,
         y = AlignDown(x, 32) + field
  PROVE  /\ Field(y) = field /\ y < x
         /\ AlignDown(y, 32) + 11 = x
<1>1. PICK q \in Nat : x = 32 * q + 11
  <2>1. x = 32 * (x \div 32) + (x % 32) /\ x \div 32 \in Nat
    OBVIOUS
  <2> QED
    BY <2>1 DEF Field
<1>2. AlignDown(x, 32) = 32 * q
  BY <1>1 DEF AlignDown
<1>3. y = 32 * q + field
  BY <1>2
<1> QED
  BY <1>1, <1>3 DEF AlignDown, Field

LEMMA SlotsMatchStep ==
  ASSUME TypeOK, Stages, InOrder, SlotsWait, SlotsFilled, [Next]_vars
  PROVE  SlotsFilled'
<1>1. CASE ReadWord
  BY <1>1, WordReadsNothing DEF SlotsFilled
<1>2. CASE Skip
  BY <1>2 DEF Skip, SlotsFilled, SameWord
<1>3. CASE ReadField
  <2> DEFINE n == Len(reads)
             field == Field(field_index)
             at == reads'[n + 1].at
  <2>1. /\ at \in Nat
        /\ meta.antenna \in [Slots -> Offset]
        /\ meta.rssi \in [Slots -> Offset] /\ meta.noise \in [Slots -> Offset]
        /\ meta'.antenna = IF field = 11 THEN [meta.antenna EXCEPT ![ant_idx] = at] ELSE meta.antenna
        /\ meta'.rssi = IF field = 5 THEN [meta.rssi EXCEPT ![ant_idx] = at] ELSE meta.rssi
        /\ meta'.noise = IF field = 6 THEN [meta.noise EXCEPT ![ant_idx] = at] ELSE meta.noise
    BY <1>3, SlotFacts DEF Slots
  <2>2. /\ ant_idx \in 0 .. 3 /\ field_index \in Nat /\ n \in Nat
        /\ Len(reads') = n + 1
        /\ reads'[n + 1].index = field_index
        /\ \A k \in 1 .. n : reads'[k] = reads[k]
        /\ ant_idx' = IF field = 11 THEN ant_idx + 1 ELSE ant_idx
    BY <1>3, ReadIndex, ReadTypes DEF Slots, MAX_ANT, AntennaAfter, RTAP_ANTENNA
  <2>3. \A k \in 1 .. n : reads[k].index \in Nat /\ reads[k].index < field_index
    BY ReadTypes DEF InOrder
  <2> HIDE DEF n, field, at
  <2> SUFFICES ASSUME NEW k \in 1 .. Len(reads'), Field(reads'[k].index) = 11
               PROVE  \E s \in 0 .. ant_idx' - 1 :
                        /\ meta'.antenna[s] = reads'[k].at
                        /\ \A j \in 1 .. Len(reads') :
                             /\ reads'[j].index = AlignDown(reads'[k].index, 32) + 5 =>
                                  meta'.rssi[s] = reads'[j].at
                             /\ reads'[j].index = AlignDown(reads'[k].index, 32) + 6 =>
                                  meta'.noise[s] = reads'[j].at
    BY DEF SlotsFilled, SameWord, RTAP_ANTENNA, RTAP_DBM_ANTSIGNAL, RTAP_DBM_ANTNOISE
  <2>4. CASE k \in 1 .. n
    <3> DEFINE x == reads[k].index
    <3>1. reads'[k] = reads[k] /\ x \in Nat /\ x < field_index /\ Field(x) = 11
      BY <2>2, <2>3, <2>4
    <3>2. PICK s \in 0 .. ant_idx - 1 :
            /\ meta.antenna[s] = reads[k].at
            /\ \A j \in 1 .. n :
                 /\ reads[j].index = AlignDown(x, 32) + 5 => meta.rssi[s] = reads[j].at
                 /\ reads[j].index = AlignDown(x, 32) + 6 => meta.noise[s] = reads[j].at
      <4>1. PICK s \in 0 .. ant_idx - 1 :
              /\ meta.antenna[s] = reads[k].at
              /\ \A j \in SameWord(k, 5) : meta.rssi[s] = reads[j].at
              /\ \A j \in SameWord(k, 6) : meta.noise[s] = reads[j].at
        BY <2>4, <3>1 DEF n, SlotsFilled, RTAP_ANTENNA, RTAP_DBM_ANTSIGNAL, RTAP_DBM_ANTNOISE
      <4>2. ASSUME NEW j \in 1 .. n, NEW f, reads[j].index = AlignDown(x, 32) + f
            PROVE  j \in SameWord(k, f)
        BY <4>2 DEF n, SameWord
      <4> QED
        BY <4>1, <4>2
    <3>3. s \in Slots /\ s # ant_idx /\ s \in 0 .. ant_idx' - 1
      BY <2>2 DEF Slots, MAX_ANT
    <3>4. /\ meta'.antenna[s] = meta.antenna[s]
          /\ meta'.rssi[s] = meta.rssi[s] /\ meta'.noise[s] = meta.noise[s]
      BY <2>1, <3>3
    <3>5. field_index # AlignDown(x, 32) + 5 /\ field_index # AlignDown(x, 32) + 6
      BY <2>2, <3>1, SameWordBefore
    <3>6. \A j \in 1 .. n + 1 : j = n + 1 \/ (j \in 1 .. n /\ reads'[j] = reads[j])
      BY <2>2
    <3>7. \A j \in 1 .. n + 1 :
            /\ reads'[j].index = AlignDown(x, 32) + 5 => meta'.rssi[s] = reads'[j].at
            /\ reads'[j].index = AlignDown(x, 32) + 6 => meta'.noise[s] = reads'[j].at
      BY <2>2, <3>2, <3>4, <3>5, <3>6
    <3> QED
      BY <2>2, <3>1, <3>2, <3>3, <3>4, <3>7
  <2>5. CASE k = n + 1
    <3>1. /\ field = 11 /\ ant_idx' = ant_idx + 1 /\ ant_idx \in Slots
          /\ meta'.rssi = meta.rssi /\ meta'.noise = meta.noise
      BY <2>1, <2>2, <2>5 DEF field, Slots, MAX_ANT
    <3>2. meta'.antenna[ant_idx] = at
      BY <2>1, <3>1
    <3>3. ASSUME NEW j \in 1 .. n + 1, NEW f \in {5, 6},
                 reads'[j].index = AlignDown(field_index, 32) + f
          PROVE  /\ j \in 1 .. n /\ reads'[j] = reads[j]
                 /\ Field(reads[j].index) = f
                 /\ field_index <= AlignDown(reads[j].index, 32) + RTAP_ANTENNA
                 /\ ant_idx < MAX_ANT
      <4> DEFINE y == reads'[j].index
      <4>1. AlignDown(field_index, 32) + f < field_index
        BY <2>2, <3>1, SameWordBefore DEF field, AlignDown
      <4>2. j \in 1 .. n /\ reads'[j] = reads[j]
        BY <2>2, <3>3, <4>1
      <4>3. y \in Nat
        BY <2>3, <4>2
      <4>4. Field(y) = f /\ AlignDown(y, 32) + 11 = field_index
        BY <2>2, <3>1, <3>3, <4>3, SameWordBefore DEF field
      <4> QED
        BY <2>2, <4>2, <4>4 DEF RTAP_ANTENNA, MAX_ANT
    <3>4. \A j \in 1 .. n + 1 :
            /\ reads'[j].index = AlignDown(field_index, 32) + 5 => meta'.rssi[ant_idx] = reads'[j].at
            /\ reads'[j].index = AlignDown(field_index, 32) + 6 => meta'.noise[ant_idx] = reads'[j].at
      BY <3>1, <3>3 DEF n, SlotsWait, Waits, RTAP_DBM_ANTSIGNAL, RTAP_DBM_ANTNOISE
    <3>5. reads'[k].index = field_index /\ reads'[k].at = at /\ ant_idx \in 0 .. ant_idx' - 1
      BY <2>2, <2>5, <3>1 DEF at
    <3> QED
      BY <2>2, <3>2, <3>4, <3>5
  <2> QED
    BY <2>2, <2>4, <2>5
<1>4. CASE Quiet
  BY <1>4 DEF Quiet, SlotsFilled, SameWord
<1> QED
  BY <1>1, <1>2, <1>3, <1>4, Kinds

LEMMA WordsKeptStep ==
  ASSUME TypeOK, Stages, WordsKept, [Next]_vars
  PROVE  WordsKept'
<1>1. CASE ReadWord
  <2> DEFINE n == Len(present_words)
  <2>1. PICK w \in SUBSET Bits :
          /\ w = pkt.words[n + 1]
          /\ n + 1 \in 1 .. Len(pkt.words)
          /\ pc = "present" /\ p_off + 4 <= pkt.len
          /\ present_words' = Append(present_words, w \ {EXT})
          /\ p_off' = p_off + 4
          /\ pc' = IF EXT \in w THEN "present" ELSE "walk"
          /\ pkt' = pkt
    BY <1>1, WordFacts
  <2>2. /\ n \in Nat /\ Len(present_words') = n + 1
        /\ present_words'[n + 1] = w \ {EXT}
        /\ \A i \in 1 .. n : present_words'[i] = present_words[i]
    BY <2>1 DEF TypeOK
  <2>3. \A i \in 1 .. n : /\ present_words[i] = pkt.words[i] \ {EXT}
                          /\ EXT \in pkt.words[i]
    BY <2>1 DEF WordsKept
  <2>4. \A i \in 1 .. n + 1 : i = n + 1 \/ i \in 1 .. n
    BY <2>2
  <2> HIDE DEF n
  <2>5. \A i \in 1 .. n + 1 : present_words'[i] = pkt.words[i] \ {EXT}
    BY <2>1, <2>2, <2>3, <2>4
  <2>6. EXT \in w => \A i \in 1 .. n + 1 : EXT \in pkt.words[i]
    BY <2>1, <2>3, <2>4
  <2>7. n + 1 <= Len(pkt.words)
    BY <2>1
  <2> QED
    BY <2>1, <2>2, <2>5, <2>6, <2>7 DEF WordsKept
<1>2. CASE Skip
  BY <1>2 DEF Skip, WordsKept
<1>3. CASE ReadField
  BY <1>3, ReadIndex DEF WordsKept
<1>4. CASE Refuse \/ WordOutside \/ StopAtAntennas \/ StopAtUnknown \/ FieldOutside \/ WalkEnds
  BY <1>4 DEF Refuse, WordOutside, StopAtAntennas, StopAtUnknown, FieldOutside, WalkEnds,
     Reached, WordsKept
<1>5. CASE Checked
  <2>1. p_off = 4 /\ present_words = << >> /\ pkt.len \in Nat /\ pkt.len >= 8
    <3>1. present_words = << >>
      BY <1>5 DEF Checked, WordsKept
    <3>2. Len(present_words) = 0
      BY <3>1
    <3> QED
      BY <1>5, <3>1, <3>2 DEF Checked, Stages, TypeOK, AnyPacket
  <2> QED
    BY <1>5, <2>1 DEF Checked, Reached, WordsKept
<1>6. CASE UNCHANGED vars
  BY <1>6 DEF vars, WordsKept
<1> QED
  BY <1>1, <1>2, <1>3, <1>4, <1>5, <1>6 DEF Next

(* What the match on the field makes of the rate. *)
LEMMA FilledRate ==
  ASSUME TypeOK, ant_idx \in Slots, NEW field, NEW at \in Nat, NEW mcs \in McsContents
  PROVE  LET m == Filled(field, at, mcs)
         IN  /\ m.mcs_index = IF field = RTAP_MCS /\ {"HAVE_MCS"} \subseteq mcs
                              THEN at + 2 ELSE meta.mcs_index
             /\ m.bandwidth = IF field = RTAP_MCS /\ {"HAVE_BW", "BW_40"} \subseteq mcs
                              THEN 40 ELSE meta.bandwidth
<1> USE DEF RTAP_ANTENNA, RTAP_DBM_ANTSIGNAL, RTAP_DBM_ANTNOISE, RTAP_CHANNEL, RTAP_FLAGS,
            RTAP_TX_FLAGS, RTAP_MCS
<1>1. meta \in RadiotapMeta
  BY DEF TypeOK
<1>2. CASE field = 19
  <2>1. Filled(field, at, mcs) =
          [meta EXCEPT !.mcs_index = IF "HAVE_MCS" \in mcs THEN at + 2 ELSE @,
                       !.bandwidth = IF {"HAVE_BW", "BW_40"} \subseteq mcs THEN 40 ELSE @]
    BY <1>2 DEF Filled
  <2> QED
    BY <1>1, <1>2, <2>1 DEF RadiotapMeta
<1>3. CASE field # 19
  <2>1. CASE field = 1
    BY <1>1, <1>3, <2>1 DEF Filled, RadiotapMeta
  <2>2. CASE field = 3
    BY <1>1, <1>3, <2>2 DEF Filled, RadiotapMeta
  <2>3. CASE field = 5
    BY <1>1, <1>3, <2>3 DEF Filled, RadiotapMeta
  <2>4. CASE field = 6
    BY <1>1, <1>3, <2>4 DEF Filled, RadiotapMeta
  <2>5. CASE field = 11
    BY <1>1, <1>3, <2>5 DEF Filled, RadiotapMeta
  <2>6. CASE field = 15
    BY <1>1, <1>3, <2>6 DEF Filled, RadiotapMeta
  <2>7. CASE field \notin {1, 3, 5, 6, 11, 15, 19}
    BY <1>1, <1>3, <2>7 DEF Filled, RadiotapMeta
  <2> QED
    BY <1>3, <2>1, <2>2, <2>3, <2>4, <2>5, <2>6, <2>7
<1> QED
  BY <1>2, <1>3

(* One more read adds to the MCS reads itself at most. *)
LEMMA McsReadsStep ==
  ASSUME TypeOK, ReadField, NEW flags
  PROVE  LET n == Len(reads)
         IN  /\ McsReads(flags) \subseteq 1 .. n
             /\ McsReads(flags)' = McsReads(flags) \cup
                  (IF Field(field_index) = RTAP_MCS /\ flags \subseteq reads'[n + 1].mcs
                   THEN {n + 1} ELSE {})
<1> DEFINE n == Len(reads)
<1>1. /\ Len(reads') = n + 1
      /\ reads'[n + 1].index = field_index
      /\ \A k \in 1 .. n : reads'[k] = reads[k]
  BY ReadIndex
<1>2. n \in Nat /\ 1 .. n + 1 = (1 .. n) \cup {n + 1}
  BY DEF TypeOK
<1> HIDE DEF n
<1>3. McsReads(flags) =
        {k \in 1 .. n : Field(reads[k].index) = RTAP_MCS /\ flags \subseteq reads[k].mcs}
  BY DEF McsReads, n
<1>4. McsReads(flags)' =
        {k \in 1 .. n + 1 : Field(reads'[k].index) = RTAP_MCS /\ flags \subseteq reads'[k].mcs}
  BY <1>1 DEF McsReads
<1> QED
  BY <1>1, <1>2, <1>3, <1>4 DEF n

LEMMA RateStep ==
  ASSUME TypeOK, Stages, RateKept, [Next]_vars
  PROVE  RateKept'
<1>1. CASE ReadWord
  <2>1. UNCHANGED <<reads, meta>>
    BY <1>1, WordReadsNothing
  <2> QED
    BY <2>1 DEF RateKept, McsReads
<1>2. CASE Skip
  BY <1>2 DEF Skip, RateKept, McsReads
<1>3. CASE ReadField
  <2> DEFINE n == Len(reads)
             field == Field(field_index)
             A == McsReads({"HAVE_MCS"})
             B == McsReads({"HAVE_BW", "BW_40"})
             A2 == McsReads({"HAVE_MCS"})'
             B2 == McsReads({"HAVE_BW", "BW_40"})'
  <2>1. PICK mcs \in McsContents, at \in Nat :
          /\ ant_idx \in Slots /\ meta' = Filled(field, at, mcs)
          /\ reads'[n + 1] = [index |-> field_index, at |-> at, mcs |-> mcs]
          /\ \A k \in 1 .. n : reads'[k] = reads[k]
    BY <1>3, ReadFacts
  <2>2. reads'[n + 1].at = at /\ reads'[n + 1].mcs = mcs
    BY <2>1
  <2>3. /\ meta'.mcs_index = IF field = RTAP_MCS /\ {"HAVE_MCS"} \subseteq mcs
                             THEN at + 2 ELSE meta.mcs_index
        /\ meta'.bandwidth = IF field = RTAP_MCS /\ {"HAVE_BW", "BW_40"} \subseteq mcs
                             THEN 40 ELSE meta.bandwidth
    BY <2>1, FilledRate
  <2>4. /\ A \subseteq 1 .. n
        /\ A2 = A \cup (IF field = RTAP_MCS /\ {"HAVE_MCS"} \subseteq mcs THEN {n + 1} ELSE {})
        /\ B2 = B \cup (IF field = RTAP_MCS /\ {"HAVE_BW", "BW_40"} \subseteq mcs THEN {n + 1} ELSE {})
    BY <1>3, <2>2, McsReadsStep
  <2>5. /\ IF A = {} THEN meta.mcs_index = Unset ELSE \E k \in A : meta.mcs_index = reads[k].at + 2
        /\ meta.bandwidth = IF B = {} THEN 20 ELSE 40
    BY DEF RateKept
  <2> HIDE DEF n, field, A, B, A2, B2
  <2>6. IF A2 = {} THEN meta'.mcs_index = Unset ELSE \E k \in A2 : meta'.mcs_index = reads'[k].at + 2
    <3>1. CASE field = RTAP_MCS /\ {"HAVE_MCS"} \subseteq mcs
      <4>1. n + 1 \in A2 /\ meta'.mcs_index = reads'[n + 1].at + 2
        BY <2>2, <2>3, <2>4, <3>1
      <4> QED
        BY <4>1
    <3>2. CASE ~(field = RTAP_MCS /\ {"HAVE_MCS"} \subseteq mcs)
      <4>1. A2 = A /\ meta'.mcs_index = meta.mcs_index /\ \A k \in A : reads'[k] = reads[k]
        BY <2>1, <2>3, <2>4, <3>2
      <4> QED
        BY <2>5, <4>1
    <3> QED
      BY <3>1, <3>2
  <2>7. meta'.bandwidth = IF B2 = {} THEN 20 ELSE 40
    BY <2>3, <2>4, <2>5
  <2> QED
    BY <2>6, <2>7 DEF A2, B2, RateKept
<1>4. CASE Quiet
  BY <1>4 DEF Quiet, RateKept, McsReads
<1> QED
  BY <1>1, <1>2, <1>3, <1>4, Kinds

(* The bit that is set and known is the next field with data. *)
LEMMA NextField ==
  ASSUME TypeOK, AtPresent, Field(field_index) \in KnownFields
  PROVE  field_index \in DataByTable(present_words, field_index + 1)
<1>1. Field(field_index) \notin Namespaces
  BY DEF KnownFields, Namespaces, RADIOTAP_NAMESPACE, VENDOR_NAMESPACE
<1>2. field_index \in 0 .. (field_index + 1) - 1
  BY DEF TypeOK
<1> QED
  BY <1>1, <1>2 DEF DataByTable, AtPresent

LEMMA CauseStep ==
  ASSUME TypeOK, Stages, AtEnd, Covered, WordsKept, RefusedByTable, [Next]_vars
  PROVE  RefusedByTable'
<1>1. CASE Refuse
  BY <1>1 DEF Refuse, Reached, RefusedByTable
<1>2. CASE WordOutside
  <2>1. /\ \A i \in 1 .. Len(present_words) : EXT \in pkt.words[i]
        /\ 4 + 4 * (Len(present_words) + 1) > pkt.len
    <3>1. p_off = 4 + 4 * Len(present_words) /\ Len(present_words) \in Nat /\ pkt.len \in Nat
      BY DEF Stages, TypeOK, AnyPacket
    <3> QED
      BY <1>2, <3>1 DEF WordOutside, WordsKept
  <2> QED
    BY <1>2, <2>1 DEF WordOutside, Reached, RefusedByTable
<1>3. CASE FieldOutside
  <2> DEFINE field == Field(field_index)
             at == AlignUp(cur_off, Align(field))
  <2>1. /\ AtPresent /\ pc = "walk" /\ field \in KnownFields /\ at + Size(field) > pkt.len
        /\ UNCHANGED <<pkt, p_off, present_words, field_index, reads>>
    BY <1>3 DEF FieldOutside, Reached, AtPresent, AtBit
  <2>2. cur_off = TableWalkedTo /\ TableWalkedTo \in Nat /\ field_index < 32 * Len(present_words)
    BY <2>1 DEF AtEnd, TableWalkedTo, TypeOK, AtPresent, AtBit
  <2>3. /\ at \in Nat /\ at % Align(field) = 0
        /\ TableWalkedTo <= at /\ at < TableWalkedTo + Align(field) /\ Align(field) \in {1, 2, 4, 8}
    BY <2>2, Layout, AlignUpIsNext
  <2>4. at \in TableWalkedTo .. TableWalkedTo + 7
    BY <2>2, <2>3
  <2>5. PlacedByTable([index |-> field_index, at |-> at], TableWalkedTo)
    BY <2>3 DEF PlacedByTable
  <2>6. {reads[k].index : k \in 1 .. Len(reads)} = DataByTable(present_words, field_index)
    BY <2>1 DEF Covered, Indexes
  <2>7. field_index \in DataByTable(present_words, field_index + 1)
    BY <2>1, NextField
  <2> HIDE DEF at
  <2>8. \E a \in TableWalkedTo .. TableWalkedTo + 7 :
          /\ PlacedByTable([index |-> field_index, at |-> a], TableWalkedTo)
          /\ a + Size(Field(field_index)) > pkt.len
    BY <2>1, <2>4, <2>5
  <2>9. TableWalkedTo' = TableWalkedTo
    BY <2>1 DEF TableWalkedTo
  <2> QED
    BY <2>1, <2>2, <2>6, <2>7, <2>8, <2>9 DEF RefusedByTable
<1>4. CASE Checked \/ ReadWord \/ Skip \/ StopAtAntennas \/ StopAtUnknown \/ ReadField \/ WalkEnds
  <2>1. CASE ReadField \/ Skip
    <3>1. pc' = "walk"
      BY <2>1 DEF ReadField, Skip, AtPresent, AtBit
    <3> QED
      BY <3>1 DEF RefusedByTable
  <2>2. CASE ReadWord
    <3>1. pc' # "none"
      BY <2>2 DEF ReadWord
    <3> QED
      BY <3>1 DEF RefusedByTable
  <2>3. CASE Checked \/ StopAtAntennas \/ StopAtUnknown \/ WalkEnds
    <3>1. pc' # "none"
      BY <2>3 DEF Checked, StopAtAntennas, StopAtUnknown, WalkEnds, Reached
    <3> QED
      BY <3>1 DEF RefusedByTable
  <2> QED
    BY <1>4, <2>1, <2>2, <2>3
<1>5. CASE UNCHANGED vars
  BY <1>5 DEF vars, RefusedByTable, TableWalkedTo
<1> QED
  BY <1>1, <1>2, <1>3, <1>4, <1>5 DEF Next
-----------------------------------------------------------------------------
LEMMA InitInv == Init => IInv
<1> SUFFICES ASSUME Init PROVE IInv
  OBVIOUS
<1>1. /\ pkt \in AnyPacket /\ pkt.words # << >>
      /\ EXT \in pkt.words[Len(pkt.words)] => pkt.len < 8 + 4 * Len(pkt.words)
      /\ \A i \in 1 .. Len(pkt.words) - 1 : EXT \in pkt.words[i]
  BY PacketAssumption DEF Init
<1>2. TypeOK
  <2>1. meta \in RadiotapMeta
    BY DEF Init, RadiotapMeta, Offset
  <2> QED
    BY <1>1, <2>1 DEF Init, TypeOK, MAX_ANT
<1>3. Stages
  <2>1. Len(pkt.words) \in Nat \ {0}
    BY <1>1 DEF AnyPacket
  <2> QED
    BY <1>1, <2>1 DEF Init, Stages
<1>4. Indexes = {} /\ AntennaReads = {}
  BY DEF Init, Indexes, AntennaReads
<1>5. Counted
  BY <1>4, FS_EmptySet DEF Init, Counted
<1>6. FlagsKept
  BY <1>4 DEF Init, FlagsKept
<1>7. AtEnd /\ ReadsByTable /\ InOrder /\ Covered /\ Stopped /\ FirstAntenna
  <2>1. DataByTable(present_words, field_index) = {}
    BY DEF Init, DataByTable
  <2>2. Covered
    BY <1>4, <2>1 DEF Covered
  <2> QED
    BY <2>2 DEF Init, AtEnd, ReadsByTable, LaidByTable, InOrder, Stopped, FirstAntenna
<1>8. SlotsWait /\ SlotsFilled
  BY DEF Init, SlotsWait, Waits, SlotsFilled
<1>9. WordsKept /\ RateKept /\ RefusedByTable
  <2>1. McsReads({"HAVE_MCS"}) = {} /\ McsReads({"HAVE_BW", "BW_40"}) = {}
    BY DEF Init, McsReads
  <2>2. Len(pkt.words) \in Nat /\ present_words = << >>
    BY <1>1 DEF AnyPacket, Init
  <2> QED
    BY <2>1, <2>2 DEF Init, WordsKept, RateKept, RefusedByTable
<1> QED
  BY <1>2, <1>3, <1>5, <1>6, <1>7, <1>8, <1>9 DEF IInv

LEMMA NextInv == IInv /\ [Next]_vars => IInv'
BY TypeStep, StagesStep, AtEndStep, LaidOutStep, InOrderStep, CoveredStep, CountedStep,
   StoppedStep, FirstAntennaStep, FlagsStep, SlotsWaitStep, SlotsMatchStep, WordsKeptStep,
   RateStep, CauseStep DEF IInv

LEMMA Invariant == Spec => []IInv
BY InitInv, NextInv, PTL DEF Spec
-----------------------------------------------------------------------------
(* The table of field_layout has the alignment and the size that the       *)
(* standard has, for every field it knows.                                 *)
LEMMA TableIsStandard ==
  ASSUME NEW field \in KnownFields
  PROVE  /\ field \in StandardFields
         /\ Align(field) = StdAlign(field)
         /\ Size(field) = StdSize(field)
<1>1. StandardFields = 0 .. 22
  BY DEF StandardFields, STANDARD
<1>2. field \in 0 .. 22 /\ field # 18
  BY DEF KnownFields
<1>3. field \in {0, 22, 20}
        => Align(field) = StdAlign(field) /\ Size(field) = StdSize(field)
  BY DEF Align, Size, StdAlign, StdSize, STANDARD
<1>4. field \in {3, 21, 4, 7, 8, 9, 14, 15}
        => Align(field) = StdAlign(field) /\ Size(field) = StdSize(field)
  BY DEF Align, Size, StdAlign, StdSize, STANDARD
<1>5. field \in {1, 2, 5, 6, 10, 11, 12, 13, 16, 17, 19}
        => Align(field) = StdAlign(field) /\ Size(field) = StdSize(field)
  BY DEF Align, Size, StdAlign, StdSize, STANDARD
<1>6. \/ field \in {0, 22, 20} \/ field \in {3, 21, 4, 7, 8, 9, 14, 15}
      \/ field \in {1, 2, 5, 6, 10, 11, 12, 13, 16, 17, 19}
  BY <1>2
<1> QED
  BY <1>1, <1>2, <1>3, <1>4, <1>5, <1>6

(* So the two readings of an offset agree.                                 *)
LEMMA PlacesAgree ==
  ASSUME NEW r, NEW start, Field(r.index) \in KnownFields
  PROVE  /\ End(r) = TableEnd(r)
         /\ PlacedAfter(r, start) <=> PlacedByTable(r, start)
BY TableIsStandard DEF End, TableEnd, PlacedAfter, PlacedByTable

(* Where every word is of the radiotap namespace, the bits of the walk     *)
(* that hold no data are those of the standard.                            *)
LEMMA FieldsAgree ==
  ASSUME TypeOK, WordsKept, OnlyRadiotap(pkt.words), NEW n \in 0 .. 32 * Len(present_words)
  PROVE  DataFields(present_words, n) = DataByTable(present_words, n)
<1>1. ASSUME NEW i \in 0 .. n - 1, Present(present_words, i)
      PROVE  Field(i) \notin {VENDOR_NAMESPACE, EXT}
  <2> DEFINE w == (i \div 32) + 1
  <2>1. Len(present_words) \in Nat /\ Len(pkt.words) \in Nat
    BY DEF TypeOK, AnyPacket
  <2>2. i \in Nat /\ i < 32 * Len(present_words)
    BY <2>1
  <2>3. i \div 32 \in Nat /\ 32 * (i \div 32) <= i
    BY <2>2
  <2>4. w \in 1 .. Len(present_words)
    BY <2>1, <2>2, <2>3
  <2>5. w \in 1 .. Len(pkt.words) /\ present_words[w] = pkt.words[w] \ {EXT}
    BY <2>1, <2>4 DEF WordsKept
  <2>6. Field(i) \in present_words[w]
    BY <1>1 DEF Present
  <2> QED
    BY <2>5, <2>6 DEF OnlyRadiotap
<1>2. \A i \in 0 .. n - 1 :
        Present(present_words, i) =>
          (Field(i) \notin {RADIOTAP_NAMESPACE, EXT} <=> Field(i) \notin Namespaces)
  BY <1>1 DEF Namespaces
<1> QED
  BY <1>2 DEF DataFields, DataByTable

(* Before a read the walk has read just the fields with data before it.    *)
LEMMA ReadsBefore ==
  ASSUME TypeOK, InOrder, Covered, NEW k \in 1 .. Len(reads)
  PROVE  {reads[j].index : j \in 1 .. k - 1} = DataByTable(present_words, reads[k].index)
<1> DEFINE n == Len(reads)
           x == reads[k].index
<1>1. /\ n \in Nat /\ field_index \in Nat /\ x \in Nat /\ x < field_index
      /\ \A j \in 1 .. n : reads[j].index \in Nat
  BY ReadTypes DEF InOrder, TypeOK
<1>2. DataByTable(present_words, x) = {i \in Indexes : i < x}
  BY <1>1 DEF Covered, DataByTable
<1>3. ASSUME NEW j \in 1 .. n PROVE reads[j].index < x <=> j \in 1 .. k - 1
  <2>1. CASE j < k
    BY <1>1, <2>1 DEF InOrder
  <2>2. CASE j = k
    BY <1>1, <2>2
  <2>3. CASE k < j
    <3>1. x < reads[j].index
      BY <2>3 DEF InOrder
    <3> QED
      BY <1>1, <2>3, <3>1
  <2> QED
    BY <1>1, <2>1, <2>2, <2>3
<1>4. 1 .. k - 1 \subseteq 1 .. n
  BY <1>1
<1>5. {i \in Indexes : i < x} = {reads[j].index : j \in 1 .. k - 1}
  BY <1>3, <1>4 DEF Indexes
<1> QED
  BY <1>2, <1>5
-----------------------------------------------------------------------------
(* For every packet: offsets, counts and slots of the parser have their    *)
(* types, the antenna count never exceeds the arrays of RadiotapMeta.      *)
THEOREM TypeCorrect == Spec => []TypeOK
BY Invariant, PTL DEF IInv

(* For every packet: no field is read beyond the packet; and, in any       *)
(* number of present words of the radiotap namespace, none is read         *)
(* elsewhere than the alignments and sizes of the standard put it, which   *)
(* are stated apart from the table of the code.                            *)
THEOREM FieldsWhereTheyLie == Spec => []ReadsLaidOut
<1>1. IInv => ReadsLaidOut
  <2> SUFFICES ASSUME IInv PROVE ReadsLaidOut
    OBVIOUS
  <2>1. TypeOK /\ InOrder /\ Covered /\ ReadsByTable /\ WordsKept
    BY DEF IInv
  <2>2. \A k \in 1 .. Len(reads) : Field(reads[k].index) \in KnownFields
    BY <2>1 DEF InOrder
  <2>3. \A k \in 1 .. Len(reads) : End(reads[k]) <= pkt.len
    BY <2>1, <2>2, PlacesAgree DEF ReadsByTable
  <2>4. LaidOut(reads, ArgsOffset(present_words))
    <3> SUFFICES ASSUME NEW k \in 1 .. Len(reads)
                 PROVE  PlacedAfter(reads[k], IF k = 1 THEN ArgsOffset(present_words)
                                              ELSE End(reads[k - 1]))
      BY DEF LaidOut
    <3>1. PlacedByTable(reads[k], IF k = 1 THEN ArgsOffset(present_words)
                                  ELSE TableEnd(reads[k - 1]))
      BY <2>1 DEF ReadsByTable, LaidByTable
    <3>2. k # 1 => k - 1 \in 1 .. Len(reads)
      BY <2>1, ReadTypes
    <3>3. k # 1 => TableEnd(reads[k - 1]) = End(reads[k - 1])
      BY <2>2, <3>2, PlacesAgree
    <3> QED
      BY <2>2, <3>1, <3>3, PlacesAgree
  <2>5. ASSUME OnlyRadiotap(pkt.words), NEW k \in 1 .. Len(reads)
        PROVE  {reads[j].index : j \in 1 .. k - 1} = DataFields(present_words, reads[k].index)
    <3>1. reads[k].index \in 0 .. 32 * Len(present_words)
      <4>1. reads[k].index \in Nat /\ reads[k].index < field_index
        BY <2>1, ReadTypes DEF InOrder
      <4>2. field_index \in Nat /\ Len(present_words) \in Nat
        BY <2>1 DEF TypeOK
      <4>3. field_index <= 32 * Len(present_words)
        BY DEF IInv, Stages
      <4> QED
        BY <4>1, <4>2, <4>3
    <3>2. DataFields(present_words, reads[k].index) = DataByTable(present_words, reads[k].index)
      BY <2>1, <2>5, <3>1, FieldsAgree
    <3> QED
      BY <2>1, <3>2, ReadsBefore
  <2> QED
    BY <2>3, <2>4, <2>5 DEF ReadsLaidOut
<1> QED
  BY <1>1, Invariant, PTL

(* The fields read, in terms of the standard. *)
LEMMA ReadsAreData ==
  ASSUME IInv, OnlyRadiotap(pkt.words)
  PROVE  /\ Indexes = DataFields(present_words, field_index)
         /\ field_index \in Nat /\ Len(present_words) \in Nat
         /\ field_index <= 32 * Len(present_words)
<1>1. /\ TypeOK /\ WordsKept /\ Indexes = DataByTable(present_words, field_index)
      /\ field_index <= 32 * Len(present_words)
  BY DEF IInv, Covered, Stages
<1>2. field_index \in Nat /\ Len(present_words) \in Nat
  BY <1>1 DEF TypeOK
<1>3. field_index \in 0 .. 32 * Len(present_words)
  BY <1>1, <1>2
<1> QED
  BY <1>1, <1>2, <1>3, FieldsAgree

(* For every packet of the radiotap namespace: the walk leaves no field    *)
(* with data out before it stops, and it stops for one of three reasons.   *)
THEOREM AllFieldsRead == Spec => []NothingMissed
<1>1. IInv => NothingMissed
  <2> SUFFICES ASSUME IInv, pc = "some", OnlyRadiotap(pkt.words)
               PROVE  /\ Indexes = DataFields(present_words, field_index)
                      /\ \/ field_index = 32 * Len(present_words)
                         \/ /\ field_index \in DataFields(present_words, field_index + 1)
                            /\ Field(field_index) \notin KnownFields
                         \/ Cardinality(AntennaReads) = MAX_ANT
    BY DEF NothingMissed, Indexes, AntennaReads
  <2>1. /\ Indexes = DataFields(present_words, field_index)
        /\ field_index \in Nat /\ Len(present_words) \in Nat
        /\ field_index <= 32 * Len(present_words)
    BY ReadsAreData
  <2>2. ant_idx = Cardinality(AntennaReads)
    BY DEF IInv, Counted
  <2>3. CASE /\ field_index # 32 * Len(present_words)
             /\ Present(present_words, field_index)
             /\ Field(field_index) \notin KnownFields \cup Namespaces
    <3>1. field_index + 1 \in 0 .. 32 * Len(present_words) /\ field_index \in 0 .. (field_index + 1) - 1
      BY <2>1, <2>3
    <3>2. field_index \in DataByTable(present_words, field_index + 1)
      BY <2>3, <3>1 DEF DataByTable
    <3>3. DataFields(present_words, field_index + 1) = DataByTable(present_words, field_index + 1)
      BY <3>1, FieldsAgree DEF IInv
    <3> QED
      BY <2>1, <2>3, <3>2, <3>3
  <2> QED
    BY <2>1, <2>2, <2>3 DEF IInv, Stopped
<1> QED
  BY <1>1, Invariant, PTL

(* For every packet of the radiotap namespace: each antenna is reported    *)
(* with the levels of its own word.                                        *)
THEOREM LevelsOfTheirAntenna == Spec => []SlotsMatch
<1>1. IInv => SlotsMatch
  BY DEF IInv, SlotsFilled, SlotsMatch
<1> QED
  BY <1>1, Invariant, PTL

(* A field of the first word below the first bit that can stop the walk    *)
(* has been read when the walk stops.                                      *)
LEMMA FirstWordRead ==
  ASSUME IInv, pc = "some", NEW field \in {RTAP_FLAGS, RTAP_TX_FLAGS},
         field \in present_words[1]
  PROVE  field \in Indexes /\ Field(field) = field
<1> USE DEF RTAP_FLAGS, RTAP_TX_FLAGS
<1>1. /\ field_index \in Nat /\ Len(present_words) \in Nat /\ Len(present_words) > 0
      /\ Indexes = DataByTable(present_words, field_index)
  BY DEF IInv, TypeOK, Stages, Covered
<1>2. field < field_index
  <2>1. CASE field_index = 32 * Len(present_words)
    BY <1>1, <2>1
  <2>2. CASE /\ Present(present_words, field_index)
             /\ Field(field_index) \notin KnownFields \cup Namespaces
    <3>1. field_index < 18 => Field(field_index) = field_index
      BY <1>1 DEF Field
    <3>2. field_index < 18 => field_index \in KnownFields
      <4>1. \A i \in Nat : i < 18 => i \in (0 .. 22) \ {18}
        OBVIOUS
      <4> QED
        BY <1>1, <4>1 DEF KnownFields
    <3>3. Field(field_index) \notin KnownFields
      BY <2>2
    <3> QED
      BY <1>1, <3>1, <3>2, <3>3
  <2>3. CASE ant_idx = MAX_ANT
    BY <1>1, <2>3 DEF IInv, FirstAntenna, MAX_ANT
  <2> QED
    BY <2>1, <2>2, <2>3 DEF IInv, Stopped
<1>3. Field(field) = field /\ field \div 32 = 0
  BY DEF Field
<1>4. Present(present_words, field) /\ field \notin Namespaces
  BY <1>3 DEF Present, Namespaces, RADIOTAP_NAMESPACE, VENDOR_NAMESPACE
<1> QED
  BY <1>1, <1>2, <1>3, <1>4 DEF DataByTable

(* For every packet: an early stop never hides the checksum flag or the    *)
(* TX_FLAGS of the first present word from the receiver's decisions.       *)
THEOREM DecisionsNotMissed == Spec => []DecisionsSeen
<1>1. IInv => DecisionsSeen
  <2> DEFINE announced == DataFields(present_words, 32 * Len(present_words))
  <2> SUFFICES ASSUME IInv, pc = "some"
               PROVE  /\ RTAP_TX_FLAGS \in present_words[1] => meta.self_injected
                      /\ RTAP_FLAGS \in present_words[1] => meta.rt_flags # Unset
                      /\ OnlyRadiotap(pkt.words) => Indexes \subseteq announced
    BY DEF DecisionsSeen, IInv, FlagsKept
  <2>1. FlagsKept
    BY DEF IInv
  <2>2. RTAP_TX_FLAGS \in present_words[1] =>
          RTAP_TX_FLAGS \in Indexes /\ Field(RTAP_TX_FLAGS) = RTAP_TX_FLAGS
    BY FirstWordRead
  <2>3. RTAP_FLAGS \in present_words[1] =>
          RTAP_FLAGS \in Indexes /\ Field(RTAP_FLAGS) = RTAP_FLAGS
    BY FirstWordRead
  <2>4. ASSUME OnlyRadiotap(pkt.words) PROVE Indexes \subseteq announced
    <3>1. /\ Indexes = DataFields(present_words, field_index)
          /\ field_index \in Nat /\ Len(present_words) \in Nat
          /\ field_index <= 32 * Len(present_words)
      BY <2>4, ReadsAreData
    <3>2. 0 .. field_index - 1 \subseteq 0 .. 32 * Len(present_words) - 1
      BY <3>1
    <3> QED
      BY <3>1, <3>2 DEF DataFields
  <2> QED
    BY <2>1, <2>2, <2>3, <2>4 DEF FlagsKept
<1> QED
  BY <1>1, Invariant, PTL

(* For every packet of the radiotap namespace: None is the answer only to  *)
(* one that breaks off, by the sizes and alignments of the standard, or    *)
(* contradicts itself.                                                     *)
THEOREM NoneHasCause == Spec => []RefusedForCause
<1>1. IInv => RefusedForCause
  <2> SUFFICES ASSUME IInv, OnlyRadiotap(pkt.words),
                      Indexes = DataByTable(present_words, field_index),
                      field_index < 32 * Len(present_words),
                      field_index \in DataByTable(present_words, field_index + 1),
                      Field(field_index) \in KnownFields,
                      NEW at \in TableWalkedTo .. TableWalkedTo + 7,
                      PlacedByTable([index |-> field_index, at |-> at], TableWalkedTo),
                      at + Size(Field(field_index)) > pkt.len
               PROVE  /\ Indexes = DataFields(present_words, field_index)
                      /\ field_index \in DataFields(present_words, 32 * Len(present_words))
                      /\ Field(field_index) \in StandardFields
                      /\ at \in WalkedTo .. WalkedTo + 7
                      /\ PlacedAfter([index |-> field_index, at |-> at], WalkedTo)
                      /\ at + StdSize(Field(field_index)) > pkt.len
    BY DEF IInv, RefusedByTable, RefusedForCause, Indexes
  <2>1. /\ Indexes = DataFields(present_words, field_index)
        /\ field_index \in Nat /\ Len(present_words) \in Nat
    BY ReadsAreData
  <2>2. field_index \in DataFields(present_words, 32 * Len(present_words))
    <3>1. 32 * Len(present_words) \in 0 .. 32 * Len(present_words)
      BY <2>1
    <3>2. field_index \in DataByTable(present_words, 32 * Len(present_words))
      BY <2>1 DEF DataByTable
    <3> QED
      BY <3>1, <3>2, FieldsAgree DEF IInv
  <2>3. WalkedTo = TableWalkedTo
    <3>1. CASE reads = << >>
      BY <3>1 DEF WalkedTo, TableWalkedTo
    <3>2. CASE reads # << >>
      <4>1. Len(reads) \in 1 .. Len(reads)
        BY <3>2 DEF IInv, TypeOK
      <4>2. Field(reads[Len(reads)].index) \in KnownFields
        BY <4>1 DEF IInv, InOrder
      <4> QED
        BY <3>2, <4>2, PlacesAgree DEF WalkedTo, TableWalkedTo
    <3> QED
      BY <3>1, <3>2
  <2>4. Field(field_index) \in StandardFields /\ Size(Field(field_index)) = StdSize(Field(field_index))
    BY TableIsStandard
  <2>5. PlacedAfter([index |-> field_index, at |-> at], WalkedTo)
    BY <2>3, PlacesAgree
  <2> QED
    BY <2>1, <2>2, <2>3, <2>4, <2>5
<1> QED
  BY <1>1, Invariant, PTL

(* For every packet: a header that the parser accepts lies in the packet,  *)
(* which is what the checks behind it rely on (IsPacket of RxPacket).      *)
Fits == pc \in {"present", "walk", "some"} =>
          pkt.len >= 8 /\ pkt.version = 0 /\ pkt.radiotap_len <= pkt.len

THEOREM AcceptedFits == Spec => []Fits
<1>1. Init => Fits
  BY DEF Init, Fits
<1>2. Fits /\ [Next]_vars => Fits'
  BY DEF Fits, vars, Next, Refuse, Checked, WordOutside, ReadWord, Skip, StopAtAntennas,
     StopAtUnknown, FieldOutside, ReadField, WalkEnds, AtPresent, AtBit, Reached
<1> QED
  BY <1>1, <1>2, PTL DEF Spec
-----------------------------------------------------------------------------
(* What the walk makes of the header that our own sender writes.           *)

LEMMA TemplateWord ==
  ASSUME IInv, IsTemplate(pkt)
  PROVE  /\ pkt.len \in Nat /\ pkt.len >= 13
         /\ present_words # << >> =>
              /\ Len(present_words) = 1
              /\ \A n \in 0 .. 32 : DataByTable(present_words, n) = (0 .. n - 1) \cap {15, 19}
<1>1. TemplateReads[2].at = 10 /\ TemplateReads[2].index = 19
  BY DEF TemplateReads, RTAP_MCS
<1>2. End(TemplateReads[2]) = 13
  <2>1. Field(19) = 19
    BY DEF Field
  <2>2. StdSize(19) = 3
    BY DEF StdSize, STANDARD
  <2> QED
    BY <1>1, <2>1, <2>2 DEF End
<1>3. pkt.len \in Nat /\ pkt.len >= 13 /\ pkt.words = <<{15, 19}>>
  BY <1>2 DEF IInv, TypeOK, AnyPacket, IsTemplate, RTAP_TX_FLAGS, RTAP_MCS
<1>4. ASSUME present_words # << >>
      PROVE  /\ Len(present_words) = 1 /\ present_words[1] = {15, 19}
  <2>1. Len(present_words) \in Nat /\ Len(present_words) # 0 /\ Len(present_words) <= 1
    BY <1>3, <1>4 DEF IInv, TypeOK, WordsKept
  <2>2. present_words[1] = pkt.words[1] \ {EXT}
    BY <2>1 DEF IInv, WordsKept
  <2>3. pkt.words[1] = {15, 19}
    BY <1>3
  <2>4. present_words[1] = {15, 19}
    BY <2>2, <2>3 DEF EXT
  <2>5. \A n \in Nat : n # 0 /\ n <= 1 => n = 1
    OBVIOUS
  <2> QED
    BY <2>1, <2>4, <2>5, Zenon
<1>5. ASSUME NEW n \in 0 .. 32, present_words[1] = {15, 19}
      PROVE  DataByTable(present_words, n) = (0 .. n - 1) \cap {15, 19}
  <2>1. \A i \in 0 .. n - 1 : Field(i) = i /\ i \div 32 = 0
    BY DEF Field
  <2>2. \A i \in 0 .. n - 1 : Present(present_words, i) <=> i \in {15, 19}
    BY <1>5, <2>1 DEF Present
  <2> QED
    BY <2>1, <2>2 DEF DataByTable, Namespaces, RADIOTAP_NAMESPACE, VENDOR_NAMESPACE
<1> QED
  BY <1>3, <1>4, <1>5

(* Reads in order are as many as their indexes. *)
LEMMA ReadsByIndex ==
  ASSUME TypeOK, InOrder
  PROVE  /\ Indexes = {} => reads = << >>
         /\ Indexes = {15} => Len(reads) = 1 /\ reads[1].index = 15
         /\ Indexes = {15, 19} => Len(reads) = 2 /\ reads[1].index = 15 /\ reads[2].index = 19
<1> DEFINE n == Len(reads)
           idx(k) == reads[k].index
<1>1. n \in Nat /\ \A k \in 1 .. n : idx(k) \in Nat
  BY ReadTypes
<1>2. n = 0 => reads = << >>
  BY DEF TypeOK
<1>3. \A j, k \in 1 .. n : j < k => idx(j) < idx(k)
  BY DEF InOrder
<1>4. Indexes = {idx(k) : k \in 1 .. n}
  BY DEF Indexes
<1> HIDE DEF n, idx
<1>5. ASSUME Indexes = {} PROVE n = 0
  BY <1>1, <1>4, <1>5
<1>6. ASSUME Indexes = {15} PROVE n = 1 /\ idx(1) = 15
  <2>1. \A k \in 1 .. n : idx(k) = 15
    BY <1>4, <1>6
  <2>2. n # 0
    BY <1>4, <1>6
  <2>3. ~ (n >= 2)
    <3>1. ASSUME n >= 2 PROVE FALSE
      <4>1. 1 \in 1 .. n /\ 2 \in 1 .. n
        BY <1>1, <3>1
      <4> QED
        BY <1>3, <2>1, <4>1
    <3> QED
      BY <3>1
  <2> QED
    BY <1>1, <2>1, <2>2, <2>3
<1>7. ASSUME Indexes = {15, 19} PROVE n = 2 /\ idx(1) = 15 /\ idx(2) = 19
  <2>1. \A k \in 1 .. n : idx(k) \in {15, 19}
    BY <1>4, <1>7
  <2>2. ~ (n >= 3)
    <3>1. ASSUME n >= 3 PROVE FALSE
      <4>1. 1 \in 1 .. n /\ 2 \in 1 .. n /\ 3 \in 1 .. n
        BY <1>1, <3>1
      <4>2. idx(1) < idx(2) /\ idx(2) < idx(3)
        BY <1>3, <4>1
      <4> QED
        BY <2>1, <4>1, <4>2
    <3> QED
      BY <3>1
  <2>3. PICK j \in 1 .. n, k \in 1 .. n : idx(j) = 15 /\ idx(k) = 19
    <3>1. 15 \in Indexes /\ 19 \in Indexes
      BY <1>7
    <3> QED
      BY <1>4, <3>1
  <2>4. j < k
    <3>1. ~ (k < j)
      BY <1>3, <2>3
    <3>2. j # k
      BY <2>3
    <3> QED
      BY <1>1, <3>1, <3>2
  <2> QED
    BY <1>1, <2>2, <2>3, <2>4
<1> QED
  BY <1>2, <1>5, <1>6, <1>7 DEF n, idx

(* The two fields can lie in one place only. *)
LEMMA TemplatePlaces ==
  ASSUME NEW at \in Nat
  PROVE  /\ PlacedByTable([index |-> 15, at |-> at], 8) => at = 8
         /\ PlacedByTable([index |-> 19, at |-> at], 10) => at = 10
         /\ Size(Field(15)) = 2 /\ Size(Field(19)) = 3
BY DEF PlacedByTable, Align, Field, Size

(* A read seen as the place it was read at. *)
LEMMA ReadPlaced ==
  ASSUME TypeOK, ReadsByTable, NEW k \in 1 .. Len(reads)
  PROVE  /\ PlacedByTable([index |-> reads[k].index, at |-> reads[k].at],
                        IF k = 1 THEN ArgsOffset(present_words) ELSE TableEnd(reads[k - 1]))
         /\ reads[k].at \in Nat
         /\ TableEnd(reads[k]) = reads[k].at + Size(Field(reads[k].index))
BY ReadTypes DEF ReadsByTable, LaidByTable, PlacedByTable, TableEnd

LEMMA TemplateNotRefused ==
  ASSUME IInv, IsTemplate(pkt)
  PROVE  pc # "none"
<1> SUFFICES ASSUME pc = "none" PROVE FALSE
  OBVIOUS
<1>1. pkt.len \in Nat /\ pkt.len >= 13 /\ pkt.version = 0 /\ pkt.radiotap_len <= pkt.len
  BY TemplateWord DEF IsTemplate
<1>2. CASE /\ \A i \in 1 .. Len(present_words) : EXT \in pkt.words[i]
           /\ 4 + 4 * (Len(present_words) + 1) > pkt.len
  <2>1. present_words # << >> => Len(present_words) = 1
    BY TemplateWord
  <2>2. pkt.words[1] = {15, 19}
    BY DEF IsTemplate, RTAP_TX_FLAGS, RTAP_MCS
  <2>3. present_words = << >> => Len(present_words) = 0
    OBVIOUS
  <2> QED
    BY <1>1, <1>2, <2>1, <2>2, <2>3 DEF EXT
<1>3. CASE /\ Indexes = DataByTable(present_words, field_index)
           /\ field_index < 32 * Len(present_words)
           /\ field_index \in DataByTable(present_words, field_index + 1)
           /\ Field(field_index) \in KnownFields
           /\ \E at \in TableWalkedTo .. TableWalkedTo + 7 :
                /\ PlacedByTable([index |-> field_index, at |-> at], TableWalkedTo)
                /\ at + Size(Field(field_index)) > pkt.len
  <2>1. /\ field_index \in Nat /\ InOrder /\ TypeOK /\ ReadsByTable
        /\ Len(present_words) \in Nat
    BY DEF IInv, TypeOK
  <2>2. present_words # << >>
    BY <1>3, <2>1
  <2>3. Len(present_words) = 1 /\ field_index \in 0 .. 31
    <3>1. Len(present_words) = 1
      BY <2>2, TemplateWord
    <3> QED
      BY <1>3, <2>1, <3>1
  <2>4. field_index \in {15, 19} /\ Indexes = (0 .. field_index - 1) \cap {15, 19}
    <3>1. field_index \in 0 .. 32 /\ field_index + 1 \in 0 .. 32
      BY <2>3
    <3>2. \A n \in 0 .. 32 : DataByTable(present_words, n) = (0 .. n - 1) \cap {15, 19}
      BY <2>2, TemplateWord
    <3> QED
      BY <1>3, <3>1, <3>2
  <2>5. ArgsOffset(present_words) = 8
    BY <2>3 DEF ArgsOffset
  <2>6. CASE field_index = 15
    <3>1. Indexes = {}
      BY <2>4, <2>6
    <3>2. TableWalkedTo = 8
      BY <2>1, <2>5, <3>1, ReadsByIndex DEF TableWalkedTo
    <3>3. PICK at \in 8 .. 15 : /\ PlacedByTable([index |-> 15, at |-> at], 8)
                               /\ at + Size(Field(15)) > pkt.len
      BY <1>3, <2>6, <3>2
    <3>4. at \in Nat
      OBVIOUS
    <3>5. at = 8 /\ Size(Field(15)) = 2
      BY <3>3, <3>4, TemplatePlaces
    <3> QED
      BY <1>1, <3>3, <3>5
  <2>7. CASE field_index = 19
    <3>1. Indexes = {15}
      BY <2>4, <2>7
    <3>2. Len(reads) = 1 /\ reads[1].index = 15
      BY <2>1, <3>1, ReadsByIndex
    <3>3. reads[1].at = 8 /\ TableEnd(reads[1]) = 10
      <4>1. PlacedByTable([index |-> 15, at |-> reads[1].at], 8)
        <5>1. 1 \in 1 .. Len(reads)
          BY <3>2
        <5>2. PlacedByTable([index |-> reads[1].index, at |-> reads[1].at], ArgsOffset(present_words))
          BY <2>1, <5>1, ReadPlaced
        <5> QED
          BY <2>5, <3>2, <5>2
      <4>2. reads[1].at \in Nat /\ TableEnd(reads[1]) = reads[1].at + Size(Field(15))
        BY <2>1, <3>2, ReadPlaced
      <4>3. reads[1].at = 8
        BY <4>1, <4>2, TemplatePlaces
      <4>4. Size(Field(15)) = 2
        BY <4>2, TemplatePlaces
      <4> QED
        BY <4>2, <4>3, <4>4
    <3>4. TableWalkedTo = 10
      BY <3>2, <3>3 DEF TableWalkedTo
    <3>5. PICK at \in 10 .. 17 : /\ PlacedByTable([index |-> 19, at |-> at], 10)
                                /\ at + Size(Field(19)) > pkt.len
      BY <1>3, <2>7, <3>4
    <3>6. at \in Nat
      OBVIOUS
    <3>7. at = 10 /\ Size(Field(19)) = 3
      BY <3>5, <3>6, TemplatePlaces
    <3> QED
      BY <1>1, <3>5, <3>7
  <2> QED
    BY <2>4, <2>6, <2>7
<1>4. RefusedByTable
  BY DEF IInv
<1>5. ~ (pkt.len < 8 \/ pkt.version # 0 \/ pkt.radiotap_len > pkt.len)
  BY <1>1 DEF IInv, TypeOK, AnyPacket
<1> QED
  BY <1>2, <1>3, <1>4, <1>5, Zenon DEF RefusedByTable, Indexes

(* When it answers, the walk has read both fields, each in its place.      *)
LEMMA TemplateFields ==
  ASSUME IInv, IsTemplate(pkt), pc = "some"
  PROVE  /\ Len(reads) = 2 /\ Indexes = {15, 19} /\ ant_idx = 0
         /\ reads[1].index = 15 /\ reads[2].index = 19
         /\ reads[1].at = 8 /\ reads[2].at = 10
<1>1. /\ TypeOK /\ InOrder /\ ReadsByTable /\ Counted /\ FirstAntenna
      /\ field_index \in Nat /\ Len(present_words) \in Nat
      /\ Len(present_words) > 0 /\ field_index <= 32 * Len(present_words)
      /\ Indexes = DataByTable(present_words, field_index)
  BY DEF IInv, TypeOK, Stages, Covered
<1>2. present_words # << >>
  BY <1>1
<1>3. /\ Len(present_words) = 1
      /\ \A n \in 0 .. 32 : DataByTable(present_words, n) = (0 .. n - 1) \cap {15, 19}
  BY <1>2, TemplateWord
<1>4. field_index \in 0 .. 32
  BY <1>1, <1>3
<1>5. ant_idx # MAX_ANT
  BY <1>1, <1>4 DEF FirstAntenna, MAX_ANT
<1>6. ASSUME Present(present_words, field_index), field_index \in 0 .. 31
      PROVE  Field(field_index) \in KnownFields \cup Namespaces
  <2>1. field_index + 1 \in 0 .. 32 /\ field_index \in 0 .. (field_index + 1) - 1
    BY <1>6
  <2>2. DataByTable(present_words, field_index + 1) = (0 .. (field_index + 1) - 1) \cap {15, 19}
    BY <1>3, <2>1
  <2>3. Field(field_index) \notin Namespaces => field_index \in {15, 19}
    <3>1. Field(field_index) \notin Namespaces => field_index \in DataByTable(present_words, field_index + 1)
      BY <1>6, <2>1 DEF DataByTable
    <3> QED
      BY <2>2, <3>1
  <2>4. field_index \in {15, 19} => Field(field_index) \in KnownFields
    BY DEF Field, KnownFields
  <2> QED
    BY <2>3, <2>4
<1>7. field_index = 32
  <2>1. \/ field_index = 32 * Len(present_words)
        \/ Present(present_words, field_index) /\ Field(field_index) \notin KnownFields \cup Namespaces
    BY <1>5 DEF IInv, Stopped
  <2>2. 32 * Len(present_words) = 32
    BY <1>3
  <2>3. field_index = 32 \/ field_index \in 0 .. 31
    BY <1>4
  <2> QED
    BY <1>6, <2>1, <2>2, <2>3
<1>8. Indexes = {15, 19}
  <2>1. DataByTable(present_words, 32) = (0 .. 31) \cap {15, 19}
    BY <1>3
  <2> QED
    BY <1>1, <1>7, <2>1
<1>9. Len(reads) = 2 /\ reads[1].index = 15 /\ reads[2].index = 19
  BY <1>1, <1>8, ReadsByIndex
<1>10. 1 \in 1 .. Len(reads) /\ 2 \in 1 .. Len(reads)
  BY <1>9
<1>11. ArgsOffset(present_words) = 8
  BY <1>3 DEF ArgsOffset
<1>12. reads[1].at = 8 /\ TableEnd(reads[1]) = 10
  <2>1. PlacedByTable([index |-> reads[1].index, at |-> reads[1].at], ArgsOffset(present_words))
    BY <1>1, <1>10, ReadPlaced
  <2>2. PlacedByTable([index |-> 15, at |-> reads[1].at], 8)
    BY <1>9, <1>11, <2>1
  <2>3. reads[1].at \in Nat /\ TableEnd(reads[1]) = reads[1].at + Size(Field(15))
    BY <1>1, <1>9, <1>10, ReadPlaced
  <2>4. reads[1].at = 8
    BY <2>2, <2>3, TemplatePlaces
  <2>5. Size(Field(15)) = 2
    BY <2>3, TemplatePlaces
  <2> QED
    BY <2>3, <2>4, <2>5
<1>13. reads[2].at = 10
  <2>1. PlacedByTable([index |-> reads[2].index, at |-> reads[2].at], TableEnd(reads[2 - 1]))
    BY <1>1, <1>10, ReadPlaced
  <2>2. PlacedByTable([index |-> 19, at |-> reads[2].at], 10)
    BY <1>9, <1>12, <2>1
  <2>3. reads[2].at \in Nat
    BY <1>1, <1>10, ReadPlaced
  <2> QED
    BY <2>2, <2>3, TemplatePlaces
<1>14. ant_idx = 0
  <2>1. \A k \in 1 .. 2 : Field(reads[k].index) # RTAP_ANTENNA
    BY <1>9 DEF Field, RTAP_ANTENNA
  <2>2. AntennaReads = {}
    BY <1>9, <2>1 DEF AntennaReads
  <2> QED
    BY <1>1, <2>2, FS_EmptySet DEF Counted
<1> QED
  BY <1>8, <1>9, <1>12, <1>13, <1>14

(* For every packet that begins like those of our own sender: the parser   *)
(* answers, and with what the sender has written (build_radiotap_ht of     *)
(* src/src/tx.rs): injected, the rate of the MCS field at offset 10.       *)
THEOREM TemplateUnderstood == Spec => []TemplateIsRead
<1>1. ASSUME IInv, IsTemplate(pkt), pc = "some"
      PROVE  /\ [k \in 1 .. Len(reads) |-> [index |-> reads[k].index, at |-> reads[k].at]]
                  = TemplateReads
             /\ meta.self_injected /\ meta.rt_flags = Unset /\ ant_idx = 0
             /\ meta.mcs_index = IF "HAVE_MCS" \in reads[2].mcs THEN TemplateReads[2].at + 2
                                 ELSE Unset
             /\ meta.bandwidth = IF {"HAVE_BW", "BW_40"} \subseteq reads[2].mcs THEN 40 ELSE 20
  <2>1. /\ Len(reads) = 2 /\ Indexes = {15, 19} /\ ant_idx = 0
        /\ reads[1].index = 15 /\ reads[2].index = 19
        /\ reads[1].at = 8 /\ reads[2].at = 10
    BY <1>1, TemplateFields
  <2>2. [k \in 1 .. Len(reads) |-> [index |-> reads[k].index, at |-> reads[k].at]] = TemplateReads
    BY <2>1 DEF TemplateReads, RTAP_TX_FLAGS, RTAP_MCS
  <2>3. Field(15) = 15 /\ Field(19) = 19
    BY DEF Field
  <2>4. meta.self_injected /\ meta.rt_flags = Unset
    <3>1. (\E i \in Indexes : Field(i) = RTAP_TX_FLAGS) /\ ~ (\E i \in Indexes : Field(i) = RTAP_FLAGS)
      BY <2>1, <2>3 DEF RTAP_TX_FLAGS, RTAP_FLAGS
    <3> QED
      BY <1>1, <3>1 DEF IInv, FlagsKept
  <2>5. TemplateReads[2].at = 10
    BY DEF TemplateReads
  <2>6. ASSUME NEW flags
        PROVE  McsReads(flags) = IF flags \subseteq reads[2].mcs THEN {2} ELSE {}
    <3>1. McsReads(flags) = {k \in {1, 2} : Field(reads[k].index) = RTAP_MCS /\ flags \subseteq reads[k].mcs}
      <4>1. 1 .. 2 = {1, 2}
        OBVIOUS
      <4> QED
        BY <2>1, <4>1 DEF McsReads
    <3>2. Field(reads[1].index) # RTAP_MCS /\ Field(reads[2].index) = RTAP_MCS
      BY <2>1, <2>3 DEF RTAP_MCS
    <3> QED
      BY <3>1, <3>2
  <2>7. /\ IF McsReads({"HAVE_MCS"}) = {} THEN meta.mcs_index = Unset
           ELSE \E k \in McsReads({"HAVE_MCS"}) : meta.mcs_index = reads[k].at + 2
        /\ meta.bandwidth = IF McsReads({"HAVE_BW", "BW_40"}) = {} THEN 20 ELSE 40
    BY <1>1 DEF IInv, RateKept
  <2>8. meta.mcs_index = IF "HAVE_MCS" \in reads[2].mcs THEN 10 + 2 ELSE Unset
    <3>1. McsReads({"HAVE_MCS"}) = IF "HAVE_MCS" \in reads[2].mcs THEN {2} ELSE {}
      BY <2>6
    <3> QED
      BY <2>1, <2>7, <3>1
  <2>9. meta.bandwidth = IF {"HAVE_BW", "BW_40"} \subseteq reads[2].mcs THEN 40 ELSE 20
    BY <2>6, <2>7
  <2> QED
    BY <2>1, <2>2, <2>4, <2>5, <2>8, <2>9
<1>2. IInv => TemplateIsRead
  BY <1>1, TemplateNotRefused DEF TemplateIsRead
<1> QED
  BY <1>2, Invariant, PTL
-----------------------------------------------------------------------------
(* Each kind of step lowers what is left. *)
LEMMA Advances ==
  ASSUME IInv, Next
  PROVE  StepsLeft' \in Nat /\ StepsLeft' < StepsLeft
<1>1. /\ TypeOK /\ Stages /\ WordsKept
      /\ pkt.len \in Nat /\ p_off \in Nat /\ field_index \in Nat
      /\ Len(present_words) \in Nat
      /\ pc \in {"present", "walk"} => p_off = 4 + 4 * Len(present_words)
      /\ pc = "walk" => field_index <= 32 * Len(present_words)
      /\ pc = "present" => p_off <= pkt.len
  <2>1. TypeOK /\ Stages /\ WordsKept
    BY DEF IInv
  <2>2. /\ pkt.len \in Nat /\ p_off \in Nat /\ field_index \in Nat
        /\ Len(present_words) \in Nat
    BY <2>1 DEF TypeOK, AnyPacket
  <2>3. /\ pc \in {"present", "walk"} => p_off = 4 + 4 * Len(present_words)
        /\ pc = "walk" => field_index <= 32 * Len(present_words)
    BY <2>1 DEF Stages
  <2>4. pc = "present" => p_off <= pkt.len
    BY <2>1 DEF WordsKept
  <2> QED
    BY <2>1, <2>2, <2>3, <2>4
<1>2. pc \in {"check", "present", "walk"} => StepsLeft \in Nat /\ StepsLeft > 0
  <2>1. CASE pc = "check"
    <3>1. StepsLeft = 9 * pkt.len + 3
      BY <2>1 DEF StepsLeft
    <3> QED
      BY <1>1, <3>1
  <2>2. CASE pc = "present"
    <3>1. StepsLeft = 9 * (pkt.len + 4 - p_off) + 32 * Len(present_words) + 2
      BY <2>2 DEF StepsLeft
    <3> QED
      BY <1>1, <2>2, <3>1
  <2>3. CASE pc = "walk"
    <3>1. StepsLeft = 32 * Len(present_words) - field_index + 1
      BY <2>3 DEF StepsLeft
    <3> QED
      BY <1>1, <2>3, <3>1
  <2> QED
    BY <2>1, <2>2, <2>3
<1>3. CASE Refuse \/ WordOutside \/ StopAtAntennas \/ StopAtUnknown \/ FieldOutside \/ WalkEnds
  <2>1. pc \in {"check", "present", "walk"} /\ pc' \in {"none", "some"}
    BY <1>3 DEF Refuse, WordOutside, StopAtAntennas, StopAtUnknown, FieldOutside, WalkEnds,
       AtPresent, AtBit, Reached
  <2>2. StepsLeft' = 0
    BY <2>1 DEF StepsLeft
  <2> QED
    BY <1>2, <2>1, <2>2
<1>4. CASE Checked
  <2>1. pc = "check" /\ pc' = "present" /\ p_off' = p_off /\ pkt' = pkt
        /\ present_words' = << >> /\ present_words = << >>
    BY <1>1, <1>4 DEF Checked, Reached, WordsKept
  <2>2. p_off = 4
    <3>1. Len(present_words) = 0
      BY <2>1
    <3> QED
      BY <1>1, <3>1 DEF Stages
  <2>3. StepsLeft = 9 * pkt.len + 3 /\ StepsLeft' = 9 * (pkt.len + 4 - 4) + 32 * 0 + 2
    BY <2>1, <2>2 DEF StepsLeft
  <2> QED
    BY <1>1, <2>3
<1>5. CASE ReadWord
  <2> DEFINE n == Len(present_words)
  <2>1. PICK w \in SUBSET Bits :
          /\ pc = "present" /\ p_off + 4 <= pkt.len
          /\ present_words' = Append(present_words, w \ {EXT})
          /\ p_off' = p_off + 4
          /\ pc' = IF EXT \in w THEN "present" ELSE "walk"
          /\ UNCHANGED <<pkt, field_index>>
    BY <1>1, <1>5, WordFacts
  <2>2. Len(present_words') = n + 1 /\ n \in Nat
    BY <1>1, <2>1 DEF TypeOK
  <2>3. field_index' = 0
    BY <1>1, <1>5, WordReadsNothing
  <2> HIDE DEF n
  <2>4. StepsLeft = 9 * (pkt.len + 4 - p_off) + 32 * n + 2
    BY <2>1 DEF StepsLeft, n
  <2>5. p_off \in Nat /\ pkt.len \in Nat /\ p_off + 4 <= pkt.len /\ n \in Nat
    BY <1>1, <2>1, <2>2
  <2>6. CASE pc' = "present"
    <3>1. StepsLeft' = 9 * (pkt.len + 4 - (p_off + 4)) + 32 * (n + 1) + 2
      <4>1. StepsLeft' = 9 * (pkt'.len + 4 - p_off') + 32 * Len(present_words') + 2
        BY <2>6 DEF StepsLeft
      <4> QED
        BY <2>1, <2>2, <4>1
    <3> QED
      BY <2>4, <2>5, <3>1
  <2>7. CASE pc' = "walk"
    <3>1. StepsLeft' = 32 * (n + 1) - 0 + 1
      <4>1. StepsLeft' = 32 * Len(present_words') - field_index' + 1
        BY <2>7 DEF StepsLeft
      <4> QED
        BY <2>2, <2>3, <4>1
    <3> QED
      BY <2>4, <2>5, <3>1
  <2> QED
    BY <2>1, <2>6, <2>7
<1>6. CASE Skip \/ ReadField
  <2>1. /\ pc = "walk" /\ pc' = "walk" /\ field_index < 32 * Len(present_words)
        /\ field_index' = field_index + 1 /\ present_words' = present_words
    BY <1>6 DEF Skip, ReadField, AtPresent, AtBit
  <2> DEFINE n == Len(present_words)
  <2>2. StepsLeft = 32 * n - field_index + 1 /\ StepsLeft' = 32 * n - (field_index + 1) + 1
    BY <2>1 DEF StepsLeft
  <2>3. n \in Nat /\ field_index < 32 * n
    BY <1>1, <2>1
  <2> HIDE DEF n
  <2> QED
    BY <1>1, <2>2, <2>3
<1> QED
  BY <1>3, <1>4, <1>5, <1>6 DEF Next

(* For every packet: both loops of the parser end, and the bound on their  *)
(* steps is linear in the length of the packet.                            *)
THEOREM ParserEnds == Spec => ParserAdvances
<1>1. IInv /\ [Next]_vars => [StepsLeft' \in Nat /\ StepsLeft' < StepsLeft]_vars
  BY Advances
<1> QED
  BY <1>1, Invariant, PTL DEF Spec, ParserAdvances
=============================================================================
