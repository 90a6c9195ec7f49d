---------------------------- MODULE WfbRx_proofs ----------------------------
(***************************************************************************)
(* Theorems about the receiver, for every value of the constants: the      *)
(* inductive invariant IInv of module WfbRx, the safety properties it      *)
(* implies, and the refinement of FrameQueue.                              *)
(*                                                                         *)
(* The lemmas go from the arithmetic of the ring, through what accepted    *)
(* packets look like, to what pop_one and enqueue_decoded do to the        *)
(* sequence of frames the ring stands for; every step of the program then  *)
(* reduces to an append, a tail, or no change of that sequence.            *)
(***************************************************************************)
EXTENDS WfbRx, SequenceTheorems, TLAPS

(* An index at most one lap ahead of the head wraps by one subtraction. *)
LEMMA Wrap ==
  ASSUME NEW size \in Nat \ {0}, NEW head \in 0 .. size - 1, NEW k \in 0 .. size
  PROVE  /\ ((head + k) % size) = IF head + k < size THEN head + k ELSE head + k - size
         /\ ((head + k) % size) \in 0 .. size - 1
  OBVIOUS

(* Moving the head by one is moving every count from it by one. *)
LEMMA WrapStep ==
  ASSUME NEW size \in Nat \ {0}, NEW head \in 0 .. size - 1, NEW k \in 1 .. size
  PROVE  ((((head + 1) % size) + k - 1) % size) = ((head + k) % size)
  OBVIOUS

(* Slots of m bytes do not overlap. *)
LEMMA SlotsApart ==
  ASSUME NEW m \in Nat, NEW i \in Nat, NEW j \in Nat, i < j
  PROVE  i * m + m <= j * m
  OBVIOUS

(* Whole milliseconds cut off less than one of them. *)
LEMMA WholeMs ==
  ASSUME NEW x \in Nat, NEW t \in Nat \ {0}
  PROVE  /\ (x \div t) \in Nat
         /\ (x \div t) * t <= x
         /\ x < (x \div t) * t + t
  OBVIOUS

(* A product grows with its factor: the i32 limit on the wait. *)
LEMMA TimesMonotonic ==
  ASSUME NEW a \in Nat, NEW b \in Nat, NEW t \in Nat, a <= b
  PROVE  a * t <= b * t
  OBVIOUS

(* The longest payload is at least one byte long. *)
LEMMA MaxPayloadType == compute_max_payload \in Nat \ {0}
  BY MtuAssumption DEF compute_max_payload, IEE80211_HEADER_LEN, WFB_PLAINTEXT_HDR_LEN
-----------------------------------------------------------------------------
(* parse_and_enqueue_one_packet never slices past the packet: for every    *)
(* packet it accepts, headers and payload lie before the checksum and      *)
(* inside what was captured, and the payload fits a slot of the ring.      *)
THEOREM AcceptInBounds ==
  ASSUME NEW p, IsPacket(p), NEW ignore \in BOOLEAN, Accepts(p, ignore)
  PROVE  /\ PayloadStart(p) + p.hdr.payload_len <= EffectiveLen(p)
         /\ EffectiveLen(p) <= p.len
         /\ p.hdr.payload_len <= Len(p.data)
         /\ p.hdr.payload_len \in 0 .. compute_max_payload
  <1>1. /\ p.len \in Nat /\ p.rt \in RadiotapMeta /\ p.hdr \in Header
        /\ Len(p.data) = IF p.len > PayloadStart(p) THEN p.len - PayloadStart(p) ELSE 0
    BY DEF IsPacket
  <1>2. p.rt.radiotap_len \in Nat /\ p.hdr.payload_len \in Nat
    BY <1>1 DEF RadiotapMeta, Header
  <1>3. EffectiveLen(p) \in Nat /\ EffectiveLen(p) <= p.len
    BY <1>1 DEF EffectiveLen
  <1>4. PayloadStart(p) \in Nat /\ PayloadStart(p) <= EffectiveLen(p)
    <2>1. EffectiveLen(p) - p.rt.radiotap_len - 24 >= 8
      BY DEF Accepts, HasHeaders, IEE80211_HEADER_LEN, WFB_PLAINTEXT_HDR_LEN
    <2>2. PayloadStart(p) = p.rt.radiotap_len + 24 + 8
      BY DEF PayloadStart, IEE80211_HEADER_LEN, WFB_PLAINTEXT_HDR_LEN
    <2>3. ASSUME NEW r \in Nat, NEW e \in Nat, e - r - 24 >= 8
          PROVE  r + 24 + 8 \in Nat /\ r + 24 + 8 <= e
      BY <2>3
    <2>4. p.rt.radiotap_len + 24 + 8 \in Nat /\ p.rt.radiotap_len + 24 + 8 <= EffectiveLen(p)
      BY <1>2, <1>3, <2>1, <2>3
    <2> QED BY <2>2, <2>4, Zenon
  <1>5. /\ p.hdr.payload_len <= EffectiveLen(p) - PayloadStart(p)
        /\ p.hdr.payload_len <= compute_max_payload
    BY DEF Accepts
  <1> QED BY <1>1, <1>2, <1>3, <1>4, <1>5, MaxPayloadType

(* The frames that reach the ring: at most compute_max_payload() bytes,    *)
(* numbered by their arrival, never marked as truncated.                   *)
Metas == [seq : Nat, flags : Nat, info : Infos \cup {NoInfo}, truncated : {FALSE}]

(* The frame of an accepted packet is a frame of the ring. *)
LEMMA FrameOfType ==
  ASSUME NEW p, IsPacket(p), NEW ignore \in BOOLEAN, Accepts(p, ignore)
  PROVE  /\ FrameOf(p).payload \in Seq(Byte)
         /\ Len(FrameOf(p).payload) = p.hdr.payload_len
         /\ Len(FrameOf(p).payload) \in 0 .. compute_max_payload
         /\ FrameOf(p).meta \in Metas
         /\ FrameOf(p).meta.seq = p.hdr.seq
  <1>1. p.hdr.payload_len <= Len(p.data) /\ p.hdr.payload_len \in 0 .. compute_max_payload
    BY AcceptInBounds
  <1>2. p.data \in Seq(Byte) /\ p.rt \in RadiotapMeta /\ p.hdr \in Header
    BY DEF IsPacket
  <1>3. \A i \in 1 .. p.hdr.payload_len : p.data[i] \in Byte
    BY <1>1, <1>2, ElementOfSeq, LenProperties, MaxPayloadType
  <1>4. /\ SubSeq(p.data, 1, p.hdr.payload_len) \in Seq(Byte)
        /\ Len(SubSeq(p.data, 1, p.hdr.payload_len)) = p.hdr.payload_len
    <2>1. p.hdr.payload_len \in Int /\ p.hdr.payload_len >= 0
      BY <1>1, MaxPayloadType
    <2> QED BY <1>3, <2>1, SubSeqProperties
  <1>5. MetaOf(p) \in Metas /\ MetaOf(p).seq = p.hdr.seq
    BY <1>2 DEF MetaOf, Metas, RadiotapMeta, Header
  <1> QED BY <1>1, <1>4, <1>5 DEF FrameOf

(* Numbering a packet changes nothing the parser looks at. *)
LEMMA StampedPacket ==
  ASSUME NEW p \in Air, NEW n \in Nat
  PROVE  /\ IsPacket(Stamped(p, n))
         /\ Stamped(p, n).hdr.seq = n
  <1>1. IsPacket(p)
    BY AirAssumption
  <1>2. /\ p \in [rt : RadiotapMeta, len : Nat, stream : Streams, hdr : Header, data : Seq(Byte)]
        /\ p.hdr \in Header
    BY <1>1 DEF IsPacket
  <1>3. [p.hdr EXCEPT !.seq = n] \in Header /\ [p.hdr EXCEPT !.seq = n].seq = n
    BY <1>2 DEF Header
  <1>4. /\ Stamped(p, n).hdr = [p.hdr EXCEPT !.seq = n]
        /\ Stamped(p, n).rt = p.rt /\ Stamped(p, n).len = p.len
        /\ Stamped(p, n).data = p.data
        /\ Stamped(p, n) \in [rt : RadiotapMeta, len : Nat, stream : Streams, hdr : Header,
                              data : Seq(Byte)]
    BY <1>2, <1>3 DEF Stamped
  <1>5. PayloadStart(Stamped(p, n)) = PayloadStart(p)
    BY <1>4 DEF PayloadStart
  <1> QED BY <1>1, <1>3, <1>4, <1>5 DEF IsPacket

(* Every packet of the capture is one the parser is written for. *)
LEMMA AirPacketType ==
  ASSUME NEW p \in AirPackets
  PROVE  IsPacket(p) /\ p.hdr.seq \in 1 .. MaxArrivals
  <1>1. PICK c \in Air, n \in 1 .. MaxArrivals : p = Stamped(c, n)
    BY DEF AirPackets
  <1> QED BY <1>1, StampedPacket, BoundAssumption

(* The frames of the packets that may arrive have the types of the ring.   *)
LEMMA AirFrameType ==
  ASSUME NEW f \in AirFrames
  PROVE  /\ f = [payload |-> f.payload, meta |-> f.meta]
         /\ f.payload \in Seq(Byte)
         /\ Len(f.payload) \in 0 .. compute_max_payload
         /\ f.meta \in Metas
         /\ f.meta.seq \in 1 .. MaxArrivals
  <1>1. PICK p \in AirPackets, ignore \in BOOLEAN : Accepts(p, ignore) /\ f = FrameOf(p)
    BY DEF AirFrames
  <1>2. IsPacket(p) /\ p.hdr.seq \in 1 .. MaxArrivals
    BY AirPacketType
  <1>3. f = [payload |-> f.payload, meta |-> f.meta]
    BY <1>1 DEF FrameOf
  <1> QED BY <1>1, <1>2, <1>3, FrameOfType
-----------------------------------------------------------------------------
(* A function on 1 .. n is a sequence of length n. *)
LEMMA FunctionIsSeq ==
  ASSUME NEW S, NEW n \in Nat, NEW s \in [1 .. n -> S]
  PROVE  s \in Seq(S) /\ Len(s) = n
  BY SeqDef

(* Tail, element by element. *)
LEMMA TailAsFunction ==
  ASSUME NEW S, NEW s \in Seq(S), s # << >>
  PROVE  Tail(s) = [i \in 1 .. Len(s) - 1 |-> s[i + 1]]
  <1>1. /\ Tail(s) \in Seq(S) /\ Len(Tail(s)) = Len(s) - 1
        /\ \A i \in 1 .. Len(Tail(s)) : Tail(s)[i] = s[i + 1]
    BY HeadTailProperties
  <1>2. Tail(s) \in [1 .. Len(s) - 1 -> S]
    BY <1>1, LenProperties
  <1> QED BY <1>1, <1>2

(* Append, element by element. *)
LEMMA AppendAsFunction ==
  ASSUME NEW S, NEW s \in Seq(S), NEW e \in S
  PROVE  /\ Append(s, e) \in Seq(S)
         /\ Append(s, e) = [i \in 1 .. Len(s) + 1 |-> IF i = Len(s) + 1 THEN e ELSE s[i]]
  <1>1. /\ Append(s, e) \in Seq(S) /\ Len(Append(s, e)) = Len(s) + 1
        /\ \A i \in 1 .. Len(s) : Append(s, e)[i] = s[i]
        /\ Append(s, e)[Len(s) + 1] = e
    BY AppendProperties
  <1>2. Append(s, e) \in [1 .. Len(s) + 1 -> S] /\ Len(s) \in Nat
    BY <1>1, LenProperties
  <1>3. ASSUME NEW i \in 1 .. Len(s) + 1
        PROVE  Append(s, e)[i] = IF i = Len(s) + 1 THEN e ELSE s[i]
    <2>1. i # Len(s) + 1 => i \in 1 .. Len(s)
      BY <1>2
    <2> QED BY <1>1, <2>1
  <1> QED BY <1>1, <1>2, <1>3

(* A prefix, element by element. *)
LEMMA PrefixAsFunction ==
  ASSUME NEW S, NEW s \in Seq(S), NEW k \in 0 .. Len(s)
  PROVE  SubSeq(s, 1, k) = [i \in 1 .. k |-> s[i]]
  <1>1. Len(s) \in Nat /\ \A i \in 1 .. Len(s) : s[i] \in S
    BY LenProperties, ElementOfSeq
  <1>2. k \in Nat /\ \A i \in 1 .. k : s[i] \in S
    BY <1>1
  <1>3. /\ SubSeq(s, 1, k) \in Seq(S)
        /\ Len(SubSeq(s, 1, k)) = IF 1 <= k THEN k - 1 + 1 ELSE 0
        /\ \A i \in 1 .. k - 1 + 1 : SubSeq(s, 1, k)[i] = s[1 + i - 1]
    BY <1>2, SubSeqProperties
  <1>4. Len(SubSeq(s, 1, k)) = k /\ \A i \in 1 .. k : SubSeq(s, 1, k)[i] = s[i]
    <2>1. \A i \in 1 .. k : i \in 1 .. k - 1 + 1 /\ 1 + i - 1 = i
      BY <1>2
    <2> QED BY <1>2, <1>3, <2>1
  <1>5. SubSeq(s, 1, k) \in [1 .. k -> S]
    BY <1>3, <1>4, LenProperties
  <1> QED BY <1>4, <1>5

(* Two intervals from 1 with the same elements end at the same number. *)
LEMMA SameInterval ==
  ASSUME NEW m \in Nat, NEW n \in Nat, (1 .. m) = (1 .. n)
  PROVE  m = n
  <1>1. CASE m < n
    <2>1. n \in 1 .. n /\ n \notin 1 .. m
      BY <1>1
    <2> QED BY <2>1
  <1>2. CASE n < m
    <2>1. m \in 1 .. m /\ m \notin 1 .. n
      BY <1>2
    <2> QED BY <2>1
  <1> QED BY <1>1, <1>2

(* Contents is a sequence with one element for each frame counted. *)
LEMMA ContentsLength ==
  ASSUME ring_count \in Nat, Contents \in Seq(AirFrames)
  PROVE  /\ Len(Contents) = ring_count
         /\ DOMAIN Contents = 1 .. ring_count
         /\ \A i \in 1 .. ring_count : Contents[i] \in AirFrames
  <1>1. DOMAIN Contents = 1 .. ring_count
    BY DEF Contents
  <1>2. Len(Contents) \in Nat /\ DOMAIN Contents = 1 .. Len(Contents)
    BY LenProperties
  <1>3. Len(Contents) = ring_count
    BY <1>1, <1>2, SameInterval
  <1> QED BY <1>1, <1>3, ElementOfSeq

(* Slots are indices of the ring, and the live ones are all different from *)
(* the tail as long as the ring is not full.                               *)
LEMMA SlotType ==
  ASSUME RingTypeOK, ring_size > 0, NEW i \in 1 .. ring_size
  PROVE  /\ Slot(i) \in 0 .. ring_size - 1
         /\ Slot(i) = IF ring_head + i - 1 < ring_size THEN ring_head + i - 1
                      ELSE ring_head + i - 1 - ring_size
  <1>1. ring_size \in Nat \ {0} /\ ring_head \in 0 .. ring_size - 1
    BY DEF RingTypeOK, MinRing, MaxRing
  <1>2. Slot(i) = IF ring_head + i - 1 < ring_size THEN ring_head + i - 1
                  ELSE ring_head + i - 1 - ring_size
    BY <1>1 DEF Slot
  <1> QED BY <1>1, <1>2

(* While the ring is not full, the tail is a slot of no waiting frame. *)
LEMMA TailIsFree ==
  ASSUME RingTypeOK, RingShape, ring_size > 0, ~ RingFull
  PROVE  /\ ring_tail = Slot(ring_count + 1)
         /\ \A i \in 1 .. ring_count : Slot(i) # ring_tail
  <1>1. /\ ring_size \in Nat \ {0} /\ ring_head \in 0 .. ring_size - 1
        /\ ring_count \in 0 .. ring_size - 1
    BY DEF RingTypeOK, MinRing, MaxRing, RingFull
  <1>2. ring_tail = Slot(ring_count + 1)
    <2>1. ring_head + (ring_count + 1) - 1 = ring_head + ring_count
      BY <1>1
    <2> QED BY <2>1, <1>1 DEF RingShape, Slot
  <1>3. SUFFICES ASSUME NEW i \in 1 .. ring_count PROVE Slot(i) # ring_tail
    BY <1>2
  <1>4. Slot(i) = IF ring_head + i - 1 < ring_size THEN ring_head + i - 1
                  ELSE ring_head + i - 1 - ring_size
    <2>1. i \in 1 .. ring_size
      BY <1>1
    <2> QED BY <2>1, SlotType
  <1>5. ring_tail = IF ring_head + ring_count < ring_size THEN ring_head + ring_count
                    ELSE ring_head + ring_count - ring_size
    <2>1. ring_tail = (ring_head + ring_count) % ring_size
      BY <1>1 DEF RingShape
    <2> QED BY <1>1, <2>1
  <1> QED BY <1>1, <1>4, <1>5

(* The bytes of slot i are inside the store, and those of two slots apart. *)
LEMMA SlotBytes ==
  ASSUME RingTypeOK, NEW i \in 0 .. ring_size - 1, NEW k \in 0 .. compute_max_payload - 1
  PROVE  /\ SlotOffset(i) \in Nat
         /\ SlotOffset(i) + k \in 0 .. ring_size * compute_max_payload - 1
         /\ \A j \in 0 .. ring_size - 1 :
              j # i => SlotOffset(i) + k \notin
                         SlotOffset(j) .. SlotOffset(j) + compute_max_payload - 1
  <1> DEFINE m == compute_max_payload
  <1>1. m \in Nat \ {0} /\ ring_size \in Nat
    BY MaxPayloadType DEF RingTypeOK, MinRing, MaxRing
  <1>2. SlotOffset(i) = i * m
    BY DEF SlotOffset
  <1>3. i * m \in Nat
    BY <1>1
  <1>4. i * m + m <= ring_size * m /\ ring_size * m \in Nat
    BY <1>1, SlotsApart
  <1>5. ASSUME NEW j \in 0 .. ring_size - 1, j # i
        PROVE  SlotOffset(i) + k \notin SlotOffset(j) .. SlotOffset(j) + m - 1
    <2>1. SlotOffset(j) = j * m /\ j * m \in Nat
      BY <1>1 DEF SlotOffset
    <2>2. CASE i < j
      <3>1. i * m + m <= j * m
        BY <1>1, <2>2, SlotsApart
      <3> QED BY <3>1, <2>1, <1>1, <1>2, <1>3
    <2>3. CASE j < i
      <3>1. j * m + m <= i * m
        BY <1>1, <2>3, SlotsApart
      <3> QED BY <3>1, <2>1, <1>1, <1>2, <1>3
    <2> QED BY <2>2, <2>3, <1>5, <1>1
  <1> HIDE DEF m
  <1>6. SlotOffset(i) + k \in 0 .. ring_size * m - 1 /\ SlotOffset(i) \in Nat
    BY <1>1, <1>2, <1>3, <1>4 DEF m
  <1> QED BY <1>5, <1>6 DEF m-----------------------------------------------------------------------------
(* A step that leaves the ring alone leaves the sequence alone. *)
LEMMA SameContents ==
  ASSUME UNCHANGED ring
  PROVE  /\ Contents' = Contents
         /\ RingTypeOK => RingTypeOK'
         /\ RingShape => RingShape'
  BY DEF ring, Contents, FrameAt, Slot, SlotOffset, RingTypeOK, RingShape

(* pop_one removes the first frame of the ring and nothing else. *)
LEMMA PopContents ==
  ASSUME RingTypeOK, RingShape, Contents \in Seq(AirFrames), ring_count > 0,
         NEW room \in Nat, PopOne(room)
  PROVE  /\ Contents' = Tail(Contents)
         /\ RingTypeOK'
         /\ RingShape'
         /\ last' = Contents[1].meta.seq
  <1>1. /\ ring_size \in Nat \ {0} /\ ring_count \in 1 .. ring_size
        /\ ring_head \in 0 .. ring_size - 1
    BY DEF RingTypeOK, MinRing, MaxRing
  <1>2. /\ ring_head' = (ring_head + 1) % ring_size /\ ring_count' = ring_count - 1
        /\ ring_size' = ring_size /\ ring_tail' = ring_tail
        /\ ring_payload_store' = ring_payload_store
        /\ ring_payload_len' = ring_payload_len /\ ring_meta' = ring_meta
        /\ last' = ring_meta[ring_head].seq
    BY DEF PopOne
  <1>3. /\ ring_head' = IF ring_head + 1 < ring_size THEN ring_head + 1
                        ELSE ring_head + 1 - ring_size
        /\ ring_head' \in 0 .. ring_size - 1
    BY <1>1, <1>2
  <1>4. RingTypeOK'
    <2>1. ring_count' \in 0 .. ring_size /\ ring_head' \in Nat /\ ring_head' < ring_size
      BY <1>1, <1>2, <1>3
    <2> QED BY <1>2, <2>1 DEF RingTypeOK
  <1>5. RingShape'
    <2>1. ring_tail = (ring_head + ring_count) % ring_size
      BY <1>1 DEF RingShape
    <2>2. (ring_head' + ring_count') % ring_size = (ring_head + ring_count) % ring_size
      <3>1. ((((ring_head + 1) % ring_size) + ring_count - 1) % ring_size)
              = ((ring_head + ring_count) % ring_size)
        BY <1>1, WrapStep
      <3>2. ring_head' + ring_count' = ((ring_head + 1) % ring_size) + ring_count - 1
        BY <1>1, <1>2, <1>3
      <3> QED BY <3>1, <3>2
    <2> QED BY <1>2, <2>1, <2>2 DEF RingShape
  <1>6. ASSUME NEW i \in 1 .. ring_count - 1
        PROVE  Slot(i)' = Slot(i + 1)
    <2>1. (ring_head' + i - 1) % ring_size = (ring_head + (i + 1) - 1) % ring_size
      BY <1>1, <1>3
    <2> QED BY <1>2, <2>1 DEF Slot
  <1>7. /\ Len(Contents) = ring_count
        /\ Contents # << >>
        /\ \A i \in 1 .. ring_count : Contents[i] = FrameAt(Slot(i))
    <2>1. ring_count \in Nat
      BY <1>1
    <2>2. Len(Contents) = ring_count
      BY <2>1, ContentsLength
    <2>3. \A i \in 1 .. ring_count : Contents[i] = FrameAt(Slot(i))
      BY DEF Contents
    <2> QED BY <1>1, <2>2, <2>3
  <1>8. Contents' = [i \in 1 .. ring_count - 1 |-> Contents[i + 1]]
    <2>1. Contents' = [i \in 1 .. ring_count' |-> FrameAt(Slot(i))']
      BY DEF Contents
    <2>2. ASSUME NEW i \in 1 .. ring_count - 1
          PROVE  FrameAt(Slot(i))' = Contents[i + 1]
      <3>1. FrameAt(Slot(i))' = FrameAt(Slot(i + 1))
        BY <1>2, <1>6 DEF FrameAt, SlotOffset
      <3>2. i + 1 \in 1 .. ring_count
        BY <1>1
      <3> QED BY <1>7, <3>1, <3>2
    <2> QED BY <1>2, <2>1, <2>2
  <1>9. Tail(Contents) = [i \in 1 .. ring_count - 1 |-> Contents[i + 1]]
    BY <1>1, <1>7, TailAsFunction
  <1>10. last' = Contents[1].meta.seq
    <2>1. Slot(1) = ring_head
      <3>1. 1 \in 1 .. ring_size
        BY <1>1
      <3>2. Slot(1) = IF ring_head + 1 - 1 < ring_size THEN ring_head + 1 - 1
                      ELSE ring_head + 1 - 1 - ring_size
        BY <3>1, <1>1, SlotType
      <3> QED BY <1>1, <3>2
    <2>2. Contents[1] = FrameAt(ring_head)
      BY <1>1, <1>7, <2>1
    <2> QED BY <1>2, <2>2 DEF FrameAt
  <1> QED BY <1>4, <1>5, <1>8, <1>9, <1>10
(* enqueue_decoded, when there is room, adds the frame behind all others,  *)
(* byte for byte, and disturbs no slot that is in use.                     *)
LEMMA EnqueueContents ==
  ASSUME RingTypeOK, RingShape, Contents \in Seq(AirFrames), ring_size > 0, ~ RingFull,
         NEW f \in AirFrames, Enqueue(f)
  PROVE  /\ Contents' = Append(Contents, f)
         /\ RingTypeOK'
         /\ RingShape'
  <1>1. /\ ring_size \in Nat \ {0} /\ ring_count \in 0 .. ring_size - 1
        /\ ring_head \in 0 .. ring_size - 1 /\ ring_tail \in 0 .. ring_size - 1
    BY DEF RingTypeOK, MinRing, MaxRing, RingFull
  <1>2. /\ ring_payload_len' = [ring_payload_len EXCEPT ![ring_tail] = Len(f.payload)]
        /\ ring_meta' = [ring_meta EXCEPT ![ring_tail] = f.meta]
        /\ ring_payload_store' =
             [k \in DOMAIN ring_payload_store |->
                IF k \in SlotOffset(ring_tail) .. SlotOffset(ring_tail) + Len(f.payload) - 1
                THEN f.payload[k - SlotOffset(ring_tail) + 1] ELSE ring_payload_store[k]]
        /\ ring_tail' = (ring_tail + 1) % ring_size
        /\ ring_count' = ring_count + 1
        /\ ring_size' = ring_size /\ ring_head' = ring_head
    BY DEF Enqueue
  <1>3. /\ f = [payload |-> f.payload, meta |-> f.meta]
        /\ f.payload \in Seq(Byte) /\ Len(f.payload) \in 0 .. compute_max_payload
        /\ f.meta \in Metas
    BY AirFrameType
  <1>4. /\ compute_max_payload \in Nat \ {0}
        /\ SlotOffset(ring_tail) \in Nat
    <2>1. compute_max_payload \in Nat \ {0}
      BY MaxPayloadType
    <2>2. 0 \in 0 .. compute_max_payload - 1
      BY <2>1
    <2> QED BY <2>1, <2>2, <1>1, SlotBytes
  <1>5. /\ ring_payload_store \in [0 .. ring_size * compute_max_payload - 1 -> Byte]
        /\ ring_payload_len \in [0 .. ring_size - 1 -> 0 .. compute_max_payload]
        /\ ring_meta \in [0 .. ring_size - 1 -> Metas]
    BY DEF RingTypeOK, Metas
  <1>6. ring_tail' = (IF ring_tail + 1 < ring_size THEN ring_tail + 1 ELSE ring_tail + 1 - ring_size)
        /\ ring_tail' \in 0 .. ring_size - 1
    BY <1>1, <1>2
  <1>7. \A k \in 1 .. Len(f.payload) : f.payload[k] \in Byte
    BY <1>3, ElementOfSeq
  <1>8. RingTypeOK'
    <2>1. ring_payload_store' \in [0 .. ring_size * compute_max_payload - 1 -> Byte]
      <3>1. ASSUME NEW k \in DOMAIN ring_payload_store,
                   k \in SlotOffset(ring_tail) .. SlotOffset(ring_tail) + Len(f.payload) - 1
            PROVE  k - SlotOffset(ring_tail) + 1 \in 1 .. Len(f.payload)
        BY <1>3, <1>4, <3>1
      <3> QED BY <1>2, <1>5, <1>7, <3>1
    <2>2. ring_payload_len' \in [0 .. ring_size - 1 -> 0 .. compute_max_payload]
      BY <1>2, <1>3, <1>5
    <2>3. ring_meta' \in [0 .. ring_size - 1 -> Metas]
      BY <1>2, <1>3, <1>5
    <2>4. ring_count' \in 0 .. ring_size /\ ring_tail' \in Nat /\ ring_tail' < ring_size
      BY <1>1, <1>2, <1>6
    <2> QED BY <1>2, <2>1, <2>2, <2>3, <2>4 DEF RingTypeOK, Metas
  <1>9. RingShape'
    <2>1. ring_tail = (ring_head + ring_count) % ring_size
      BY <1>1 DEF RingShape
    <2>2. ring_tail' = (ring_head + (ring_count + 1)) % ring_size
      BY <1>1, <1>6, <2>1
    <2> QED BY <1>2, <2>2 DEF RingShape
  <1>10. ASSUME NEW i \in 1 .. ring_count
         PROVE  FrameAt(Slot(i))' = FrameAt(Slot(i))
    <2> DEFINE s == Slot(i)
    <2>1. s \in 0 .. ring_size - 1 /\ s # ring_tail
      <3>1. i \in 1 .. ring_size
        BY <1>1
      <3> QED BY <1>1, <3>1, SlotType, TailIsFree
    <2>2. Slot(i)' = s
      BY <1>2 DEF Slot
    <2>3. ring_payload_len'[s] = ring_payload_len[s] /\ ring_meta'[s] = ring_meta[s]
      BY <1>2, <1>5, <2>1
    <2>4. ASSUME NEW j \in 1 .. ring_payload_len[s]
          PROVE  ring_payload_store'[SlotOffset(s) + j - 1] = ring_payload_store[SlotOffset(s) + j - 1]
      <3>1. j - 1 \in 0 .. compute_max_payload - 1
        BY <1>4, <1>5, <2>1
      <3>2. /\ SlotOffset(s) \in Nat
            /\ SlotOffset(s) + (j - 1) \in 0 .. ring_size * compute_max_payload - 1
            /\ SlotOffset(s) + (j - 1) \notin
                  SlotOffset(ring_tail) .. SlotOffset(ring_tail) + compute_max_payload - 1
        BY <1>1, <2>1, <3>1, SlotBytes
      <3>3. SlotOffset(s) + j - 1 = SlotOffset(s) + (j - 1)
        BY <3>2
      <3>4. SlotOffset(s) + (j - 1) \notin
              SlotOffset(ring_tail) .. SlotOffset(ring_tail) + Len(f.payload) - 1
        BY <1>3, <1>4, <3>2
      <3> QED BY <1>2, <1>5, <3>2, <3>3, <3>4
    <2>5. FrameAt(s)' = [payload |-> [j \in 1 .. ring_payload_len'[s'] |->
                                       ring_payload_store'[SlotOffset(s') + j - 1]],
                         meta |-> ring_meta'[s']]
      BY DEF FrameAt, SlotOffset
    <2> HIDE DEF s
    <2>6. s' = s
      BY <2>2 DEF s
    <2>7. FrameAt(s)' = FrameAt(s)
      BY <2>3, <2>4, <2>5, <2>6 DEF FrameAt
    <2> QED BY <2>7 DEF s
  <1>11. ASSUME NEW i \in 1 .. ring_count + 1, i = ring_count + 1
         PROVE  FrameAt(Slot(i))' = f
    <2> DEFINE s == Slot(i)
    <2>1. s = ring_tail
      BY <1>11, TailIsFree
    <2>2. s' = s
      BY <1>2 DEF Slot
    <2>3. FrameAt(s)' = [payload |-> [j \in 1 .. ring_payload_len'[s'] |->
                                       ring_payload_store'[SlotOffset(s') + j - 1]],
                         meta |-> ring_meta'[s']]
      BY DEF FrameAt, SlotOffset
    <2> HIDE DEF s
    <2>4. ring_payload_len'[s'] = Len(f.payload) /\ ring_meta'[s'] = f.meta
      BY <1>1, <1>2, <1>5, <2>1, <2>2
    <2>5. ASSUME NEW j \in 1 .. Len(f.payload)
          PROVE  ring_payload_store'[SlotOffset(ring_tail) + j - 1] = f.payload[j]
      <3>1. j - 1 \in 0 .. compute_max_payload - 1
        BY <1>3, <1>4
      <3> DEFINE k == SlotOffset(ring_tail) + (j - 1)
      <3>2. k \in DOMAIN ring_payload_store
        BY <1>1, <1>5, <3>1, SlotBytes
      <3>3. /\ SlotOffset(ring_tail) + j - 1 = k
            /\ k \in SlotOffset(ring_tail) .. SlotOffset(ring_tail) + Len(f.payload) - 1
            /\ k - SlotOffset(ring_tail) + 1 = j
        BY <1>3, <1>4
      <3> HIDE DEF k
      <3>4. ring_payload_store'[k] = f.payload[k - SlotOffset(ring_tail) + 1]
        BY <1>2, <3>2, <3>3
      <3> QED BY <3>3, <3>4
    <2>6. f.payload = [j \in 1 .. Len(f.payload) |-> f.payload[j]]
      BY <1>3, LenProperties
    <2>7. FrameAt(s)' = f
      BY <1>3, <2>1, <2>2, <2>3, <2>4, <2>5, <2>6
    <2> QED BY <2>7 DEF s
  <1>12. Contents' = [i \in 1 .. ring_count + 1 |->
                       IF i = ring_count + 1 THEN f ELSE Contents[i]]
    <2>1. Contents' = [i \in 1 .. ring_count' |-> FrameAt(Slot(i))']
      BY DEF Contents
    <2>2. \A i \in 1 .. ring_count : Contents[i] = FrameAt(Slot(i))
      BY DEF Contents
    <2>3. ASSUME NEW i \in 1 .. ring_count + 1
          PROVE  FrameAt(Slot(i))' = IF i = ring_count + 1 THEN f ELSE Contents[i]
      <3>1. CASE i = ring_count + 1
        BY <1>11, <3>1
      <3>2. CASE i # ring_count + 1
        <4>1. i \in 1 .. ring_count
          BY <1>1, <3>2
        <4> QED BY <1>10, <2>2, <3>2, <4>1
      <3> QED BY <3>1, <3>2
    <2> QED BY <1>2, <2>1, <2>3
  <1>13. Append(Contents, f) = [i \in 1 .. ring_count + 1 |->
                                 IF i = ring_count + 1 THEN f ELSE Contents[i]]
    <2>1. Len(Contents) = ring_count
      BY <1>1, ContentsLength
    <2> QED BY <2>1, AppendAsFunction
  <1> QED BY <1>8, <1>9, <1>12, <1>13-----------------------------------------------------------------------------
(* An empty ring stands for the empty sequence. *)
LEMMA EmptyContents ==
  ASSUME ring_count = 0
  PROVE  Contents = << >>
  BY DEF Contents

(* The part of IInv that is about frames and packets; the rest, about the  *)
(* call, is CallInv.                                                       *)
DataInv ==
  /\ RingTypeOK
  /\ RingShape
  /\ CaptureTypeOK
  /\ Contents \in Seq(AirFrames)
  /\ InOrder
  /\ Numbered

CallInv ==
  /\ CallTypeOK
  /\ PollsEmpty
  /\ NoOversleep
  /\ PollWaits
  /\ TimedWaits
  /\ PollsWithTime

DrainInv == BurstInDrain /\ DrainKeepsOldest

(* The invariant by what its parts are about: ring and capture, call, drain. *)
LEMMA IInvParts == IInv <=> DataInv /\ CallInv /\ DrainInv
  BY DEF IInv, TypeOK, DataInv, CallInv, DrainInv

(* Steps that move only the call. *)
LEMMA QuietData ==
  ASSUME DataInv, UNCHANGED <<ring, capture, last>>, burst' \in Seq(AirFrames)
  PROVE  DataInv' /\ Contents' = Contents
  <1>1. /\ Contents' = Contents
        /\ RingTypeOK'
        /\ RingShape'
    BY SameContents DEF DataInv
  <1>2. ring_count' = ring_count /\ ring_size' = ring_size
    BY DEF ring
  <1>3. CaptureTypeOK'
    BY DEF DataInv, CaptureTypeOK, capture
  <1>4. InOrder'
    BY <1>1, <1>2 DEF DataInv, InOrder, RingSeq, capture
  <1>5. Numbered'
    BY <1>1, <1>2 DEF DataInv, Numbered, RingSeq, capture
  <1> QED BY <1>1, <1>3, <1>4, <1>5 DEF DataInv

(* Steps that leave the ring and the burst alone, inside a drain or outside. *)
LEMMA QuietDrain ==
  ASSUME DrainInv, UNCHANGED <<ring, burst>>, pc' = "drain" => pc = "drain",
         pc = "drain" => pc' = "drain"
  PROVE  DrainInv'
  <1>1. Contents' = Contents /\ ring_size' = ring_size
    BY SameContents DEF ring
  <1> QED BY <1>1 DEF DrainInv, BurstInDrain, DrainKeepsOldest

(* Before a receiver is opened. *)
LEMMA InitInv == Init => IInv
  <1> SUFFICES ASSUME Init PROVE IInv
    OBVIOUS
  <1> USE DEF Init
  <1>1. Contents = << >>
    BY EmptyContents
  <1>2. << >> \in Seq(AirFrames) /\ << >> \in Seq(AirPackets) /\ Len(<< >>) = 0
    BY EmptySeq
  <1>3. RingTypeOK
    <2>1. 0 .. ring_size * compute_max_payload - 1 = {} /\ 0 .. ring_size - 1 = {}
      BY MaxPayloadType
    <2> QED BY <2>1 DEF RingTypeOK, Empty
  <1>4. CaptureTypeOK
    BY <1>2, BoundAssumption DEF CaptureTypeOK
  <1>5. CallTypeOK
    <2>1. ignore_self_injected \in BOOLEAN
      OBVIOUS
    <2>2. elapsed \in 0 .. MaxElapsed /\ remaining_ms \in Nat /\ held \in Nat /\ wake \in Nat
      BY BoundAssumption
    <2> QED BY <2>1, <2>2 DEF CallTypeOK
  <1>6. InOrder /\ Numbered
    BY <1>2 DEF InOrder, Numbered
  <1>7. RingShape /\ PollsEmpty /\ NoOversleep /\ PollWaits /\ TimedWaits /\ PollsWithTime /\ DrainInv
    BY DEF RingShape, PollsEmpty, NoOversleep, PollWaits, TimedWaits, NotBefore, PollsWithTime, DrainInv, BurstInDrain, DrainKeepsOldest
  <1> QED BY <1>1, <1>2, <1>3, <1>4, <1>5, <1>6, <1>7, IInvParts DEF DataInv, CallInv

(* open gives the ring its size and clears it. *)
LEMMA OpenInv ==
  ASSUME IInv, NEW cfg \in Configs, Open(cfg)
  PROVE  IInv'
  <1>1. DataInv /\ CallInv /\ DrainInv
    BY IInvParts
  <1>2. RingSize(cfg) \in MinRing .. MaxRing
    BY ConfigAssumption DEF RingSize, MinRing, MaxRing
  <1>3. RingTypeOK' /\ RingShape'
    <2>1. DefaultMeta \in [seq : Nat, flags : Nat, info : Infos \cup {NoInfo}, truncated : {FALSE}]
      BY DEF DefaultMeta
    <2>2. RingSize(cfg) \in Nat /\ RingSize(cfg) > 0
      BY <1>2 DEF MinRing, MaxRing
    <2>3. /\ ring_size' = RingSize(cfg) /\ ring_count' = 0 /\ ring_head' = 0 /\ ring_tail' = 0
          /\ ring_payload_store' = [i \in 0 .. RingSize(cfg) * compute_max_payload - 1 |-> 0]
          /\ ring_payload_len' = [i \in 0 .. RingSize(cfg) - 1 |-> 0]
          /\ ring_meta' = [i \in 0 .. RingSize(cfg) - 1 |-> DefaultMeta]
      BY DEF Open
    <2>4. 0 \in Byte /\ 0 \in 0 .. compute_max_payload
      BY ByteAssumption, MaxPayloadType
    <2>5. RingTypeOK'
      <3>1. /\ ring_payload_store' \in [0 .. ring_size' * compute_max_payload - 1 -> Byte]
            /\ ring_payload_len' \in [0 .. ring_size' - 1 -> 0 .. compute_max_payload]
        BY <2>3, <2>4
      <3>2. ring_meta' \in [0 .. ring_size' - 1 ->
              [seq : Nat, flags : Nat, info : Infos \cup {NoInfo}, truncated : {FALSE}]]
        BY <2>1, <2>3
      <3>3. ring_size' \in MinRing .. MaxRing /\ ring_count' \in 0 .. ring_size'
        BY <1>2, <2>2, <2>3
      <3> QED BY <2>2, <2>3, <3>1, <3>2, <3>3 DEF RingTypeOK
    <2>6. RingShape'
      BY <2>2, <2>3 DEF RingShape
    <2> QED BY <2>5, <2>6
  <1>4. Contents' = << >> /\ ring_count' = 0
    <2>1. ring_count' = 0
      BY DEF Open
    <2> QED BY <2>1 DEF Contents
  <1>5. /\ pc = "closed" /\ pc' = "idle"
        /\ ignore_self_injected' = cfg.ignore_self_injected /\ filter' = cfg.stream_id
        /\ UNCHANGED <<buf_len, timeout, elapsed, remaining_ms, held, wake, result, kbuf, arrived, burst, last>>
    BY DEF Open, capture, history
  <1>6. CallInv'
    <2>1. RingSize(cfg) # 0
      BY <1>2 DEF MinRing, MaxRing
    <2>2. ring_size' = RingSize(cfg)
      BY DEF Open
    <2> QED BY <1>1, <1>5, <2>1, <2>2, ConfigAssumption
            DEF CallInv, CallTypeOK, PollsEmpty, NoOversleep, PollWaits, TimedWaits, NotBefore, PollsWithTime
  <1>7. DrainInv'
    BY <1>1, <1>5 DEF DrainInv, BurstInDrain, DrainKeepsOldest
  <1>8. DataInv'
    <2>1. << >> \in Seq(AirFrames)
      BY EmptySeq
    <2>2. CaptureTypeOK'
      BY <1>1, <1>5 DEF DataInv, CaptureTypeOK
    <2>3. InOrder' /\ Numbered'
      BY <1>1, <1>4, <1>5 DEF DataInv, InOrder, Numbered
    <2> QED BY <1>3, <1>4, <2>1, <2>2, <2>3 DEF DataInv
  <1> QED BY <1>6, <1>7, <1>8 DEF IInv, TypeOK, DataInv, CallInv, DrainInv
(* Drop forgets the ring and what the capture held. *)
LEMMA CloseInv ==
  ASSUME IInv, Close
  PROVE  IInv'
  <1>1. DataInv /\ CallInv /\ DrainInv
    BY IInvParts
  <1>2. /\ ring_size' = 0 /\ ring_count' = 0 /\ ring_head' = 0 /\ ring_tail' = 0
        /\ ring_payload_store' = Empty /\ ring_payload_len' = Empty /\ ring_meta' = Empty
        /\ ignore_self_injected' = FALSE /\ filter' = 0
        /\ pc = "idle" /\ pc' = "closed"
        /\ kbuf' = << >> /\ last' = 0
        /\ UNCHANGED <<buf_len, timeout, elapsed, remaining_ms, held, wake, arrived, burst>>
    BY DEF Close
  <1>3. RingTypeOK' /\ RingShape'
    <2>1. 0 .. 0 * compute_max_payload - 1 = {} /\ 0 .. 0 - 1 = {}
      BY MaxPayloadType
    <2> QED BY <1>2, <2>1 DEF RingTypeOK, RingShape, Empty
  <1>4. Contents' = << >>
    BY <1>2 DEF Contents
  <1>5. CallInv'
    BY <1>1, <1>2 DEF CallInv, CallTypeOK, PollsEmpty, NoOversleep, PollWaits, TimedWaits, NotBefore, PollsWithTime
  <1>6. DrainInv'
    BY <1>1, <1>2 DEF DrainInv, BurstInDrain, DrainKeepsOldest
  <1>7. DataInv'
    <2>1. << >> \in Seq(AirFrames) /\ << >> \in Seq(AirPackets) /\ Len(<< >>) = 0
      BY EmptySeq
    <2>2. CaptureTypeOK'
      BY <1>1, <1>2, <2>1, BoundAssumption DEF DataInv, CaptureTypeOK
    <2>3. InOrder' /\ Numbered'
      <3>1. kbuf' = << >> /\ ring_count' = 0 /\ last' = 0 /\ arrived' \in Nat
        BY <1>1, <1>2, BoundAssumption DEF DataInv, CaptureTypeOK
      <3> QED BY <2>1, <3>1 DEF InOrder, Numbered
    <2> QED BY <1>3, <1>4, <2>1, <2>2, <2>3 DEF DataInv
  <1> QED BY <1>5, <1>6, <1>7 DEF IInv, TypeOK, DataInv, CallInv, DrainInv

(* A packet arrives behind the others, with the next number. *)
LEMMA ArriveInv ==
  ASSUME IInv, NEW p \in Air, Arrive(p)
  PROVE  IInv'
  <1>1. DataInv /\ CallInv /\ DrainInv
    BY IInvParts
  <1> DEFINE c == Stamped(p, arrived + 1)
  <1>2. /\ arrived' = arrived + 1 /\ arrived < MaxArrivals
        /\ kbuf' = Append(kbuf, c)
        /\ UNCHANGED <<ring, ignore_self_injected, filter, call, burst, last>>
    BY DEF Arrive, object, history
  <1>3. /\ arrived \in 0 .. MaxArrivals /\ kbuf \in Seq(AirPackets)
        /\ ring_count \in Nat /\ last <= arrived /\ last \in Nat /\ MaxArrivals \in Nat
    BY <1>1, BoundAssumption DEF DataInv, CaptureTypeOK, RingTypeOK, MinRing, MaxRing, Numbered
  <1>4. c \in AirPackets /\ c.hdr.seq = arrived + 1
    <2>1. arrived + 1 \in 1 .. MaxArrivals /\ arrived + 1 \in Nat
      BY <1>2, <1>3
    <2> QED BY <2>1, StampedPacket DEF AirPackets
  <1> HIDE DEF c
  <1>5. /\ Contents' = Contents /\ RingTypeOK' /\ RingShape'
        /\ ring_count' = ring_count /\ ring_size' = ring_size
    BY <1>1, <1>2, SameContents DEF DataInv, ring
  <1>6. /\ kbuf' \in Seq(AirPackets) /\ Len(kbuf') = Len(kbuf) + 1 /\ Len(kbuf) \in Nat
        /\ \A j \in 1 .. Len(kbuf) : kbuf'[j] = kbuf[j]
        /\ kbuf'[Len(kbuf) + 1] = c
    BY <1>2, <1>3, <1>4, AppendProperties, LenProperties
  <1>7. ASSUME NEW j \in 1 .. Len(kbuf')
        PROVE  \/ j \in 1 .. Len(kbuf) /\ kbuf'[j] = kbuf[j]
               \/ j = Len(kbuf) + 1 /\ kbuf'[j] = c
    BY <1>6
  <1>8. /\ \A j \in 1 .. Len(kbuf) : kbuf[j].hdr.seq \in Nat /\ kbuf[j].hdr.seq <= arrived
        /\ \A i \in 1 .. ring_count : RingSeq(i) \in Nat /\ RingSeq(i) <= arrived
    <2>1. \A j \in 1 .. Len(kbuf) : kbuf[j].hdr.seq \in Nat
      BY <1>3, ElementOfSeq, AirPacketType
    <2>2. \A i \in 1 .. ring_count : RingSeq(i) \in Nat
      BY <1>1, <1>3, ContentsLength, AirFrameType DEF DataInv, RingSeq
    <2> QED BY <1>1, <2>1, <2>2 DEF DataInv, Numbered
  <1>9. CaptureTypeOK'
    BY <1>1, <1>2, <1>3, <1>6 DEF DataInv, CaptureTypeOK
  <1>10. InOrder'
    <2>1. \A i \in 1 .. ring_count : RingSeq(i)' = RingSeq(i)
      BY <1>5 DEF RingSeq
    <2>2. \A i, j \in 1 .. Len(kbuf') : i < j => kbuf'[i].hdr.seq < kbuf'[j].hdr.seq
      <3> SUFFICES ASSUME NEW i \in 1 .. Len(kbuf'), NEW j \in 1 .. Len(kbuf'), i < j
                   PROVE  kbuf'[i].hdr.seq < kbuf'[j].hdr.seq
        OBVIOUS
      <3>1. i \in 1 .. Len(kbuf) /\ kbuf'[i] = kbuf[i]
        BY <1>6, <1>7
      <3>2. CASE j \in 1 .. Len(kbuf) /\ kbuf'[j] = kbuf[j]
        BY <1>1, <3>1, <3>2 DEF DataInv, InOrder
      <3>3. CASE j = Len(kbuf) + 1 /\ kbuf'[j] = c
        BY <1>3, <1>4, <1>8, <3>1, <3>3
      <3> QED BY <1>7, <3>2, <3>3
    <2>3. ASSUME NEW j \in 1 .. Len(kbuf')
          PROVE  /\ \A i \in 1 .. ring_count : RingSeq(i) < kbuf'[j].hdr.seq
                 /\ last < kbuf'[j].hdr.seq
      <3>1. CASE j \in 1 .. Len(kbuf) /\ kbuf'[j] = kbuf[j]
        BY <1>1, <3>1 DEF DataInv, InOrder
      <3>2. CASE j = Len(kbuf) + 1 /\ kbuf'[j] = c
        BY <1>3, <1>4, <1>8, <3>2
      <3> QED BY <1>7, <3>1, <3>2
    <2>4. last' = last
      BY <1>2
    <2> QED BY <1>1, <1>5, <2>1, <2>2, <2>3, <2>4 DEF DataInv, InOrder
  <1>11. Numbered'
    <2>1. \A i \in 1 .. ring_count : RingSeq(i)' = RingSeq(i)
      BY <1>5 DEF RingSeq
    <2>2. \A j \in 1 .. Len(kbuf') : kbuf'[j].hdr.seq <= arrived + 1
      <3> SUFFICES ASSUME NEW j \in 1 .. Len(kbuf') PROVE kbuf'[j].hdr.seq <= arrived + 1
        OBVIOUS
      <3> QED BY <1>3, <1>4, <1>7, <1>8
    <2>3. last' = last
      BY <1>2
    <2> QED BY <1>2, <1>3, <1>5, <1>8, <2>1, <2>2, <2>3 DEF Numbered
  <1>12. CallInv' /\ DrainInv'
    <2>1. UNCHANGED <<pc, buf_len, timeout, elapsed, remaining_ms, held, wake>>
      BY <1>2 DEF call
    <2> QED BY <1>1, <1>2, <1>5, <2>1, QuietDrain
            DEF CallInv, CallTypeOK, PollsEmpty, NoOversleep, PollWaits, TimedWaits, NotBefore, PollsWithTime
  <1> QED BY <1>1, <1>5, <1>9, <1>10, <1>11, <1>12 DEF IInv, TypeOK, DataInv, CallInv, DrainInv
(* Returning to the caller resets what belongs to the call. *)
LEMMA ReturnCall ==
  ASSUME CallInv, pc # "closed", ring_size' = ring_size, NEW r, Return(r),
         UNCHANGED <<ignore_self_injected, filter>>
  PROVE  CallInv' /\ pc' = "idle"
  BY BoundAssumption
     DEF Return, CallInv, CallTypeOK, PollsEmpty, NoOversleep, PollWaits, TimedWaits, NotBefore, PollsWithTime

(* pop_one returns the oldest frame; what stays is younger. *)
LEMMA PopInv ==
  ASSUME IInv, NEW room \in Nat, PopOne(room), ring_count > 0, pc \in {"idle", "loop"}
  PROVE  IInv'
  <1>1. DataInv /\ CallInv /\ DrainInv
    BY IInvParts
  <1>2. /\ ring_size' = ring_size /\ ring_count' = ring_count - 1
        /\ UNCHANGED <<ignore_self_injected, filter, kbuf, arrived, burst>>
    BY DEF PopOne, capture
  <1>3. /\ Contents' = Tail(Contents) /\ last' = Contents[1].meta.seq
        /\ RingTypeOK' /\ RingShape'
    BY <1>1, PopContents DEF DataInv
  <1>4. /\ ring_count \in Nat \ {0}
        /\ Len(Contents) = ring_count /\ Contents # << >>
        /\ \A i \in 1 .. ring_count : RingSeq(i) \in 1 .. MaxArrivals
    <2>1. ring_count \in Nat \ {0}
      BY <1>1 DEF DataInv, RingTypeOK, MinRing, MaxRing
    <2>2. Len(Contents) = ring_count /\ \A i \in 1 .. ring_count : Contents[i] \in AirFrames
      BY <1>1, <2>1, ContentsLength DEF DataInv
    <2>3. \A i \in 1 .. ring_count : RingSeq(i) \in 1 .. MaxArrivals
      BY <2>2, AirFrameType DEF RingSeq
    <2> QED BY <2>1, <2>2, <2>3
  <1>5. /\ Contents' \in Seq(AirFrames)
        /\ \A i \in 1 .. ring_count - 1 : RingSeq(i)' = RingSeq(i + 1)
    <2>1. /\ Tail(Contents) \in Seq(AirFrames)
          /\ Len(Tail(Contents)) = ring_count - 1
          /\ \A i \in 1 .. Len(Tail(Contents)) : Tail(Contents)[i] = Contents[i + 1]
      BY <1>1, <1>4, HeadTailProperties DEF DataInv
    <2> QED BY <1>3, <2>1 DEF RingSeq
  <1>6. last' = RingSeq(1) /\ 1 \in 1 .. ring_count
    BY <1>3, <1>4 DEF RingSeq
  <1>7. ASSUME NEW i \in 1 .. ring_count'
        PROVE  i \in 1 .. ring_count /\ i + 1 \in 1 .. ring_count /\ RingSeq(i)' = RingSeq(i + 1)
    BY <1>2, <1>4, <1>5
  <1>8. InOrder'
    <2>1. \A i, j \in 1 .. ring_count' : i < j => RingSeq(i)' < RingSeq(j)'
      <3> SUFFICES ASSUME NEW i \in 1 .. ring_count', NEW j \in 1 .. ring_count', i < j
                   PROVE  RingSeq(i)' < RingSeq(j)'
        OBVIOUS
      <3>1. i + 1 < j + 1
        BY <1>4, <1>7
      <3>2. RingSeq(i + 1) < RingSeq(j + 1)
        BY <1>1, <1>7, <3>1 DEF DataInv, InOrder
      <3> QED BY <1>7, <3>2
    <2>2. \A i \in 1 .. ring_count', j \in 1 .. Len(kbuf) : RingSeq(i)' < kbuf[j].hdr.seq
      BY <1>1, <1>7 DEF DataInv, InOrder
    <2>3. \A i \in 1 .. ring_count' : last' < RingSeq(i)'
      <3> SUFFICES ASSUME NEW i \in 1 .. ring_count' PROVE last' < RingSeq(i)'
        OBVIOUS
      <3>1. 1 < i + 1
        BY <1>7
      <3>2. RingSeq(1) < RingSeq(i + 1)
        BY <1>1, <1>6, <1>7, <3>1 DEF DataInv, InOrder
      <3> QED BY <1>6, <1>7, <3>2
    <2>4. \A j \in 1 .. Len(kbuf) : last' < kbuf[j].hdr.seq
      BY <1>1, <1>6 DEF DataInv, InOrder
    <2> QED BY <1>1, <1>2, <2>1, <2>2, <2>3, <2>4 DEF DataInv, InOrder
  <1>9. Numbered'
    <2>1. \A i \in 1 .. ring_count' : RingSeq(i)' <= arrived
      BY <1>1, <1>7 DEF DataInv, Numbered
    <2>2. last' <= arrived
      BY <1>1, <1>6 DEF DataInv, Numbered
    <2> QED BY <1>1, <1>2, <2>1, <2>2 DEF DataInv, Numbered
  <1>10. CaptureTypeOK'
    <2>1. last' \in 0 .. MaxArrivals
      BY <1>4, <1>6, BoundAssumption
    <2> QED BY <1>1, <1>2, <2>1 DEF DataInv, CaptureTypeOK
  <1>11. CallInv' /\ pc' = "idle"
    BY <1>1, <1>2, ReturnCall DEF PopOne
  <1>12. DrainInv'
    BY <1>1, <1>2, <1>11 DEF DrainInv, BurstInDrain, DrainKeepsOldest
  <1> QED BY <1>3, <1>5, <1>8, <1>9, <1>10, <1>11, <1>12
          DEF IInv, TypeOK, DataInv, CallInv, DrainInv

(* Every other step of recv outside the drain moves only the call. *)
LEMMA ReturnInv ==
  ASSUME IInv, pc \notin {"closed", "drain"}, NEW r, Return(r),
         UNCHANGED <<object, capture, history>>
  PROVE  IInv'
  <1>1. DataInv /\ CallInv /\ DrainInv
    BY IInvParts
  <1>2. UNCHANGED <<ring, ring_size, ignore_self_injected, filter, capture, burst, last>>
    BY DEF object, history, ring
  <1>3. burst' \in Seq(AirFrames)
    BY <1>1, <1>2 DEF DataInv, CaptureTypeOK
  <1>4. CallInv' /\ pc' = "idle"
    BY <1>1, <1>2, ReturnCall
  <1> QED BY <1>1, <1>2, <1>3, <1>4, QuietData, QuietDrain
          DEF IInv, TypeOK, DataInv, CallInv, DrainInv

(* recv enters its loop. *)
LEMMA RecvWaitInv ==
  ASSUME IInv, NEW n \in BufSizes, NEW t \in Timeouts, RecvWait(n, t)
  PROVE  IInv'
  <1>1. DataInv /\ CallInv /\ DrainInv
    BY IInvParts
  <1>2. UNCHANGED <<ring, ring_size, ignore_self_injected, filter, capture, burst, last>>
    BY DEF RecvWait, object, history, ring
  <1>3. burst' \in Seq(AirFrames)
    BY <1>1, <1>2 DEF DataInv, CaptureTypeOK
  <1>4. /\ pc = "idle" /\ pc' = "loop" /\ buf_len' = n /\ timeout' = t /\ elapsed' = 0
        /\ UNCHANGED <<remaining_ms, held, wake>>
    BY DEF RecvWait
  <1>5. CallInv'
    BY <1>1, <1>2, <1>4, BoundAssumption
       DEF CallInv, CallTypeOK, PollsEmpty, NoOversleep, PollWaits, TimedWaits, NotBefore, PollsWithTime
  <1> QED BY <1>1, <1>2, <1>3, <1>4, <1>5, QuietData, QuietDrain
          DEF IInv, TypeOK, DataInv, CallInv, DrainInv
(* What is left is a number of milliseconds. *)
LEMMA RemainingType ==
  ASSUME elapsed \in Nat, timeout \in Nat, elapsed < timeout
  PROVE  RemainingMs \in Nat
  <1>1. timeout - elapsed \in Nat /\ TICKS_PER_MS \in Nat \ {0} /\ I32_MAX_MS \in Nat
    BY BoundAssumption
  <1>2. (timeout - elapsed) \div TICKS_PER_MS \in Nat
    BY <1>1, WholeMs
  <1> QED BY <1>1, <1>2 DEF RemainingMs, Smaller

(* The deadline handed to poll: never past the end of the call, and short  *)
(* of it by less than a millisecond or by the limit of an i32.             *)
LEMMA PollDeadline ==
  ASSUME elapsed \in Nat, timeout \in Nat, elapsed < timeout
  PROVE  /\ elapsed + RemainingMs * TICKS_PER_MS \in Nat
         /\ elapsed + RemainingMs * TICKS_PER_MS <= timeout
         /\ \/ elapsed + RemainingMs * TICKS_PER_MS + TICKS_PER_MS > timeout
            \/ elapsed + RemainingMs * TICKS_PER_MS >= I32_MAX_MS * TICKS_PER_MS
  <1> DEFINE x == timeout - elapsed
             w == x \div TICKS_PER_MS
  <1>1. x \in Nat /\ TICKS_PER_MS \in Nat \ {0} /\ I32_MAX_MS \in Nat
    BY BoundAssumption
  <1>2. w \in Nat /\ w * TICKS_PER_MS <= x /\ x < w * TICKS_PER_MS + TICKS_PER_MS
    BY <1>1, WholeMs
  <1>3. RemainingMs = IF w <= I32_MAX_MS THEN w ELSE I32_MAX_MS
    BY DEF RemainingMs, Smaller
  <1> HIDE DEF w
  <1>4. w * TICKS_PER_MS \in Nat /\ I32_MAX_MS * TICKS_PER_MS \in Nat
    BY <1>1, <1>2
  <1>5. CASE w <= I32_MAX_MS
    <2>1. RemainingMs * TICKS_PER_MS = w * TICKS_PER_MS
      BY <1>3, <1>5
    <2> QED BY <1>1, <1>2, <1>4, <2>1
  <1>6. CASE ~ (w <= I32_MAX_MS)
    <2>1. RemainingMs * TICKS_PER_MS = I32_MAX_MS * TICKS_PER_MS
      BY <1>3, <1>6
    <2>2. I32_MAX_MS * TICKS_PER_MS <= w * TICKS_PER_MS
      BY <1>1, <1>2, <1>6, TimesMonotonic
    <2> QED BY <1>1, <1>2, <1>4, <2>1, <2>2
  <1> QED BY <1>5, <1>6

(* What stays of the call is fixed: the ring is empty and the wait, were   *)
(* it to begin now, ends by the deadline.                                  *)
LEMMA LoopTimeInv ==
  ASSUME IInv, LoopTime
  PROVE  IInv'
  <1>1. DataInv /\ CallInv /\ DrainInv
    BY IInvParts
  <1>2. UNCHANGED <<ring, ring_size, ring_count, ignore_self_injected, filter, capture, burst, last>>
    BY DEF LoopTime, object, history, ring
  <1>3. burst' \in Seq(AirFrames)
    BY <1>1, <1>2 DEF DataInv, CaptureTypeOK
  <1>4. /\ pc = "loop" /\ pc' = "timed" /\ ring_count = 0 /\ elapsed < timeout
        /\ remaining_ms' = RemainingMs
        /\ UNCHANGED <<buf_len, timeout, elapsed, held, wake>>
    BY DEF LoopTime
  <1>5. elapsed \in Nat /\ timeout \in Nat /\ held \in Nat /\ timeout > 0
    BY <1>1, <1>4, BoundAssumption DEF CallInv, CallTypeOK
  <1>6. RemainingMs \in Nat
    BY <1>4, <1>5, RemainingType
  <1>7. TimedWaits'
    <2> DEFINE end == elapsed + RemainingMs * TICKS_PER_MS
    <2>1. end \in Nat /\ end <= timeout
          /\ (end + TICKS_PER_MS > timeout \/ end >= I32_MAX_MS * TICKS_PER_MS)
      BY <1>4, <1>5, PollDeadline
    <2>2. elapsed' + remaining_ms' * TICKS_PER_MS = end
      BY <1>4
    <2> HIDE DEF end
    <2>3. end <= timeout + held
      BY <1>5, <2>1
    <2> QED BY <1>4, <2>1, <2>2, <2>3 DEF TimedWaits, NotBefore
  <1>8. CallInv'
    BY <1>1, <1>2, <1>4, <1>5, <1>6, <1>7
       DEF CallInv, CallTypeOK, PollsEmpty, NoOversleep, PollWaits, PollsWithTime
  <1> QED BY <1>1, <1>2, <1>3, <1>4, <1>8, QuietData, QuietDrain
          DEF IInv, TypeOK, DataInv, CallInv, DrainInv

(* Calling poll: the wait begins, late by what the thread has lost. *)
LEMMA LoopPollInv ==
  ASSUME IInv, LoopPoll
  PROVE  IInv'
  <1>1. DataInv /\ CallInv /\ DrainInv
    BY IInvParts
  <1>2. UNCHANGED <<ring, ring_size, ring_count, ignore_self_injected, filter, capture, burst, last>>
    BY DEF LoopPoll, object, history, ring
  <1>3. burst' \in Seq(AirFrames)
    BY <1>1, <1>2 DEF DataInv, CaptureTypeOK
  <1>4. /\ pc = "timed" /\ pc' = "poll" /\ remaining_ms' = 0
        /\ wake' = elapsed + remaining_ms * TICKS_PER_MS
        /\ UNCHANGED <<buf_len, timeout, elapsed, held>>
    BY DEF LoopPoll
  <1>5. wake' \in Nat
    <2>1. elapsed \in Nat /\ remaining_ms \in Nat /\ TICKS_PER_MS \in Nat
      BY <1>1, BoundAssumption DEF CallInv, CallTypeOK
    <2> QED BY <1>4, <2>1
  <1>6. NoOversleep' /\ PollWaits' /\ TimedWaits'
    BY <1>1, <1>4 DEF CallInv, NoOversleep, PollWaits, TimedWaits, NotBefore
  <1>7. CallInv'
    BY <1>1, <1>2, <1>4, <1>5, <1>6 DEF CallInv, CallTypeOK, PollsEmpty, PollsWithTime
  <1> QED BY <1>1, <1>2, <1>3, <1>4, <1>7, QuietData, QuietDrain
          DEF IInv, TypeOK, DataInv, CallInv, DrainInv

(* poll returns to the loop or starts a drain; the ring is empty, so the   *)
(* drain starts with Contents and burst both empty.                        *)
LEMMA PollWakesInv ==
  ASSUME IInv, PollInterrupted \/ PollReady
  PROVE  IInv'
  <1>1. DataInv /\ CallInv /\ DrainInv
    BY IInvParts
  <1>2. UNCHANGED <<ring, ring_size, ring_count, ignore_self_injected, filter, capture, burst, last>>
    BY DEF PollInterrupted, PollReady, object, history, ring
  <1>3. burst' \in Seq(AirFrames)
    BY <1>1, <1>2 DEF DataInv, CaptureTypeOK
  <1>4. /\ pc = "poll" /\ pc' \in {"loop", "drain"} /\ held' = 0 /\ wake' = 0
        /\ UNCHANGED <<buf_len, timeout, elapsed, remaining_ms>>
    BY DEF PollInterrupted, PollReady
  <1>5. CallInv'
    BY <1>1, <1>2, <1>4 DEF CallInv, CallTypeOK, PollsEmpty, NoOversleep, PollWaits, TimedWaits, NotBefore, PollsWithTime
  <1>6. DataInv' /\ Contents' = Contents
    BY <1>1, <1>2, <1>3, QuietData
  <1>7. DrainInv'
    <2>1. burst' = << >> /\ Contents' = << >>
      BY <1>1, <1>2, <1>4, <1>6, EmptyContents
         DEF DrainInv, BurstInDrain, CallInv, PollsEmpty
    <2>2. ring_size \in Nat
      BY <1>1 DEF DataInv, RingTypeOK, MinRing, MaxRing
    <2>3. SubSeq(<< >>, 1, Smaller(Len(<< >>), ring_size)) = << >>
      BY <2>2, EmptySeq, SubSeqEmpty DEF Smaller
    <2> QED BY <1>2, <2>1, <2>3 DEF DrainInv, BurstInDrain, DrainKeepsOldest
  <1> QED BY <1>5, <1>6, <1>7 DEF IInv, TypeOK, DataInv, CallInv, DrainInv

(* The end of a drain: the frames it read are in the ring or were overflow. *)
LEMMA DrainEndInv ==
  ASSUME IInv, DrainEnd
  PROVE  IInv'
  <1>1. DataInv /\ CallInv /\ DrainInv
    BY IInvParts
  <1>2. UNCHANGED <<ring, ring_size, ignore_self_injected, filter, capture, last>>
    BY DEF DrainEnd, object, ring
  <1>3. burst' = << >> /\ burst' \in Seq(AirFrames)
    BY EmptySeq DEF DrainEnd
  <1>4. pc = "drain" /\ pc' = "loop" /\ UNCHANGED <<buf_len, timeout, elapsed, remaining_ms, held, wake>>
    BY DEF DrainEnd
  <1>5. CallInv'
    BY <1>1, <1>2, <1>4 DEF CallInv, CallTypeOK, PollsEmpty, NoOversleep, PollWaits, TimedWaits, NotBefore, PollsWithTime
  <1>6. DataInv' /\ DrainInv'
    BY <1>1, <1>2, <1>3, <1>4, QuietData DEF DrainInv, BurstInDrain, DrainKeepsOldest
  <1> QED BY <1>5, <1>6 DEF IInv, TypeOK, DataInv, CallInv, DrainInv

(* Time, and an open that fails, touch neither frames nor packets. *)
LEMMA OutsideInv ==
  ASSUME IInv, Tick \/ \E cfg \in Configs : OpenFails(cfg)
  PROVE  IInv'
  <1>1. DataInv /\ CallInv /\ DrainInv
    BY IInvParts
  <1>2. UNCHANGED <<ring, ring_size, ring_count, ignore_self_injected, filter, capture, burst, last>>
    BY DEF Tick, OpenFails, object, history, ring
  <1>3. burst' \in Seq(AirFrames)
    BY <1>1, <1>2 DEF DataInv, CaptureTypeOK
  <1>4. /\ UNCHANGED <<pc, buf_len, timeout, remaining_ms, wake>>
        /\ \/ UNCHANGED <<elapsed, held>>
           \/ /\ elapsed < MaxElapsed /\ elapsed' = elapsed + 1
              /\ held' = IF pc = "timed" THEN held + 1 ELSE held
    BY DEF Tick, OpenFails
  <1>5. CallInv'
    <2>1. elapsed' \in 0 .. MaxElapsed /\ held' \in Nat /\ held' >= held
      BY <1>1, <1>4, BoundAssumption DEF CallInv, CallTypeOK
    <2>2. TimedWaits'
      <3> DEFINE x == remaining_ms * TICKS_PER_MS
      <3>1. /\ x \in Nat /\ TICKS_PER_MS \in Nat /\ I32_MAX_MS * TICKS_PER_MS \in Nat
            /\ elapsed \in Nat /\ held \in Nat /\ timeout \in Nat
        BY <1>1, BoundAssumption DEF CallInv, CallTypeOK
      <3>2. remaining_ms' * TICKS_PER_MS = x
        BY <1>4
      <3>3. pc = "timed" => NotBefore(elapsed + x) /\ elapsed + x <= timeout + held
        BY <1>1 DEF CallInv, TimedWaits
      <3> HIDE DEF x
      <3> QED BY <1>4, <3>1, <3>2, <3>3 DEF TimedWaits, NotBefore
    <2>3. NoOversleep' /\ PollWaits'
      BY <1>1, <1>4 DEF CallInv, NoOversleep, PollWaits, NotBefore
    <2> QED BY <1>1, <1>2, <1>4, <2>1, <2>2, <2>3 DEF CallInv, CallTypeOK, PollsEmpty, PollsWithTime
  <1> QED BY <1>1, <1>2, <1>3, <1>4, <1>5, QuietData, QuietDrain
          DEF IInv, TypeOK, DataInv, CallInv, DrainInv
(* A prefix that ends before the last element does not see an append. *)
LEMMA PrefixOfAppend ==
  ASSUME NEW S, NEW b \in Seq(S), NEW e \in S, NEW k \in 0 .. Len(b)
  PROVE  SubSeq(Append(b, e), 1, k) = SubSeq(b, 1, k)
  <1>1. /\ Append(b, e) \in Seq(S) /\ Len(Append(b, e)) = Len(b) + 1 /\ Len(b) \in Nat
        /\ \A i \in 1 .. Len(b) : Append(b, e)[i] = b[i]
    BY AppendProperties, LenProperties
  <1>2. /\ SubSeq(Append(b, e), 1, k) = [i \in 1 .. k |-> Append(b, e)[i]]
        /\ SubSeq(b, 1, k) = [i \in 1 .. k |-> b[i]]
    <2>1. k \in 0 .. Len(Append(b, e))
      BY <1>1
    <2> QED BY <1>1, <2>1, PrefixAsFunction
  <1>3. \A i \in 1 .. k : Append(b, e)[i] = b[i]
    BY <1>1
  <1> QED BY <1>2, <1>3

(* One packet is read: its frame joins the ring, or is dropped behind      *)
(* ring_size older ones of the same drain, or it was not for us.           *)
LEMMA DrainOneInv ==
  ASSUME IInv, DrainOne
  PROVE  IInv'
  <1> DEFINE p == Head(kbuf)
             f == FrameOf(p)
  <1>1. DataInv /\ CallInv /\ DrainInv
    BY IInvParts
  <1>2. /\ pc = "drain" /\ pc' = "drain" /\ kbuf # << >> /\ kbuf' = Tail(kbuf)
        /\ UNCHANGED <<ignore_self_injected, filter, buf_len, timeout, elapsed, remaining_ms, held, wake, arrived, last>>
    BY DEF DrainOne, call
  <1>3. /\ ring_size \in Nat \ {0} /\ ring_count \in 0 .. ring_size
        /\ ignore_self_injected \in BOOLEAN
        /\ kbuf \in Seq(AirPackets) /\ burst \in Seq(AirFrames)
        /\ arrived \in Nat /\ last \in Nat
    BY <1>1, <1>2, BoundAssumption
       DEF DataInv, CallInv, CallTypeOK, CaptureTypeOK, RingTypeOK, MinRing, MaxRing
  <1>4. /\ p \in AirPackets /\ p = kbuf[1] /\ 1 \in 1 .. Len(kbuf)
        /\ kbuf' \in Seq(AirPackets)
    BY <1>2, <1>3, HeadTailProperties, LenProperties, EmptySeq
  <1>5. ASSUME NEW j \in 1 .. Len(kbuf')
        PROVE  kbuf'[j] = kbuf[j + 1] /\ j + 1 \in 1 .. Len(kbuf) /\ 1 < j + 1
    BY <1>2, <1>3, HeadTailProperties, LenProperties
  <1>6. /\ Len(Contents) = ring_count
        /\ \A i \in 1 .. ring_count : RingSeq(i) \in Nat
    <2>1. ring_count \in Nat
      BY <1>3
    <2>2. Len(Contents) = ring_count /\ \A i \in 1 .. ring_count : Contents[i] \in AirFrames
      BY <1>1, <2>1, ContentsLength DEF DataInv
    <2> QED BY <2>2, AirFrameType, BoundAssumption DEF RingSeq
  <1>7. \A j \in 1 .. Len(kbuf) : kbuf[j].hdr.seq \in Nat
    BY <1>3, ElementOfSeq, AirPacketType, BoundAssumption
  <1> HIDE DEF p, f
  <1>8. ASSUME UNCHANGED <<ring, ring_size, ring_count>>, burst' \in Seq(AirFrames)
        PROVE  DataInv' /\ CallInv' /\ Contents' = Contents
    <2>1. Contents' = Contents /\ RingTypeOK' /\ RingShape'
      BY <1>1, <1>8, SameContents DEF DataInv
    <2>2. \A i \in 1 .. ring_count : RingSeq(i)' = RingSeq(i)
      BY <2>1 DEF RingSeq
    <2>3. InOrder'
      <3>1. \A i, j \in 1 .. Len(kbuf') : i < j => kbuf'[i].hdr.seq < kbuf'[j].hdr.seq
        <4> SUFFICES ASSUME NEW i \in 1 .. Len(kbuf'), NEW j \in 1 .. Len(kbuf'), i < j
                     PROVE  kbuf'[i].hdr.seq < kbuf'[j].hdr.seq
          OBVIOUS
        <4>1. i + 1 < j + 1
          BY <1>5
        <4> QED BY <1>1, <1>5, <4>1 DEF DataInv, InOrder
      <3>2. ASSUME NEW j \in 1 .. Len(kbuf')
            PROVE  /\ last < kbuf'[j].hdr.seq
                   /\ \A i \in 1 .. ring_count : RingSeq(i) < kbuf'[j].hdr.seq
        BY <1>1, <1>5 DEF DataInv, InOrder
      <3> QED BY <1>1, <1>2, <1>8, <2>2, <3>1, <3>2 DEF DataInv, InOrder
    <2>4. Numbered'
      BY <1>1, <1>2, <1>5, <1>8, <2>2 DEF DataInv, Numbered
    <2>5. CaptureTypeOK'
      BY <1>1, <1>2, <1>4, <1>8 DEF DataInv, CaptureTypeOK
    <2>6. CallInv'
      BY <1>1, <1>2, <1>8 DEF CallInv, CallTypeOK, PollsEmpty, NoOversleep, PollWaits, TimedWaits, NotBefore, PollsWithTime
    <2> QED BY <1>1, <2>1, <2>3, <2>4, <2>5, <2>6 DEF DataInv
  <1>9. CASE ~ Accepts(p, ignore_self_injected)
    <2>1. UNCHANGED <<ring, burst>>
      BY <1>9 DEF DrainOne, p
    <2>2. UNCHANGED <<ring_size, ring_count>>
      BY <2>1 DEF ring
    <2>3. DataInv' /\ CallInv' /\ Contents' = Contents
      BY <1>3, <1>8, <2>1, <2>2
    <2>4. DrainInv'
      BY <1>1, <1>2, <2>1, QuietDrain
    <2> QED BY <2>3, <2>4 DEF IInv, TypeOK, DataInv, CallInv, DrainInv
  <1>10. CASE Accepts(p, ignore_self_injected)
    <2>1. Enqueue(f) /\ burst' = Append(burst, f)
      BY <1>10 DEF DrainOne, p, f
    <2>2. f \in AirFrames
      BY <1>3, <1>4, <1>10 DEF AirFrames, f
    <2>3. f.meta.seq = p.hdr.seq
      BY <1>3, <1>4, <1>10, AirPacketType, FrameOfType DEF f
    <2>4. /\ burst' \in Seq(AirFrames) /\ Len(burst') = Len(burst) + 1 /\ Len(burst) \in Nat
      BY <1>3, <2>1, <2>2, AppendProperties, LenProperties
    <2>5. Contents = SubSeq(burst, 1, Smaller(Len(burst), ring_size))
      BY <1>1, <1>2 DEF DrainInv, DrainKeepsOldest
    <2>6. Len(Contents) = Smaller(Len(burst), ring_size)
      <3>1. \A k \in 1 .. Smaller(Len(burst), ring_size) : burst[k] \in AirFrames
        BY <1>3, <2>4, ElementOfSeq DEF Smaller
      <3>2. Smaller(Len(burst), ring_size) \in Nat /\ 1 \in Int
        BY <1>3, <2>4 DEF Smaller
      <3> QED BY <2>5, <3>1, <3>2, SubSeqProperties
    <2>7. CASE RingFull
      <3>1. UNCHANGED ring
        BY <2>1, <2>7 DEF Enqueue
      <3>2. UNCHANGED <<ring_size, ring_count>>
        BY <3>1 DEF ring
      <3>3. DataInv' /\ CallInv' /\ Contents' = Contents
        BY <1>8, <2>4, <3>1, <3>2
      <3>4. ring_size \in 0 .. Len(burst)
        BY <1>3, <1>6, <2>4, <2>6, <2>7 DEF RingFull, Smaller
      <3>5. SubSeq(burst', 1, ring_size) = SubSeq(burst, 1, ring_size)
        BY <1>3, <2>1, <2>2, <3>4, PrefixOfAppend
      <3>6. Smaller(Len(burst), ring_size) = ring_size /\ Smaller(Len(burst'), ring_size) = ring_size
        BY <1>3, <2>4, <3>4 DEF Smaller
      <3>7. DrainInv'
        <4>1. Contents' = SubSeq(burst', 1, Smaller(Len(burst'), ring_size))
          BY <2>5, <3>3, <3>5, <3>6
        <4> QED BY <1>2, <3>2, <4>1 DEF DrainInv, BurstInDrain, DrainKeepsOldest, Smaller
      <3> QED BY <3>3, <3>7 DEF IInv, TypeOK, DataInv, CallInv, DrainInv
    <2>8. CASE ~ RingFull
      <3>1. Contents' = Append(Contents, f) /\ RingTypeOK' /\ RingShape'
        BY <1>1, <1>3, <2>1, <2>2, <2>8, EnqueueContents DEF DataInv
      <3>2. ring_count' = ring_count + 1 /\ ring_size' = ring_size
        BY <2>1, <2>8 DEF Enqueue
      <3>3. /\ Contents' \in Seq(AirFrames)
            /\ \A i \in 1 .. ring_count : RingSeq(i)' = RingSeq(i)
            /\ \A i \in 1 .. ring_count + 1 : i = ring_count + 1 => RingSeq(i)' = p.hdr.seq
        BY <1>1, <1>6, <2>2, <2>3, <3>1, AppendProperties DEF DataInv, RingSeq
      <3>4. ASSUME NEW i \in 1 .. ring_count + 1
            PROVE  i \in 1 .. ring_count \/ i = ring_count + 1
        BY <1>3
      <3>5. InOrder'
        <4>1. \A i, j \in 1 .. ring_count + 1 : i < j => RingSeq(i)' < RingSeq(j)'
          <5> SUFFICES ASSUME NEW i \in 1 .. ring_count + 1, NEW j \in 1 .. ring_count + 1, i < j
                       PROVE  RingSeq(i)' < RingSeq(j)'
            OBVIOUS
          <5>1. i \in 1 .. ring_count /\ RingSeq(i)' = RingSeq(i)
            BY <1>3, <3>3
          <5>2. CASE j \in 1 .. ring_count
            BY <1>1, <3>3, <5>1, <5>2 DEF DataInv, InOrder
          <5>3. CASE j = ring_count + 1
            BY <1>1, <1>4, <3>3, <5>1, <5>3 DEF DataInv, InOrder
          <5> QED BY <3>4, <5>2, <5>3
        <4>2. \A i, j \in 1 .. Len(kbuf') : i < j => kbuf'[i].hdr.seq < kbuf'[j].hdr.seq
          <5> SUFFICES ASSUME NEW i \in 1 .. Len(kbuf'), NEW j \in 1 .. Len(kbuf'), i < j
                       PROVE  kbuf'[i].hdr.seq < kbuf'[j].hdr.seq
            OBVIOUS
          <5>1. i + 1 < j + 1
            BY <1>5
          <5> QED BY <1>1, <1>5, <5>1 DEF DataInv, InOrder
        <4>3. ASSUME NEW i \in 1 .. ring_count + 1, NEW j \in 1 .. Len(kbuf')
              PROVE  RingSeq(i)' < kbuf'[j].hdr.seq
          <5>1. CASE i \in 1 .. ring_count
            BY <1>1, <1>5, <3>3, <5>1 DEF DataInv, InOrder
          <5>2. CASE i = ring_count + 1
            BY <1>1, <1>4, <1>5, <3>3, <5>2 DEF DataInv, InOrder
          <5> QED BY <3>4, <5>1, <5>2
        <4>4. ASSUME NEW i \in 1 .. ring_count + 1
              PROVE  last < RingSeq(i)'
          <5>1. CASE i \in 1 .. ring_count
            BY <1>1, <3>3, <5>1 DEF DataInv, InOrder
          <5>2. CASE i = ring_count + 1
            BY <1>1, <1>4, <3>3, <5>2 DEF DataInv, InOrder
          <5> QED BY <3>4, <5>1, <5>2
        <4>5. \A j \in 1 .. Len(kbuf') : last < kbuf'[j].hdr.seq
          BY <1>1, <1>5 DEF DataInv, InOrder
        <4> QED BY <1>2, <3>2, <4>1, <4>2, <4>3, <4>4, <4>5 DEF InOrder
      <3>6. Numbered'
        <4>1. ASSUME NEW i \in 1 .. ring_count + 1
              PROVE  RingSeq(i)' <= arrived
          <5>1. CASE i \in 1 .. ring_count
            BY <1>1, <3>3, <5>1 DEF DataInv, Numbered
          <5>2. CASE i = ring_count + 1
            BY <1>1, <1>4, <3>3, <5>2 DEF DataInv, Numbered
          <5> QED BY <3>4, <5>1, <5>2
        <4> QED BY <1>1, <1>2, <1>5, <3>2, <4>1 DEF DataInv, Numbered
      <3>7. CaptureTypeOK'
        BY <1>1, <1>2, <1>4, <2>4 DEF DataInv, CaptureTypeOK
      <3>8. CallInv'
        BY <1>1, <1>2, <3>2 DEF CallInv, CallTypeOK, PollsEmpty, NoOversleep, PollWaits, TimedWaits, NotBefore, PollsWithTime
      <3>9. DrainInv'
        <4>1. Len(burst) < ring_size /\ Smaller(Len(burst), ring_size) = Len(burst)
          BY <1>3, <1>6, <2>4, <2>6, <2>8 DEF RingFull, Smaller
        <4>2. Contents = burst
          BY <1>3, <2>5, <4>1, SubSeqFull
        <4>3. Smaller(Len(burst'), ring_size) = Len(burst')
          BY <1>3, <2>4, <4>1 DEF Smaller
        <4>4. SubSeq(burst', 1, Len(burst')) = burst'
          BY <2>4, SubSeqFull
        <4>5. Contents' = SubSeq(burst', 1, Smaller(Len(burst'), ring_size'))
          BY <2>1, <3>1, <3>2, <4>2, <4>3, <4>4
        <4> QED BY <1>2, <4>5 DEF DrainInv, BurstInDrain, DrainKeepsOldest, Smaller
      <3> QED BY <3>1, <3>3, <3>5, <3>6, <3>7, <3>8, <3>9
              DEF IInv, TypeOK, DataInv, CallInv, DrainInv
    <2> QED BY <2>7, <2>8
  <1> QED BY <1>9, <1>10
-----------------------------------------------------------------------------
(* Every step of the receiver and of what surrounds it keeps the invariant. *)
LEMMA NextInv ==
  ASSUME IInv, [Next]_vars
  PROVE  IInv'
  <1> USE DEF IInv, TypeOK, CallTypeOK
  <1>1. ASSUME NEW cfg \in Configs, Open(cfg) PROVE IInv'
    BY <1>1, OpenInv
  <1>2. ASSUME NEW cfg \in Configs, OpenFails(cfg) PROVE IInv'
    BY <1>2, OutsideInv
  <1>3. CASE Close
    BY <1>3, CloseInv
  <1>4. ASSUME NEW p \in Air, Arrive(p) PROVE IInv'
    BY <1>4, ArriveInv
  <1>5. CASE Tick
    BY <1>5, OutsideInv
  <1>6. CASE RecvEmptyBuf
    BY <1>6, ReturnInv DEF RecvEmptyBuf
  <1>7. ASSUME NEW n \in BufSizes, RecvReady(n) PROVE IInv'
    BY <1>7, PopInv, BoundAssumption DEF RecvReady
  <1>8. ASSUME NEW n \in BufSizes, NEW t \in Timeouts, RecvWait(n, t) PROVE IInv'
    BY <1>8, RecvWaitInv
  <1>9. CASE LoopPop
    BY <1>9, PopInv, BoundAssumption DEF LoopPop
  <1>10. CASE LoopExpired
    BY <1>10, ReturnInv DEF LoopExpired
  <1>11. CASE LoopTime \/ LoopPoll
    BY <1>11, LoopTimeInv, LoopPollInv
  <1>12. CASE PollTimeout
    BY <1>12, ReturnInv DEF PollTimeout
  <1>13. CASE PollFails
    BY <1>13, ReturnInv DEF PollFails
  <1>14. CASE PollInterrupted \/ PollReady
    BY <1>14, PollWakesInv
  <1>15. CASE DrainOne
    BY <1>15, DrainOneInv
  <1>16. CASE DrainEnd
    BY <1>16, DrainEndInv
  <1>17. CASE UNCHANGED vars
    <2>1. UNCHANGED <<ring, ring_size, ring_count, ignore_self_injected, filter, capture, burst, last,
                      pc, buf_len, timeout, elapsed, remaining_ms, held, wake>>
      BY <1>17 DEF vars, object, ring, call, capture, history
    <2>2. DataInv /\ CallInv /\ DrainInv
      BY IInvParts
    <2>3. burst' \in Seq(AirFrames)
      BY <2>1, <2>2 DEF DataInv, CaptureTypeOK
    <2>4. CallInv'
      BY <2>1, <2>2 DEF CallInv, PollsEmpty, NoOversleep, PollWaits, TimedWaits, NotBefore, PollsWithTime
    <2> QED BY <2>1, <2>2, <2>3, <2>4, QuietData, QuietDrain DEF DataInv, CallInv, DrainInv
  <1> QED
    BY <1>1, <1>2, <1>3, <1>4, <1>5, <1>6, <1>7, <1>8, <1>9, <1>10, <1>11, <1>12, <1>13,
       <1>14, <1>15, <1>16, <1>17
    DEF Next, Recv, RecvCall

(* The inductive invariant holds in every state of every execution. *)
THEOREM Invariant == Spec => []IInv
  <1>1. Init => IInv
    BY InitInv
  <1>2. IInv /\ [Next]_vars => IInv'
    BY NextInv
  <1> QED BY <1>1, <1>2, PTL DEF Spec

(* Every variable keeps its type: the indices stay inside the ring, the    *)
(* lengths inside a slot, the flat store at ring_size slots.               *)
THEOREM TypeCorrect == Spec => []TypeOK
  <1>1. IInv => TypeOK
    BY DEF IInv
  <1> QED BY <1>1, Invariant, PTL

(* Frames leave recv in the order of the capture, none of them twice. *)
THEOREM Ordered == Spec => []InOrder
  <1>1. IInv => InOrder
    BY DEF IInv
  <1> QED BY <1>1, Invariant, PTL

(* A drain drops a good frame only behind ring_size older ones. *)
THEOREM OldestKept == Spec => []DrainKeepsOldest
  <1>1. IInv => DrainKeepsOldest
    BY DEF IInv
  <1> QED BY <1>1, Invariant, PTL

(* poll never waits past the deadline of recv by more than what the thread *)
(* has lost between its last look at the clock and the start of poll.      *)
THEOREM WaitsInTime == Spec => []NoOversleep
  <1>1. IInv => NoOversleep
    BY DEF IInv
  <1> QED BY <1>1, Invariant, PTL

(* A result that is not a timeout is not taken for one. *)
LEMMA NotTimeout ==
  /\ NoResult # Timeout
  /\ \A c : Failure(c) # Timeout
  BY DEF NoResult, Timeout, Failure, Queue!NoResult, Queue!Timeout, Queue!Failure
(* recv reports a timeout only with an empty ring, at its deadline or less *)
(* than a millisecond before it, or after the longest wait poll can do.    *)
THEOREM HonestTimeouts == Spec => TimeoutHonest
  <1> DEFINE InTime == /\ ring_count = 0
                       /\ \/ elapsed + TICKS_PER_MS > timeout
                          \/ elapsed >= I32_MAX_MS * TICKS_PER_MS
  <1>1. ASSUME IInv, Next, Expires
        PROVE  InTime
    <2>1. /\ pc \in {"loop", "poll"} /\ pc' = "idle" /\ result' = Timeout
          /\ elapsed \in Nat /\ timeout \in Nat /\ wake \in Nat
          /\ TICKS_PER_MS \in Nat \ {0} /\ I32_MAX_MS * TICKS_PER_MS \in Nat
      BY <1>1, BoundAssumption DEF Expires, IInv, TypeOK, CallTypeOK
    <2>2. CASE LoopPop
      BY <2>1, <2>2 DEF LoopPop, PopOne, Return, Timeout, Queue!Timeout
    <2>3. CASE LoopExpired
      BY <2>1, <2>3 DEF LoopExpired
    <2>4. CASE PollTimeout
      <3>1. ring_count = 0 /\ elapsed >= wake
        BY <1>1, <2>4 DEF PollTimeout, IInv, PollsEmpty
      <3>2. wake + TICKS_PER_MS > timeout \/ wake >= I32_MAX_MS * TICKS_PER_MS
        BY <1>1, <2>4 DEF PollTimeout, IInv, PollWaits, NotBefore
      <3> QED BY <2>1, <3>1, <3>2
    <2>5. CASE PollFails
      BY <2>1, <2>5, NotTimeout DEF PollFails, Return
    <2>6. CASE LoopTime \/ LoopPoll \/ PollInterrupted \/ PollReady \/ DrainOne \/ DrainEnd
      BY <2>1, <2>6 DEF LoopTime, LoopPoll, PollInterrupted, PollReady, DrainOne, DrainEnd, call
    <2>7. CASE RecvCall
      BY <2>1, <2>7 DEF RecvCall, RecvEmptyBuf, RecvReady, RecvWait
    <2>8. CASE Close \/ Tick \/ (\E cfg \in Configs : Open(cfg) \/ OpenFails(cfg))
      BY <2>1, <2>8 DEF Close, Tick, Open, OpenFails
    <2>9. CASE \E p \in Air : Arrive(p)
      BY <2>1, <2>9 DEF Arrive, call
    <2> QED BY <1>1, <2>2, <2>3, <2>4, <2>5, <2>6, <2>7, <2>8, <2>9 DEF Next, Recv
  <1>2. IInv /\ [Next]_vars => [Expires => InTime]_vars
    BY <1>1
  <1> QED BY <1>2, Invariant, PTL DEF Spec, TimeoutHonest

(* A step that takes a packet out of the capture of an open receiver. *)
Reads == Len(kbuf') < Len(kbuf) /\ pc' # "closed"

(* Only a call with time to wait reaches the capture. *)
LEMMA ReadersWait ==
  ASSUME IInv, Next, Reads
  PROVE  timeout > 0
  <1>1. kbuf \in Seq(AirPackets) /\ Len(kbuf') < Len(kbuf) /\ pc' # "closed"
    BY DEF Reads, IInv, TypeOK, CaptureTypeOK
  <1>2. ~ (kbuf' = kbuf)
    BY <1>1
  <1>3. CASE DrainOne
    BY <1>3 DEF DrainOne, IInv, PollsWithTime
  <1>4. CASE \E p \in Air : Arrive(p)
    <2>1. PICK p \in Air : Arrive(p)
      BY <1>4
    <2>2. kbuf' = Append(kbuf, Stamped(p, arrived'))
      BY <2>1 DEF Arrive
    <2> DEFINE x == Stamped(p, arrived')
    <2> HIDE DEF x
    <2>3. Len(Append(kbuf, x)) = Len(kbuf) + 1
      BY <1>1
    <2> QED BY <1>1, <2>2, <2>3 DEF x
  <1>5. CASE Close
    BY <1>1, <1>5 DEF Close
  <1>6. CASE RecvCall
    BY <1>2, <1>6 DEF RecvCall, RecvEmptyBuf, RecvReady, RecvWait, PopOne, capture
  <1>7. CASE LoopPop \/ LoopExpired \/ LoopTime \/ LoopPoll
    BY <1>2, <1>7 DEF LoopPop, LoopExpired, LoopTime, LoopPoll, PopOne, capture
  <1>8. CASE PollTimeout \/ PollInterrupted \/ PollFails \/ PollReady \/ DrainEnd
    BY <1>2, <1>8 DEF PollTimeout, PollInterrupted, PollFails, PollReady, DrainEnd, capture
  <1>9. CASE Tick \/ (\E cfg \in Configs : Open(cfg) \/ OpenFails(cfg))
    BY <1>2, <1>9 DEF Tick, Open, OpenFails, capture
  <1> QED BY <1>3, <1>4, <1>5, <1>6, <1>7, <1>8, <1>9 DEF Next, Recv

(* A program whose only timeout is zero: what arrives stays in the capture *)
(* until the receiver is dropped, whatever arrives and however often recv  *)
(* is called.  The run RxZeroTimeout shows the loss on a small instance;   *)
(* this is every instance.                                                 *)
THEOREM ZeroTimeoutNeverReads ==
  ASSUME Timeouts \subseteq {0}
  PROVE  Spec => [][~ Reads]_vars
  <1>1. IInv => timeout = 0
    BY DEF IInv, TypeOK, CallTypeOK
  <1>2. IInv /\ [Next]_vars => [~ Reads]_vars
    BY <1>1, ReadersWait
  <1> QED BY <1>2, Invariant, PTL DEF Spec
-----------------------------------------------------------------------------
(* What a caller gets is the first frame of the ring, cut to its buffer.   *)
LEMMA PopIsCut ==
  ASSUME RingTypeOK, Contents \in Seq(AirFrames), ring_count > 0,
         NEW room \in Nat, PopOne(room)
  PROVE  result' = Queue!Cut(Head(Contents), room)
  <1> DEFINE len == ring_payload_len[ring_head]
             bytes == [j \in 1 .. len |-> ring_payload_store[SlotOffset(ring_head) + j - 1]]
             k == Smaller(len, room)
  <1>1. /\ ring_size \in Nat \ {0} /\ ring_count \in 1 .. ring_size
        /\ ring_head \in 0 .. ring_size - 1 /\ len \in 0 .. compute_max_payload
    BY DEF RingTypeOK, MinRing, MaxRing
  <1>2. Head(Contents) = [payload |-> bytes, meta |-> ring_meta[ring_head]]
    <2>1. 1 \in 1 .. ring_size /\ ring_count \in Nat
      BY <1>1
    <2>2. Slot(1) = IF ring_head + 1 - 1 < ring_size THEN ring_head + 1 - 1
                    ELSE ring_head + 1 - 1 - ring_size
      BY <2>1, <1>1, SlotType
    <2>3. Slot(1) = ring_head
      BY <1>1, <2>2
    <2>4. Contents[1] = FrameAt(ring_head)
      BY <1>1, <2>3 DEF Contents
    <2>5. Head(Contents) = Contents[1]
      BY <1>1, <2>1, ContentsLength
    <2> QED BY <2>4, <2>5 DEF FrameAt
  <1>3. Head(Contents) \in AirFrames
    <2>1. Contents # << >>
      BY <1>1, ContentsLength
    <2> QED BY <2>1, HeadTailProperties
  <1>4. bytes \in Seq(Byte) /\ Len(bytes) = len
    <2>1. Head(Contents).payload = bytes
      BY <1>2
    <2>2. bytes \in Seq(Byte)
      BY <1>3, <2>1, AirFrameType
    <2>3. DOMAIN bytes = 1 .. len /\ DOMAIN bytes = 1 .. Len(bytes) /\ Len(bytes) \in Nat
      BY <2>2, LenProperties
    <2>4. len \in Nat
      BY <1>1, MaxPayloadType
    <2> HIDE DEF bytes, len
    <2>5. Len(bytes) = len
      BY <2>3, <2>4, SameInterval
    <2> QED BY <2>2, <2>5
  <1>5. k \in 0 .. len /\ k = IF len <= room THEN len ELSE room
    BY <1>1, MaxPayloadType DEF Smaller
  <1>6. result' = [tag  |-> "frame",
                   data |-> [j \in 1 .. k |-> ring_payload_store[SlotOffset(ring_head) + j - 1]],
                   meta |-> [ring_meta[ring_head] EXCEPT !.truncated = k # len]]
    BY DEF PopOne, Return
  <1>7. SubSeq(bytes, 1, k) = [j \in 1 .. k |-> ring_payload_store[SlotOffset(ring_head) + j - 1]]
    <2>1. \A j \in 1 .. k : bytes[j] = ring_payload_store[SlotOffset(ring_head) + j - 1]
      BY <1>5, <1>1, MaxPayloadType
    <2> HIDE DEF bytes, k, len
    <2>2. SubSeq(bytes, 1, k) = [j \in 1 .. k |-> bytes[j]]
      BY <1>1, <1>4, <1>5, MaxPayloadType, PrefixAsFunction
    <2> QED BY <2>1, <2>2
  <1>8. Queue!Cut(Head(Contents), room) =
          [tag |-> "frame", data |-> SubSeq(bytes, 1, k),
           meta |-> [ring_meta[ring_head] EXCEPT !.truncated = k # len]]
    <2>1. Head(Contents).payload = bytes /\ Head(Contents).meta = ring_meta[ring_head]
      BY <1>2
    <2> HIDE DEF bytes, k, len
    <2> QED BY <1>4, <1>5, <2>1 DEF Queue!Cut
  <1> QED BY <1>6, <1>7, <1>8
(* The program starts as the queue does. *)
LEMMA RefinesInit == Init => Queue!Init
  BY EmptyContents DEF Init, Queue!Init, NoResult

(* Each step is a step of the queue or changes nothing the queue has. *)
LEMMA RefinesNext ==
  ASSUME IInv, IInv', [Next]_vars
  PROVE  [Queue!Next]_(Queue!vars)
  <1>1. /\ DataInv /\ CallInv
        /\ RingTypeOK /\ RingShape /\ CallTypeOK /\ Contents \in Seq(AirFrames)
    BY IInvParts DEF DataInv, CallInv
  <1>2. /\ ring_count \in Nat /\ ring_size \in Nat /\ ring_count <= ring_size
        /\ Len(Contents) = ring_count
        /\ ring_size = 0 <=> pc = "closed"
    <2>1. ring_count \in Nat /\ ring_size \in Nat /\ ring_count <= ring_size
      BY <1>1 DEF RingTypeOK, MinRing, MaxRing
    <2>2. Len(Contents) = ring_count
      BY <1>1, <2>1, ContentsLength
    <2> QED BY <1>1, <2>1, <2>2 DEF CallTypeOK
  <1> DEFINE Stutter == UNCHANGED <<ring_size, Contents, result>>
  <1>3. Stutter => [Queue!Next]_(Queue!vars)
    BY DEF Queue!vars
  <1>4. UNCHANGED ring => UNCHANGED <<ring_size, Contents>>
    BY SameContents DEF ring
  <1>5. ASSUME UNCHANGED ring, NEW c \in {"InvalidArgument", "Io", "Pcap"}, result' = Failure(c)
        PROVE  Queue!Next
    BY <1>4, <1>5 DEF Queue!Next, Queue!Fail, Queue!Codes, Failure
  <1>6. ASSUME UNCHANGED ring, pc # "closed", ring_count = 0, result' = Timeout
        PROVE  Queue!Next
    BY <1>2, <1>4, <1>6, EmptyContents DEF Queue!Next, Queue!GiveUp, Timeout
  <1>7. ASSUME NEW n \in BufSizes, PopOne(n), ring_count > 0
        PROVE  Queue!Next
    <2>1. n \in Nat
      BY BoundAssumption
    <2>2. Contents' = Tail(Contents) /\ result' = Queue!Cut(Head(Contents), n)
      BY <1>1, <1>7, <2>1, PopContents, PopIsCut
    <2>3. Contents # << >> /\ ring_size' = ring_size
      BY <1>2, <1>7 DEF PopOne
    <2> QED BY <2>2, <2>3 DEF Queue!Next, Queue!Dequeue
  <1>8. ASSUME NEW cfg \in Configs, Open(cfg) PROVE Queue!Next
    <2>1. ring_size = 0 /\ ring_count = 0
      <3>1. pc = "closed"
        BY <1>8 DEF Open
      <3> QED BY <1>2, <3>1
    <2>2. ring_size' = RingSize(cfg) /\ ring_count' = 0 /\ result' = result
      BY <1>8 DEF Open
    <2>3. RingSize(cfg) \in MinRing .. MaxRing
      BY ConfigAssumption DEF RingSize, MinRing, MaxRing
    <2>4. Contents = << >> /\ Contents' = << >>
      BY <2>1, <2>2, EmptyContents DEF Contents
    <2> QED BY <2>1, <2>2, <2>3, <2>4 DEF Queue!Next, Queue!Open
  <1>9. ASSUME NEW cfg \in Configs, OpenFails(cfg) PROVE Queue!Next
    <2>1. UNCHANGED ring /\ (result' = Failure("InvalidArgument") \/ result' = Failure("Pcap"))
      BY <1>9 DEF OpenFails, object
    <2> QED BY <1>5, <2>1
  <1>10. CASE Close
    <2>1. ring_size # 0 /\ ring_size' = 0 /\ ring_count' = 0 /\ result' = NoResult
      BY <1>2, <1>10 DEF Close
    <2>2. Contents' = << >>
      BY <2>1 DEF Contents
    <2> QED BY <2>1, <2>2 DEF Queue!Next, Queue!Close, NoResult
  <1>11. ASSUME NEW p \in Air, Arrive(p) PROVE Stutter
    BY <1>4, <1>11 DEF Arrive, object, call
  <1>12. CASE Tick \/ LoopTime \/ LoopPoll \/ PollInterrupted \/ PollReady \/ DrainEnd
    <2>1. UNCHANGED ring /\ result' = result
      BY <1>12 DEF Tick, LoopTime, LoopPoll, PollInterrupted, PollReady, DrainEnd, object
    <2> QED BY <1>3, <1>4, <2>1
  <1>13. CASE RecvEmptyBuf
    <2>1. UNCHANGED ring /\ result' = Failure("InvalidArgument")
      BY <1>13 DEF RecvEmptyBuf, Return, object
    <2> QED BY <1>5, <2>1
  <1>14. CASE PollFails
    <2>1. UNCHANGED ring /\ result' = Failure("Io")
      BY <1>14 DEF PollFails, Return, object
    <2> QED BY <1>5, <2>1
  <1>15. CASE LoopExpired \/ PollTimeout
    <2>1. UNCHANGED ring /\ result' = Timeout /\ pc # "closed" /\ ring_count = 0
      BY <1>1, <1>15 DEF LoopExpired, PollTimeout, Return, object, CallInv, PollsEmpty
    <2> QED BY <1>6, <2>1
  <1>16. ASSUME NEW n \in BufSizes, RecvReady(n) PROVE Queue!Next
    BY <1>7, <1>16 DEF RecvReady
  <1>17. CASE LoopPop
    <2>1. buf_len \in BufSizes /\ PopOne(buf_len) /\ ring_count > 0
      BY <1>1, <1>17 DEF LoopPop, CallTypeOK
    <2> QED BY <1>7, <2>1
  <1>18. ASSUME NEW n \in BufSizes, NEW t \in Timeouts, RecvWait(n, t) PROVE Stutter
    <2>1. UNCHANGED ring /\ result' = result
      BY <1>18 DEF RecvWait, object
    <2> QED BY <1>4, <2>1
  <1>19. CASE DrainOne
    <2> DEFINE f == FrameOf(Head(kbuf))
    <2>1. result' = result
      BY <1>19 DEF DrainOne, call
    <2>2. CASE UNCHANGED ring
      BY <1>3, <1>4, <2>1, <2>2
    <2>3. CASE Accepts(Head(kbuf), ignore_self_injected) /\ ~ RingFull
      <3>1. Head(kbuf) \in AirPackets /\ ignore_self_injected \in BOOLEAN
        BY <1>1, <1>19, HeadTailProperties DEF DrainOne, DataInv, CaptureTypeOK, CallTypeOK
      <3>2. f \in AirFrames
        BY <2>3, <3>1 DEF AirFrames
      <3>3. Enqueue(f) /\ ring_size > 0
        BY <1>2, <1>19, <2>3 DEF DrainOne
      <3>4. Contents' = Append(Contents, f)
        BY <1>1, <2>3, <3>2, <3>3, EnqueueContents
      <3>5. Len(Contents) < ring_size /\ ring_size' = ring_size
        BY <1>2, <2>3, <3>3 DEF RingFull, Enqueue
      <3> QED BY <2>1, <3>2, <3>4, <3>5 DEF Queue!Next, Queue!Enqueue
    <2> QED BY <1>19, <2>2, <2>3 DEF DrainOne, Enqueue
  <1>20. CASE UNCHANGED vars
    <2>1. UNCHANGED ring /\ result' = result
      BY <1>20 DEF vars, object, call
    <2> QED BY <1>3, <1>4, <2>1
  <1> QED
    BY <1>3, <1>8, <1>9, <1>10, <1>11, <1>12, <1>13, <1>14, <1>15, <1>16, <1>17, <1>18, <1>19, <1>20
    DEF Next, Recv, RecvCall

(* The ring, its storage arithmetic and the loop implement FrameQueue: the *)
(* caller of recv sees a bounded first-in first-out queue of whole frames, *)
(* cut only by its own buffer, and a timeout only when it is empty.        *)
THEOREM ImplementsQueue == Spec => RefinesQueue
  <1>1. Init => Queue!Init
    BY RefinesInit
  <1>2. IInv /\ IInv' /\ [Next]_vars => [Queue!Next]_(Queue!vars)
    BY RefinesNext
  <1> QED BY <1>1, <1>2, Invariant, PTL DEF Spec, RefinesQueue, Queue!Spec
-----------------------------------------------------------------------------
(* A receiver that is not open has nothing in its capture. *)
OursInv == OnlyOurs /\ (pc = "closed" => kbuf = << >>)

(* The elements of a sequence that lost its first or gained a last one.    *)
LEMMA OfTail ==
  ASSUME NEW S, NEW s \in Seq(S), s # << >>, NEW T, \A i \in 1 .. Len(s) : s[i] \in T
  PROVE  \A i \in 1 .. Len(Tail(s)) : Tail(s)[i] \in T
  <1>1. Len(Tail(s)) = Len(s) - 1 /\ \A i \in 1 .. Len(s) - 1 : Tail(s)[i] = s[i + 1]
    OBVIOUS
  <1>2. Len(s) \in Nat
    OBVIOUS
  <1>3. \A i \in 1 .. Len(s) - 1 : i + 1 \in 1 .. Len(s)
    BY <1>2
  <1> QED BY <1>1, <1>3

LEMMA OfAppend ==
  ASSUME NEW S, NEW s \in Seq(S), NEW T, \A i \in 1 .. Len(s) : s[i] \in T, NEW e \in T
  PROVE  \A i \in 1 .. Len(Append(s, e)) : Append(s, e)[i] \in T
  <1>1. Len(Append(s, e)) = Len(s) + 1 /\ Append(s, e)[Len(s) + 1] = e
        /\ \A i \in 1 .. Len(s) : Append(s, e)[i] = s[i]
    OBVIOUS
  <1>2. \A i \in 1 .. Len(s) + 1 : i \in 1 .. Len(s) \/ i = Len(s) + 1
    OBVIOUS
  <1> QED BY <1>1, <1>2

LEMMA OursStep == IInv /\ IInv' /\ OursInv /\ [Next]_vars => OursInv'
  <1> SUFFICES ASSUME IInv, IInv', OursInv, [Next]_vars PROVE OursInv'
    OBVIOUS
  <1> DEFINE Mine == {c \in AirPackets : c.stream = filter}
  <1>1. /\ RingTypeOK /\ RingShape /\ Contents \in Seq(AirFrames) /\ kbuf \in Seq(AirPackets)
        /\ ring_count \in Nat /\ ring_size \in Nat /\ Len(Contents) = ring_count
        /\ ignore_self_injected \in BOOLEAN /\ arrived \in Nat
        /\ ring_size = 0 <=> pc = "closed"
    <2>1. RingTypeOK /\ RingShape /\ Contents \in Seq(AirFrames) /\ CallTypeOK /\ CaptureTypeOK
      BY DEF IInv, TypeOK
    <2>2. ring_count \in Nat /\ ring_size \in Nat
      BY <2>1 DEF RingTypeOK, MinRing, MaxRing
    <2>3. arrived \in Nat
      BY <2>1, BoundAssumption DEF CaptureTypeOK
    <2> QED BY <2>1, <2>2, <2>3, ContentsLength DEF CallTypeOK, CaptureTypeOK
  <1>2. Len(Contents') = ring_count'
    <2>1. ring_count' \in Nat
      BY DEF IInv, TypeOK, RingTypeOK, MinRing, MaxRing
    <2>2. Contents' \in Seq(AirFrames)
      BY DEF IInv, TypeOK
    <2>3. DOMAIN Contents' = 1 .. ring_count'
      BY DEF Contents
    <2>4. Len(Contents') \in Nat /\ DOMAIN Contents' = 1 .. Len(Contents')
      BY <2>2, LenProperties
    <2> QED BY <2>1, <2>3, <2>4, SameInterval
  <1>3. ASSUME UNCHANGED <<ring, kbuf, filter, ignore_self_injected>>, pc' = "closed" => pc = "closed"
        PROVE  OursInv'
    BY <1>3, SameContents DEF OursInv, OnlyOurs, OurFrames, ring
  <1>4. ASSUME NEW cfg \in Configs, Open(cfg) PROVE OursInv'
    <2>1. pc = "closed" /\ pc' = "idle" /\ kbuf' = kbuf /\ ring_count' = 0
      BY <1>4 DEF Open, capture
    <2> QED BY <2>1 DEF OursInv, OnlyOurs
  <1>5. CASE Close
    <2>1. kbuf' = << >> /\ ring_count' = 0
      BY <1>5 DEF Close
    <2> QED BY <2>1 DEF OursInv, OnlyOurs
  <1>6. ASSUME NEW p \in Air, Arrive(p) PROVE OursInv'
    <2> DEFINE x == Stamped(p, arrived + 1)
    <2>1. /\ pc # "closed" /\ pc' = pc /\ p.stream = filter /\ filter' = filter
          /\ arrived < MaxArrivals /\ kbuf' = Append(kbuf, x)
          /\ ignore_self_injected' = ignore_self_injected
          /\ UNCHANGED ring
      BY <1>6 DEF Arrive, PcapFilter, object, call
    <2>2. x \in AirPackets
      <3>1. arrived + 1 \in 1 .. MaxArrivals
        BY <1>1, <2>1, BoundAssumption
      <3> QED BY <3>1 DEF AirPackets
    <2>3. x.stream = filter
      <3>1. IsPacket(p)
        BY AirAssumption
      <3> QED BY <2>1, <3>1 DEF Stamped, IsPacket
    <2>4. \A j \in 1 .. Len(kbuf) : kbuf[j] \in Mine
      BY <1>1, ElementOfSeq DEF OursInv, OnlyOurs
    <2> HIDE DEF x, Mine
    <2>5. x \in Mine
      BY <2>2, <2>3 DEF Mine
    <2>6. \A j \in 1 .. Len(kbuf') : kbuf'[j] \in Mine
      BY <1>1, <2>1, <2>4, <2>5, OfAppend
    <2>7. \A j \in 1 .. Len(kbuf') : kbuf'[j].stream = filter'
      BY <2>1, <2>6 DEF Mine
    <2>8. \A i \in 1 .. ring_count' : Contents'[i] \in OurFrames'
      BY <2>1, SameContents DEF OursInv, OnlyOurs, OurFrames, ring
    <2> QED BY <2>1, <2>7, <2>8 DEF OursInv, OnlyOurs
  <1>7. ASSUME NEW n \in BufSizes, PopOne(n), ring_count > 0 PROVE OursInv'
    <2>1. n \in Nat
      BY BoundAssumption
    <2>2. Contents' = Tail(Contents)
      BY <1>1, <1>7, <2>1, PopContents
    <2>3. UNCHANGED <<filter, ignore_self_injected, kbuf>> /\ pc' = "idle"
      BY <1>7 DEF PopOne, Return, capture
    <2>4. OurFrames' = OurFrames
      BY <2>3 DEF OurFrames
    <2>5. Contents # << >>
      BY <1>1, <1>7
    <2>6. \A i \in 1 .. Len(Contents) : Contents[i] \in OurFrames
      BY <1>1 DEF OursInv, OnlyOurs
    <2>7. \A i \in 1 .. Len(Tail(Contents)) : Tail(Contents)[i] \in OurFrames
      BY <1>1, <2>5, <2>6, OfTail
    <2>8. \A i \in 1 .. ring_count' : Contents'[i] \in OurFrames'
      BY <1>2, <2>2, <2>4, <2>7
    <2> QED BY <2>3, <2>8 DEF OursInv, OnlyOurs
  <1>8. CASE DrainOne
    <2> DEFINE h == Head(kbuf)
               f == FrameOf(h)
    <2>1. /\ kbuf # << >> /\ kbuf' = Tail(kbuf)
          /\ UNCHANGED <<filter, ignore_self_injected, pc>> /\ pc = "drain"
      BY <1>8 DEF DrainOne, call
    <2>2. OurFrames' = OurFrames
      BY <2>1 DEF OurFrames
    <2>3. \A j \in 1 .. Len(kbuf) : kbuf[j] \in Mine
      BY <1>1, ElementOfSeq DEF OursInv, OnlyOurs
    <2>4. h \in Mine
      <3>1. h = kbuf[1] /\ 1 \in 1 .. Len(kbuf)
        BY <1>1, <2>1
      <3> QED BY <2>3, <3>1
    <2>5. \A j \in 1 .. Len(kbuf') : kbuf'[j].stream = filter'
      <3> HIDE DEF Mine
      <3>1. \A j \in 1 .. Len(kbuf') : kbuf'[j] \in Mine
        BY <1>1, <2>1, <2>3, OfTail
      <3> QED BY <2>1, <3>1 DEF Mine
    <2>6. CASE UNCHANGED ring
      <3>1. Contents' = Contents /\ ring_count' = ring_count
        BY <2>6, SameContents DEF ring
      <3> QED BY <2>1, <2>2, <2>5, <3>1 DEF OursInv, OnlyOurs
    <2>7. CASE Accepts(h, ignore_self_injected) /\ ~ RingFull
      <3>1. f \in AirFrames /\ f \in OurFrames
        BY <1>1, <2>4, <2>7 DEF AirFrames, OurFrames
      <3>2. Enqueue(f) /\ ring_size > 0
        BY <1>1, <1>8, <2>1, <2>7 DEF DrainOne
      <3> HIDE DEF f
      <3>3. Contents' = Append(Contents, f)
        BY <1>1, <2>7, <3>1, <3>2, EnqueueContents
      <3>4. \A i \in 1 .. Len(Contents) : Contents[i] \in OurFrames
        BY <1>1 DEF OursInv, OnlyOurs
      <3>5. \A i \in 1 .. Len(Append(Contents, f)) : Append(Contents, f)[i] \in OurFrames
        BY <1>1, <3>1, <3>4, OfAppend
      <3>6. \A i \in 1 .. ring_count' : Contents'[i] \in OurFrames'
        BY <1>2, <2>2, <3>3, <3>5
      <3> QED BY <2>1, <2>5, <3>6 DEF OursInv, OnlyOurs
    <2> QED BY <1>8, <2>6, <2>7 DEF DrainOne, Enqueue
  <1>9. CASE UNCHANGED vars
    BY <1>3, <1>9 DEF vars, object, call, capture
  <1>10. ASSUME NEW cfg \in Configs, OpenFails(cfg) PROVE OursInv'
    BY <1>3, <1>10 DEF OpenFails, object, capture
  <1>11. CASE Tick \/ LoopTime \/ LoopPoll \/ PollInterrupted \/ PollReady \/ DrainEnd
    BY <1>3, <1>11 DEF Tick, LoopTime, LoopPoll, PollInterrupted, PollReady, DrainEnd, object, capture
  <1>12. CASE RecvEmptyBuf \/ PollFails \/ LoopExpired \/ PollTimeout
    BY <1>3, <1>12 DEF RecvEmptyBuf, PollFails, LoopExpired, PollTimeout, Return, object, capture
  <1>13. ASSUME NEW n \in BufSizes, RecvReady(n) PROVE OursInv'
    BY <1>7, <1>13 DEF RecvReady
  <1>14. CASE LoopPop
    <2>1. buf_len \in BufSizes /\ PopOne(buf_len) /\ ring_count > 0
      BY <1>14 DEF LoopPop, IInv, TypeOK, CallTypeOK
    <2> QED BY <1>7, <2>1
  <1>15. ASSUME NEW n \in BufSizes, NEW t \in Timeouts, RecvWait(n, t) PROVE OursInv'
    BY <1>3, <1>15 DEF RecvWait, object, capture
  <1> QED
    BY <1>4, <1>5, <1>6, <1>8, <1>9, <1>10, <1>11, <1>12, <1>13, <1>14, <1>15
    DEF Next, Recv, RecvCall

(* A receiver keeps only what it was opened for: packets of its stream,    *)
(* frames that its own settings accept.                                    *)
THEOREM KeepsOnlyOurs == Spec => []OnlyOurs
  <1>1. Init => OursInv
    BY DEF Init, OursInv, OnlyOurs
  <1>2. OursInv => OnlyOurs
    BY DEF OursInv
  <1> QED BY <1>1, <1>2, OursStep, Invariant, PTL DEF Spec
=============================================================================
