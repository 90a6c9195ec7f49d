---------------------------- MODULE WfbLink_proofs ----------------------------
(***************************************************************************)
(* Proofs about WfbLink: sender and receiver agree on the limits, and what *)
(* is delivered was sent, for every MTU that fits the length field, every  *)
(* payload and every length of the radiotap header a driver may put in     *)
(* front.                                                                  *)
(***************************************************************************)
EXTENDS WfbLink, Integers, SequenceTheorems, TLAPS

(* What send guarantees of a frame. *)
WellMade(f) ==
  /\ f.present = {"TX_FLAGS", "MCS"}
  /\ f.payload \in Seq(Byte)
  /\ f.hdr.version = WFB_PROTO_VERSION
  /\ f.hdr.payload_len = Len(f.payload)
  /\ Len(f.payload) <= compute_max_payload

AirWellMade(a) ==
  /\ a \in Seq({a[i] : i \in 1 .. Len(a)})
  /\ \A i \in 1 .. Len(a) : WellMade(a[i])

Made == AirWellMade(near_air) /\ AirWellMade(far_air)

(* A sequence is one over any set that holds its elements. *)
LEMMA SeqOver ==
  ASSUME NEW T, NEW S, NEW s \in Seq(T), \A i \in 1 .. Len(s) : s[i] \in S
  PROVE  s \in Seq(S)
  OBVIOUS

(* A capture adds the checksum or nothing. *)
LEMMA CapturedLength ==
  ASSUME NEW f, f.payload \in Seq(Byte), NEW s, NEW flags \in {{}, {"FCS"}}
  PROVE  Captured(s, f, flags).len =
           RadiotapLen + 24 + 8 + Len(f.payload) + (IF "FCS" \in flags THEN 4 ELSE 0)
  <1>1. Fcs \in Seq(Byte) /\ Len(Fcs) = 4 /\ RadiotapLen \in Nat
    BY LinkAssumption
  <1>2. Len(f.payload \o Fcs) = Len(f.payload) + 4
    <2>1. ASSUME NEW d \in Seq(Byte), NEW e \in Seq(Byte)
          PROVE  Len(d \o e) = Len(d) + Len(e)
      OBVIOUS
    <2> QED BY <1>1, <2>1
  <1>3. Len(f.payload \o << >>) = Len(f.payload)
    <2>1. ASSUME NEW d \in Seq(Byte) PROVE d \o << >> = d
      OBVIOUS
    <2> QED BY <2>1
  <1>4. Len(f.payload) \in Nat
    OBVIOUS
  <1>5. Captured(s, f, flags).len =
          RadiotapLen + 24 + 8 + Len(f.payload \o (IF "FCS" \in flags THEN Fcs ELSE << >>))
    BY DEF Captured, IEE80211_HEADER_LEN, WFB_PLAINTEXT_HDR_LEN
  <1>6. CASE "FCS" \in flags
    <2>1. /\ (IF "FCS" \in flags THEN Fcs ELSE << >>) = Fcs
          /\ (IF "FCS" \in flags THEN 4 ELSE 0) = 4
      BY <1>6
    <2>2. Captured(s, f, flags).len = RadiotapLen + 24 + 8 + (Len(f.payload) + 4)
      BY <1>2, <1>5, <2>1, Zenon
    <2>3. RadiotapLen + 24 + 8 + (Len(f.payload) + 4) = RadiotapLen + 24 + 8 + Len(f.payload) + 4
      <3>1. ASSUME NEW a \in Nat, NEW b \in Nat
            PROVE  a + 24 + 8 + (b + 4) = a + 24 + 8 + b + 4
        OBVIOUS
      <3> QED BY <1>1, <1>4, <3>1, Zenon
    <2> QED BY <2>1, <2>2, <2>3, Zenon
  <1>7. CASE "FCS" \notin flags
    <2>1. (IF "FCS" \in flags THEN Fcs ELSE << >>) = << >>
      BY <1>7
    <2>2. Captured(s, f, flags).len = RadiotapLen + 24 + 8 + Len(f.payload)
      BY <1>3, <1>5, <2>1, Zenon
    <2>3. (IF "FCS" \in flags THEN 4 ELSE 0) = 0
      BY <1>7
    <2>4. RadiotapLen + 24 + 8 + Len(f.payload) = RadiotapLen + 24 + 8 + Len(f.payload) + 0
      <3>1. ASSUME NEW a \in Nat, NEW b \in Nat
            PROVE  a + 24 + 8 + b = a + 24 + 8 + b + 0
        OBVIOUS
      <3> QED BY <1>1, <1>4, <3>1, Zenon
    <2> QED BY <2>2, <2>3, <2>4, Zenon
  <1> QED BY <1>6, <1>7

(* The checks of the receiver let every well-made frame of another host    *)
(* through (send in tx.rs against parse_and_enqueue_one_packet in rx.rs).  *)
THEOREM WellMadeIsAccepted ==
  ASSUME NEW f, WellMade(f), NEW flags \in {{}, {"FCS"}}, NEW ignore \in BOOLEAN
  PROVE  Accepts(Captured("far", f, flags), ignore)
  <1> DEFINE p == Captured("far", f, flags)
  <1>1. Len(f.payload) \in Nat /\ RadiotapLen \in Nat
    BY LinkAssumption DEF WellMade
  <1>2. p.len = RadiotapLen + 24 + 8 + Len(f.payload) + (IF "FCS" \in flags THEN 4 ELSE 0)
    BY CapturedLength DEF WellMade
  <1>3. /\ p.rt.parsed /\ ~ p.rt.self_injected /\ p.rt.rt_flags = flags
        /\ p.rt.radiotap_len = RadiotapLen /\ p.hdr = f.hdr
    BY DEF Captured
  <1> HIDE DEF p
  <1>4. EffectiveLen(p) = RadiotapLen + 24 + 8 + Len(f.payload)
    BY <1>1, <1>2, <1>3 DEF EffectiveLen
  <1>5. HasHeaders(p)
    <2> DEFINE e == EffectiveLen(p)
    <2>1. e \in Int /\ e > RadiotapLen + 24 /\ e - RadiotapLen - 24 >= 8
      <3>1. ASSUME NEW r \in Nat, NEW l \in Nat, NEW x, x = r + 24 + 8 + l
            PROVE  x \in Int /\ x > r + 24 /\ x - r - 24 >= 8
        BY <3>1
      <3> QED BY <1>1, <1>4, <3>1
    <2> HIDE DEF e
    <2>2. p.rt.radiotap_len = RadiotapLen
      BY <1>3
    <2> QED BY <2>1, <2>2 DEF HasHeaders, IEE80211_HEADER_LEN, WFB_PLAINTEXT_HDR_LEN, e
  <1>6. ChecksumOK(p)
    BY <1>3 DEF ChecksumOK
  <1>7. PayloadStart(p) = RadiotapLen + 24 + 8
    BY <1>3 DEF PayloadStart, IEE80211_HEADER_LEN, WFB_PLAINTEXT_HDR_LEN
  <1>8. EffectiveLen(p) - PayloadStart(p) = Len(f.payload)
    BY <1>1, <1>4, <1>7
  <1>9. /\ p.hdr.version = WFB_PROTO_VERSION
        /\ p.hdr.payload_len <= EffectiveLen(p) - PayloadStart(p)
        /\ p.hdr.payload_len <= compute_max_payload
    BY <1>1, <1>3, <1>8 DEF WellMade
  <1> QED BY <1>3, <1>5, <1>6, <1>9 DEF Accepts, p

(* A frame that send lets through is well made: its length survives the    *)
(* cast to u16.                                                            *)
LEMMA SentIsWellMade ==
  ASSUME NEW p \in NearPayloads \cup FarPayloads, NEW s, Len(p) <= compute_max_payload
  PROVE  WellMade(Far!Frame(p, s)) /\ WellMade(Near!Frame(p, s))
  <1>1. p \in Seq(Byte) /\ Len(p) \in Nat
    BY LinkAssumption
  <1>2. Len(p) < 65536
    BY <1>1, MtuAssumption, LinkAssumption
    DEF compute_max_payload, IEE80211_HEADER_LEN, WFB_PLAINTEXT_HDR_LEN
  <1>3. Len(p) % 65536 = Len(p)
    BY <1>1, <1>2
  <1>4. WellMade(Far!Frame(p, s))
    BY <1>1, <1>3 DEF WellMade, Far!Frame, Far!WFB_PROTO_VERSION, WFB_PROTO_VERSION, Far!PRESENT
  <1>5. WellMade(Near!Frame(p, s))
    BY <1>1, <1>3 DEF WellMade, Near!Frame, Near!WFB_PROTO_VERSION, WFB_PROTO_VERSION, Near!PRESENT
  <1> QED BY <1>4, <1>5

(* One more frame that is well made. *)
LEMMA AppendWellMade ==
  ASSUME NEW a, AirWellMade(a), NEW f, WellMade(f)
  PROVE  /\ AirWellMade(Append(a, f))
         /\ Len(a) \in Nat /\ Len(Append(a, f)) = Len(a) + 1
         /\ \A i \in 1 .. Len(a) : Append(a, f)[i] = a[i]
  <1> DEFINE n == Len(a)
             b == Append(a, f)
             S == {b[i] : i \in 1 .. Len(b)}
  <1>1. a \in Seq({a[i] : i \in 1 .. n})
    BY DEF AirWellMade
  <1>2. n \in Nat /\ Len(b) = n + 1 /\ b[n + 1] = f /\ \A i \in 1 .. n : b[i] = a[i]
    BY <1>1
  <1>3. \A i \in 1 .. Len(b) : WellMade(b[i])
    BY <1>2 DEF AirWellMade
  <1>4. b \in Seq(S)
    <2>1. \A i \in 1 .. n : a[i] \in S
      BY <1>2
    <2>2. f \in S
      BY <1>2
    <2> HIDE DEF S
    <2>3. a \in Seq(S)
      BY <1>1, <2>1, SeqOver
    <2> QED BY <2>2, <2>3
  <1> QED BY <1>2, <1>3, <1>4 DEF AirWellMade

(* What a step does to the two lists of injected frames: a well-made frame *)
(* is added, or nothing happens.                                           *)
LEMMA AirStep ==
  ASSUME [Next]_vars
  PROVE  /\ far_air' = far_air \/ \E f : WellMade(f) /\ far_air' = Append(far_air, f)
         /\ near_air' = near_air \/ \E f : WellMade(f) /\ near_air' = Append(near_air, f)
  <1>1. /\ Far!compute_max_payload = compute_max_payload
        /\ Near!compute_max_payload = compute_max_payload
    BY DEF Far!compute_max_payload, Near!compute_max_payload, compute_max_payload,
           Far!IEE80211_HEADER_LEN, Near!IEE80211_HEADER_LEN, IEE80211_HEADER_LEN,
           Far!WFB_PLAINTEXT_HDR_LEN, Near!WFB_PLAINTEXT_HDR_LEN, WFB_PLAINTEXT_HDR_LEN
  <1>2. ASSUME NEW p \in FarPayloads, NEW s \in Seqs, Far!SendOk(p, s)
        PROVE  \E f : WellMade(f) /\ far_air' = Append(far_air, f)
    BY <1>1, <1>2, SentIsWellMade DEF Far!SendOk
  <1>3. ASSUME NEW p \in NearPayloads, NEW s \in Seqs, Near!SendOk(p, s)
        PROVE  \E f : WellMade(f) /\ near_air' = Append(near_air, f)
    BY <1>1, <1>3, SentIsWellMade DEF Near!SendOk
  <1>4. CASE UNCHANGED vars
    BY <1>4 DEF vars, far_vars, near_vars
  <1>5. CASE RxOpen \/ RxClose \/ RxRecv
    BY <1>5 DEF RxOpen, RxClose, RxRecv, far_vars, near_vars
  <1>6. CASE \E s \in Senders : Lost(s) \/ Heard(s)
    BY <1>6 DEF Lost, Heard, far_vars, near_vars
  <1>7. CASE FarStep
    <2>1. near_air' = near_air
      BY <1>7 DEF FarStep, near_vars
    <2>2. far_air' = far_air \/ \E p \in FarPayloads, s \in Seqs : Far!SendOk(p, s)
      BY <1>7 DEF FarStep, Far!TxNext, Far!TxOpen, Far!TxOpenFails, Far!TxClose,
                  Far!SendTooLarge, Far!SendFails
    <2> QED BY <1>2, <2>1, <2>2
  <1>8. CASE NearStep
    <2>1. far_air' = far_air
      BY <1>8 DEF NearStep, far_vars
    <2>2. near_air' = near_air \/ \E p \in NearPayloads, s \in Seqs : Near!SendOk(p, s)
      BY <1>8 DEF NearStep, Near!TxNext, Near!TxOpen, Near!TxOpenFails, Near!TxClose,
                  Near!SendTooLarge, Near!SendFails
    <2> QED BY <1>3, <2>1, <2>2
  <1> QED BY <1>4, <1>5, <1>6, <1>7, <1>8 DEF Next

(* Every step of the link keeps what the senders have injected.            *)
LEMMA MadeStep ==
  ASSUME Made, [Next]_vars
  PROVE  /\ Made'
         /\ \A s \in Senders : /\ Len(Air(s)) \in Nat /\ Len(Air(s)) <= Len(Air(s)')
                               /\ \A i \in 1 .. Len(Air(s)) : Air(s)'[i] = Air(s)[i]
  <1>1. ASSUME NEW a, NEW b, AirWellMade(a), b = a \/ \E f : WellMade(f) /\ b = Append(a, f)
        PROVE  /\ AirWellMade(b) /\ Len(a) \in Nat /\ Len(a) <= Len(b)
               /\ \A i \in 1 .. Len(a) : b[i] = a[i]
    <2>1. Len(a) \in Nat
      BY <1>1 DEF AirWellMade
    <2>2. CASE b = a
      BY <1>1, <2>1, <2>2
    <2>3. ASSUME NEW f, WellMade(f), b = Append(a, f)
          PROVE  /\ AirWellMade(b) /\ Len(a) <= Len(b)
                 /\ \A i \in 1 .. Len(a) : b[i] = a[i]
      <3>1. AirWellMade(b) /\ Len(b) = Len(a) + 1 /\ \A i \in 1 .. Len(a) : b[i] = a[i]
        BY <1>1, <2>3, AppendWellMade
      <3> QED BY <2>1, <3>1
    <2> QED BY <1>1, <2>1, <2>2, <2>3
  <1>2. /\ AirWellMade(far_air') /\ Len(far_air) \in Nat /\ Len(far_air) <= Len(far_air')
        /\ \A i \in 1 .. Len(far_air) : far_air'[i] = far_air[i]
    BY <1>1, AirStep DEF Made
  <1>3. /\ AirWellMade(near_air') /\ Len(near_air) \in Nat /\ Len(near_air) <= Len(near_air')
        /\ \A i \in 1 .. Len(near_air) : near_air'[i] = near_air[i]
    BY <1>1, AirStep DEF Made
  <1> QED BY <1>2, <1>3 DEF Made, AirWellMade, WellMade, Air

LEMMA InitMade == Init => Made
  BY DEF Init, Far!TxInit, Near!TxInit, Made, AirWellMade

(* No frame that send has let through is refused by a receiver of its      *)
(* stream on another host.                                                 *)
THEOREM LimitsAgree == Spec => []SentIsAcceptable
  <1>1. Made => SentIsAcceptable
    BY WellMadeIsAccepted DEF Made, AirWellMade, SentIsAcceptable
  <1>2. Made /\ [Next]_vars => Made'
    BY MadeStep
  <1> QED BY <1>1, <1>2, InitMade, PTL DEF Spec
-----------------------------------------------------------------------------
(* What the ring gets of a capture that passed the filter and the checks.  *)
LEMMA TakenIsSent ==
  ASSUME NEW s \in Senders, NEW f, WellMade(f), NEW p \in Variants(s, f),
         NEW ignore \in BOOLEAN, Accepts(p, ignore)
  PROVE  /\ FrameOf(p).payload = f.payload
         /\ FrameOf(p).meta.seq = f.hdr.seq
         /\ p.stream = f.stream
         /\ ignore => s = "far"
  <1>1. f.payload \in Seq(Byte) /\ Fcs \in Seq(Byte) /\ f.hdr.payload_len = Len(f.payload)
    BY LinkAssumption DEF WellMade
  <1>2. \E flags \in {{}, {"FCS"}} : p = Captured(s, f, flags)
    <2>1. CASE s = "near"
      BY <2>1 DEF Variants
    <2>2. CASE s # "near"
      <3>1. p \notin Garbled(s, f)
        <4>1. "BADFCS" \notin p.rt.rt_flags
          BY DEF Accepts, ChecksumOK
        <4>2. \A g : Captured(s, g, {"FCS", "BADFCS"}).rt.rt_flags = {"FCS", "BADFCS"}
          BY DEF Captured
        <4> QED BY <4>1, <4>2 DEF Garbled
      <3> QED BY <2>2, <3>1 DEF Variants
    <2> QED BY <2>1, <2>2
  <1>3. PICK flags \in {{}, {"FCS"}} : p = Captured(s, f, flags)
    BY <1>2
  <1> DEFINE tail == IF "FCS" \in flags THEN Fcs ELSE << >>
  <1>4. /\ p.data = f.payload \o tail /\ p.hdr = f.hdr /\ p.stream = f.stream
        /\ p.rt.self_injected = (s = "near" /\ "TX_FLAGS" \in f.present)
    BY <1>3 DEF Captured
  <1>5. SubSeq(f.payload \o tail, 1, Len(f.payload)) = f.payload
    <2>1. ASSUME NEW d \in Seq(Byte), NEW e \in Seq(Byte)
          PROVE  SubSeq(d \o e, 1, Len(d)) = d
      <3>1. CASE d = << >>
        BY <3>1, SubSeqEmpty
      <3>2. CASE d # << >>
        <4>1. Len(d) \in 1 .. Len(d) /\ 1 \in 1 .. Len(d)
          BY <3>2
        <4>2. SubSeq(d \o e, 1, Len(d)) = SubSeq(d, 1, Len(d))
          BY <4>1, SubSeqOfConcat1
        <4> QED BY <4>2, SubSeqFull
      <3> QED BY <3>1, <3>2
    <2>2. tail \in Seq(Byte)
      BY <1>1
    <2> QED BY <1>1, <2>1, <2>2
  <1>6. ignore => s = "far"
    <2>1. "TX_FLAGS" \in f.present
      BY DEF WellMade
    <2> QED BY <1>4, <2>1 DEF Accepts, Senders
  <1>7. FrameOf(p).payload = f.payload
    BY <1>1, <1>4, <1>5, Zenon DEF FrameOf
  <1>8. FrameOf(p).meta.seq = f.hdr.seq
    BY <1>4 DEF FrameOf, MetaOf
  <1> QED BY <1>4, <1>6, <1>7, <1>8

(* Frame fr comes from o, a frame on near or far that a receiver of stream *)
(* lets through.                                                           *)
From(fr, o, near, far, stream, ignore) ==
  LET air == IF o.sender = "near" THEN near ELSE far
  IN  /\ o.index \in 1 .. Len(air)
      /\ fr.payload = air[o.index].payload
      /\ fr.meta.seq = air[o.index].hdr.seq
      /\ air[o.index].stream = stream
      /\ ignore => o.sender = "far"

Origins == [sender : Senders, index : Nat]

Traced ==
  /\ heard \in [Senders -> Nat] /\ ignore_self_injected \in BOOLEAN
  /\ q \in Seq(QueueFrames) /\ origin \in Seq(Origins)
  /\ cap = 0 => q = << >>
  /\ Len(q) = Len(origin)
  /\ \A i \in 1 .. Len(q) :
       From(q[i], origin[i], near_air, far_air, filter, ignore_self_injected)

LEMMA FromAir ==
  ASSUME NEW s \in Senders, NEW h \in 1 .. Len(Air(s)), NEW fr, NEW ignore,
         fr.payload = Air(s)[h].payload, fr.meta.seq = Air(s)[h].hdr.seq,
         ignore => s = "far"
  PROVE  From(fr, [sender |-> s, index |-> h], near_air, far_air, Air(s)[h].stream, ignore)
  <1>1. CASE s = "near"
    BY <1>1 DEF From, Air
  <1>2. CASE s # "near"
    BY <1>2 DEF From, Air
  <1> QED BY <1>1, <1>2

(* The air only grows: what came from a frame goes on coming from it.      *)
LEMMA StillFrom ==
  ASSUME Made, [Next]_vars, NEW fr, NEW o, NEW stream, NEW ignore,
         From(fr, o, near_air, far_air, stream, ignore)
  PROVE  From(fr, o, near_air', far_air', stream, ignore)
  <1>1. /\ Len(near_air) \in Nat /\ Len(near_air) <= Len(near_air')
        /\ \A i \in 1 .. Len(near_air) : near_air'[i] = near_air[i]
    BY MadeStep DEF Air, Senders
  <1>2. /\ Len(far_air) \in Nat /\ Len(far_air) <= Len(far_air')
        /\ \A i \in 1 .. Len(far_air) : far_air'[i] = far_air[i]
    BY MadeStep DEF Air, Senders
  <1>3. Len(near_air') \in Nat /\ Len(far_air') \in Nat
    BY MadeStep DEF Made, AirWellMade
  <1>4. CASE o.sender = "near"
    BY <1>1, <1>3, <1>4 DEF From
  <1>5. CASE o.sender # "near"
    BY <1>2, <1>3, <1>5 DEF From
  <1> QED BY <1>4, <1>5

(* A frame taken from the front or put at the end of two queues in step.   *)
LEMMA InStep ==
  ASSUME NEW S, NEW T, NEW a \in Seq(S), NEW b \in Seq(T), Len(a) = Len(b),
         NEW P(_, _), \A i \in 1 .. Len(a) : P(a[i], b[i]), a # << >>
  PROVE  /\ Tail(a) \in Seq(S) /\ Tail(b) \in Seq(T) /\ Len(Tail(a)) = Len(Tail(b))
         /\ \A i \in 1 .. Len(Tail(a)) : P(Tail(a)[i], Tail(b)[i])
  <1>1. Len(a) \in Nat \ {0} /\ b # << >>
    BY EmptySeq
  <1>2. /\ Tail(a) \in Seq(S) /\ Len(Tail(a)) = Len(a) - 1
        /\ \A i \in 1 .. Len(Tail(a)) : Tail(a)[i] = a[i + 1]
    BY HeadTailProperties
  <1>3. /\ Tail(b) \in Seq(T) /\ Len(Tail(b)) = Len(b) - 1
        /\ \A i \in 1 .. Len(Tail(b)) : Tail(b)[i] = b[i + 1]
    BY <1>1, HeadTailProperties
  <1> QED BY <1>1, <1>2, <1>3

LEMMA TracedStep == Made /\ Traced /\ [Next]_vars => Traced'
  <1> SUFFICES ASSUME Made, Traced, [Next]_vars PROVE Traced'
    OBVIOUS
  <1> DEFINE Now(fr, o) == From(fr, o, near_air', far_air', filter, ignore_self_injected)
  <1>1. \A i \in 1 .. Len(q) : Now(q[i], origin[i])
    BY StillFrom DEF Traced
  <1>2. ASSUME UNCHANGED <<heard, rx_vars>> PROVE Traced'
    BY <1>1, <1>2 DEF Traced, rx_vars
  <1>3. CASE UNCHANGED vars \/ NearStep \/ FarStep
    BY <1>2, <1>3 DEF NearStep, FarStep, vars
  <1>4. CASE RxOpen
    <2>1. q = << >> /\ q' = << >> /\ origin' = origin /\ heard' = heard
          /\ ignore_self_injected' \in BOOLEAN
      BY <1>4 DEF RxOpen, Queue!Open, Traced
    <2> QED BY <2>1 DEF Traced
  <1>5. CASE RxClose
    <2>1. q' = << >> /\ origin' = << >> /\ heard' = heard /\ ignore_self_injected' \in BOOLEAN
      BY <1>5 DEF RxClose, Queue!Close, Traced
    <2> QED BY <2>1 DEF Traced
  <1>6. CASE RxRecv
    <2>1. UNCHANGED <<near_vars, far_vars, heard, filter, ignore_self_injected>>
      BY <1>6 DEF RxRecv
    <2>2. CASE Queue!GiveUp /\ UNCHANGED origin
      BY <1>1, <2>1, <2>2 DEF Queue!GiveUp, Traced
    <2>3. CASE Queue!Dequeue /\ origin' = Tail(origin)
      <3>1. q # << >> /\ q' = Tail(q) /\ cap' = cap /\ origin' = Tail(origin)
        BY <2>3 DEF Queue!Dequeue
      <3>2. q \in Seq(QueueFrames) /\ origin \in Seq(Origins) /\ Len(q) = Len(origin)
        BY DEF Traced
      <3> HIDE DEF Now
      <3>3. /\ Tail(q) \in Seq(QueueFrames) /\ Tail(origin) \in Seq(Origins)
            /\ Len(Tail(q)) = Len(Tail(origin))
            /\ \A i \in 1 .. Len(Tail(q)) : Now(Tail(q)[i], Tail(origin)[i])
        BY <1>1, <3>1, <3>2, InStep
      <3> QED BY <2>1, <3>1, <3>3 DEF Traced, Now
    <2> QED BY <1>6, <2>2, <2>3 DEF RxRecv
  <1>7. ASSUME NEW s \in Senders, Lost(s) PROVE Traced'
    BY <1>1, <1>7 DEF Lost, Traced, rx_vars
  <1>8. ASSUME NEW s \in Senders, Heard(s) PROVE Traced'
    <2> DEFINE n == Len(q)
               h == heard[s] + 1
               f == Air(s)[h]
    <2>1. PICK p \in Variants(s, f) : Take(s, p)
      BY <1>8 DEF Heard
    <2>2. /\ h \in 1 .. Len(Air(s)) /\ heard' \in [Senders -> Nat] /\ WellMade(f)
          /\ UNCHANGED <<near_vars, far_vars>>
      <3>1. heard[s] \in Nat /\ Len(Air(s)) \in Nat
        BY MadeStep DEF Traced
      <3>2. h \in 1 .. Len(Air(s))
        BY <1>8, <3>1 DEF Heard
      <3>3. WellMade(f)
        BY <3>2 DEF Made, AirWellMade, Air
      <3> QED BY <1>8, <3>1, <3>2, <3>3 DEF Heard, Traced
    <2> DEFINE o == [sender |-> s, index |-> h]
               fr == FrameOf(p)
    <2>3. /\ p.stream = filter /\ Accepts(p, ignore_self_injected)
          /\ q' = Append(q, fr) /\ origin' = Append(origin, o)
          /\ UNCHANGED <<cap, filter, ignore_self_injected>> /\ cap # 0
          /\ q' \in Seq(QueueFrames)
      <3>1. /\ p.stream = filter /\ Accepts(p, ignore_self_injected)
            /\ q' = Append(q, fr) /\ origin' = Append(origin, o)
            /\ UNCHANGED <<filter, ignore_self_injected>>
        BY <2>1 DEF Take
      <3>2. Queue!Enqueue
        BY <2>1 DEF Take
      <3>3. PICK g \in QueueFrames : q' = Append(q, g) /\ Len(q) < cap /\ cap' = cap
        BY <3>2 DEF Queue!Enqueue
      <3>4. q \in Seq(QueueFrames) /\ Len(q) \in Nat
        BY DEF Traced
      <3>5. q' \in Seq(QueueFrames) /\ cap # 0
        BY <3>3, <3>4
      <3> QED BY <3>1, <3>3, <3>5
    <2>4. From(fr, o, near_air, far_air, filter, ignore_self_injected)
      <3>1. /\ fr.payload = f.payload /\ fr.meta.seq = f.hdr.seq
            /\ p.stream = f.stream
            /\ ignore_self_injected => s = "far"
        BY <2>2, <2>3, TakenIsSent DEF Traced
      <3> HIDE DEF fr
      <3>2. From(fr, o, near_air, far_air, f.stream, ignore_self_injected)
        BY <2>2, <3>1, FromAir
      <3>3. f.stream = filter
        BY <2>3, <3>1
      <3> QED BY <3>2, <3>3
    <2>5. n \in Nat /\ q \in Seq(QueueFrames) /\ origin \in Seq(Origins) /\ Len(origin) = n
      BY DEF Traced
    <2>6. o \in Origins
      <3>1. h \in Nat
        BY <2>2
      <3> QED BY <3>1 DEF Origins
    <2> HIDE DEF o, fr, h, f, n
    <2>7. /\ origin' \in Seq(Origins)
          /\ Len(q') = n + 1 /\ Len(origin') = n + 1
          /\ q'[n + 1] = fr /\ origin'[n + 1] = o
          /\ \A i \in 1 .. n : q'[i] = q[i] /\ origin'[i] = origin[i]
      BY <2>3, <2>5, <2>6 DEF n
    <2>8. \A i \in 1 .. n :
            From(q[i], origin[i], near_air, far_air, filter, ignore_self_injected)
      BY DEF Traced, n
    <2>9. \A i \in 1 .. n + 1 :
            From(q'[i], origin'[i], near_air, far_air, filter, ignore_self_injected)
      <3>1. \A i \in 1 .. n + 1 : i = n + 1 \/ i \in 1 .. n
        BY <2>5
      <3> QED BY <2>4, <2>7, <2>8, <3>1
    <2>10. near_air' = near_air /\ far_air' = far_air
      BY <2>2 DEF near_vars, far_vars
    <2> QED BY <2>2, <2>3, <2>7, <2>9, <2>10 DEF Traced
  <1> QED BY <1>3, <1>4, <1>5, <1>6, <1>7, <1>8 DEF Next

(* What the queue delivers was sent on its stream, byte for byte, by       *)
(* another host when injected frames are ignored: for every payload, every *)
(* garbling that a driver marks, every loss.                               *)
THEOREM DeliveredIsSent == Spec => []DeliveredWasSent
  <1>1. Init => Traced
    <2>1. ASSUME Init PROVE Traced
      <3>1. heard \in [Senders -> Nat] /\ ignore_self_injected \in BOOLEAN
        BY <2>1 DEF Init
      <3>2. q = << >> /\ origin = << >>
        BY <2>1 DEF Init, Queue!Init
      <3> QED BY <3>1, <3>2 DEF Traced
    <2> QED BY <2>1
  <1>2. Traced => DeliveredWasSent
    BY DEF Traced, From, DeliveredWasSent, Source, Air
  <1>3. Made /\ [Next]_vars => Made'
    BY MadeStep
  <1> QED BY <1>1, <1>2, <1>3, InitMade, TracedStep, PTL DEF Spec
=============================================================================
