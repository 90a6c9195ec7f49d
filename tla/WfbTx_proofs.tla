----------------------------- MODULE WfbTx_proofs -----------------------------
(***************************************************************************)
(* Proofs about WfbTx and WfbWire, for every range of the counter that is  *)
(* a multiple of 16 and fits in 16 bits, every configuration and every     *)
(* payload: the type invariant, freshness of the 802.11 sequence numbers,  *)
(* and that the bytes of each message read back as the frame it means.     *)
(***************************************************************************)
EXTENDS WfbWire, SequenceTheorems, TLAPS

(* c is what the counter shows after n sends and some number of rounds.    *)
Shows(c, n) ==
  /\ c \in 0 .. SEQ16 - 1
  /\ c % SEQ_STEP = 0
  /\ \E k \in Nat : c = SEQ_STEP * n - SEQ16 * k

(* The counter starts at 0, and adding 16 in 16 bits is one more send.     *)
LEMMA ShowsZero == Shows(0, 0)
  <1>1. 0 = SEQ_STEP * 0 - SEQ16 * 0
    BY SeqSpaceAssumption DEF SEQ_STEP
  <1>2. 0 \in 0 .. SEQ16 - 1 /\ 0 % SEQ_STEP = 0
    BY SeqSpaceAssumption DEF SEQ_STEP
  <1> QED BY <1>1, <1>2 DEF Shows

(* The 16-bit addition wraps exactly at the end of the range. *)
LEMMA AddSixteen ==
  ASSUME NEW s \in Nat \ {0}, s % 16 = 0, NEW c \in 0 .. s - 1, c % 16 = 0
  PROVE  /\ c + 16 <= s
         /\ ((c + 16) % s) = IF c + 16 = s THEN 0 ELSE c + 16
         /\ ((c + 16) % s) % 16 = 0
  OBVIOUS

(* One more send: the counter shows one more. *)
LEMMA ShowsNext ==
  ASSUME NEW c, NEW n \in Nat, Shows(c, n)
  PROVE  Shows((c + SEQ_STEP) % SEQ16, n + 1)
  <1>1. PICK k \in Nat : c = 16 * n - SEQ16 * k
    BY DEF Shows, SEQ_STEP
  <1>2. c \in 0 .. SEQ16 - 1 /\ c % 16 = 0 /\ SEQ16 \in Nat \ {0} /\ SEQ16 % 16 = 0
    BY SeqSpaceAssumption DEF Shows, SEQ_STEP
  <1> DEFINE d == (c + 16) % SEQ16
  <1>3. c + 16 <= SEQ16 /\ (d = IF c + 16 = SEQ16 THEN 0 ELSE c + 16) /\ d % 16 = 0
    BY <1>2, AddSixteen
  <1>4. d \in 0 .. SEQ16 - 1
    BY <1>2, <1>3
  <1>5. \E x \in Nat : d = 16 * (n + 1) - SEQ16 * x
    <2>1. CASE c + 16 = SEQ16
      <3>1. SEQ16 * (k + 1) = SEQ16 * k + SEQ16
        BY <1>2
      <3>2. d = 16 * (n + 1) - SEQ16 * (k + 1)
        BY <1>1, <1>2, <1>3, <2>1, <3>1
      <3> QED BY <3>2
    <2>2. CASE c + 16 # SEQ16
      <3>1. d = 16 * (n + 1) - SEQ16 * k
        BY <1>1, <1>2, <1>3, <2>2
      <3> QED BY <3>1
    <2> QED BY <2>1, <2>2
  <1> QED BY <1>3, <1>4, <1>5 DEF Shows, SEQ_STEP

(* Equal numbers are a whole number of rounds apart. *)
LEMMA Round ==
  ASSUME NEW s \in Nat \ {0}, NEW k \in Int, s * k > 0
  PROVE  s * k >= s
  <1>1. k >= 1
    OBVIOUS
  <1> QED BY <1>1

(* Two counts that show the same number are a round apart. *)
LEMMA ShowsApart ==
  ASSUME NEW a, NEW b, NEW m \in Nat, NEW n \in Nat, Shows(a, m), Shows(b, n),
         m < n, (n - m) * SEQ_STEP < SEQ16
  PROVE  a # b
  <1> SUFFICES ASSUME a = b PROVE FALSE
    OBVIOUS
  <1>1. PICK j \in Nat : a = 16 * m - SEQ16 * j
    BY DEF Shows, SEQ_STEP
  <1>2. PICK k \in Nat : b = 16 * n - SEQ16 * k
    BY DEF Shows, SEQ_STEP
  <1>3. SEQ16 \in Nat \ {0}
    BY SeqSpaceAssumption
  <1>4. SEQ16 * (k - j) = SEQ16 * k - SEQ16 * j /\ SEQ16 * k \in Int /\ SEQ16 * j \in Int
    BY <1>3
  <1>5. SEQ16 * k - SEQ16 * j = 16 * (n - m)
    <2> DEFINE x == SEQ16 * k
               y == SEQ16 * j
    <2>1. x \in Int /\ y \in Int /\ 16 * m - y = 16 * n - x
      BY <1>1, <1>2, <1>4
    <2> HIDE DEF x, y
    <2>2. x - y = 16 * (n - m)
      BY <2>1
    <2> QED BY <2>2 DEF x, y
  <1>6. SEQ16 * (k - j) > 0
    BY <1>4, <1>5
  <1>7. SEQ16 * (k - j) >= SEQ16
    BY <1>3, <1>6, Round
  <1> QED BY <1>3, <1>4, <1>5, <1>7 DEF SEQ_STEP
-----------------------------------------------------------------------------
(* The frame of a send has its fields' types: in particular the payload's  *)
(* length fits the u16 it is cast to.                                      *)
LEMMA FrameType ==
  ASSUME TxTypeOK, tx # NoTx, NEW p \in Payloads, NEW s \in Seqs
  PROVE  Frame(p, s) \in Frames
  <1>1. Len(p) % 65536 \in Nat /\ s \in Nat
    <2>1. Len(p) \in Nat
      BY PayloadAssumption
    <2> QED BY <2>1, PayloadAssumption
  <1> QED BY <1>1 DEF TxTypeOK, Frame, Frames, Header, WFB_PROTO_VERSION

(* One more frame on the air. *)
LEMMA AirTypes ==
  ASSUME TxTypeOK
  PROVE  \A i \in 1 .. Len(air) : air[i].nth \in Nat /\ air[i].session \in Nat
  <1>1. \A i \in 1 .. Len(air) : air[i] \in Frames
    BY DEF TxTypeOK
  <1>2. \A f \in Frames : f.nth \in Nat /\ f.session \in Nat
    BY DEF Frames
  <1> QED BY <1>1, <1>2

(* The types are inductive by themselves. *)
LEMMA TypeStep == TxTypeOK /\ [TxNext]_tx_vars => TxTypeOK'
  <1> SUFFICES ASSUME TxTypeOK, [TxNext]_tx_vars PROVE TxTypeOK'
    OBVIOUS
  <1>1. CASE UNCHANGED tx_vars
    BY <1>1 DEF TxTypeOK, tx_vars
  <1>2. ASSUME NEW cfg \in TxConfigs, TxOpen(cfg) PROVE TxTypeOK'
    <2>1. TxConfigOK(cfg)
      BY <1>2 DEF TxOpen
    <2>2. cfg.mcs_index \in Nat /\ cfg.stream_id \in Streams \cup {0}
      BY TxConfigAssumption
    <2>3. Mcs(cfg) \in 1 .. 15
      <3>1. Mcs(cfg) <= 15
        BY <2>1 DEF TxConfigOK, ArgsOK
      <3>2. CASE cfg.mcs_index = 0
        BY <3>2 DEF Mcs
      <3>3. CASE cfg.mcs_index # 0
        BY <2>2, <3>1, <3>3 DEF Mcs
      <3> QED BY <3>2, <3>3
    <2>4. cfg.stream_id \in Streams /\ cfg.frame_type \in FrameTypes
          /\ Bandwidth(cfg) \in {20, 40}
      BY <2>1, <2>2 DEF TxConfigOK, ArgsOK, FrameTypes
    <2>5. tx' = [stream |-> cfg.stream_id, frame_type |-> cfg.frame_type,
                 mcs_index |-> Mcs(cfg), bandwidth |-> Bandwidth(cfg)]
      BY <1>2 DEF TxOpen
    <2>6. ieee80211_seq' \in 0 .. SEQ16 - 1 /\ sends' \in Nat /\ opens' \in Nat
          /\ tx_result' = "ok" /\ air' = air
      BY <1>2, SeqSpaceAssumption DEF TxOpen, TxTypeOK
    <2> QED
      BY <2>3, <2>4, <2>5, <2>6 DEF TxTypeOK
  <1>3. ASSUME NEW cfg \in TxConfigs, TxOpenFails(cfg) PROVE TxTypeOK'
    BY <1>3 DEF TxOpenFails, TxTypeOK
  <1>4. CASE TxClose
    BY <1>4 DEF TxClose, TxTypeOK
  <1>5. ASSUME NEW p \in Payloads, SendTooLarge(p) PROVE TxTypeOK'
    BY <1>5 DEF SendTooLarge, TxTypeOK
  <1>6. ASSUME Advance PROVE ieee80211_seq' \in 0 .. SEQ16 - 1 /\ sends' \in Nat
    BY <1>6, SeqSpaceAssumption DEF Advance, TxTypeOK, SEQ_STEP
  <1>7. ASSUME NEW p \in Payloads, SendFails(p) PROVE TxTypeOK'
    BY <1>6, <1>7 DEF SendFails, TxTypeOK
  <1>8. ASSUME NEW p \in Payloads, NEW s \in Seqs, SendOk(p, s) PROVE TxTypeOK'
    <2>1. Frame(p, s) \in Frames
      BY <1>8, FrameType DEF SendOk
    <2>2. air' \in Seq(Frames)
      BY <1>8, <2>1 DEF SendOk, TxTypeOK
    <2> QED
      BY <1>6, <1>8, <2>2 DEF SendOk, TxTypeOK
  <1> QED
    BY <1>1, <1>2, <1>3, <1>4, <1>5, <1>7, <1>8 DEF TxNext
-----------------------------------------------------------------------------
(* Every number on the air is what the counter showed at that send, and    *)
(* the sends of one WfbTx are on the air in their order.                   *)
Counted ==
  /\ tx # NoTx => Shows(ieee80211_seq, sends)
  /\ \A i \in 1 .. Len(air) :
       /\ Shows(air[i].seq_control, air[i].nth)
       /\ air[i].session <= opens
       /\ air[i].session = opens => air[i].nth < sends
  /\ \A i, j \in 1 .. Len(air) :
       i < j /\ air[i].session = air[j].session => air[i].nth < air[j].nth

(* Every frame on the air shows the count of its send. *)
LEMMA CountedStep == TxTypeOK /\ Counted /\ [TxNext]_tx_vars => Counted'
  <1> SUFFICES ASSUME TxTypeOK, Counted, [TxNext]_tx_vars PROVE Counted'
    OBVIOUS
  <1>0. \A i \in 1 .. Len(air) : air[i].nth \in Nat /\ air[i].session \in Nat
    BY AirTypes
  <1>1. CASE UNCHANGED tx_vars
    BY <1>1 DEF Counted, tx_vars, Shows
  <1>2. ASSUME NEW cfg \in TxConfigs, TxOpen(cfg) PROVE Counted'
    <2>1. air' = air /\ opens' = opens + 1 /\ ieee80211_seq' = 0 /\ sends' = 0
      BY <1>2 DEF TxOpen
    <2>2. \A i \in 1 .. Len(air) : air[i].session <= opens
      BY DEF Counted
    <2>3. \A i \in 1 .. Len(air) : air[i].session <= opens + 1 /\ air[i].session # opens + 1
      BY <1>0, <2>2 DEF TxTypeOK
    <2>4. Shows(ieee80211_seq', sends')
      BY <2>1, ShowsZero
    <2> QED BY <2>1, <2>3, <2>4 DEF Counted, Shows
  <1>3. ASSUME UNCHANGED <<ieee80211_seq, air, sends, opens>>, tx' = tx \/ tx' = NoTx
        PROVE  Counted'
    BY <1>3 DEF Counted, Shows
  <1>4. ASSUME NEW cfg \in TxConfigs, TxOpenFails(cfg) PROVE Counted'
    BY <1>3, <1>4 DEF TxOpenFails
  <1>5. CASE TxClose
    BY <1>3, <1>5 DEF TxClose
  <1>6. ASSUME NEW p \in Payloads, SendTooLarge(p) PROVE Counted'
    BY <1>3, <1>6 DEF SendTooLarge
  <1>7. ASSUME Advance, tx # NoTx
        PROVE  Shows(ieee80211_seq', sends') /\ sends' = sends + 1
    <2>1. Shows(ieee80211_seq, sends) /\ sends \in Nat
      BY <1>7 DEF Counted, TxTypeOK
    <2>2. Shows((ieee80211_seq + SEQ_STEP) % SEQ16, sends + 1)
      BY <2>1, ShowsNext
    <2> QED BY <1>7, <2>2 DEF Advance
  <1>8. ASSUME NEW p \in Payloads, SendFails(p) PROVE Counted'
    <2>1. Shows(ieee80211_seq', sends') /\ sends' = sends + 1 /\ air' = air /\ opens' = opens
      BY <1>7, <1>8 DEF SendFails
    <2>2. \A i \in 1 .. Len(air) : air[i].session = opens => air[i].nth < sends + 1
      BY <1>0 DEF Counted, TxTypeOK
    <2> QED BY <2>1, <2>2 DEF Counted, Shows
  <1>9. ASSUME NEW p \in Payloads, NEW s \in Seqs, SendOk(p, s) PROVE Counted'
    <2> DEFINE f == Frame(p, s)
               n == Len(air)
    <2>1. Shows(ieee80211_seq', sends') /\ sends' = sends + 1 /\ air' = Append(air, f)
          /\ opens' = opens
      BY <1>7, <1>9 DEF SendOk
    <2>2. f.seq_control = ieee80211_seq /\ f.nth = sends /\ f.session = opens
      BY DEF Frame
    <2>3. Shows(f.seq_control, f.nth)
      BY <1>9, <2>2 DEF SendOk, Counted
    <2> HIDE DEF f
    <2>4. n \in Nat /\ Len(air') = n + 1 /\ air'[n + 1] = f
          /\ \A i \in 1 .. n : air'[i] = air[i]
      BY <2>1 DEF TxTypeOK
    <2> HIDE DEF n
    <2>5. \A i \in 1 .. n : /\ Shows(air[i].seq_control, air[i].nth)
                            /\ air[i].session <= opens
                            /\ air[i].session = opens => air[i].nth < sends
      BY DEF Counted, n
    <2>6. \A i, j \in 1 .. n :
            i < j /\ air[i].session = air[j].session => air[i].nth < air[j].nth
      BY DEF Counted, n
    <2>7. \A i \in 1 .. n : air[i].nth \in Nat
      BY <1>0 DEF n
    <2>8. ASSUME NEW i \in 1 .. n + 1
          PROVE  /\ Shows(air'[i].seq_control, air'[i].nth)
                 /\ air'[i].session <= opens
                 /\ air'[i].session = opens => air'[i].nth < sends + 1
      <3>1. CASE i \in 1 .. n
        BY <2>4, <2>5, <2>7, <3>1 DEF TxTypeOK
      <3>2. CASE i = n + 1
        BY <2>2, <2>3, <2>4, <3>2 DEF TxTypeOK
      <3> QED BY <2>4, <3>1, <3>2
    <2>9. ASSUME NEW i \in 1 .. n + 1, NEW j \in 1 .. n + 1, i < j,
                 air'[i].session = air'[j].session
          PROVE  air'[i].nth < air'[j].nth
      <3>1. i \in 1 .. n
        BY <2>4, <2>9
      <3>2. CASE j \in 1 .. n
        BY <2>4, <2>6, <2>9, <3>1, <3>2
      <3>3. CASE j = n + 1
        BY <2>2, <2>4, <2>5, <2>9, <3>1, <3>3
      <3> QED BY <2>4, <3>2, <3>3
    <2> QED BY <2>1, <2>4, <2>8, <2>9 DEF Counted, Shows
  <1> QED
    BY <1>1, <1>2, <1>4, <1>5, <1>6, <1>8, <1>9 DEF TxNext

(* What the two theorems below follow from. *)
LEMMA TxInvariant == TxSpec => [](TxTypeOK /\ Counted)
  <1>1. TxInit => TxTypeOK
    BY SeqSpaceAssumption DEF TxInit, TxTypeOK
  <1>2. TxInit => Counted
    BY DEF TxInit, Counted
  <1>3. TxTypeOK /\ Counted /\ [TxNext]_tx_vars => TxTypeOK' /\ Counted'
    BY TypeStep, CountedStep
  <1> QED BY <1>1, <1>2, <1>3, PTL DEF TxSpec

(* The sender's fields and the frames it injects have their types, for     *)
(* every configuration open admits (struct WfbTx).                         *)
THEOREM TxTypeCorrect == TxSpec => []TxTypeOK
  <1> QED BY TxInvariant, PTL

(* Two frames of one WfbTx carry the same 802.11 sequence number only when *)
(* the counter has gone round between them, failed sends or not.           *)
THEOREM FreshNumbers == TxSpec => []SeqControlFresh
  <1>1. TxTypeOK /\ Counted => SeqControlFresh
    <2> SUFFICES ASSUME TxTypeOK, Counted PROVE SeqControlFresh
      OBVIOUS
    <2>1. \A i \in 1 .. Len(air) : Shows(air[i].seq_control, air[i].nth) /\ air[i].nth \in Nat
      BY AirTypes DEF Counted
    <2>2. ASSUME NEW i \in 1 .. Len(air), NEW j \in 1 .. Len(air), i < j,
                 air[i].session = air[j].session,
                 (air[j].nth - air[i].nth) * SEQ_STEP < SEQ16
          PROVE  air[i].seq_control # air[j].seq_control
      <3>1. air[i].nth < air[j].nth
        BY <2>2 DEF Counted
      <3> QED BY <2>1, <2>2, <3>1, ShowsApart
    <2>3. \A i \in 1 .. Len(air) : air[i].seq_control % SEQ_STEP = 0
      BY <2>1 DEF Shows
    <2> QED BY <2>2, <2>3 DEF SeqControlFresh
  <1> QED BY <1>1, TxInvariant, PTL
-----------------------------------------------------------------------------
(* What lies where in a concatenation. *)
LEMMA ConcatElements ==
  ASSUME NEW S, NEW s \in Seq(S), NEW t \in Seq(S)
  PROVE  /\ \A i \in 1 .. Len(s) : (s \o t)[i] = s[i]
         /\ \A i \in 1 .. Len(t) : (s \o t)[Len(s) + i] = t[i]
  <1>1. ASSUME NEW i \in 1 .. Len(s) PROVE (s \o t)[i] = s[i]
    OBVIOUS
  <1>2. ASSUME NEW i \in 1 .. Len(t) PROVE (s \o t)[Len(s) + i] = t[i]
    OBVIOUS
  <1> QED BY <1>1, <1>2

(* Opaque where lengths only get in the way. *)
HasLength(s, n) == Len(s) = n

(* The order of the four parts of a message. *)
FourPartsOf(b, r, h, e, p) ==
  /\ Len(b) = 45 + Len(p)
  /\ \A i \in 1 .. 13 : b[i] = r[i]
  /\ \A i \in 1 .. 24 : b[13 + i] = h[i]
  /\ \A i \in 1 .. 8 : b[37 + i] = e[i]
  /\ \A i \in 1 .. Len(p) : b[45 + i] = p[i]

LEMMA FourParts ==
  ASSUME NEW S, NEW r \in Seq(S), NEW h \in Seq(S), NEW e \in Seq(S), NEW p \in Seq(S),
         HasLength(r, 13), HasLength(h, 24), HasLength(e, 8)
  PROVE  FourPartsOf(r \o h \o e \o p, r, h, e, p)
  <1> DEFINE rh == r \o h
             rhe == rh \o e
             b == rhe \o p
  <1>1. rh \in Seq(S) /\ Len(rh) = Len(r) + Len(h)
    BY ConcatProperties
  <1>2. /\ \A i \in 1 .. Len(r) : rh[i] = r[i]
        /\ \A i \in 1 .. Len(h) : rh[Len(r) + i] = h[i]
    BY ConcatElements
  <1>3. rh \in Seq(S)
    BY <1>1
  <1> HIDE DEF rh
  <1>4. rhe \in Seq(S) /\ Len(rhe) = Len(rh) + Len(e)
    BY <1>3, ConcatProperties
  <1>5. /\ \A i \in 1 .. Len(rh) : rhe[i] = rh[i]
        /\ \A i \in 1 .. Len(e) : rhe[Len(rh) + i] = e[i]
    BY <1>3, ConcatElements
  <1>6. rhe \in Seq(S)
    BY <1>4
  <1> HIDE DEF rhe
  <1>7. Len(b) = Len(rhe) + Len(p)
    BY <1>6, ConcatProperties
  <1>8. /\ \A i \in 1 .. Len(rhe) : b[i] = rhe[i]
        /\ \A i \in 1 .. Len(p) : b[Len(rhe) + i] = p[i]
    BY <1>6, ConcatElements
  <1> HIDE DEF b
  <1>9. /\ Len(rh) = 13 + 24 /\ Len(rhe) = 13 + 24 + 8
        /\ Len(b) = 13 + 24 + 8 + Len(p)
    BY <1>1, <1>4, <1>7, Zenon DEF HasLength
  <1>10. /\ \A i \in 1 .. 13 : rh[i] = r[i]
         /\ \A i \in 1 .. 24 : rh[13 + i] = h[i]
         /\ \A i \in 1 .. 13 + 24 : rhe[i] = rh[i]
         /\ \A i \in 1 .. 8 : rhe[13 + 24 + i] = e[i]
         /\ \A i \in 1 .. 13 + 24 + 8 : b[i] = rhe[i]
         /\ \A i \in 1 .. Len(p) : b[13 + 24 + 8 + i] = p[i]
    BY <1>2, <1>5, <1>8, <1>9, Zenon DEF HasLength
  <1>11. /\ \A i \in 1 .. 13 : b[i] = r[i]
         /\ \A i \in 1 .. 24 : b[13 + i] = h[i]
         /\ \A i \in 1 .. 8 : b[37 + i] = e[i]
    <2>1. ASSUME NEW i \in 1 .. 13 PROVE b[i] = r[i]
      <3>1. i \in 1 .. 13 + 24 /\ i \in 1 .. 13 + 24 + 8
        OBVIOUS
      <3> QED BY <1>10, <3>1, Zenon
    <2>2. ASSUME NEW i \in 1 .. 24 PROVE b[13 + i] = h[i]
      <3>1. 13 + i \in 1 .. 13 + 24 /\ 13 + i \in 1 .. 13 + 24 + 8
        OBVIOUS
      <3> QED BY <1>10, <3>1, Zenon
    <2>3. ASSUME NEW i \in 1 .. 8 PROVE b[37 + i] = e[i]
      <3>1. 37 + i \in 1 .. 13 + 24 + 8 /\ 37 + i = 13 + 24 + i
        OBVIOUS
      <3> QED BY <1>10, <3>1, Zenon
    <2> QED BY <2>1, <2>2, <2>3
  <1>12. 13 + 24 + 8 = 45
    OBVIOUS
  <1>13. FourPartsOf(b, r, h, e, p)
    BY <1>9, <1>10, <1>11, <1>12, Zenon DEF FourPartsOf
  <1> QED BY <1>13, Zenon DEF b, rhe, rh

(* Writing part of a buffer changes those bytes and no other. *)
LEMMA PutBytes ==
  ASSUME NEW b \in Seq(Nat), NEW off \in Nat, NEW part \in Seq(Nat),
         off + Len(part) <= Len(b)
  PROVE  /\ Put(b, off, part) \in Seq(Nat)
         /\ Len(Put(b, off, part)) = Len(b)
         /\ \A i \in 1 .. Len(b) :
              Put(b, off, part)[i] = IF off < i /\ i <= off + Len(part) THEN part[i - off] ELSE b[i]
  <1>1. Len(b) \in Nat /\ Len(part) \in Nat
    OBVIOUS
  <1>2. \A i \in 1 .. Len(b) : off < i /\ i <= off + Len(part) => part[i - off] \in Nat
    BY <1>1
  <1> QED BY <1>1, <1>2 DEF Put

(* Opaque, since provers that count in unary meet them. *)
IsU16(n) == n < 65536
IsU32(n) == n \div 16777216 < 256

(* Big-endian digits put together again. *)
LEMMA FourDigits ==
  ASSUME NEW n \in Nat, IsU32(n)
  PROVE  /\ BE4(n) \in Seq(Nat) /\ Len(BE4(n)) = 4
         /\ BE4(n)[1] * 16777216 + BE4(n)[2] * 65536 + (BE4(n)[3] * 256 + BE4(n)[4]) = n
  <1> DEFINE a == n \div 16777216
             b == n \div 65536
             c == n \div 256
  <1>1. a \in Nat /\ b \in Nat /\ c \in Nat
    OBVIOUS
  <1>2. c = 256 * b + (c % 256)
    OBVIOUS
  <1>3. b = 256 * a + (b % 256)
    OBVIOUS
  <1>4. n = 256 * c + (n % 256) /\ n % 256 \in Nat /\ b % 256 \in Nat /\ c % 256 \in Nat
    OBVIOUS
  <1>5. a % 256 = a
    BY <1>1 DEF IsU32
  <1> HIDE DEF a, b, c
  <1>6. (a % 256) * 16777216 + (b % 256) * 65536 + ((c % 256) * 256 + (n % 256)) = n
    BY <1>1, <1>2, <1>3, <1>4, <1>5
  <1>7. BE4(n) = <<a % 256, b % 256, c % 256, n % 256>>
    BY DEF BE4, a, b, c
  <1> QED BY <1>1, <1>4, <1>5, <1>6, <1>7

LEMMA FourDigitBytes ==
  ASSUME NEW n \in Nat
  PROVE  BE4(n)[1] \in Nat /\ BE4(n)[2] \in Nat /\ BE4(n)[3] \in Nat /\ BE4(n)[4] \in Nat
  BY DEF BE4

LEMMA LengthBytes ==
  ASSUME NEW n \in Nat
  PROVE  BE2(n % 65536)[1] \in Nat /\ BE2(n % 65536)[2] \in Nat
  BY DEF BE2

LEMMA SeqWiden ==
  ASSUME NEW s, s \in Seq(Nat) \/ s \in Seq(Byte)
  PROVE  s \in Seq(Nat \cup Byte)
  OBVIOUS

LEMMA TwoDigits ==
  ASSUME NEW n \in Nat, IsU16(n)
  PROVE  /\ n \div 256 \in Nat /\ (n \div 256) % 256 = n \div 256 /\ n % 256 \in Nat
         /\ (n \div 256) * 256 + (n % 256) = n
  BY DEF IsU16

(* The templates as open leaves them, for the modulation and the stream.   *)
BandwidthByte(t) == IF t.bandwidth = 40 THEN 1 ELSE 0
RadiotapOf(t) == <<0, 0, 13, 0, 0, 128, 8, 0, 8, 0, 55, BandwidthByte(t), t.mcs_index>>

HeaderBytes(h, type, n) ==
  /\ h \in Seq(Nat) /\ Len(h) = 24
  /\ h[1] = type /\ h[11] = 87 /\ h[12] = 66
  /\ \A i \in 1 .. 4 : h[12 + i] = BE4(n)[i]
IsHeaderOf(h, t) == HeaderBytes(h, t.frame_type, t.stream)

(* What a message is made of: numbers, and bytes of payload. *)
Bytes == Nat \cup Byte

(* What lies in the bytes of frame f. *)
Laid(b, f) ==
  /\ b \in Seq(Bytes)
  /\ Len(b) = 45 + Len(f.payload)
  /\ \A i \in 1 .. 13 : b[i] = RadiotapOf(f)[i]
  /\ b[14] = f.frame_type /\ b[24] = 87 /\ b[25] = 66
  /\ \A i \in 1 .. 4 : b[25 + i] = BE4(f.stream)[i]
  /\ b[36] = f.seq_control % 256 /\ b[37] = (f.seq_control \div 256) % 256
  /\ \A i \in 1 .. 8 : b[37 + i] = encode(f.hdr)[i]
  /\ \A i \in 1 .. Len(f.payload) : b[45 + i] = f.payload[i]

(* The header of a send within the limits. *)
Sent(f) ==
  /\ f.hdr.version = WFB_PROTO_VERSION /\ f.hdr.flags = 0 /\ f.hdr.seq \in Seqs
  /\ f.hdr = [version |-> f.hdr.version, seq |-> f.hdr.seq,
              payload_len |-> f.hdr.payload_len, flags |-> f.hdr.flags]
  /\ f.hdr.payload_len = Len(f.payload) /\ Len(f.payload) <= compute_max_payload

WireInv ==
  /\ tx # NoTx => radiotap_ht = RadiotapOf(tx) /\ IsHeaderOf(ieee_hdr, tx)
  /\ wire \in Seq(Seq(Bytes))
  /\ Len(wire) = Len(air)
  /\ \A i \in 1 .. Len(air) : Sent(air[i]) /\ Laid(wire[i], air[i])

LEMMA TemplateTypes ==
  /\ IEEE80211_HEADER_TEMPLATE \in Seq(Nat) /\ Len(IEEE80211_HEADER_TEMPLATE) = 24
  /\ IEEE80211_HEADER_TEMPLATE[11] = 87 /\ IEEE80211_HEADER_TEMPLATE[12] = 66
  /\ RADIOTAP_HT_TEMPLATE \in Seq(Nat) /\ Len(RADIOTAP_HT_TEMPLATE) = 13
  BY DEF IEEE80211_HEADER_TEMPLATE, RADIOTAP_HT_TEMPLATE

(* The 802.11 header of a new object. *)
LEMMA OpenedHeader ==
  ASSUME NEW n \in Nat, IsU32(n), NEW type \in Nat
  PROVE  HeaderBytes(Put(Put(Put(IEEE80211_HEADER_TEMPLATE, 0, <<type>>), 12, BE4(n)), 18, BE4(n)),
                     type, n)
  <1> DEFINE template == IEEE80211_HEADER_TEMPLATE
             one == <<type>>
             typed == Put(template, 0, one)
             d == BE4(n)
             g == Put(typed, 12, d)
             h == Put(g, 18, d)
  <1>1. template \in Seq(Nat) /\ Len(template) = 24 /\ template[11] = 87 /\ template[12] = 66
    BY TemplateTypes
  <1>2. d \in Seq(Nat) /\ Len(d) = 4
    BY FourDigits
  <1>3. one \in Seq(Nat) /\ Len(one) = 1 /\ one[1] = type
    OBVIOUS
  <1> HIDE DEF template, one, d
  <1>4. /\ typed \in Seq(Nat) /\ Len(typed) = 24
        /\ typed[1] = type /\ typed[11] = 87 /\ typed[12] = 66
    <2>0. /\ template \in Seq(Nat) /\ one \in Seq(Nat) /\ 0 \in Nat
          /\ 0 + Len(one) <= Len(template)
      BY <1>1, <1>3
    <2>1. /\ typed \in Seq(Nat) /\ Len(typed) = Len(template)
          /\ \A i \in 1 .. Len(template) :
               typed[i] = IF 0 < i /\ i <= 0 + Len(one) THEN one[i - 0] ELSE template[i]
      BY <2>0, PutBytes, Zenon
    <2>2. /\ 1 \in 1 .. Len(template) /\ 11 \in 1 .. Len(template) /\ 12 \in 1 .. Len(template)
          /\ 1 <= 0 + Len(one) /\ ~ (11 <= 0 + Len(one)) /\ ~ (12 <= 0 + Len(one))
          /\ 1 - 0 = 1 /\ 0 < 1
      BY <1>1, <1>3
    <2>3. typed[1] = one[1] /\ typed[11] = template[11] /\ typed[12] = template[12]
      BY <2>1, <2>2, Zenon
    <2> QED BY <1>1, <1>3, <2>1, <2>3, Zenon
  <1> HIDE DEF typed
  <1>5. /\ g \in Seq(Nat) /\ Len(g) = 24
        /\ \A i \in 1 .. 12 : g[i] = typed[i]
        /\ \A i \in 1 .. 4 : g[12 + i] = d[i]
    <2>0. typed \in Seq(Nat) /\ d \in Seq(Nat) /\ 12 \in Nat /\ 12 + Len(d) <= Len(typed)
      BY <1>2, <1>4
    <2>1. /\ g \in Seq(Nat) /\ Len(g) = Len(typed)
          /\ \A i \in 1 .. Len(typed) :
               g[i] = IF 12 < i /\ i <= 12 + Len(d) THEN d[i - 12] ELSE typed[i]
      BY <2>0, PutBytes, Zenon
    <2>2. Len(g) = 24
      BY <1>4, <2>1
    <2>3. ASSUME NEW i \in 1 .. 12 PROVE g[i] = typed[i]
      <3>1. i \in 1 .. Len(typed) /\ ~ (12 < i)
        BY <1>4
      <3> QED BY <2>1, <3>1, Zenon
    <2>4. ASSUME NEW i \in 1 .. 4 PROVE g[12 + i] = d[i]
      <3>1. 12 + i \in 1 .. Len(typed) /\ 12 < 12 + i /\ 12 + i <= 12 + Len(d)
            /\ 12 + i - 12 = i
        BY <1>2, <1>4
      <3>2. g[12 + i] = IF 12 < 12 + i /\ 12 + i <= 12 + Len(d)
                        THEN d[12 + i - 12] ELSE typed[12 + i]
        BY <2>1, <3>1
      <3> QED BY <3>1, <3>2, Zenon
    <2> QED BY <2>1, <2>2, <2>3, <2>4
  <1> HIDE DEF g
  <1>6. /\ h \in Seq(Nat) /\ Len(h) = 24
        /\ \A i \in 1 .. 24 : h[i] = IF 18 < i /\ i <= 22 THEN d[i - 18] ELSE g[i]
    <2>0. g \in Seq(Nat) /\ d \in Seq(Nat) /\ 18 \in Nat /\ 18 + Len(d) <= Len(g)
      BY <1>2, <1>5
    <2>1. /\ h \in Seq(Nat) /\ Len(h) = Len(g)
          /\ \A i \in 1 .. Len(g) :
               h[i] = IF 18 < i /\ i <= 18 + Len(d) THEN d[i - 18] ELSE g[i]
      BY <2>0, PutBytes, Zenon
    <2> QED BY <1>2, <1>5, <2>1
  <1> HIDE DEF h
  <1>7. h[1] = type /\ h[11] = 87 /\ h[12] = 66
    BY <1>4, <1>5, <1>6
  <1>8. \A i \in 1 .. 4 : h[12 + i] = d[i]
    <2>1. ASSUME NEW i \in 1 .. 4 PROVE h[12 + i] = d[i]
      <3>1. 12 + i \in 1 .. 24 /\ ~ (18 < 12 + i)
        OBVIOUS
      <3>2. h[12 + i] = g[12 + i]
        BY <1>6, <3>1
      <3> QED BY <1>5, <3>2, Zenon
    <2> QED BY <2>1
  <1>9. HeaderBytes(h, type, n)
    BY <1>6, <1>7, <1>8, Zenon DEF HeaderBytes, d
  <1> QED BY <1>9, Zenon DEF h, g, typed, template, one, d

(* Its radiotap header. *)
LEMMA OpenedRadiotap ==
  ASSUME NEW bw, NEW mcs
  PROVE  Put(Put(RADIOTAP_HT_TEMPLATE, 11, <<bw>>), 12, <<mcs>>)
           = <<0, 0, 13, 0, 0, 128, 8, 0, 8, 0, 55, bw, mcs>>
  BY DEF Put, RADIOTAP_HT_TEMPLATE

(* The number of a send changes the last two bytes of its header only. *)
LEMMA NumberedHeader ==
  ASSUME IsHeaderOf(ieee_hdr, tx), ieee80211_seq \in Nat, IsU16(ieee80211_seq)
  PROVE  /\ IsHeaderOf(Numbered, tx)
         /\ Numbered[23] = ieee80211_seq % 256
         /\ Numbered[24] = (ieee80211_seq \div 256) % 256
  <1> DEFINE h == ieee_hdr
             lo == <<ieee80211_seq % 256>>
             hi == <<(ieee80211_seq \div 256) % 256>>
             g == Put(h, 22, lo)
             k == Put(g, 23, hi)
  <1>1. h \in Seq(Nat) /\ Len(h) = 24
    BY DEF IsHeaderOf, HeaderBytes
  <1>2. ieee80211_seq % 256 \in Nat /\ (ieee80211_seq \div 256) % 256 \in Nat
    BY TwoDigits
  <1>3. /\ lo \in Seq(Nat) /\ Len(lo) = 1 /\ lo[1] = ieee80211_seq % 256
        /\ hi \in Seq(Nat) /\ Len(hi) = 1 /\ hi[1] = (ieee80211_seq \div 256) % 256
    BY <1>2
  <1>4. Numbered = k
    BY DEF Numbered, FRAME_SEQ_LB, FRAME_SEQ_HB
  <1>5. h[1] = tx.frame_type /\ h[11] = 87 /\ h[12] = 66
        /\ \A i \in 1 .. 4 : h[12 + i] = BE4(tx.stream)[i]
    BY DEF IsHeaderOf, HeaderBytes
  <1> HIDE DEF h, lo, hi
  <1>6. /\ g \in Seq(Nat) /\ Len(g) = 24 /\ g[23] = lo[1]
        /\ \A i \in 1 .. 22 : g[i] = h[i]
    <2>0. h \in Seq(Nat) /\ lo \in Seq(Nat) /\ 22 \in Nat /\ 22 + Len(lo) <= Len(h)
      BY <1>1, <1>3
    <2>1. /\ g \in Seq(Nat) /\ Len(g) = Len(h)
          /\ \A i \in 1 .. Len(h) : g[i] = IF 22 < i /\ i <= 22 + Len(lo) THEN lo[i - 22] ELSE h[i]
      BY <2>0, PutBytes, Zenon
    <2> QED BY <1>1, <1>3, <2>1
  <1> HIDE DEF g
  <1>7. /\ k \in Seq(Nat) /\ Len(k) = 24 /\ k[24] = hi[1] /\ k[23] = g[23]
        /\ \A i \in 1 .. 22 : k[i] = g[i]
    <2>0. g \in Seq(Nat) /\ hi \in Seq(Nat) /\ 23 \in Nat /\ 23 + Len(hi) <= Len(g)
      BY <1>3, <1>6
    <2>1. /\ k \in Seq(Nat) /\ Len(k) = Len(g)
          /\ \A i \in 1 .. Len(g) : k[i] = IF 23 < i /\ i <= 23 + Len(hi) THEN hi[i - 23] ELSE g[i]
      BY <2>0, PutBytes, Zenon
    <2> QED BY <1>3, <1>6, <2>1
  <1> HIDE DEF k
  <1>8. k[1] = h[1] /\ k[11] = h[11] /\ k[12] = h[12] /\ \A i \in 1 .. 4 : k[12 + i] = h[12 + i]
    <2>1. \A i \in 1 .. 22 : k[i] = h[i]
      BY <1>6, <1>7, Zenon
    <2>2. 1 \in 1 .. 22 /\ 11 \in 1 .. 22 /\ 12 \in 1 .. 22 /\ \A i \in 1 .. 4 : 12 + i \in 1 .. 22
      OBVIOUS
    <2> QED BY <2>1, <2>2, Zenon
  <1>9. \A i \in 1 .. 4 : k[12 + i] = BE4(tx.stream)[i]
    BY <1>5, <1>8, Zenon
  <1>10. IsHeaderOf(k, tx)
    BY <1>5, <1>7, <1>8, <1>9, Zenon DEF IsHeaderOf, HeaderBytes
  <1>11. k[23] = ieee80211_seq % 256 /\ k[24] = (ieee80211_seq \div 256) % 256
    BY <1>3, <1>6, <1>7, Zenon
  <1> QED BY <1>4, <1>10, <1>11, Zenon

(* The bytes of a message lie where the frame of that send says. *)
LEMMA MessageLaid ==
  ASSUME radiotap_ht = RadiotapOf(tx), IsHeaderOf(ieee_hdr, tx),
         ieee80211_seq \in Nat, IsU16(ieee80211_seq),
         tx.mcs_index \in Nat,
         NEW p \in Seq(Byte), NEW s \in Nat, IsU32(s),
         Len(p) <= compute_max_payload
  PROVE  Laid(Message(p, s), Frame(p, s))
  <1> DEFINE f == Frame(p, s)
             T == Bytes
             r == radiotap_ht
             h == Numbered
             e == encode(f.hdr)
             b == Message(p, s)
  <1>1. IsHeaderOf(h, tx) /\ h[23] = ieee80211_seq % 256 /\ h[24] = (ieee80211_seq \div 256) % 256
    BY NumberedHeader
  <1>2. r = <<0, 0, 13, 0, 0, 128, 8, 0, 8, 0, 55, BandwidthByte(tx), tx.mcs_index>>
    BY DEF RadiotapOf
  <1>3. BandwidthByte(tx) \in Nat
    BY DEF BandwidthByte
  <1>4. r \in Seq(Nat) /\ Len(r) = 13
    BY <1>2, <1>3
  <1>5. /\ f.hdr.version = 0 /\ f.hdr.flags = 0 /\ f.hdr.seq = s
        /\ f.hdr.payload_len = Len(p) % 65536
    BY DEF Frame, WFB_PROTO_VERSION
  <1>6. /\ f.payload = p /\ f.stream = tx.stream /\ f.frame_type = tx.frame_type
        /\ f.seq_control = ieee80211_seq /\ f.mcs_index = tx.mcs_index
        /\ f.bandwidth = tx.bandwidth
    BY DEF Frame
  <1>7. e \in Seq(Nat) /\ Len(e) = 8
    <2> DEFINE d == BE4(s)
               l == BE2(Len(p) % 65536)
    <2>1. d[1] \in Nat /\ d[2] \in Nat /\ d[3] \in Nat /\ d[4] \in Nat
      BY FourDigitBytes
    <2>2. l[1] \in Nat /\ l[2] \in Nat
      BY LengthBytes
    <2>3. e = <<0, d[1], d[2], d[3], d[4], l[1], l[2], 0>>
      BY <1>5 DEF encode
    <2> HIDE DEF d, l
    <2> QED BY <2>1, <2>2, <2>3
  <1>8. b = r \o h \o e \o p
    BY DEF Message
  <1>9. h \in Seq(Nat) /\ Len(h) = 24
    BY <1>1 DEF IsHeaderOf, HeaderBytes
  <1>10. RadiotapOf(f) = r
    BY <1>2, <1>6 DEF RadiotapOf, BandwidthByte
  <1>11. encode(f.hdr) = e
    OBVIOUS
  <1>12. h[1] = tx.frame_type /\ h[11] = 87 /\ h[12] = 66
         /\ \A i \in 1 .. 4 : h[12 + i] = BE4(tx.stream)[i]
    BY <1>1 DEF IsHeaderOf, HeaderBytes
  <1>13. h[23] = ieee80211_seq % 256 /\ h[24] = (ieee80211_seq \div 256) % 256
    BY <1>1
  <1> HIDE DEF f, r, h, e, b
  <1>14. /\ Len(b) = 45 + Len(p)
         /\ \A i \in 1 .. 13 : b[i] = r[i]
         /\ \A i \in 1 .. 24 : b[13 + i] = h[i]
         /\ \A i \in 1 .. 8 : b[37 + i] = e[i]
         /\ \A i \in 1 .. Len(p) : b[45 + i] = p[i]
        /\ b \in Seq(T)
    <2>1. r \in Seq(T) /\ h \in Seq(T) /\ e \in Seq(T) /\ p \in Seq(T)
      BY <1>4, <1>7, <1>9, SeqWiden DEF Bytes
    <2>2. r \o h \o e \o p \in Seq(T)
      BY <2>1
    <2>3. HasLength(r, 13) /\ HasLength(h, 24) /\ HasLength(e, 8)
      BY <1>4, <1>7, <1>9 DEF HasLength
    <2> HIDE DEF T
    <2>4. FourPartsOf(r \o h \o e \o p, r, h, e, p)
      BY <2>1, <2>3, FourParts, Zenon
    <2> QED BY <1>8, <2>2, <2>4, Zenon DEF FourPartsOf
  <1>15. b[14] = h[1] /\ b[24] = h[11] /\ b[25] = h[12] /\ b[36] = h[23] /\ b[37] = h[24]
    BY <1>14
  <1>16. \A i \in 1 .. 4 : b[25 + i] = BE4(tx.stream)[i]
    <2>1. ASSUME NEW i \in 1 .. 4 PROVE b[25 + i] = h[12 + i]
      <3>1. 12 + i \in 1 .. 24 /\ 13 + (12 + i) = 25 + i
        OBVIOUS
      <3>2. b[13 + (12 + i)] = h[12 + i]
        BY <1>14, <3>1, Zenon
      <3> QED BY <3>1, <3>2, Zenon
    <2> QED BY <1>12, <2>1, Zenon
  <1>17. \A i \in 1 .. 13 : b[i] = RadiotapOf(f)[i]
    BY <1>10, <1>14, Zenon
  <1>18. Laid(b, f)
    <2>1. Len(b) = 45 + Len(f.payload) /\ \A i \in 1 .. Len(f.payload) : b[45 + i] = f.payload[i]
      BY <1>6, <1>14, Zenon
    <2>2. b[14] = f.frame_type /\ b[24] = 87 /\ b[25] = 66
      BY <1>6, <1>12, <1>15
    <2>3. \A i \in 1 .. 4 : b[25 + i] = BE4(f.stream)[i]
      BY <1>6, <1>16, Zenon
    <2>4. b[36] = f.seq_control % 256 /\ b[37] = (f.seq_control \div 256) % 256
      BY <1>6, <1>13, <1>15
    <2>5. \A i \in 1 .. 8 : b[37 + i] = encode(f.hdr)[i]
      BY <1>11, <1>14, Zenon
    <2> QED BY <1>14, <1>17, <2>1, <2>2, <2>3, <2>4, <2>5, Zenon DEF Laid
  <1> QED BY <1>18 DEF b, f
-----------------------------------------------------------------------------
(* The buffers of the sender, and the bytes of what it has sent.           *)
LEMMA OneMore ==
  ASSUME NEW S, NEW w \in Seq(S), NEW x
  PROVE  /\ Len(w) \in Nat
         /\ Len(Append(w, x)) = Len(w) + 1
         /\ Append(w, x)[Len(w) + 1] = x
         /\ \A i \in 1 .. Len(w) : Append(w, x)[i] = w[i]
  OBVIOUS

LEMMA Widths ==
  /\ \A n \in Streams \cup Seqs : n \in Nat /\ IsU32(n)
  /\ TxTypeOK => ieee80211_seq \in Nat /\ IsU16(ieee80211_seq)
  <1>1. \A n \in Streams \cup Seqs : n \in Nat /\ n \div 16777216 < 256
    BY StreamAssumption, PayloadAssumption, WidthAssumption
  <1>2. TxTypeOK => ieee80211_seq \in Nat /\ ieee80211_seq < 65536
    BY SeqSpaceAssumption, WidthAssumption DEF TxTypeOK
  <1> QED BY <1>1, <1>2 DEF IsU16, IsU32

LEMMA FrameSent ==
  ASSUME NEW p \in Payloads, NEW s \in Seqs, Len(p) <= compute_max_payload
  PROVE  Sent(Frame(p, s))
  <1>1. Len(p) \in Nat /\ Len(p) < 65536
    BY PayloadAssumption, MtuAssumption, LengthFieldAssumption
    DEF compute_max_payload, IEE80211_HEADER_LEN, WFB_PLAINTEXT_HDR_LEN
  <1>2. Len(p) % 65536 = Len(p)
    BY <1>1
  <1> QED BY <1>2 DEF Frame, Sent

LEMMA WireOpened ==
  ASSUME WireInv, NEW cfg \in TxConfigs, WireOpen(cfg)
  PROVE  WireInv'
  <1>1. /\ tx' = [stream |-> cfg.stream_id, frame_type |-> cfg.frame_type,
                  mcs_index |-> Mcs(cfg), bandwidth |-> Bandwidth(cfg)]
        /\ TxConfigOK(cfg) /\ air' = air /\ wire' = wire
    BY DEF WireOpen, TxOpen
  <1>2. /\ ieee_hdr' = Put(Put(Put(IEEE80211_HEADER_TEMPLATE, 0, <<cfg.frame_type>>),
                               12, BE4(cfg.stream_id)), 18, BE4(cfg.stream_id))
        /\ radiotap_ht' = Put(Put(RADIOTAP_HT_TEMPLATE, 11,
                                  <<IF Bandwidth(cfg) = 40 THEN 1 ELSE 0>>), 12, <<Mcs(cfg)>>)
    BY DEF WireOpen, SRC_MAC_THIRD_BYTE, DST_MAC_THIRD_BYTE, MCS_FLAGS_OFF, MCS_IDX_OFF
  <1>3. cfg.stream_id \in Streams /\ cfg.frame_type \in Nat
    <2>1. cfg.stream_id \in Streams \cup {0} /\ cfg.stream_id # 0
      BY <1>1, TxConfigAssumption, Zenon DEF TxConfigOK, ArgsOK
    <2>2. cfg.frame_type = 8 \/ cfg.frame_type = 180
      BY <1>1, Zenon DEF TxConfigOK, ArgsOK, WFB_FRAME_TYPE_DATA, WFB_FRAME_TYPE_RTS
    <2> QED BY <2>1, <2>2
  <1>4. cfg.stream_id \in Nat /\ IsU32(cfg.stream_id)
    BY <1>3, Widths
  <1>5. IsHeaderOf(ieee_hdr', tx')
    <2>1. tx'.frame_type = cfg.frame_type /\ tx'.stream = cfg.stream_id
      BY <1>1
    <2>2. HeaderBytes(Put(Put(Put(IEEE80211_HEADER_TEMPLATE, 0, <<cfg.frame_type>>),
                              12, BE4(cfg.stream_id)), 18, BE4(cfg.stream_id)),
                      cfg.frame_type, cfg.stream_id)
      BY <1>3, <1>4, OpenedHeader, Zenon
    <2> QED BY <1>2, <2>1, <2>2, Zenon DEF IsHeaderOf, HeaderBytes
  <1>6. radiotap_ht' = RadiotapOf(tx')
    <2>1. BandwidthByte(tx') = (IF Bandwidth(cfg) = 40 THEN 1 ELSE 0) /\ tx'.mcs_index = Mcs(cfg)
      BY <1>1 DEF BandwidthByte
    <2> QED BY <1>2, <2>1, OpenedRadiotap, Zenon DEF RadiotapOf
  <1> QED BY <1>1, <1>5, <1>6 DEF WireInv

LEMMA WireSent ==
  ASSUME TxTypeOK, WireInv, NEW p \in Payloads, NEW s \in Seqs, WireSendOk(p, s)
  PROVE  WireInv'
  <1> DEFINE f == Frame(p, s)
             b == Message(p, s)
  <1>1. /\ tx # NoTx /\ tx' = tx /\ air' = Append(air, f) /\ wire' = Append(wire, b)
        /\ ieee_hdr' = Numbered /\ radiotap_ht' = radiotap_ht
        /\ Len(p) <= compute_max_payload
    BY DEF WireSendOk, SendOk
  <1>2. radiotap_ht = RadiotapOf(tx) /\ IsHeaderOf(ieee_hdr, tx)
    BY <1>1 DEF WireInv
  <1>3. ieee80211_seq \in Nat /\ IsU16(ieee80211_seq) /\ s \in Nat /\ IsU32(s)
    BY Widths
  <1>4. tx.mcs_index \in Nat /\ p \in Seq(Byte)
    <2>1. tx.mcs_index \in 1 .. 15
      BY <1>1, Zenon DEF TxTypeOK
    <2>2. p \in Seq(Byte)
      BY PayloadAssumption, Zenon
    <2> QED BY <2>1, <2>2
  <1>5. Sent(f) /\ Laid(b, f)
    BY <1>1, <1>2, <1>3, <1>4, FrameSent, MessageLaid
  <1>6. IsHeaderOf(ieee_hdr', tx')
    BY <1>1, <1>2, <1>3, NumberedHeader
  <1> HIDE DEF f, b
  <1>7. /\ Len(air) \in Nat /\ Len(air') = Len(air) + 1 /\ air'[Len(air) + 1] = f
        /\ \A i \in 1 .. Len(air) : air'[i] = air[i]
    BY <1>1, OneMore DEF TxTypeOK
  <1>8. /\ wire' \in Seq(Seq(Bytes))
        /\ Len(wire') = Len(wire) + 1 /\ wire'[Len(wire) + 1] = b
        /\ \A i \in 1 .. Len(wire) : wire'[i] = wire[i]
    <2>1. wire \in Seq(Seq(Bytes)) /\ b \in Seq(Bytes)
      BY <1>5 DEF WireInv, Laid
    <2>2. Append(wire, b) \in Seq(Seq(Bytes))
      BY <2>1
    <2> QED BY <1>1, <2>1, <2>2, OneMore
  <1>9. Len(wire) = Len(air) /\ \A i \in 1 .. Len(air) : Sent(air[i]) /\ Laid(wire[i], air[i])
    BY DEF WireInv
  <1>10. ASSUME NEW i \in 1 .. Len(air') PROVE Sent(air'[i]) /\ Laid(wire'[i], air'[i])
    <2>1. i \in 1 .. Len(air) \/ i = Len(air) + 1
      BY <1>7
    <2>2. CASE i \in 1 .. Len(air)
      BY <1>7, <1>8, <1>9, <2>2, Zenon
    <2>3. CASE i = Len(air) + 1
      BY <1>5, <1>7, <1>8, <1>9, <2>3, Zenon
    <2> QED BY <2>1, <2>2, <2>3
  <1>11. Len(wire') = Len(air')
    BY <1>7, <1>8, <1>9, Zenon
  <1>12. radiotap_ht' = RadiotapOf(tx')
    BY <1>1, <1>2
  <1> QED BY <1>6, <1>8, <1>10, <1>11, <1>12 DEF WireInv

LEMMA WireStep == TxTypeOK /\ WireInv /\ [WireNext]_wire_vars => WireInv'
  <1> SUFFICES ASSUME TxTypeOK, WireInv, [WireNext]_wire_vars PROVE WireInv'
    OBVIOUS
  <1>1. ASSUME tx' = tx \/ tx' = NoTx, UNCHANGED <<air, wire, ieee_hdr, radiotap_ht>>
        PROVE  WireInv'
    BY <1>1 DEF WireInv
  <1>2. CASE UNCHANGED wire_vars
    BY <1>1, <1>2 DEF wire_vars, tx_vars
  <1>3. ASSUME NEW cfg \in TxConfigs, TxOpenFails(cfg), UNCHANGED <<ieee_hdr, radiotap_ht, wire>>
        PROVE  WireInv'
    BY <1>1, <1>3 DEF TxOpenFails
  <1>4. ASSUME TxClose, UNCHANGED <<ieee_hdr, radiotap_ht, wire>> PROVE WireInv'
    BY <1>1, <1>4 DEF TxClose
  <1>5. ASSUME NEW p \in Payloads, SendTooLarge(p), UNCHANGED <<ieee_hdr, radiotap_ht, wire>>
        PROVE  WireInv'
    BY <1>1, <1>5 DEF SendTooLarge
  <1>6. ASSUME NEW p \in Payloads, WireSendFails(p) PROVE WireInv'
    <2>1. tx # NoTx /\ tx' = tx /\ air' = air /\ wire' = wire
          /\ ieee_hdr' = Numbered /\ radiotap_ht' = radiotap_ht
      BY <1>6 DEF WireSendFails, SendFails
    <2>2. IsHeaderOf(ieee_hdr, tx)
      BY <2>1 DEF WireInv
    <2>3. IsHeaderOf(Numbered, tx)
      BY <2>2, Widths, NumberedHeader
    <2> QED BY <2>1, <2>3 DEF WireInv
  <1> QED
    BY <1>2, <1>3, <1>4, <1>5, <1>6, WireOpened, WireSent DEF WireNext

(* With its bytes the sender is still the sender of WfbTx. *)
LEMMA WireIsTx == [WireNext]_wire_vars => [TxNext]_tx_vars
  BY DEF WireNext, TxNext, wire_vars, tx_vars, WireOpen, WireSendOk, WireSendFails

LEMMA WireInvariant == WireSpec => [](TxTypeOK /\ WireInv)
  <1>1. WireInit => TxTypeOK /\ WireInv
    BY SeqSpaceAssumption DEF WireInit, TxInit, TxTypeOK, WireInv
  <1>2. TxTypeOK /\ WireInv /\ [WireNext]_wire_vars => TxTypeOK' /\ WireInv'
    BY WireStep, WireIsTx, TypeStep
  <1> QED BY <1>1, <1>2, PTL DEF WireSpec
-----------------------------------------------------------------------------
(* The way back: what the receiver finds in bytes laid out for a frame.    *)

(* The three non-zero bytes of the present word, bit by bit. *)
LEMMA BitOfByte ==
  ASSUME NEW x \in 0 .. 7
  PROVE  /\ (0 \div At(BIT, x)) % 2 # 1
         /\ (128 \div At(BIT, x)) % 2 = 1 <=> x = 7
         /\ (8 \div At(BIT, x)) % 2 = 1 <=> x = 3
  <1>1. x = 0 \/ x = 1 \/ x = 2 \/ x = 3 \/ x = 4 \/ x = 5 \/ x = 6 \/ x = 7
    OBVIOUS
  <1>2. /\ At(BIT, 0) = 1 /\ At(BIT, 1) = 2 /\ At(BIT, 2) = 4 /\ At(BIT, 3) = 8
        /\ At(BIT, 4) = 16 /\ At(BIT, 5) = 32 /\ At(BIT, 6) = 64 /\ At(BIT, 7) = 128
    BY DEF At, BIT
  <1>3. /\ 0 \div 1 = 0 /\ 0 \div 2 = 0 /\ 0 \div 4 = 0 /\ 0 \div 8 = 0
        /\ 0 \div 16 = 0 /\ 0 \div 32 = 0 /\ 0 \div 64 = 0 /\ 0 \div 128 = 0
    OBVIOUS
  <1>4. /\ 128 \div 1 = 128 /\ 128 \div 2 = 64 /\ 128 \div 4 = 32 /\ 128 \div 8 = 16
        /\ 128 \div 16 = 8 /\ 128 \div 32 = 4 /\ 128 \div 64 = 2 /\ 128 \div 128 = 1
    OBVIOUS
  <1>5. /\ 8 \div 1 = 8 /\ 8 \div 2 = 4 /\ 8 \div 4 = 2 /\ 8 \div 8 = 1
        /\ 8 \div 16 = 0 /\ 8 \div 32 = 0 /\ 8 \div 64 = 0 /\ 8 \div 128 = 0
    OBVIOUS
  <1> QED BY <1>1, <1>2, <1>3, <1>4, <1>5

(* The radiotap bytes, one by one. *)
LEMMA LaidRadiotap ==
  ASSUME NEW b, NEW f \in Frames, Laid(b, f)
  PROVE  /\ b[1] = 0 /\ b[2] = 0 /\ b[3] = 13 /\ b[4] = 0
         /\ b[5] = 0 /\ b[6] = 128 /\ b[7] = 8 /\ b[8] = 0
         /\ b[9] = 8 /\ b[10] = 0 /\ b[11] = 55
         /\ b[12] = BandwidthByte(f) /\ b[13] = f.mcs_index
  <1>1. \A i \in 1 .. 13 : b[i] = RadiotapOf(f)[i]
    BY DEF Laid
  <1> QED BY <1>1 DEF RadiotapOf

(* Exactly TX_FLAGS and MCS are announced. *)
LEMMA LaidPresent ==
  ASSUME NEW b, NEW f \in Frames, Laid(b, f)
  PROVE  PresentWord(b) = {15, 19}
  <1>1. At(b, 4) = 0 /\ At(b, 5) = 128 /\ At(b, 6) = 8 /\ At(b, 7) = 0
    BY LaidRadiotap DEF At
  <1>2. ASSUME NEW i \in Bits
        PROVE  (At(b, 4 + (i \div 8)) \div At(BIT, i % 8)) % 2 = 1 <=> i = 15 \/ i = 19
    <2> DEFINE x == i % 8
               k == i \div 8
    <2>1. x \in 0 .. 7 /\ k \in 0 .. 3 /\ i = 8 * k + x
      BY DEF Bits
    <2>2. /\ (0 \div At(BIT, x)) % 2 # 1
          /\ (128 \div At(BIT, x)) % 2 = 1 <=> x = 7
          /\ (8 \div At(BIT, x)) % 2 = 1 <=> x = 3
      BY <2>1, BitOfByte
    <2> HIDE DEF x, k
    <2>3. k = 0 \/ k = 1 \/ k = 2 \/ k = 3
      BY <2>1
    <2>4. (At(b, 4 + k) \div At(BIT, x)) % 2 = 1 <=> i = 15 \/ i = 19
      <3>1. CASE k = 0
        <4>1. At(b, 4 + k) = 0 /\ i # 15 /\ i # 19
          BY <1>1, <2>1, <3>1
        <4> QED BY <2>2, <4>1
      <3>2. CASE k = 1
        <4>1. At(b, 4 + k) = 128 /\ i # 19 /\ (i = 15 <=> x = 7)
          BY <1>1, <2>1, <3>2
        <4> QED BY <2>2, <4>1
      <3>3. CASE k = 2
        <4>1. At(b, 4 + k) = 8 /\ i # 15 /\ (i = 19 <=> x = 3)
          BY <1>1, <2>1, <3>3
        <4> QED BY <2>2, <4>1
      <3>4. CASE k = 3
        <4>1. At(b, 4 + k) = 0 /\ i # 15 /\ i # 19
          BY <1>1, <2>1, <3>4
        <4> QED BY <2>2, <4>1
      <3> QED BY <2>3, <3>1, <3>2, <3>3, <3>4
    <2> QED BY <2>4 DEF x, k
  <1>3. 15 \in Bits /\ 19 \in Bits
    BY DEF Bits
  <1> QED BY <1>2, <1>3 DEF PresentWord

(* So the radiotap header is one that the walk is known to understand.     *)
LEMMA LaidParses ==
  ASSUME NEW b, NEW f \in Frames, Laid(b, f)
  PROVE  IsTemplate(HeaderOf(b))
  <1>1. PresentWord(b) = {RTAP_TX_FLAGS, RTAP_MCS}
    BY LaidPresent DEF RTAP_TX_FLAGS, RTAP_MCS
  <1>2. At(b, 0) = 0 /\ le_u16(b, 2) = 13
    BY LaidRadiotap DEF At, le_u16
  <1>3. End(TemplateReads[2]) = 13
    <2>1. TemplateReads[2].at = 10 /\ Field(TemplateReads[2].index) = 19
      BY DEF TemplateReads, RTAP_MCS, Field
    <2>2. StdSize(19) = 3
      BY DEF StdSize, STANDARD
    <2> QED BY <2>1, <2>2 DEF End
  <1>4. 13 <= Len(b)
    <2>1. f.payload \in Seq(Byte)
      BY PayloadAssumption DEF Frames
    <2>2. Len(f.payload) \in Nat
      BY <2>1
    <2>3. Len(b) = 45 + Len(f.payload)
      BY Zenon DEF Laid
    <2>4. \A n \in Nat : 13 <= 45 + n
      OBVIOUS
    <2> QED BY <2>2, <2>3, <2>4, Zenon
  <1> QED BY <1>1, <1>2, <1>3, <1>4, Zenon DEF HeaderOf, IsTemplate

(* The modulation of the frame is what the MCS field says. *)
LEMMA LaidInfo ==
  ASSUME NEW b, NEW f \in Frames, Laid(b, f)
  PROVE  McsInfo(b, 10) = [mcs_index |-> f.mcs_index, bandwidth |-> f.bandwidth]
  <1>1. At(b, 10) = 55 /\ At(b, 11) = BandwidthByte(f) /\ At(b, 12) = f.mcs_index
    BY LaidRadiotap DEF At
  <1>2. f.mcs_index \in 1 .. 15 /\ f.bandwidth \in {20, 40}
    BY DEF Frames
  <1>3. (55 \div 2) % 2 = 1 /\ 55 % 2 = 1 /\ f.mcs_index % 128 = f.mcs_index
    BY <1>2
  <1>4. (IF BandwidthByte(f) % 2 = 1 THEN 40 ELSE 20) = f.bandwidth
    BY <1>2 DEF BandwidthByte
  <1>5. McsInfo(b, 10).mcs_index = f.mcs_index /\ McsInfo(b, 10).bandwidth = f.bandwidth
    <2>1. At(b, 10 + 1) = BandwidthByte(f) /\ At(b, 10 + 2) = f.mcs_index
      BY <1>1
    <2> QED BY <1>1, <1>3, <1>4, <2>1 DEF McsInfo
  <1> QED BY <1>5 DEF McsInfo

(* Numbers read back from their digits. *)
LEMMA ReadFour ==
  ASSUME NEW b, NEW off \in Nat, NEW n \in Nat, IsU32(n),
         \A i \in 1 .. 4 : b[off + i] = BE4(n)[i]
  PROVE  FromBE4(b, off) = n
  <1> DEFINE d == BE4(n)
  <1>1. d[1] * 16777216 + d[2] * 65536 + (d[3] * 256 + d[4]) = n
    BY FourDigits, SMT
  <1>2. b[off + 1] = d[1] /\ b[off + 2] = d[2] /\ b[off + 3] = d[3] /\ b[off + 4] = d[4]
    OBVIOUS
  <1> HIDE DEF d
  <1>3. /\ At(b, off) = d[1] /\ At(b, off + 1) = d[2]
        /\ At(b, off + 2) = d[3] /\ At(b, off + 2 + 1) = d[4]
    <2>1. off + 1 + 1 = off + 2 /\ off + 2 + 1 = off + 3 /\ off + 2 + 1 + 1 = off + 4
      OBVIOUS
    <2> QED BY <1>2, <2>1, Zenon DEF At
  <1>4. FromBE4(b, off) = d[1] * 16777216 + d[2] * 65536 + (d[3] * 256 + d[4])
    BY <1>3, SMT DEF FromBE4, FromBE2
  <1> QED BY <1>1, <1>4, SMT

(* The plaintext header of the frame decodes to itself. *)
LEMMA LaidDecodes ==
  ASSUME NEW b, NEW f \in Frames, Laid(b, f), Sent(f)
  PROVE  decode(b, 37) = f.hdr
  <1> DEFINE h == f.hdr
             e == encode(h)
             d == BE4(h.seq)
             l == BE2(h.payload_len)
  <1>1. /\ h = [version |-> h.version, seq |-> h.seq, payload_len |-> h.payload_len,
                flags |-> h.flags]
        /\ h.seq \in Nat /\ IsU32(h.seq) /\ h.payload_len \in Nat /\ IsU16(h.payload_len)
    <2>1. h.seq \in Nat /\ IsU32(h.seq)
      BY Widths DEF Sent
    <2>2. h.payload_len \in Nat /\ h.payload_len < 65536
      <3>1. h.payload_len \in Nat /\ h.payload_len <= compute_max_payload
        BY DEF Sent, Frames, Header
      <3> QED BY <3>1, MtuAssumption, LengthFieldAssumption, SMT
          DEF compute_max_payload, IEE80211_HEADER_LEN, WFB_PLAINTEXT_HDR_LEN
    <2> QED BY <2>1, <2>2, SMT DEF Sent, IsU16
  <1>2. l[1] * 256 + l[2] = h.payload_len
    BY <1>1, TwoDigits DEF BE2
  <1>3. e = <<h.version, d[1], d[2], d[3], d[4], l[1], l[2], h.flags>>
    BY DEF encode
  <1>4. \A i \in 1 .. 8 : b[37 + i] = e[i]
    BY DEF Laid
  <1> HIDE DEF h, d, l
  <1>5. /\ b[38] = h.version /\ b[39] = d[1] /\ b[40] = d[2] /\ b[41] = d[3] /\ b[42] = d[4]
        /\ b[43] = l[1] /\ b[44] = l[2] /\ b[45] = h.flags
    BY <1>3, <1>4
  <1> HIDE DEF e
  <1>6. FromBE4(b, 37 + 1) = h.seq
    <2>1. \A i \in 1 .. 4 : b[37 + 1 + i] = BE4(h.seq)[i]
      <3>1. ASSUME NEW i \in 1 .. 4 PROVE b[37 + 1 + i] = d[i]
        <4>1. i = 1 \/ i = 2 \/ i = 3 \/ i = 4
          OBVIOUS
        <4> QED BY <1>5, <4>1
      <3> QED BY <3>1 DEF d
    <2>2. 37 + 1 \in Nat
      OBVIOUS
    <2> QED BY <1>1, <2>1, <2>2, ReadFour, Zenon
  <1>7. At(b, 37) = h.version /\ At(b, 37 + 7) = h.flags /\ FromBE2(b, 37 + 5) = h.payload_len
    BY <1>2, <1>5 DEF At, FromBE2
  <1>8. decode(b, 37) = [version |-> h.version, seq |-> h.seq,
                         payload_len |-> h.payload_len, flags |-> h.flags]
    BY <1>6, <1>7, Zenon DEF decode
  <1> QED BY <1>1, <1>8 DEF h

(* What follows it is the payload. *)
LEMMA LaidPayload ==
  ASSUME NEW b, NEW f \in Frames, Laid(b, f)
  PROVE  SubSeq(Slice(b, 45, Len(b)), 1, Len(f.payload)) = f.payload
  <1> DEFINE p == f.payload
             data == Slice(b, 45, Len(b))
             q == SubSeq(data, 1, Len(p))
  <1>1. p \in Seq(Bytes) /\ b \in Seq(Bytes) /\ Len(b) = 45 + Len(p)
        /\ \A i \in 1 .. Len(p) : b[45 + i] = p[i]
    <2>1. p \in Seq(Byte)
      BY PayloadAssumption DEF Frames
    <2> QED BY <2>1, SeqWiden DEF Laid, Bytes
  <1>2. data = SubSeq(b, 46, Len(b))
    BY DEF Slice
  <1> HIDE DEF p, data
  <1>3. data \in Seq(Bytes) /\ Len(data) = Len(p) /\ \A i \in 1 .. Len(p) : data[i] = b[45 + i]
    BY <1>1, <1>2
  <1>4. q \in Seq(Bytes) /\ Len(q) = Len(p) /\ \A i \in 1 .. Len(p) : q[i] = data[i]
    BY <1>1, <1>3
  <1> HIDE DEF q
  <1>5. \A i \in 1 .. Len(q) : q[i] = p[i]
    BY <1>1, <1>3, <1>4
  <1>6. q = p
    BY <1>1, <1>4, <1>5, SeqEqual
  <1> QED BY <1>6 DEF q, p, data

(* What the filter compares. *)
LEMMA LaidFilter ==
  ASSUME NEW b, NEW f \in Frames, Laid(b, f), NEW stream_id
  PROVE  PcapFilter(b, stream_id) <=> stream_id = f.stream
  <1>1. f.stream \in Nat /\ IsU32(f.stream)
    <2>1. f.stream \in Streams
      BY DEF Frames
    <2> QED BY <2>1, Widths
  <1>2. le_u16(b, 2) = 13
    BY LaidRadiotap DEF At, le_u16
  <1>3. FromBE2(b, 13 + 10) = 22338
    <2>1. b[24] = 87 /\ b[25] = 66
      BY DEF Laid
    <2>2. At(b, 13 + 10) = 87 /\ At(b, 13 + 10 + 1) = 66
      BY <2>1 DEF At
    <2> QED BY <2>2, SMT DEF FromBE2
  <1>4. FromBE4(b, 13 + 12) = f.stream
    <2>1. ASSUME NEW i \in 1 .. 4 PROVE b[13 + 12 + i] = BE4(f.stream)[i]
      <3>1. 13 + 12 + i = 25 + i
        OBVIOUS
      <3>2. b[25 + i] = BE4(f.stream)[i]
        BY Zenon DEF Laid
      <3> QED BY <3>1, <3>2, Zenon
    <2>2. 13 + 12 \in Nat
      OBVIOUS
    <2> QED BY <1>1, <2>1, <2>2, ReadFour, Zenon
  <1> QED BY <1>2, <1>3, <1>4, SMT DEF PcapFilter

(* The bytes of a frame within the limits read back, and are accepted. *)
LEMMA LaidReads ==
  ASSUME NEW b, NEW f \in Frames, Laid(b, f), Sent(f)
  PROVE  LET p == PacketOf(b)
         IN  /\ p.hdr = f.hdr
             /\ FrameOf(p).payload = f.payload
             /\ p.rt.info = [mcs_index |-> f.mcs_index, bandwidth |-> f.bandwidth]
             /\ le_u16(b, p.rt.radiotap_len + FRAME_SEQ_LB) = f.seq_control
             /\ At(b, p.rt.radiotap_len) = f.frame_type
             /\ Accepts(p, FALSE)
             /\ ~Accepts(p, TRUE)
  <1> DEFINE p == PacketOf(b)
  <1>1. le_u16(b, 2) = 13
    BY LaidRadiotap DEF At, le_u16
  <1>2. p = [rt |-> [parsed |-> TRUE, self_injected |-> RTAP_TX_FLAGS \in PresentWord(b),
                     rt_flags |-> {}, radiotap_len |-> 13, info |-> McsInfo(b, 10)],
             len |-> Len(b), stream |-> FromBE4(b, 13 + 12), hdr |-> decode(b, 37),
             data |-> Slice(b, 45, Len(b))]
    <2>1. 13 + 24 = 37 /\ 37 + 8 = 45
      OBVIOUS
    <2> QED BY <1>1, <2>1, Zenon DEF PacketOf, IEE80211_HEADER_LEN, WFB_PLAINTEXT_HDR_LEN
  <1> HIDE DEF p
  <1>3. /\ p.rt.parsed = TRUE /\ p.rt.self_injected = (15 \in PresentWord(b))
        /\ p.rt.rt_flags = {} /\ p.rt.radiotap_len = 13 /\ p.rt.info = McsInfo(b, 10)
        /\ p.len = Len(b) /\ p.hdr = decode(b, 37) /\ p.data = Slice(b, 45, Len(b))
    BY <1>2 DEF RTAP_TX_FLAGS
  <1>4. p.hdr = f.hdr
    BY <1>3, LaidDecodes
  <1>5. p.hdr.payload_len = Len(f.payload) /\ p.hdr.version = WFB_PROTO_VERSION
        /\ Len(f.payload) <= compute_max_payload /\ Len(b) = 45 + Len(f.payload)
    BY <1>4 DEF Sent, Laid
  <1>6. FrameOf(p).payload = f.payload
    <2>1. FrameOf(p).payload = SubSeq(p.data, 1, p.hdr.payload_len)
      BY DEF FrameOf
    <2>2. SubSeq(Slice(b, 45, Len(b)), 1, Len(f.payload)) = f.payload
      BY LaidPayload
    <2> QED BY <1>3, <1>5, <2>1, <2>2, Zenon
  <1>7. p.rt.info = [mcs_index |-> f.mcs_index, bandwidth |-> f.bandwidth]
    BY <1>3, LaidInfo
  <1>8. le_u16(b, p.rt.radiotap_len + FRAME_SEQ_LB) = f.seq_control
    <2> DEFINE c == f.seq_control
    <2>1. c \in Nat /\ IsU16(c)
      <3>1. c \in 0 .. SEQ16 - 1
        BY DEF Frames
      <3> QED BY <3>1, SeqSpaceAssumption, WidthAssumption, SMT DEF IsU16
    <2>2. b[36] = c % 256 /\ b[37] = (c \div 256) % 256
      BY DEF Laid
    <2> HIDE DEF c
    <2>3. (c \div 256) % 256 = c \div 256 /\ (c \div 256) * 256 + (c % 256) = c
          /\ c \div 256 \in Nat /\ c % 256 \in Nat
      BY <2>1, TwoDigits
    <2>4. At(b, 35) = b[36] /\ At(b, 35 + 1) = b[37]
      BY DEF At
    <2>5. le_u16(b, 35) = c
      BY <2>2, <2>3, <2>4 DEF le_u16
    <2> QED BY <1>3, <2>5 DEF c, FRAME_SEQ_LB
  <1>9. At(b, p.rt.radiotap_len) = f.frame_type
    BY <1>3 DEF Laid, At
  <1>10. Len(f.payload) \in Nat
    <2>1. f.payload \in Seq(Byte)
      BY PayloadAssumption DEF Frames
    <2> QED BY <2>1
  <1>11. EffectiveLen(p) = 45 + Len(f.payload) /\ PayloadStart(p) = 45
    BY <1>3, <1>5 DEF EffectiveLen, PayloadStart, IEE80211_HEADER_LEN, WFB_PLAINTEXT_HDR_LEN
  <1>12. HasHeaders(p) /\ p.hdr.payload_len <= EffectiveLen(p) - PayloadStart(p)
    BY <1>3, <1>5, <1>10, <1>11 DEF HasHeaders, IEE80211_HEADER_LEN, WFB_PLAINTEXT_HDR_LEN
  <1>13. ChecksumOK(p) /\ p.hdr.payload_len <= compute_max_payload
    BY <1>3, <1>5 DEF ChecksumOK
  <1>14. p.rt.self_injected
    <2>1. 15 \in PresentWord(b)
      BY LaidPresent
    <2> QED BY <1>3, <2>1
  <1>15. Accepts(p, FALSE) /\ ~Accepts(p, TRUE)
    BY <1>3, <1>5, <1>12, <1>13, <1>14, Zenon DEF Accepts
  <1> QED BY <1>4, <1>6, <1>7, <1>8, <1>9, <1>15 DEF p
-----------------------------------------------------------------------------
(* The receiver reads back from the bytes of every message what the sender *)
(* meant - headers, rate, number, payload - and accepts it, whatever was   *)
(* sent, failed or opened before (sendmsg's four parts, decode, the parser *)
(* of the receiver), for every stream, payload and number that fits.       *)
THEOREM ReadsBackAlways == WireSpec => []WireReadsBack
  <1>1. TxTypeOK /\ WireInv => WireReadsBack
    <2> SUFFICES ASSUME TxTypeOK, WireInv PROVE WireReadsBack
      OBVIOUS
    <2>1. Len(wire) = Len(air)
      BY DEF WireInv
    <2>2. ASSUME NEW i \in 1 .. Len(air)
          PROVE  /\ air[i] \in Frames /\ Laid(wire[i], air[i]) /\ Sent(air[i])
      BY DEF WireInv, TxTypeOK
    <2> QED BY <2>1, <2>2, LaidParses, LaidReads DEF WireReadsBack
  <1> QED BY <1>1, WireInvariant, PTL

(* The filter of a receiver passes the frames of its stream and no other   *)
(* (open's filter expression, the addresses open patches), whichever byte  *)
(* of the identifier two streams differ in.                                *)
THEOREM FilterSelects == WireSpec => []FilterSelectsStream
  <1>1. TxTypeOK /\ WireInv => FilterSelectsStream
    <2> SUFFICES ASSUME TxTypeOK, WireInv PROVE FilterSelectsStream
      OBVIOUS
    <2>1. ASSUME NEW i \in 1 .. Len(air)
          PROVE  /\ air[i] \in Frames /\ Laid(wire[i], air[i])
      BY DEF WireInv, TxTypeOK
    <2> QED BY <2>1, LaidFilter DEF FilterSelectsStream
  <1> QED BY <1>1, WireInvariant, PTL
-----------------------------------------------------------------------------
(* The sender with its buffers is the sender: adding the header templates  *)
(* and the message of sendmsg changes nothing that WfbTx says of open,     *)
(* send and close, so what is proved of WfbTx holds of it.                 *)
THEOREM WireImplementsTx == WireSpec => TxSpec
  <1>1. WireInit => TxInit
    BY DEF WireInit
  <1> QED BY <1>1, WireIsTx, PTL DEF WireSpec, TxSpec

(* The numbers on the wire are fresh, and every field keeps its range, for *)
(* the sender that patches its headers in place.                           *)
THEOREM NumbersOnWire == WireSpec => [](TxTypeOK /\ SeqControlFresh)
  <1> QED BY WireImplementsTx, TxTypeCorrect, FreshNumbers, PTL
=============================================================================
