----------------------------- MODULE RadiotapWalk -----------------------------
(***************************************************************************)
(* radiotap_meta_from_packet of src/src/rx.rs: the checks, the loop over   *)
(* the present words, the walk over the fields, one step per iteration.    *)
(*                                                                         *)
(* A packet is what its bytes say: the captured length, the version, the   *)
(* length the header announces and the present words.  A value taken from  *)
(* the packet is the offset it was read at, Unset before; what an MCS      *)
(* field says is chosen when it is read.                                   *)
(***************************************************************************)
EXTENDS Radiotap, FiniteSets

CONSTANT Packets

AnyPacket == [len : Nat, version : Nat, radiotap_len : Nat, words : Seq(SUBSET Bits)]

(* The words hold as many as the parser asks for, or as the packet has.    *)
ASSUME PacketAssumption ==
  \A p \in Packets :
    /\ p \in AnyPacket
    /\ p.words # << >>
    /\ EXT \in p.words[Len(p.words)] => p.len < 8 + 4 * Len(p.words)
    /\ \A i \in 1 .. Len(p.words) - 1 : EXT \in p.words[i]

VARIABLES
  pkt,
  pc,             \* "check", "present", "walk", then "none" or "some"
  p_off,          \* where the next present word is
  present_words,
  field_index,
  cur_off,
  ant_idx,
  meta,           \* the RadiotapMeta being filled
  reads           \* history: the fields read, [index, at, mcs] in order

vars == <<pkt, pc, p_off, present_words, field_index, cur_off, ant_idx, meta, reads>>

MAX_ANT == 4
Slots == 0 .. MAX_ANT - 1
Unset == -1

(* An offset in the packet, or Unset. *)
Offset == Nat \cup {Unset}

RadiotapMeta ==
  [rt_flags : Offset, self_injected : BOOLEAN, freq : Offset, antenna : [Slots -> Offset],
   rssi : [Slots -> Offset], noise : [Slots -> Offset], mcs_index : Offset, bandwidth : {20, 40}]

(* What an MCS field may announce: an index, a bandwidth, a wide channel. *)
McsContents == SUBSET {"HAVE_MCS", "HAVE_BW", "BW_40"}

Init ==
  /\ pkt \in Packets
  /\ pc = "check"
  /\ p_off = 4
  /\ present_words = << >>
  /\ field_index = 0
  /\ cur_off = 0
  /\ ant_idx = 0
  /\ meta = [rt_flags |-> Unset, self_injected |-> FALSE, freq |-> Unset,
             antenna |-> [s \in Slots |-> Unset], rssi |-> [s \in Slots |-> Unset],
             noise |-> [s \in Slots |-> Unset], mcs_index |-> Unset, bandwidth |-> 20]
  /\ reads = << >>

Reached(where) ==
  /\ pc' = where
  /\ UNCHANGED <<pkt, p_off, present_words, field_index, cur_off, ant_idx, meta, reads>>

(* Too short, not version 0, or an announced length past the packet. *)
RefuseExact ==
  /\ pc = "check"
  /\ pkt.len < 8 \/ pkt.version # 0 \/ pkt.radiotap_len >= pkt.len
  /\ Reached("none")

Refuse ==
  /\ pc = "check"
  /\ pkt.len < 8 \/ pkt.version # 0 \/ pkt.radiotap_len > pkt.len
  /\ Reached("none")

Checked ==
  /\ pc = "check"
  /\ pkt.len >= 8 /\ pkt.version = 0 /\ pkt.radiotap_len <= pkt.len
  /\ Reached("present")

WordOutside ==
  /\ pc = "present"
  /\ p_off + 4 > pkt.len
  /\ Reached("none")

KeptWhole(w) == w
Kept(w) == w \ {EXT}

NextWordStays == p_off
NextWord == p_off + 4

(* The word without its top bit is kept; the top bit asks for one more.    *)
(* The fields begin after the last one, which the packet holds.            *)
ReadWord ==
  LET w == pkt.words[((p_off - 4) \div 4) + 1]
  IN  /\ pc = "present"
      /\ p_off + 4 <= pkt.len
      /\ present_words' = Append(present_words, Kept(w))
      /\ p_off' = NextWord
      /\ pc' = IF EXT \in w THEN "present" ELSE "walk"
      /\ cur_off' = IF EXT \in w THEN cur_off ELSE ArgsOffset(present_words')
      /\ UNCHANGED <<pkt, field_index, ant_idx, meta, reads>>

(* The walk is at a bit, a bit that is set. *)
AtBit == pc = "walk" /\ field_index < 32 * Len(present_words)
AtPresent == AtBit /\ Present(present_words, field_index)

(* The bit is not set, or set without data; no more antennas are wanted    *)
(* once there are four, which is tested before the namespaces.             *)
Skip ==
  /\ AtBit
  /\ Present(present_words, field_index) =>
       ant_idx < MAX_ANT /\ Field(field_index) \in Namespaces
  /\ field_index' = field_index + 1
  /\ UNCHANGED <<pkt, pc, p_off, present_words, cur_off, ant_idx, meta, reads>>

StopAtAntennas ==
  /\ AtPresent
  /\ ant_idx >= MAX_ANT
  /\ Reached("some")

StopAtNamespace ==
  /\ AtPresent
  /\ ant_idx < MAX_ANT
  /\ Field(field_index) \notin KnownFields
  /\ Reached("some")

StopAtUnknown ==
  /\ AtPresent
  /\ ant_idx < MAX_ANT
  /\ Field(field_index) \notin KnownFields \cup Namespaces
  /\ Reached("some")

FieldOutside ==
  /\ AtPresent
  /\ ant_idx < MAX_ANT
  /\ Field(field_index) \in KnownFields
  /\ AlignUp(cur_off, Align(Field(field_index))) + Size(Field(field_index)) > pkt.len
  /\ Reached("none")

(* The match on the field: meta after reading it at offset at. *)
Filled(field, at, mcs) ==
  CASE field = RTAP_ANTENNA       -> [meta EXCEPT !.antenna[ant_idx] = at]
    [] field = RTAP_DBM_ANTSIGNAL -> [meta EXCEPT !.rssi[ant_idx] = at]
    [] field = RTAP_DBM_ANTNOISE  -> [meta EXCEPT !.noise[ant_idx] = at]
    [] field = RTAP_CHANNEL       -> [meta EXCEPT !.freq = at]
    [] field = RTAP_FLAGS         -> [meta EXCEPT !.rt_flags = at]
    [] field = RTAP_TX_FLAGS      -> [meta EXCEPT !.self_injected = TRUE]
    [] field = RTAP_MCS           ->
         [meta EXCEPT !.mcs_index = IF "HAVE_MCS" \in mcs THEN at + 2 ELSE @,
                      !.bandwidth = IF {"HAVE_BW", "BW_40"} \subseteq mcs THEN 40 ELSE @]
    [] OTHER                      -> meta

AntennaAfterSignal(field) == IF field = RTAP_DBM_ANTSIGNAL THEN ant_idx + 1 ELSE ant_idx
AntennaAfter(field) == IF field = RTAP_ANTENNA THEN ant_idx + 1 ELSE ant_idx

ReadField ==
  LET field == Field(field_index)
      at == AlignUp(cur_off, Align(field))
  IN  /\ AtPresent
      /\ ant_idx < MAX_ANT
      /\ field \in KnownFields
      /\ at + Size(field) <= pkt.len
      /\ \E mcs \in IF field = RTAP_MCS THEN McsContents ELSE {{}} :
           /\ meta' = Filled(field, at, mcs)
           /\ reads' = Append(reads, [index |-> field_index, at |-> at, mcs |-> mcs])
      /\ ant_idx' = AntennaAfter(field)
      /\ cur_off' = at + Size(field)
      /\ field_index' = field_index + 1
      /\ UNCHANGED <<pkt, pc, p_off, present_words>>

WalkEnds ==
  /\ pc = "walk"
  /\ field_index = 32 * Len(present_words)
  /\ Reached("some")

Next ==
  \/ Refuse \/ Checked \/ WordOutside \/ ReadWord
  \/ Skip \/ StopAtAntennas \/ StopAtUnknown \/ FieldOutside \/ ReadField \/ WalkEnds

Spec == Init /\ [][Next]_vars
-----------------------------------------------------------------------------
TypeOK ==
  /\ pkt \in AnyPacket
  /\ pc \in {"check", "present", "walk", "none", "some"}
  /\ p_off \in Nat /\ cur_off \in Nat /\ field_index \in Nat
  /\ ant_idx \in 0 .. MAX_ANT
  /\ present_words \in Seq(SUBSET (0 .. 30))
  /\ meta \in RadiotapMeta
  /\ reads \in Seq([index : Nat, at : Nat, mcs : McsContents])

(* Every field is read inside the packet, so that the slice of rx.rs:189   *)
(* never panics; and where the radiotap standard puts it, by the table of  *)
(* the standard and not that of the code: behind the fields that hold data *)
(* before it, all of them and nothing else.  This is said of headers in    *)
(* the radiotap namespace only (SkipsVendor is about the others).          *)
ReadsLaidOut ==
  /\ \A k \in 1 .. Len(reads) : End(reads[k]) <= pkt.len
  /\ OnlyRadiotap(pkt.words) =>
       /\ LaidOut(reads, ArgsOffset(present_words))
       /\ \A k \in 1 .. Len(reads) :
            {reads[j].index : j \in 1 .. k - 1} = DataFields(present_words, reads[k].index)

(* When the parser answers, it has read every field that holds data up to  *)
(* where it stopped, extended words included, and it stopped only at the   *)
(* end, at a field that its table leaves out, or with all antennas - in a  *)
(* header of the radiotap namespace.                                       *)
NothingMissed ==
  pc = "some" /\ OnlyRadiotap(pkt.words) =>
    /\ {reads[k].index : k \in 1 .. Len(reads)} = DataFields(present_words, field_index)
    /\ \/ field_index = 32 * Len(present_words)
       \/ /\ field_index \in DataFields(present_words, field_index + 1)
          /\ Field(field_index) \notin KnownFields
       \/ Cardinality({k \in 1 .. Len(reads) : Field(reads[k].index) = RTAP_ANTENNA}) = MAX_ANT

(* The read of bit field in the word that read k belongs to. *)
SameWord(k, field) ==
  {j \in 1 .. Len(reads) : reads[j].index = AlignDown(reads[k].index, 32) + field}

(* The signal and the noise reported for an antenna are those its own word *)
(* holds, when it holds any: never those of another antenna.  The bits of  *)
(* a vendor's word name no antenna, so this too is about headers of the    *)
(* radiotap namespace.                                                     *)
SlotsMatch ==
  OnlyRadiotap(pkt.words) => \A k \in 1 .. Len(reads) :
    Field(reads[k].index) = RTAP_ANTENNA =>
      \E s \in 0 .. ant_idx - 1 :
        /\ meta.antenna[s] = reads[k].at
        /\ \A j \in SameWord(k, RTAP_DBM_ANTSIGNAL) : meta.rssi[s] = reads[j].at
        /\ \A j \in SameWord(k, RTAP_DBM_ANTNOISE) : meta.noise[s] = reads[j].at

(* Early stops never cost what the receiver decides on: when the parser    *)
(* answers, a checksum flag or a TX_FLAGS announced in the first present   *)
(* word has been seen, so that a checksum is not taken for payload and an  *)
(* injected frame not for one of another host.  Without a vendor's words   *)
(* neither is made up: the header announces it, in some word.              *)
DecisionsSeen ==
  LET announced == DataFields(present_words, 32 * Len(present_words))
  IN  pc = "some" =>
        /\ RTAP_TX_FLAGS \in present_words[1] => meta.self_injected
        /\ RTAP_FLAGS \in present_words[1] => meta.rt_flags # Unset
        /\ OnlyRadiotap(pkt.words) =>
             /\ meta.self_injected => \E i \in announced : Field(i) = RTAP_TX_FLAGS
             /\ meta.rt_flags # Unset => \E i \in announced : Field(i) = RTAP_FLAGS

(* Where the fields read so far end. *)
WalkedTo == IF reads = << >> THEN ArgsOffset(present_words) ELSE End(reads[Len(reads)])

(* No packet of the radiotap namespace is given up without a reason that   *)
(* lies in the packet: it is shorter than it announces, or it ends before  *)
(* a present word that the words before it ask for, or before the end of a *)
(* field, of the size the standard gives it and where the standard places  *)
(* it behind the fields before it.                                         *)
RefusedForCause ==
  pc = "none" /\ OnlyRadiotap(pkt.words) =>
    \/ pkt.len < 8 \/ pkt.version # 0 \/ pkt.radiotap_len > pkt.len
    \/ /\ \A i \in 1 .. Len(present_words) : EXT \in pkt.words[i]
       /\ 4 + 4 * (Len(present_words) + 1) > pkt.len
    \/ /\ {reads[k].index : k \in 1 .. Len(reads)} = DataFields(present_words, field_index)
       /\ field_index \in DataFields(present_words, 32 * Len(present_words))
       /\ Field(field_index) \in StandardFields
       /\ \E at \in WalkedTo .. WalkedTo + 7 :
            /\ PlacedAfter([index |-> field_index, at |-> at], WalkedTo)
            /\ at + StdSize(Field(field_index)) > pkt.len

(* The comment at rx.rs:153 says that the walk advances over the arguments *)
(* of the fields that are present.  A vendor namespace is one, and holds 6 *)
(* bytes before the data of the vendor: what is read behind it lies behind *)
(* them.                                                                   *)
SkipsVendor ==
  \A k \in 1 .. Len(reads), v \in 0 .. 32 * Len(present_words) - 1 :
    v < reads[k].index /\ Present(present_words, v) /\ Field(v) = VENDOR_NAMESPACE =>
      \A end \in {ArgsOffset(present_words)} \cup
                 {End(reads[j]) : j \in {i \in 1 .. Len(reads) : reads[i].index < v}} :
        reads[k].at >= end + VENDOR_BYTES

(* The header that our own sender puts before a frame is never refused,    *)
(* whatever follows it, and is read as it is meant: as injected, with the  *)
(* rate of its MCS field, its two fields where the sender has put them,    *)
(* no checksum flag and no antenna.                                        *)
TemplateIsRead ==
  IsTemplate(pkt) =>
    /\ pc # "none"
    /\ pc = "some" =>
         /\ [k \in 1 .. Len(reads) |-> [index |-> reads[k].index, at |-> reads[k].at]] = TemplateReads
         /\ meta.self_injected /\ meta.rt_flags = Unset /\ ant_idx = 0
         /\ meta.mcs_index = IF "HAVE_MCS" \in reads[2].mcs THEN TemplateReads[2].at + 2 ELSE Unset
         /\ meta.bandwidth = IF {"HAVE_BW", "BW_40"} \subseteq reads[2].mcs THEN 40 ELSE 20

(* How many steps the parser can take yet, at most. *)
StepsLeft ==
  CASE pc = "check" -> 9 * pkt.len + 3
    [] pc = "present" -> 9 * (pkt.len + 4 - p_off) + 32 * Len(present_words) + 2
    [] pc = "walk" -> 32 * Len(present_words) - field_index + 1
    [] OTHER -> 0

(* Both loops end, on every packet: each step brings the answer nearer, so *)
(* that no chain of present words and no field keeps the parser for more   *)
(* than 9 steps per byte of the packet and 3.                              *)
ParserAdvances == [][StepsLeft' \in Nat /\ StepsLeft' < StepsLeft]_vars
=============================================================================
