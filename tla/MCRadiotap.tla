------------------------------ MODULE MCRadiotap ------------------------------
(***************************************************************************)
(* Packets for RadiotapWalk: every set of interesting fields in one word;  *)
(* two words; every field of the standard; the headers of drivers with one *)
(* word per antenna, more of them than the receiver has slots for; words   *)
(* of a vendor.                                                            *)
(***************************************************************************)
EXTENDS RadiotapWalk

Packet(words, len) == [len |-> len, version |-> 0, radiotap_len |-> 8, words |-> words]

(* Alignments of 1, 2 and 8, every field the parser keeps, an unknown one, *)
(* a namespace.                                                            *)
OneWord == {Packet(<<w>>, n) : w \in SUBSET {0, 1, 3, 5, 11, 15, 18, 19, 22, 29}, n \in {8, 11, 26, 60}}

TwoWords ==
  {Packet(<<w \cup {31}, v>>, n) :
     w \in SUBSET {1, 5, 11, 29}, v \in SUBSET {0, 5, 6, 11, 18, 20}, n \in {11, 12, 16, 60}}

(* Every field of the standard, behind an even and behind an odd offset,   *)
(* and two fields of one byte behind it.                                   *)
EveryField ==
  {Packet(<<{f, 29, 31} \cup w, {1, 5, 11}>>, n) : f \in 0 .. 22, w \in SUBSET {1}, n \in {20, 60}}

PerAntenna == {{11, 29, 31}, {5, 11, 29, 31}, {5, 6, 11, 29, 31}}
SixWords ==
  {Packet(<<first, w2, w3, w4, w5, {5, 11, 15, 19}>>, 80) :
     first \in {{0, 1, 3, 14, 15, 19, 29, 31}, {1, 5, 11, 29, 31}},
     w2 \in PerAntenna, w3 \in PerAntenna, w4 \in PerAntenna, w5 \in PerAntenna}

(* A namespace of a vendor between two of radiotap. *)
VendorPackets ==
  {Packet(<<w \cup {30, 31}, v \cup {29, 31}, {5, 11}>>, 60) : w, v \in SUBSET {0, 1, 5, 15}}

Malformed ==
  {[len |-> n, version |-> v, radiotap_len |-> r, words |-> <<{1, 5}>>] :
     n \in {7, 8, 9}, v \in {0, 1}, r \in {8, 9, 10}}

(* The header of our own sender, before frames of several lengths.         *)
FromSender ==
  {[len |-> n, version |-> 0, radiotap_len |-> 13, words |-> <<{15, 19}>>] : n \in {12, 13, 14, 45}}

MCPackets ==
  FromSender \cup OneWord \cup TwoWords \cup EveryField \cup SixWords \cup VendorPackets
    \cup Malformed
=============================================================================
