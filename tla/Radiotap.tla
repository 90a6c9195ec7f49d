------------------------------- MODULE Radiotap -------------------------------
(***************************************************************************)
(* The layout of a radiotap header, as radiotap_meta_from_packet in        *)
(* src/src/rx.rs reads it and the template of src/src/tx.rs fills it: one  *)
(* or more present words, then the fields whose bits are set, in the order *)
(* of the bits, each at the next multiple of its alignment.                *)
(*                                                                         *)
(* A present word is the set of its bits that are set.  Field i of a       *)
(* header is bit i % 32 of word i \div 32 (words counted from 0).          *)
(*                                                                         *)
(* The layout is here twice: as the table of the code, for the walk, and   *)
(* as the radiotap standard has it, for what is asked of the walk.         *)
(***************************************************************************)
EXTENDS Integers, Sequences

EXT == 31    \* another present word follows
Bits == 0 .. 31

RTAP_FLAGS == 1
RTAP_CHANNEL == 3
RTAP_DBM_ANTSIGNAL == 5
RTAP_DBM_ANTNOISE == 6
RTAP_ANTENNA == 11
RTAP_TX_FLAGS == 15
RTAP_MCS == 19

RADIOTAP_NAMESPACE == 29
VENDOR_NAMESPACE == 30

(* The bits that the walk takes for fields without data. *)
Namespaces == {RADIOTAP_NAMESPACE, VENDOR_NAMESPACE}

(* field_layout: the fields it knows, and their alignment and size. *)
KnownWithoutRxFlags == (0 .. 22) \ {14, 18}
KnownFields == (0 .. 22) \ {18}

AlignNoTxFlags(field) ==
  IF field \in {0, 22} THEN 8
  ELSE IF field = 20 THEN 4
  ELSE IF field \in {3, 4, 7, 8, 9, 14, 21} THEN 2
  ELSE 1

Align(field) ==
  IF field \in {0, 22} THEN 8
  ELSE IF field = 20 THEN 4
  ELSE IF field \in {3, 4, 7, 8, 9, 14, 15, 21} THEN 2
  ELSE 1

Size(field) ==
  IF field \in {21, 22} THEN 12
  ELSE IF field \in {0, 20} THEN 8
  ELSE IF field = 3 THEN 4
  ELSE IF field = 19 THEN 3
  ELSE IF field \in {4, 7, 8, 9, 14, 15} THEN 2
  ELSE 1

(* Clearing the low bits of v + align - 1, align a power of two. *)
AlignDown(v, align) == v - (v % align)
AlignUpPast(v, align) == v + align - (v % align)
AlignUp(v, align) == LET w == v + (align - 1) IN w - (w % align)

Field(i) == i % 32

Present(words, i) == Field(i) \in words[(i \div 32) + 1]

(* The first byte after the present words. *)
ArgsOffset(words) == 8 + 4 * (Len(words) - 1)
-----------------------------------------------------------------------------
(* The standard: alignment and size of the fields from 0 on. *)
STANDARD ==
  << <<8, 8>>, <<1, 1>>, <<1, 1>>, <<2, 4>>, <<2, 2>>, <<1, 1>>, <<1, 1>>, <<2, 2>>,
     <<2, 2>>, <<2, 2>>, <<1, 1>>, <<1, 1>>, <<1, 1>>, <<1, 1>>, <<2, 2>>, <<2, 2>>,
     <<1, 1>>, <<1, 1>>, <<4, 8>>, <<1, 3>>, <<4, 8>>, <<2, 12>>, <<8, 12>> >>

StandardFields == 0 .. Len(STANDARD) - 1
StdAlign(field) == STANDARD[field + 1][1]
StdSize(field) == STANDARD[field + 1][2]

(* Every present word is of the radiotap namespace: each but the last ends *)
(* with the bit that begins the namespace again, and none with the bit     *)
(* that leaves it for that of a vendor, which has 6 bytes of its own and   *)
(* data in a layout of the vendor's.                                       *)
OnlyRadiotap(words) ==
  /\ \A i \in 1 .. Len(words) : VENDOR_NAMESPACE \notin words[i]
  /\ \A i \in 1 .. Len(words) - 1 : RADIOTAP_NAMESPACE \in words[i]

VENDOR_BYTES == 6

(* The fields below index n that hold data. *)
DataFields(words, n) ==
  {i \in 0 .. n - 1 : Present(words, i) /\ Field(i) \notin {RADIOTAP_NAMESPACE, EXT}}

(* What it asks of a sequence of reads [index, at], the first not before   *)
(* start: each lies on its alignment, right after the one before it        *)
(* (closer than its alignment), and no two overlap.                        *)
End(r) == r.at + StdSize(Field(r.index))

PlacedAfter(r, start) ==
  LET a == StdAlign(Field(r.index))
  IN  r.at % a = 0 /\ start <= r.at /\ r.at < start + a

LaidOut(reads, start) ==
  \A k \in 1 .. Len(reads) :
    PlacedAfter(reads[k], IF k = 1 THEN start ELSE End(reads[k - 1]))
-----------------------------------------------------------------------------
(* Where a walk finds the two fields of the template of src/src/tx.rs, and *)
(* a header that announces what the template announces.                    *)
TemplateReads == <<[index |-> RTAP_TX_FLAGS, at |-> 8], [index |-> RTAP_MCS, at |-> 10]>>

IsTemplate(p) ==
  /\ p.version = 0 /\ p.words = <<{RTAP_TX_FLAGS, RTAP_MCS}>>
  /\ p.radiotap_len = End(TemplateReads[2]) /\ p.radiotap_len <= p.len
=============================================================================
