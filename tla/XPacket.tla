------------------------------ MODULE XPacket ------------------------------
(***************************************************************************)
(* A packet of the protocol as a buffer with a position, and the life of a *)
(* large packet: it is cut into slices that fit a given size (Split), the  *)
(* slices are joined again (Merge), the position is set back to the front  *)
(* (ResetPos, which Merge leaves to its caller) and the body is read piece *)
(* by piece.                                                               *)
(*                                                                         *)
(* size_t arithmetic stays far from its limits; the number of slices is a  *)
(* uint16_t and wraps.  The names of the specification begin with XPacket, *)
(* so that a module can extend this one and StreamPipeline.                *)
(***************************************************************************)
EXTENDS Integers, Sequences

CONSTANTS
  Lengths,         \* lengths of the bodies that are split
  SplitSizes,      \* values of split_size
  Pieces,          \* lengths that the reader asks for
  WORD             \* 2^16: number of values of a uint16_t

XPACKET_HEADER_SIZE == 23
XPACKET_TAIL_SIZE == 2
OVERHEAD == XPACKET_HEADER_SIZE + XPACKET_TAIL_SIZE

ASSUME XPacketAssumption ==
  /\ Lengths \subseteq Nat
  /\ SplitSizes \subseteq {n \in Nat : n > OVERHEAD}
  /\ Pieces \subseteq Nat \ {0}
  /\ WORD \in Nat \ {0}

-----------------------------------------------------------------------------
(* Packets: [size, pos, data, packed, index, total] are m_buf_size,        *)
(* m_cur_pos, the body in the buffer, h_packet_size (0 before Pack),       *)
(* h_sub_index and h_total_sub.                                            *)

New(alloc_size) ==
  [size |-> alloc_size, pos |-> XPACKET_HEADER_SIZE, data |-> << >>,
   packed |-> 0, index |-> 0, total |-> 0]

Fits(p, len) == p.pos + len <= p.size - XPACKET_TAIL_SIZE

\* PushMem does nothing but return -1 when there is no room.
PushMem(p, mem) ==
  IF Fits(p, Len(mem))
  THEN [p EXCEPT !.data = @ \o mem, !.pos = @ + Len(mem)]
  ELSE p

Pack(p) == [p EXCEPT !.packed = p.pos + XPACKET_TAIL_SIZE]

ResetPos(p) == [p EXCEPT !.pos = XPACKET_HEADER_SIZE]

\* The bytes at the position, for a PopMem that succeeds.
BytesAt(p, len) ==
  SubSeq(p.data, p.pos - XPACKET_HEADER_SIZE + 1, p.pos - XPACKET_HEADER_SIZE + len)

BodySize(p) == p.packed - OVERHEAD

\* 0 if the packet is whole: its buffer is exactly as long as it says.
Valid(p) == p.size = p.packed

-----------------------------------------------------------------------------

VARIABLES
  pc,              \* "split", "length", "merge", "merged", "read", "done"
  org,             \* the packet to split
  split_size,
  slice,           \* index of the next slice, in Split and in Merge
  pos,             \* bytes of the body already in slices
  slices,
  length,          \* bytes of the bodies that Merge has counted
  merged,
  read             \* what the reader has popped since the last ResetPos

xpacket_vars == <<pc, org, split_size, slice, pos, slices, length, merged, read>>

Body(len) == [k \in 1 .. len |-> k]

XPacketInit ==
  /\ pc = "split"
  /\ \E len \in Lengths :
       org = Pack(PushMem(New(len + OVERHEAD), Body(len)))
  /\ split_size \in SplitSizes
  /\ slice = 0 /\ pos = 0 /\ slices = << >> /\ length = 0
  /\ merged = New(OVERHEAD) /\ read = << >>

total_body_size == BodySize(org)
split_body_size == split_size - OVERHEAD

\* Mutant: the bytes that do not fill a slice are forgotten.
NeededWhole == total_body_size \div split_body_size

\* Slices needed, rounded up, and what is left of the number in a uint16_t.
Needed ==
  IF total_body_size % split_body_size = 0
  THEN total_body_size \div split_body_size
  ELSE total_body_size \div split_body_size + 1
total_slices == Needed % WORD

Least(a, b) == IF a <= b THEN a ELSE b
cp_len == Least(split_body_size, total_body_size - split_body_size * slice)

\* One turn of the loop in Split.
SplitOne ==
  /\ pc = "split" /\ slice < total_slices
  /\ LET head == [New(split_size) EXCEPT !.index = slice, !.total = total_slices]
     IN slices' = Append(slices,
                         Pack(PushMem(head, SubSeq(org.data, pos + 1, pos + cp_len))))
  /\ pos' = pos + cp_len
  /\ slice' = (slice + 1) % WORD
  /\ UNCHANGED <<pc, org, split_size, length, merged, read>>

\* Merge looks at the first slice, so it is not called without one.
StartMerge ==
  /\ pc = "split" /\ slice = total_slices
  /\ slices # << >>
  /\ length' = 0 /\ slice' = 0
  /\ pc' = "length"
  /\ UNCHANGED <<org, split_size, pos, slices, merged, read>>

\* It adds the lengths of the bodies up to find the size it allocates.
AddLength ==
  /\ pc = "length" /\ slice < Len(slices)
  /\ length' = length + BodySize(slices[slice + 1])
  /\ slice' = slice + 1
  /\ UNCHANGED <<pc, org, split_size, pos, slices, merged, read>>

Allocate ==
  /\ pc = "length" /\ slice = Len(slices)
  /\ merged' = [New(length + OVERHEAD)
                  EXCEPT !.index = slices[1].index, !.total = slices[1].total]
  /\ slice' = 0
  /\ pc' = "merge"
  /\ UNCHANGED <<org, split_size, pos, slices, length, read>>

NothingToMerge ==
  /\ pc = "split" /\ slice = total_slices
  /\ slices = << >>
  /\ pc' = "done"
  /\ UNCHANGED <<org, split_size, slice, pos, slices, length, merged, read>>

MergeOne ==
  /\ pc = "merge" /\ slice < Len(slices)
  /\ merged' = PushMem(merged, slices[slice + 1].data)
  /\ slice' = slice + 1
  /\ UNCHANGED <<pc, org, split_size, pos, slices, length, read>>

\* The position stays at the end of the body.
EndMerge ==
  /\ pc = "merge" /\ slice = Len(slices)
  /\ merged' = Pack(merged)
  /\ pc' = "merged"
  /\ UNCHANGED <<org, split_size, slice, pos, slices, length, read>>

\* A reader, or the queue it takes the packet from, sets the position back.
Rewind ==
  /\ pc \in {"merged", "read"}
  /\ merged' = ResetPos(merged)
  /\ read' = << >>
  /\ pc' = "read"
  /\ UNCHANGED <<org, split_size, slice, pos, slices, length>>

PopMem(len) ==
  /\ pc \in {"merged", "read"} /\ Fits(merged, len)
  /\ read' = read \o BytesAt(merged, len)
  /\ merged' = [merged EXCEPT !.pos = @ + len]
  /\ UNCHANGED <<pc, org, split_size, slice, pos, slices, length>>

\* PopMem returns -1 and the reader gives up.
PopMemFails(len) ==
  /\ pc \in {"merged", "read"} /\ ~Fits(merged, len)
  /\ pc' = "done"
  /\ UNCHANGED <<org, split_size, slice, pos, slices, length, merged, read>>

XPacketNext ==
  \/ SplitOne \/ StartMerge \/ NothingToMerge
  \/ AddLength \/ Allocate \/ MergeOne \/ EndMerge \/ Rewind
  \/ \E len \in Pieces : PopMem(len) \/ PopMemFails(len)

XPacketSpec == XPacketInit /\ [][XPacketNext]_xpacket_vars

-----------------------------------------------------------------------------

\* Splitting and merging gives the body back, byte for byte, in a buffer of
\* exactly its length, as long as the number of slices fits into its field.  As
\* Merge returns it the packet has nothing to read; after ResetPos the reader
\* gets the body from the front, every byte once.
MergeUndoesSplit ==
  pc \in {"merged", "read"} /\ Needed < WORD =>
    /\ merged.data = org.data /\ merged.packed = org.packed /\ Valid(merged)
    /\ pc = "merged" => read = << >> /\ \A len \in Pieces : ~Fits(merged, len)
    /\ pc = "read" => read = SubSeq(org.data, 1, merged.pos - XPACKET_HEADER_SIZE)

=============================================================================
