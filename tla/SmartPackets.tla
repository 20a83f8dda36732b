---------------------------- MODULE SmartPackets ----------------------------
(***************************************************************************)
(* The memory of packets: smart_packet_t (common/sense.h), which counts    *)
(* its owners, in blocks of a CorsaAllocator (common/corsa_alloc.h), one   *)
(* for each type of packet.  A store is the allocator with the reference   *)
(* counts and payload pointers in its blocks; blocks are numbered in the   *)
(* order of their segments.                                                *)
(***************************************************************************)
EXTENDS Integers, Sequences

CONSTANTS SegmentSize,    \* of the first segment: 256, or 16 at least
          NoPayload

ASSUME SegmentAssumption == SegmentSize \in Nat \ {0}

\* CorsaAllocator::InitSegment: the blocks from first on, linked in order
Segment(first, length) == [i \in 1 .. length |-> first + i - 1]

NewStore ==
  [free |-> Segment(0, SegmentSize), segment |-> SegmentSize, size |-> 0,
   capacity |-> SegmentSize,
   ref |-> [b \in 0 .. SegmentSize - 1 |-> 0],
   pld |-> [b \in 0 .. SegmentSize - 1 |-> NoPayload]]

\* A new segment, twice as long as the one before, when no block is free.
Grown(s) ==
  IF s.free # <<>> THEN s
  ELSE LET length == 2 * s.segment
           blocks == 0 .. s.capacity + length - 1
       IN  [s EXCEPT !.segment = length, !.capacity = @ + length,
                     !.free = Segment(s.capacity, length),
                     !.ref = [b \in blocks |-> IF b < s.capacity THEN s.ref[b] ELSE 0],
                     !.pld = [b \in blocks |-> IF b < s.capacity THEN s.pld[b] ELSE NoPayload]]

\* smart_packet_t::alloc: the block it takes, and the store it leaves
NextBlock(s) == Head(Grown(s).free)
Alloc(s, pld) ==
  LET g == Grown(s)
  IN  [g EXCEPT !.free = Tail(@), !.size = @ + 1,
                !.ref[Head(g.free)] = 1, !.pld[Head(g.free)] = pld]

\* inc_ref of the packet in block b, k times
Owned(s, b, k) == [s EXCEPT !.ref[b] = @ + k]

\* free of the packet in block b; the last owner's puts the block back.
Disowned(s, b) ==
  IF s.ref[b] > 1 THEN [s EXCEPT !.ref[b] = @ - 1]
  ELSE [s EXCEPT !.ref[b] = 0, !.free = <<b>> \o @, !.size = @ - 1]

\* A packet that carries another one shares it: inc_ref and free go on to the
\* payload, whatever becomes of the packet itself.  A memory is the two
\* stores.  Mutant: the payload is freed together with the packet only.
IncRef(m, f, k) ==
  [frames |-> Owned(m.frames, f, k), data |-> Owned(m.data, m.frames.pld[f], k)]
FreeLastOnly(m, f) ==
  [frames |-> Disowned(m.frames, f),
   data |-> IF m.frames.ref[f] > 1 THEN m.data ELSE Disowned(m.data, m.frames.pld[f])]
Free(m, f) ==
  [frames |-> Disowned(m.frames, f), data |-> Disowned(m.data, m.frames.pld[f])]

\* inc_pld_ref: the payload alone gets another owner.
IncPldRef(m, f) == [m EXCEPT !.data = Owned(@, m.frames.pld[f], 1)]
=============================================================================
