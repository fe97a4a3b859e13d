------------------------------ MODULE DmaBuild ------------------------------
(***************************************************************************)
(* zynqmp_dma_build_desc (driver5.4/dma_control.c): how a region of a      *)
(* stream's buffer is divided into DMA descriptors.  The buffer is a list  *)
(* of memory segments; a descriptor stays inside one segment and within    *)
(* the block size; the start and end of frames are marked in the           *)
(* descriptors of the sending streams.  One step is one turn of the loop.  *)
(*                                                                         *)
(* The special case of 10G_TO_DRAM is left out: config_memory gives that   *)
(* stream no buffer, so a build for it ends before the loop.               *)
(***************************************************************************)
EXTENDS Integers, Sequences, FiniteSets

CONSTANTS
    Layouts,   \* the buffers tried: sequences of segments [base, size]
    Offsets,   \* msg.addr
    Sizes,     \* num_bytes: msg.size_bytes, or data_size when that is 0
    Blocks,    \* max_block_bytes: the stream's, or msg.block_size
    RingSizes  \* num_desc

ASSUME InputAssumption ==
    /\ \A l \in Layouts : l \in Seq([base : Nat, size : Nat]) /\ l # <<>>
    /\ Offsets \subseteq Nat /\ Sizes \subseteq Nat \ {0}
    /\ Blocks \subseteq Nat \ {0} /\ RingSizes \subseteq Nat \ {0}

VARIABLES
    msg,        \* the request, with the stream's parameters
    descs,      \* the descriptors written so far
    offset,     \* byte_offset
    left,       \* num_bytes, what is still to be described
    frameLeft,  \* remaining_bytes_frame
    inFrame,    \* frame_state = FSContinue
    frames,     \* n_frames
    state       \* "building", "built" (DESC_BUILT), or the error returned

vars == <<msg, descs, offset, left, frameLeft, inFrame, frames, state>>

Request == [seg : Layouts, addr : Offsets, size : Sizes, block : Blocks,
            ring : RingSizes, rule : {"AllOneFrame", "FramePerDesc"}]

Lesser(a, b) == IF a < b THEN a ELSE b

(* The sums of what precedes each place of w.                               *)
PrefixSum(w) ==
    LET sum[i \in Nat] == IF i <= 1 THEN 0 ELSE sum[i - 1] + w[i - 1] IN sum

(* Bytes of the buffer before each segment, and of all of it.               *)
Before(l) == PrefixSum([i \in DOMAIN l |-> l[i].size])
Total(l) == Before(l)[Len(l) + 1]

Init ==
    /\ msg \in Request
    /\ descs = <<>>
    /\ offset = msg.addr /\ left = msg.size
    /\ frameLeft = msg.block /\ inFrame = FALSE /\ frames = 0
    /\ state = "building"
-----------------------------------------------------------------------------
(* zynqmp_dma_buffer_ptr: the segment a byte offset lies in, and how much   *)
(* of the rest is there in one piece.                                       *)
Holds(i) == /\ i \in 1..Len(msg.seg)
            /\ Before(msg.seg)[i] <= offset
            /\ offset < Before(msg.seg)[i] + msg.seg[i].size
InBuffer == \E i \in 1..Len(msg.seg) : Holds(i)
Segment == CHOOSE i \in 1..Len(msg.seg) : Holds(i)
Contiguous == Lesser(left, Before(msg.seg)[Segment] + msg.seg[Segment].size - offset)
Address == msg.seg[Segment].base + offset - Before(msg.seg)[Segment]

(* Mutants of Chunk: the block size, the segment, or the frame forgotten.   *)
ChunkAnySize == Contiguous
ChunkAcross  == Lesser(left, msg.block)
ChunkNoFrame == Lesser(Contiguous, msg.block)

Chunk ==
    IF msg.rule = "FramePerDesc" THEN Lesser(Lesser(Contiguous, msg.block), frameLeft)
    ELSE Lesser(Contiguous, msg.block)

(* frame_rule: all the data is one frame, or every block is.                *)
Sof == IF msg.rule = "AllOneFrame" THEN descs = <<>> ELSE ~inFrame
Eof == IF msg.rule = "AllOneFrame" THEN Chunk = left
       ELSE Chunk = left \/ Chunk = (IF inFrame THEN frameLeft ELSE msg.block)

(* Mutant of FrameAfter: a frame that goes on forgets what it has used.     *)
FrameAfterFull ==
    /\ inFrame' = (msg.rule = "FramePerDesc" /\ ~Eof)
    /\ frameLeft' = msg.block

FrameAfter ==
    /\ inFrame' = (msg.rule = "FramePerDesc" /\ ~Eof)
    /\ frameLeft' = IF msg.rule = "AllOneFrame" THEN frameLeft
                    ELSE IF Eof THEN msg.block
                    ELSE frameLeft - Chunk

AddDesc ==
    /\ state = "building" /\ left > 0 /\ Len(descs) < msg.ring /\ InBuffer
    /\ descs' = Append(descs, [addr |-> Address, len |-> Chunk, sof |-> Sof, eof |-> Eof,
                               frame |-> frames])
    /\ offset' = offset + Chunk
    /\ left' = left - Chunk
    /\ frames' = IF Eof THEN frames + 1 ELSE frames
    /\ FrameAfter
    /\ UNCHANGED <<msg, state>>

OutOfBuffer ==
    /\ state = "building" /\ left > 0 /\ Len(descs) < msg.ring /\ ~InBuffer
    /\ state' = "DATA_RANGE"
    /\ UNCHANGED <<msg, descs, offset, left, frameLeft, inFrame, frames>>

(* Mutant of Finish: the ring filling up is taken for the end.              *)
FinishShort ==
    /\ state = "building" /\ (left = 0 \/ Len(descs) = msg.ring)
    /\ state' = "built"
    /\ UNCHANGED <<msg, descs, offset, left, frameLeft, inFrame, frames>>

Finish ==
    /\ state = "building" /\ (left = 0 \/ Len(descs) = msg.ring)
    /\ state' = IF left = 0 THEN "built" ELSE "DESC_RANGE"
    /\ UNCHANGED <<msg, descs, offset, left, frameLeft, inFrame, frames>>

Next == AddDesc \/ OutOfBuffer \/ Finish

Spec == Init /\ [][Next]_vars
-----------------------------------------------------------------------------
TypeOK ==
    /\ msg \in Request
    /\ descs \in Seq([addr : Nat, len : Nat, sof : BOOLEAN, eof : BOOLEAN, frame : Nat])
    /\ offset \in Nat /\ left \in Nat /\ frameLeft \in Nat /\ frames \in Nat
    /\ inFrame \in BOOLEAN
    /\ state \in {"building", "built", "DATA_RANGE", "DESC_RANGE"}

(* Where the k-th byte of the region is in memory.                          *)
PhysicalByte(k) ==
    LET at == msg.addr + k
        i == CHOOSE j \in 1..Len(msg.seg) :
                /\ Before(msg.seg)[j] <= at /\ at < Before(msg.seg)[j] + msg.seg[j].size
    IN msg.seg[i].base + at - Before(msg.seg)[i]

(* Bytes described before each descriptor.                                  *)
Described(ds) == PrefixSum([i \in DOMAIN ds |-> ds[i].len])

(* Followed from first to last, the descriptors move byte k of the region   *)
(* to or from the memory where byte k lies, every byte once; none is empty  *)
(* or longer than a block.  Nothing outside the region is touched even when *)
(* the build fails half way.                                                *)
ExactCover ==
    /\ \A i \in DOMAIN descs :
        /\ descs[i].len \in 1..msg.block
        /\ \A b \in 0..(descs[i].len - 1) :
              descs[i].addr + b = PhysicalByte(Described(descs)[i] + b)
    /\ state = "built" => Described(descs)[Len(descs) + 1] = msg.size

(* The frames a sending stream marks: the whole region, or its consecutive  *)
(* blocks, wherever the segments divide them.  A frame starts in exactly    *)
(* the descriptor that holds its first byte, ends in the one that holds its *)
(* last, and frame_num counts them from 0 (RESEND looks frames up by it).   *)
FrameSize == IF msg.rule = "AllOneFrame" THEN msg.size ELSE msg.block
FramesMarked ==
    \A i \in DOMAIN descs :
        LET start == Described(descs)[i]
            end == start + descs[i].len
        IN /\ descs[i].sof <=> start % FrameSize = 0
           /\ descs[i].eof <=> (end % FrameSize = 0 \/ end = msg.size)
           /\ descs[i].frame = start \div FrameSize
           /\ start \div FrameSize = (end - 1) \div FrameSize

(* The bytes a descriptor has to start at: the first of the region, of a    *)
(* segment, and of a block.  The blocks of AllOneFrame are counted afresh   *)
(* in every segment; a byte outside the buffer has no descriptor to be in.  *)
Entered(at) == CHOOSE e \in {msg.addr} \cup {Before(msg.seg)[j] : j \in 1..Len(msg.seg)} :
                  /\ msg.addr <= e /\ e <= at
                  /\ \A j \in 1..Len(msg.seg) : Before(msg.seg)[j] \notin (e + 1)..at
Starts(k) ==
    LET at == msg.addr + k
    IN \/ at >= Total(msg.seg)
       \/ Entered(at) = at
       \/ msg.rule = "AllOneFrame" /\ (at - Entered(at)) % msg.block = 0
       \/ msg.rule = "FramePerDesc" /\ k % msg.block = 0
Needed == Cardinality({k \in 0..(msg.size - 1) : Starts(k)})

(* A build is refused only for a region that leaves the buffer or needs     *)
(* more descriptors than the ring has, and never accepts either; it takes   *)
(* no more descriptors than it has to.                                      *)
Refused ==
    /\ state = "DATA_RANGE" => msg.addr + msg.size > Total(msg.seg)
    /\ state = "DESC_RANGE" => Needed > msg.ring
    /\ state = "built" => /\ msg.addr + msg.size <= Total(msg.seg)
                          /\ Len(descs) = Needed /\ Needed <= msg.ring
                          /\ frames = (msg.size + FrameSize - 1) \div FrameSize
=============================================================================
