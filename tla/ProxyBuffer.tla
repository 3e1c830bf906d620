---------------------------- MODULE ProxyBuffer -----------------------------
(***************************************************************************)
(* BasicBuffer: a chain of fixed-size blocks between two sockets.  A       *)
(* socket read is Reserve, then the kernel fills some of the reserved      *)
(* space, then the handler calls Commit; a socket write is Peek, then the  *)
(* handler calls Drain.  The two overlap: blocks may be drained and pruned *)
(* while space is reserved, and data be committed while a view is out.     *)
(* CopyIn is Reserve, fill and Commit with nothing in between, CopyOut is  *)
(* Peek and Drain.  The n-th byte read is the number n.                    *)
(***************************************************************************)
EXTENDS Integers, Sequences, SequencesExt, FiniteSets

CONSTANTS
  Capacity,   \* bytes in a block
  Blocks,     \* the blocks that can be allocated, natural numbers
  MaxReserve, \* bound on the size asked of Reserve
  MaxBytes,   \* bound on the bytes read
  Null        \* nullptr

ASSUME BufferAssumption ==
  /\ Capacity \in Nat \ {0}
  /\ MaxReserve \in Nat \ {0}
  /\ MaxBytes \in Nat
  /\ Blocks \subseteq Nat /\ Null \notin Blocks

VARIABLES
  block,    \* block -> offset and len
  cell,     \* block -> place -> the byte in it
  chain,    \* the linked list, from head_ to tail_
  end,      \* end_
  free,     \* the freelist, the block deleted last first
  dataSize, \* data_size_
  region,   \* the cells the outstanding Reserve returned
  reserved, \* reserved_
  filled,   \* how many of them the kernel has filled; -1 before it has
  view,     \* the cells the outstanding Peek returned
  peeked,   \* peeked_
  bytes     \* how many bytes were committed

vars == <<block, cell, chain, end, free, dataSize, region, reserved, filled,
          view, peeked, bytes>>

-----------------------------------------------------------------------------
NewBlock == [offset |-> 0, len |-> 0]
SpaceLen(b) == Capacity - b.offset - b.len

(* A cell is addressed by its block and its place.                          *)
Data(b, m) == [k \in 1 .. m[b].len |-> <<b, m[b].offset + k>>]
Space(b, m) ==
  [k \in 1 .. SpaceLen(m[b]) |-> <<b, m[b].offset + m[b].len + k>>]

DataCells == FlattenSeq([p \in DOMAIN chain |-> Data(chain[p], block)])

(* SpaceStepper: the place in the chain of the first block with space.      *)
SpaceStepper ==
  IF end = Null THEN 1
  ELSE LET p == CHOOSE q \in DOMAIN chain : chain[q] = end
       IN IF SpaceLen(block[end]) = 0 THEN p + 1 ELSE p

SpaceOf(c, m) ==
  FlattenSeq([k \in 1 .. Len(c) - SpaceStepper + 1 |->
                Space(c[SpaceStepper + k - 1], m)])
SpaceCells == SpaceOf(chain, block)

(* Mutant: what was drained from the head is counted as space.              *)
SpaceSizeNoOffset ==
  IF chain = <<>> THEN 0 ELSE Len(chain) * Capacity - dataSize

(* space_size()                                                             *)
SpaceSize ==
  IF chain = <<>> THEN 0
  ELSE Len(chain) * Capacity - dataSize - block[Head(chain)].offset

(* Freelist::New: a freed block, or else one that was never used.           *)
Available ==
  free \o SetToSortSeq(Blocks \ (ToSet(chain) \cup ToSet(free)), <)

-----------------------------------------------------------------------------
Init ==
  /\ block = [b \in Blocks |-> NewBlock]
  /\ cell = [b \in Blocks |-> [k \in 1 .. Capacity |-> 0]]
  /\ chain = <<>> /\ end = Null /\ free = <<>>
  /\ dataSize = 0 /\ bytes = 0
  /\ region = <<>> /\ reserved = FALSE /\ filled = -1
  /\ view = <<>> /\ peeked = FALSE

(* Blocks that have to be appended for a given size.                        *)
NewBlocks(size) ==
  IF Len(SpaceCells) >= size THEN 0
  ELSE (size - Len(SpaceCells) + Capacity - 1) \div Capacity

(* Reserve hands out exactly the space asked for, ReserveAtLeast the whole  *)
(* of each block it needs.                                                  *)
Reserve(size, exact) ==
  /\ ~reserved
  /\ NewBlocks(size) <= Len(Available)
  /\ LET n == NewBlocks(size)
         longer == chain \o SubSeq(Available, 1, n)
         fresh == [b \in Blocks |->
                     IF b \in ToSet(SubSeq(Available, 1, n)) THEN NewBlock
                     ELSE block[b]]
         cells == SpaceOf(longer, fresh)
         enough == {k \in size .. Len(cells) :
                      \/ exact
                      \/ k = Len(cells)
                      \/ cells[k + 1][1] # cells[k][1]}
     IN /\ chain' = longer
        /\ block' = fresh
        /\ end' = IF end = Null THEN Head(longer) ELSE end
        /\ free' = SubSeq(free, n + 1, Len(free))
        /\ region' = SubSeq(cells, 1, CHOOSE k \in enough :
                                        \A j \in enough : k <= j)
  /\ reserved' = TRUE
  /\ filled' = -1
  /\ UNCHANGED <<cell, dataSize, view, peeked, bytes>>

(* The kernel copies received bytes to the front of the reserved space; the *)
(* completion handler runs later.                                           *)
Fill(n) ==
  /\ reserved /\ filled = -1
  /\ n <= Len(region)
  /\ bytes + n <= MaxBytes
  /\ cell' = [b \in Blocks |-> [k \in 1 .. Capacity |->
                LET hit == {j \in 1 .. n : region[j] = <<b, k>>}
                IN IF hit = {} THEN cell[b][k]
                   ELSE bytes + CHOOSE j \in hit : TRUE]]
  /\ filled' = n
  /\ UNCHANGED <<block, chain, end, free, dataSize, region, reserved, view,
                 peeked, bytes>>

(* Commit steps through the space again and lengthens the data by it.       *)
Commit ==
  /\ reserved /\ filled >= 0
  /\ block' = [b \in Blocks |-> [block[b] EXCEPT !.len = block[b].len +
                 Cardinality({k \in 1 .. filled : SpaceCells[k][1] = b})]]
  /\ end' = IF filled = 0 THEN end ELSE SpaceCells[filled][1]
  /\ dataSize' = dataSize + filled
  /\ bytes' = bytes + filled
  /\ reserved' = FALSE /\ region' = <<>> /\ filled' = -1
  /\ UNCHANGED <<cell, chain, free, view, peeked>>

Peek ==
  /\ ~peeked
  /\ peeked' = TRUE
  /\ view' = LET full == {p \in 0 .. Len(chain) :
                            \A q \in 1 .. p : block[chain[q]].len > 0}
                 last == CHOOSE p \in full : \A q \in full : q <= p
             IN FlattenSeq([p \in 1 .. last |-> Data(chain[p], block)])
  /\ UNCHANGED <<block, cell, chain, end, free, dataSize, region, reserved,
                 filled, bytes>>

(* Mutant: the head is reset under an outstanding Reserve.                  *)
ResetsHeadAlways(c, size) == size = 0 /\ c # <<>>

(* A drained block without space is pruned; the head of a drained buffer is *)
(* reset unless some of its space is reserved.                              *)
Exhausted(b) == b.len = 0 /\ SpaceLen(b) = 0
ResetsHead(c, size) == size = 0 /\ c # <<>> /\ ~reserved

(* The socket has written n bytes of the view.                              *)
Drain(n) ==
  /\ peeked
  /\ n <= Len(view)
  /\ LET taken(b) == Cardinality({k \in 1 .. n : DataCells[k][1] = b})
         left == [b \in Blocks |->
                    [offset |-> block[b].offset + taken(b),
                     len |-> block[b].len - taken(b)]]
         gone == {p \in DOMAIN chain :
                    \A q \in 1 .. p : taken(chain[q]) > 0
                                        /\ Exhausted(left[chain[q]])}
         rest == SubSeq(chain, Cardinality(gone) + 1, Len(chain))
     IN /\ chain' = rest
        /\ free' = Reverse(SubSeq(chain, 1, Cardinality(gone))) \o free
        /\ block' = IF ResetsHead(rest, dataSize - n)
                    THEN [left EXCEPT ![Head(rest)].offset = 0] ELSE left
        /\ end' = IF dataSize > n THEN end
                  ELSE IF rest = <<>> THEN Null ELSE Head(rest)
  /\ dataSize' = dataSize - n
  /\ peeked' = FALSE /\ view' = <<>>
  /\ UNCHANGED <<cell, region, reserved, filled, bytes>>

Next ==
  \/ \E size \in 1 .. MaxReserve, exact \in BOOLEAN : Reserve(size, exact)
  \/ \E n \in 0 .. MaxBytes : Fill(n)
  \/ Commit
  \/ Peek
  \/ \E n \in 0 .. MaxBytes : Drain(n)

Spec == Init /\ [][Next]_vars

-----------------------------------------------------------------------------
(* Every variable has its type; a block is in the chain or free, once.      *)
TypeOK ==
  /\ block \in [Blocks -> [offset : 0 .. Capacity, len : 0 .. Capacity]]
  /\ cell \in [Blocks -> [1 .. Capacity -> 0 .. MaxBytes]]
  /\ IsInjective(chain \o free) /\ ToSet(chain \o free) \subseteq Blocks
  /\ end \in Blocks \cup {Null}
  /\ reserved \in BOOLEAN /\ peeked \in BOOLEAN
  /\ filled \in -1 .. MaxBytes
  /\ bytes \in 0 .. MaxBytes

(* The pointers a socket read was given stay good until its handler commits *)
(* them, whatever is drained and pruned meanwhile: they are still the first *)
(* space of the chain, the space Commit turns into data.                    *)
ReservedStaysValid == reserved => IsPrefix(region, SpaceCells)

(* The pointers a socket write was given stay good until its handler drains *)
(* them, whatever is committed meanwhile: they are the front of the data.   *)
ViewIsFront == peeked => IsPrefix(view, DataCells)

(* data_size_ counts the data, and space_size(), "basically the total       *)
(* capacity minus the sizeof the data and offset", counts the space.        *)
SizesAgree == dataSize = Len(DataCells) /\ SpaceSize = Len(SpaceCells)

(* The blocks, overlapping reads, writes and prunings amount to a queue of  *)
(* bytes: nothing is lost, repeated, reordered or overwritten.              *)
Fifo == INSTANCE ByteFifo WITH
          Sizes <- 0 .. MaxBytes,
          queue <- [k \in DOMAIN DataCells |->
                      cell[DataCells[k][1]][DataCells[k][2]]],
          arrived <- bytes
ImplementsFifo == Fifo!Spec

(* The representation invariant of Buffer: whatever Reserve, Commit, Peek   *)
(* and Drain overlap, blocks, offsets and sizes agree and the pointers that *)
(* are out stay valid.                                                      *)
RepresentationOK == TypeOK /\ ReservedStaysValid /\ ViewIsFront /\ SizesAgree
=============================================================================
