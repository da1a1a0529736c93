---------------------------- MODULE DynamicBitset ----------------------------
(***************************************************************************)
(* detail::dynamic_bitset: bits packed into blocks.  The last block may    *)
(* have bits past the end of the set; fill(), operator~ and a resize() to  *)
(* fewer bits leave anything in them, so every query and every growth has  *)
(* to keep them out.                                                       *)
(*                                                                         *)
(* A block is the set of the offsets of its ones.  dbModel is the          *)
(* std::vector<bool> the class stands for.                                 *)
(***************************************************************************)
EXTENDS Integers, Sequences, FiniteSets, FiniteSetsExt

CONSTANTS BlockSize,    \* bits of a block
          MaxBits       \* bound: the size of the set

ASSUME DbAssumption == BlockSize \in Nat \ {0} /\ MaxBits \in Nat

VARIABLES dbBlocks, dbSize, dbModel,
          dbUnfilled    \* history: bits that resize() has added without a value

dbVars == <<dbBlocks, dbSize, dbModel, dbUnfilled>>

-----------------------------------------------------------------------------
Ones == 0 .. BlockSize - 1
BlockOf(value) == IF value THEN Ones ELSE {}
BlocksFor(n) == n \div BlockSize + (IF n % BlockSize = 0 THEN 0 ELSE 1)
MaskRightN(n) == 0 .. n - 1

FullBlockCount == dbSize \div BlockSize
PartialBlockSize == dbSize % BlockSize
PartialBlockMask == MaskRightN(PartialBlockSize)
LastBlock(blocks) == blocks[Len(blocks)]
PartialBlock == LastBlock(dbBlocks) \cap PartialBlockMask

\* operator[] const; positions count from 0.
Bit(i) == i % BlockSize \in dbBlocks[i \div BlockSize + 1]

\* The block operations of the proxy that operator[] returns.
WithBit(blocks, i, value) ==
    [blocks EXCEPT ![i \div BlockSize + 1] =
        IF value THEN @ \cup {i % BlockSize} ELSE @ \ {i % BlockSize}]

Uniform(n, value) == [i \in 1 .. n |-> value]

DbInit == dbBlocks = <<>> /\ dbSize = 0 /\ dbModel = <<>> /\ dbUnfilled = {}

\* dynamic_bitset(size, value)
Construct(n, value) ==
    /\ dbBlocks' = [b \in 1 .. BlocksFor(n) |-> BlockOf(value)]
    /\ dbSize' = n
    /\ dbModel' = Uniform(n, value)
    /\ dbUnfilled' = {}

\* reference::operator=
AssignBit(i, value) ==
    /\ i < dbSize
    /\ dbBlocks' = WithBit(dbBlocks, i, value)
    /\ dbModel' = [dbModel EXCEPT ![i + 1] = value]
    /\ dbUnfilled' = dbUnfilled \ {i}
    /\ UNCHANGED dbSize

\* reference::flip
FlipBit(i) ==
    /\ i < dbSize
    /\ dbBlocks' = WithBit(dbBlocks, i, ~ Bit(i))
    /\ dbModel' = [dbModel EXCEPT ![i + 1] = ~ @]
    /\ UNCHANGED <<dbSize, dbUnfilled>>

Resized(blocks, n, value) ==
    [b \in 1 .. n |-> IF b <= Len(blocks) THEN blocks[b] ELSE BlockOf(value)]

\* The last block of the new size keeps as many bits as the old size had past its
\* full blocks, and gets the value in the others.
Extended(blocks, value) ==
    [blocks EXCEPT ![Len(blocks)] = (@ \cap PartialBlockMask)
                                    \cup (BlockOf(value) \ PartialBlockMask)]

\* What a growth over the end of a block leaves in the block it started in.
SkippedBits(n) == IF PartialBlockSize > 0 /\ BlocksFor(n) > BlocksFor(dbSize)
              THEN dbSize .. BlocksFor(dbSize) * BlockSize - 1 ELSE {}

ResizeBits(n, value) ==
    /\ LET resized == Resized(dbBlocks, BlocksFor(n), value)
       IN dbBlocks' = IF n > dbSize THEN Extended(resized, value) ELSE resized
    /\ dbSize' = n
    /\ dbModel' = [i \in 1 .. n |-> IF i <= dbSize THEN dbModel[i] ELSE value]
    /\ dbUnfilled' = {i \in dbUnfilled \cup SkippedBits(n) : i < n}

Fill(value) ==
    /\ dbBlocks' = [b \in DOMAIN dbBlocks |-> BlockOf(value)]
    /\ dbModel' = Uniform(dbSize, value)
    /\ dbUnfilled' = {}
    /\ UNCHANGED dbSize

ClearBits == dbBlocks' = <<>> /\ dbSize' = 0 /\ dbModel' = <<>> /\ dbUnfilled' = {}

\* operator~, assigned to the set.
Complement ==
    /\ dbBlocks' = [b \in DOMAIN dbBlocks |-> Ones \ dbBlocks[b]]
    /\ dbModel' = [i \in DOMAIN dbModel |-> ~ dbModel[i]]
    /\ UNCHANGED <<dbSize, dbUnfilled>>

DbNext == \/ \E n \in 0 .. MaxBits, v \in BOOLEAN : Construct(n, v) \/ ResizeBits(n, v)
          \/ \E i \in 0 .. MaxBits - 1, v \in BOOLEAN : AssignBit(i, v)
          \/ \E i \in 0 .. MaxBits - 1 : FlipBit(i)
          \/ \E v \in BOOLEAN : Fill(v)
          \/ ClearBits \/ Complement

DbSpec == DbInit /\ [][DbNext]_dbVars

-----------------------------------------------------------------------------
\* The queries.  partial_block() needs a block: they are not for the empty set.
Lowest(S, default) == IF S = {} THEN default ELSE Min(S)

FirstIn(interesting(_), offset(_)) ==
    LET b == Lowest({b \in DOMAIN dbBlocks : interesting(dbBlocks[b])}, 0)
    IN IF b = 0 THEN dbSize ELSE Min({dbSize, (b - 1) * BlockSize + offset(dbBlocks[b])})

CountrZero(block) == Lowest(block, BlockSize)
CountrOne(block) == Lowest(Ones \ block, BlockSize)
NotZeros(block) == block # {}
NotOnes(block) == block # Ones

FindFirst(value) == IF value THEN FirstIn(NotZeros, CountrZero)
                             ELSE FirstIn(NotOnes, CountrOne)

\* Variant: the bits past the end count.
PopcountOfBlocks == MapThenSumSet(LAMBDA b : Cardinality(dbBlocks[b]), DOMAIN dbBlocks)

Popcount == MapThenSumSet(LAMBDA b : Cardinality(dbBlocks[b]), 1 .. FullBlockCount)
            + Cardinality(PartialBlock)

AnySet == (\E b \in 1 .. FullBlockCount : dbBlocks[b] # {}) \/ PartialBlock # {}
AllSet == /\ \A b \in 1 .. FullBlockCount : dbBlocks[b] = Ones
          /\ Cardinality(PartialBlock) = PartialBlockSize

\* operator==, with a set of the same bits whose last block ends differently.
SameBits(blocks) == /\ \A b \in 1 .. FullBlockCount : dbBlocks[b] = blocks[b]
                  /\ PartialBlock = LastBlock(blocks) \cap PartialBlockMask

Twins == {[b \in 1 .. BlocksFor(dbSize) |->
             {o \in Ones : LET i == (b - 1) * BlockSize + o
                           IN IF i < dbSize THEN Bit(i) ELSE tail}] : tail \in BOOLEAN}

-----------------------------------------------------------------------------
\* However the set has grown, shrunk, been filled or complemented: the bits that it
\* shows are those of a vector of bools, except for the ones that resize() skips
\* when it grows over the end of a block.
BitsMatchVector ==
    /\ Len(dbBlocks) = BlocksFor(dbSize) /\ Len(dbModel) = dbSize
    /\ \A i \in 0 .. dbSize - 1 : i \in dbUnfilled \/ Bit(i) = dbModel[i + 1]

\* No query ever answers for the bits past the end, whatever is left in them.
QueriesSeeBits ==
    LET ones == {i \in 0 .. dbSize - 1 : Bit(i)}
        zeros == (0 .. dbSize - 1) \ ones
    IN /\ FindFirst(TRUE) = Lowest(ones, dbSize) /\ FindFirst(FALSE) = Lowest(zeros, dbSize)
       /\ dbSize > 0 => /\ Popcount = Cardinality(ones)
                        /\ AnySet = (ones # {}) /\ AllSet = (zeros = {})
                        /\ \A twin \in Twins : SameBits(twin)

\* What is kept, and what is answered about it.
BitsetIsExact == BitsMatchVector /\ QueriesSeeBits
=============================================================================
