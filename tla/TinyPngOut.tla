----------------------------- MODULE TinyPngOut -----------------------------
(***************************************************************************)
(* TinyPngOut: the stored (uncompressed) PNG a layer is written to.  The   *)
(* data are lines of 3 * width bytes, each after a filter byte, cut into   *)
(* DEFLATE blocks wherever these end; write may be called with any number  *)
(* of pixels at a time, and one turn of its loop is a step here.           *)
(*                                                                         *)
(* output is what was written after the file's header: headers of blocks   *)
(* (final or not, size), filter bytes, pixel bytes and the footer.         *)
(***************************************************************************)
EXTENDS Integers, Sequences, SequencesExt

CONSTANTS
  PngWidth, PngHeight,
  DEFLATE_MAX_BLOCK_SIZE,  \* 65535
  SizeModulus,             \* of a uint32_t: 2^32
  IdatLimit,               \* INT32_MAX
  Counts                   \* numbers of pixels a call is made with

\* The constructor.  The product of two uint32_t wraps before it is widened and tested,
\* so that the size of a picture of 2^32 bytes or more is what is left of it.
lineSize == 3 * PngWidth + 1
dataSize == lineSize * PngHeight
uncompSize == dataSize % SizeModulus
idatSize ==
  5 * ((uncompSize + DEFLATE_MAX_BLOCK_SIZE - 1) \div DEFLATE_MAX_BLOCK_SIZE) + 6 + uncompSize

\* At other sizes the constructor throws.
ASSUME TinyPngOutAssumption ==
  /\ PngWidth \in Nat \ {0} /\ PngHeight \in Nat \ {0}
  /\ DEFLATE_MAX_BLOCK_SIZE \in Nat \ {0} /\ Counts \subseteq Nat
  /\ SizeModulus \in Nat \ {0} /\ lineSize < SizeModulus /\ idatSize <= IdatLimit

VARIABLES positionX, positionY, uncompRemain, deflateFilled, output,
          bytes,   \* bytes the call of write has still to write
          failed   \* write has thrown "All image pixels already written"

pngVars == <<positionX, positionY, uncompRemain, deflateFilled, output, bytes, failed>>

Lesser(a, b) == IF a < b THEN a ELSE b

PngInit ==
  /\ positionX = 0 /\ positionY = 0 /\ deflateFilled = 0
  /\ uncompRemain = uncompSize
  /\ output = << >> /\ bytes = 0 /\ failed = FALSE

PngWrite(count) ==
  /\ bytes = 0 /\ ~failed
  /\ bytes' = 3 * count
  /\ UNCHANGED <<positionX, positionY, uncompRemain, deflateFilled, output, failed>>

PastEnd ==
  /\ bytes > 0 /\ ~failed /\ positionY >= PngHeight
  /\ failed' = TRUE
  /\ UNCHANGED <<positionX, positionY, uncompRemain, deflateFilled, output, bytes>>

\* Mutant of BlockHeader: a block that ends with the data is not the last one.
BlockHeaderStrict ==
  <<"block", uncompRemain < DEFLATE_MAX_BLOCK_SIZE,
    Lesser(uncompRemain, DEFLATE_MAX_BLOCK_SIZE)>>
BlockHeader ==
  <<"block", uncompRemain <= DEFLATE_MAX_BLOCK_SIZE,
    Lesser(uncompRemain, DEFLATE_MAX_BLOCK_SIZE)>>

\* How many bytes the turn writes: the filter byte, or pixels up to the end of
\* the block, of the line or of the call.
Amount ==
  IF positionX = 0 THEN 1
  ELSE Lesser(bytes, Lesser(lineSize - positionX, DEFLATE_MAX_BLOCK_SIZE - deflateFilled))

\* One turn of the loop.
PngTurn ==
  /\ bytes > 0 /\ ~failed /\ positionY < PngHeight
  /\ LET filter == positionX = 0
         filled == deflateFilled + Amount
         ended  == positionX + Amount = lineSize
         last   == ended /\ positionY + 1 = PngHeight
     IN  /\ output' = output
              \o (IF deflateFilled = 0 THEN <<BlockHeader>> ELSE << >>)
              \o [n \in 1 .. Amount |-> <<IF filter THEN "filter" ELSE "pixel">>]
              \o (IF last THEN << <<"footer">> >> ELSE << >>)
         /\ bytes' = IF filter THEN bytes ELSE bytes - Amount
         /\ uncompRemain' = (uncompRemain - Amount) % SizeModulus
         /\ deflateFilled' = IF filled >= DEFLATE_MAX_BLOCK_SIZE THEN 0 ELSE filled
         /\ positionX' = IF ended THEN 0 ELSE positionX + Amount
         /\ positionY' = IF ended THEN positionY + 1 ELSE positionY
  /\ UNCHANGED failed

PngNext == (\E count \in Counts : PngWrite(count)) \/ PngTurn \/ PastEnd
PngSpec == PngInit /\ [][PngNext]_pngVars

-----------------------------------------------------------------------------
\* The whole file: byte k of the data is a filter byte where a line starts.  Where a
\* block starts, its header stands before the byte; the blocks are full but for the
\* last, which alone is marked final.
HeaderAt(k) ==
  LET size == Lesser(dataSize - k, DEFLATE_MAX_BLOCK_SIZE)
  IN  <<"block", k + size = dataSize, size>>
Piece(k) ==
  (IF k % DEFLATE_MAX_BLOCK_SIZE = 0 THEN <<HeaderAt(k)>> ELSE << >>)
  \o << <<IF k % lineSize = 0 THEN "filter" ELSE "pixel">> >>
WholeFile == FlattenSeq([n \in 1 .. dataSize |-> Piece(n - 1)]) \o << <<"footer">> >>

\* However the calls cut the pixels, what is written is the beginning of the one
\* file that a reader can decode, all of it once the last line is full, and
\* write complains only then.  A picture whose size wraps is not refused, and its
\* blocks are wrong from the first.
WritesTheFile == dataSize < SizeModulus =>
  /\ IsPrefix(output, WholeFile)
  /\ positionY = PngHeight => output = WholeFile
  /\ failed => positionY = PngHeight
=============================================================================
