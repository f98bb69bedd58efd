------------------------------ MODULE ImageOps ------------------------------
(***************************************************************************)
(* The arithmetic of vio/image.cpp on pixels, unsigned integers of a byte. *)
(* A row of pixels is a function of the column.                            *)
(***************************************************************************)
EXTENDS Integers

Byte == 0 .. 255

(* The shifts by kernel[0], [1] and [2] along a row. *)
Horizontal(row, x) == (row[x - 1] \div 4) + (row[x] \div 2) + (row[x + 1] \div 4)

(* And by the same three across the rows; the sum is stored in a byte. *)
Weighted(above, row, below, x) ==
  ((Horizontal(above, x) \div 4) + (Horizontal(row, x) \div 2) + (Horizontal(below, x) \div 4))
    % 256

(* What blur_inplace makes of three rows; its first and last pixel stay. *)
BlurredRow(above, row, below, width) ==
  [x \in 0 .. (width - 1) |-> IF x = 0 \/ x = width - 1
                                THEN row[x]
                                ELSE Weighted(above, row, below, x)]

(* The pixel that takes the place of a block of two by two. *)
Average(upper, lower, i) ==
  (upper[2 * i] + upper[2 * i + 1] + lower[2 * i] + lower[2 * i + 1]) \div 4
=============================================================================
