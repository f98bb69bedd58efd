-------------------------------- MODULE Blur --------------------------------
(***************************************************************************)
(* image::blur_inplace.  An image is blurred in the buffer it is in: the   *)
(* rows that are still needed are kept, as they were, in a ring of three.  *)
(*                                                                         *)
(* One step per row that is copied to the ring and per row that is         *)
(* written: within a row what is read is not what is written.              *)
(***************************************************************************)
EXTENDS ImageOps

CONSTANTS
  image_width, image_height,
  Pixel               \* the values in the images that are blurred

(* With less than two rows the second memcpy reads past the image. *)
SizeAssumption ==
  /\ image_width \in Nat \ {0}
  /\ image_height \in Nat \ {0, 1}
  /\ Pixel \subseteq Byte

Row == 0 .. (image_height - 1)
Column == 0 .. (image_width - 1)

VARIABLES
  source,             \* the image as it was
  image_data,
  row_buffer,         \* rows before they were modified
  y,
  pc                  \* "Copy", "Shift", "Convolve" or "Done"

vars == <<source, image_data, row_buffer, y, pc>>

Init ==
  /\ source \in [Row -> [Column -> Pixel]]
  /\ image_data = source
  /\ \E byte \in Pixel :               \* whatever the stack holds
       row_buffer = [i \in 0 .. 2 |-> [x \in Column |-> byte]]
  /\ y = 1
  /\ pc = "Copy"

RingOfTwo(i) == i % 2
row_buffer_ptr(i) == i % 3

More(row) == IF row < image_height - 1 THEN "Shift" ELSE "Done"

Copy ==
  /\ pc = "Copy"
  /\ row_buffer' = [row_buffer EXCEPT ![row_buffer_ptr(0)] = image_data[0],
                                      ![row_buffer_ptr(1)] = image_data[1]]
  /\ pc' = More(y)
  /\ UNCHANGED <<source, image_data, y>>

(* The row below takes the place of the one that was used last. *)
Shift ==
  /\ pc = "Shift"
  /\ row_buffer' = [row_buffer EXCEPT ![row_buffer_ptr(y + 1)] = image_data[y + 1]]
  /\ pc' = "Convolve"
  /\ UNCHANGED <<source, image_data, y>>

Convolve ==
  /\ pc = "Convolve"
  /\ image_data' = [image_data EXCEPT ![y] =
       BlurredRow(row_buffer[row_buffer_ptr(y - 1)],
                  row_buffer[row_buffer_ptr(y)],
                  row_buffer[row_buffer_ptr(y + 1)],
                  image_width)]
  /\ y' = y + 1
  /\ pc' = More(y + 1)
  /\ UNCHANGED <<source, row_buffer>>

Next == Copy \/ Shift \/ Convolve

Spec == Init /\ [][Next]_vars

-----------------------------------------------------------------------------
TypeOK ==
  /\ source \in [Row -> [Column -> Pixel]]
  /\ image_data \in [Row -> [Column -> Byte]]
  /\ row_buffer \in [0 .. 2 -> [Column -> Byte]]
  /\ y \in 1 .. (image_height - 1)
  /\ pc \in {"Copy", "Shift", "Convolve", "Done"}
  /\ pc \in {"Shift", "Convolve"} => y < image_height - 1
  /\ pc = "Done" => y = image_height - 1

(* Every row that was written is made of its neighbours as they were before *)
(* they were written themselves, and the rows to come are untouched: to    *)
(* blur in place is to blur.                                               *)
BlursTheSource ==
  \A r \in Row :
    image_data[r] = IF 0 < r /\ r < y
                      THEN BlurredRow(source[r - 1], source[r], source[r + 1], image_width)
                      ELSE source[r]

(* The sum the rounded pixel stands for, in sixteenths. *)
Sum(row, x) == row[x - 1] + 2 * row[x] + row[x + 1]

(* The kernel is that of the comment, "[1/16 1/8 1/16] [ 1/8 1/4 1/8 ]     *)
(* [1/16 1/8 1/16]" (image.cpp:36-38): rounding the nine products and the  *)
(* three sums of them only makes a pixel darker, by at most four, and the  *)
(* sum needs no more than the byte it is stored in.                        *)
RoundsDown ==
  \A r \in 1 .. (y - 1), x \in 1 .. (image_width - 2) :
    16 * image_data[r][x] - (Sum(source[r - 1], x) + 2 * Sum(source[r], x) + Sum(source[r + 1], x))
      \in -64 .. 0
=============================================================================
