----------------------------- MODULE Downsample -----------------------------
(***************************************************************************)
(* image::downsample_inplace.  An image shrinks to half its width and half *)
(* its height in the memory it is in, two rows at a time: the rows that    *)
(* are written are closer together than those that are read, and may not   *)
(* catch up with them.                                                     *)
(***************************************************************************)
EXTENDS ImageOps

CONSTANTS
  Size,               \* pairs of a width and a height
  Pixel               \* the values in the images that are downsampled

SizeAssumption ==
  /\ Size \subseteq (Nat \ {0}) \X (Nat \ {0})
  /\ Pixel \subseteq Byte

VARIABLES
  source,             \* the image as it was: its pixels,
  source_width,       \* width
  source_height,      \* and height
  data, width, height,    \* those of the Image
  row_buffer,         \* two rows of it
  j,
  pc                  \* "Copy", "Average" or "Done"

image == <<source, source_width, source_height>>
vars == <<image, data, width, height, row_buffer, j, pc>>

new_width == source_width \div 2
new_height == source_height \div 2

Address == 0 .. (source_width * source_height - 1)
Buffer == 0 .. (2 * source_width - 1)

Init ==
  /\ \E size \in Size : source_width = size[1] /\ source_height = size[2]
  /\ source \in [Address -> Pixel]
  /\ data = source /\ width = source_width /\ height = source_height
  /\ \E byte \in Pixel : row_buffer = [b \in Buffer |-> byte]
  /\ j = 0
  /\ pc = "Copy"

Copy ==
  /\ pc = "Copy" /\ j < new_height
  /\ row_buffer' = [b \in Buffer |-> data[width * j * 2 + b]]
  /\ pc' = "Average"
  /\ UNCHANGED <<image, data, width, height, j>>

Upper == [x \in 0 .. (source_width - 1) |-> row_buffer[x]]
Lower == [x \in 0 .. (source_width - 1) |-> row_buffer[source_width + x]]

AverageApart ==
  /\ pc = "Average"
  /\ data' = [a \in Address |->
       IF a \in (width * j) .. (width * j + new_width - 1)
         THEN Average(Upper, Lower, a - width * j)
         ELSE data[a]]
  /\ j' = j + 1
  /\ pc' = "Copy"
  /\ UNCHANGED <<image, width, height, row_buffer>>

AverageRow ==
  /\ pc = "Average"
  /\ data' = [a \in Address |->
       IF a \in (new_width * j) .. (new_width * j + new_width - 1)
         THEN Average(Upper, Lower, a - new_width * j)
         ELSE data[a]]
  /\ j' = j + 1
  /\ pc' = "Copy"
  /\ UNCHANGED <<image, width, height, row_buffer>>

Finish ==
  /\ pc = "Copy" /\ j = new_height
  /\ width' = new_width /\ height' = new_height
  /\ pc' = "Done"
  /\ UNCHANGED <<image, data, row_buffer, j>>

Next == Copy \/ AverageRow \/ Finish

Spec == Init /\ [][Next]_vars

-----------------------------------------------------------------------------
TypeOK ==
  /\ source_width \in Nat \ {0} /\ source_height \in Nat \ {0}
  /\ source \in [Address -> Pixel]
  /\ data \in [Address -> Byte]
  /\ row_buffer \in [Buffer -> Byte]
  /\ j \in 0 .. new_height
  /\ pc \in {"Copy", "Average", "Done"}
  /\ pc = "Average" => j < new_height
  /\ pc = "Done" <=> j = new_height /\ width = new_width /\ height = new_height
  /\ pc # "Done" => width = source_width /\ height = source_height

SourceRow(y) == [x \in 0 .. (source_width - 1) |-> source[source_width * y + x]]

(* The rows that are done are the averages of the image as it was.         *)
IsDownsampled ==
  \A y \in 0 .. (j - 1), x \in 0 .. (new_width - 1) :
    data[new_width * y + x] = Average(SourceRow(2 * y), SourceRow(2 * y + 1), x)
=============================================================================
