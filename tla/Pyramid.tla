------------------------------- MODULE Pyramid -------------------------------
(***************************************************************************)
(* image::ImagePyramid::ImagePyramid: level 0 is the caller's image, each  *)
(* level above it the one below in half its width and height, one after    *)
(* the other in the pyramid buffer, and then all of them are blurred where *)
(* they are.                                                               *)
(*                                                                         *)
(* The memory is that of the caller's image and, after it, the buffer.     *)
(* One step per level; Blur and Downsample are about what happens inside.  *)
(***************************************************************************)
EXTENDS ImageOps

CONSTANTS
  WIDTH, HEIGHT,      \* of the caller's image
  ROOM,               \* bytes in the pyramid buffer
  PYRAMID_LEVELS,
  Source              \* the pictures the caller's image may hold

Caller == 0 .. (WIDTH * HEIGHT - 1)
Memory == 0 .. (WIDTH * HEIGHT + ROOM - 1)

(* A third of the caller's image is "enough space" (image.h:115).          *)
RoomAssumption ==
  /\ WIDTH \in Nat \ {0} /\ HEIGHT \in Nat \ {0}
  /\ ROOM \in Nat /\ 3 * ROOM >= WIDTH * HEIGHT
LevelAssumption == PYRAMID_LEVELS \in Nat \ {0}
SourceAssumption == Source \subseteq [Caller -> Byte]

Level == 0 .. (PYRAMID_LEVELS - 1)

VARIABLES
  source,             \* the picture in the caller's image, before
  memory,             \* [Memory -> Byte]
  images,             \* [Level -> what is known of that level's image]
  offset,             \* of the next level in the buffer
  i,                  \* the level the loop is at
  pc                  \* "Downsample", "Blur" or "Done"

vars == <<source, memory, images, offset, i, pc>>

Image == [data : Nat, width : Nat, height : Nat]
Empty == [data |-> 0, width |-> 0, height |-> 0]

More(level, here, next) == IF level < PYRAMID_LEVELS THEN here ELSE next

Init ==
  /\ source \in Source
  /\ memory = [a \in Memory |-> IF a \in Caller THEN source[a] ELSE 0]
  /\ images = [l \in Level |->
       IF l = 0 THEN [data |-> 0, width |-> WIDTH, height |-> HEIGHT] ELSE Empty]
  /\ offset = 0
  /\ i = More(1, 1, 0)
  /\ pc = More(1, "Downsample", "Blur")

Size(image) == image.width * image.height
Bytes(image) == image.data .. (image.data + Size(image) - 1)
Pixels(image, y) ==
  [x \in 0 .. (image.width - 1) |-> memory[image.data + y * image.width + x]]

(* memory with an image that has these rows. *)
Written(image, lines) ==
  [a \in Memory |->
     IF a \in Bytes(image)
       THEN lines[(a - image.data) \div image.width][(a - image.data) % image.width]
       ELSE memory[a]]

SameOffset ==
  /\ pc = "Downsample"
  /\ LET below == images[i - 1]
         image == [data |-> WIDTH * HEIGHT + offset,
                   width |-> below.width \div 2, height |-> below.height \div 2]
         lines == [y \in 0 .. (image.height - 1) |-> [x \in 0 .. (image.width - 1) |->
                     Average(Pixels(below, 2 * y), Pixels(below, 2 * y + 1), x)]]
     IN /\ images' = [images EXCEPT ![i] = image]
        /\ memory' = Written(image, lines)
        /\ offset' = Size(image)
  /\ i' = More(i + 1, i + 1, 0)
  /\ pc' = More(i + 1, "Downsample", "Blur")
  /\ UNCHANGED source

(* images[i].data = pyramid_buffer + offset, and downsample().             *)
Downsample ==
  /\ pc = "Downsample"
  /\ LET below == images[i - 1]
         image == [data |-> WIDTH * HEIGHT + offset,
                   width |-> below.width \div 2, height |-> below.height \div 2]
         lines == [y \in 0 .. (image.height - 1) |-> [x \in 0 .. (image.width - 1) |->
                     Average(Pixels(below, 2 * y), Pixels(below, 2 * y + 1), x)]]
     IN /\ images' = [images EXCEPT ![i] = image]
        /\ memory' = Written(image, lines)
        /\ offset' = offset + Size(image)
  /\ i' = More(i + 1, i + 1, 0)
  /\ pc' = More(i + 1, "Downsample", "Blur")
  /\ UNCHANGED source

(* Inside a border of one pixel. *)
Blurred(image, y) ==
  IF y = 0 \/ y = image.height - 1
    THEN Pixels(image, y)
    ELSE BlurredRow(Pixels(image, y - 1), Pixels(image, y), Pixels(image, y + 1), image.width)

Blur ==
  /\ pc = "Blur"
  /\ memory' = Written(images[i],
                 [y \in 0 .. (images[i].height - 1) |-> Blurred(images[i], y)])
  /\ i' = i + 1
  /\ pc' = More(i + 1, "Blur", "Done")
  /\ UNCHANGED <<source, images, offset>>

Next == Downsample \/ Blur

Spec == Init /\ [][Next]_vars

-----------------------------------------------------------------------------
TypeOK ==
  /\ source \in Source
  /\ memory \in [Memory -> Byte]
  /\ images \in [Level -> Image]
  /\ offset \in 0 .. ROOM
  /\ i \in 0 .. PYRAMID_LEVELS
  /\ pc \in {"Downsample", "Blur", "Done"}
  /\ pc = "Downsample" => i \in Level \ {0}
  /\ pc = "Blur" => i \in Level
  /\ pc = "Done" => i = PYRAMID_LEVELS

(* The levels that have an image. *)
Placed(l) == pc # "Downsample" \/ l < i

(* However many levels there are, they do not overlap, and above the first *)
(* they are in the buffer.                                                 *)
LevelsAreApart ==
  \A l \in Level : Placed(l) =>
    /\ l > 0 => Bytes(images[l]) \subseteq (WIDTH * HEIGHT) .. (WIDTH * HEIGHT + ROOM - 1)
    /\ \A k \in Level : Placed(k) /\ k < l => Bytes(images[k]) \cap Bytes(images[l]) = {}

(* Level l of the source: averaged l times, never blurred in between.      *)
SourceLevel[l \in Level] ==
  IF l = 0
    THEN [y \in 0 .. (HEIGHT - 1) |-> [x \in 0 .. (WIDTH - 1) |-> source[y * WIDTH + x]]]
    ELSE [y \in 0 .. (images[l].height - 1) |->
            [x \in 0 .. (images[l].width - 1) |->
               Average(SourceLevel[l - 1][2 * y], SourceLevel[l - 1][2 * y + 1], x)]]

BlurredLevel(l) ==
  [y \in 0 .. (images[l].height - 1) |->
     IF y = 0 \/ y = images[l].height - 1
       THEN SourceLevel[l][y]
       ELSE BlurredRow(SourceLevel[l][y - 1], SourceLevel[l][y], SourceLevel[l][y + 1],
                       images[l].width)]

(* Each level of the pyramid is the caller's picture averaged once per     *)
(* level and then blurred once.                                            *)
LevelsOfTheSource ==
  pc = "Done" =>
    \A l \in Level, y \in 0 .. (HEIGHT - 1) :
      y < images[l].height => Pixels(images[l], y) = BlurredLevel(l)[y]
=============================================================================
