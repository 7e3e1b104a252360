------------------------------ MODULE FrameLayout ------------------------------
(***************************************************************************)
(* What the images of a frame look like on their way from the camera to    *)
(* the reconstruction, and the three places that check them: the capture   *)
(* side before it copies them, the FrameStore when it accepts the frame,   *)
(* and the builder when it converts it.  An image is its format, its size, *)
(* the bytes from a row to the next, and its bytes; pixels are left out.   *)
(***************************************************************************)
EXTENDS Integers

CONSTANTS
  ColorImages,  \* what a capture may hold for its color image: an image, or NoImage
  DepthImages   \* and for its depth image

Formats == {"bgra32", "depth16", "other"}

NoImage == [format |-> "other", width |-> 0, height |-> 0, stride |-> 0, bytes |-> 0]

ImagesAssumption ==
  ColorImages \cup DepthImages
    \subseteq [format : Formats, width : Nat, height : Nat, stride : Nat, bytes : Nat]
ASSUME ImagesAssumption

MaxSaneImageDimension == 16384

ColorPixel == 4
DepthPixel == 2

SaneSize(image) ==
  /\ image.width \in 1..MaxSaneImageDimension
  /\ image.height \in 1..MaxSaneImageDimension

HoldsRows(image) == image.stride * image.height <= image.bytes

-----------------------------------------------------------------------------
(* The capture side                                                        *)

\* Mutant: as the store checks it, whatever a pixel takes.
SaneRowsOnly(image, bytesPerPixel) ==
  /\ SaneSize(image) /\ image.stride > 0 /\ image.bytes > 0
  /\ image.stride >= image.width
  /\ HoldsRows(image)

SaneShape(image, bytesPerPixel) ==
  /\ SaneSize(image) /\ image.stride > 0 /\ image.bytes > 0
  /\ image.stride >= image.width * bytesPerPixel
  /\ HoldsRows(image)

ValidColor(image) ==
  image # NoImage /\ image.format = "bgra32" /\ SaneShape(image, ColorPixel)

ValidDepth(image) ==
  image # NoImage /\ image.format = "depth16" /\ SaneShape(image, DepthPixel)

\* Mutant: the depth keeps the geometry of its own camera.
DepthGeometry(color, depth) == depth

\* The SDK allocates the rows that it is asked for.
AlignDepthToColor(color, depth) ==
  LET stride == color.width * DepthPixel
  IN [format |-> "depth16", width |-> color.width, height |-> color.height,
      stride |-> stride, bytes |-> stride * color.height]

\* The images of the frame built from a color and a depth image, if any is.
Assembled(color, depth) ==
  LET aligned == AlignDepthToColor(color, depth)
  IN IF ValidColor(color) /\ ValidDepth(depth) /\ ValidDepth(aligned)
       THEN {[rgb |-> color, depth |-> aligned]}
       ELSE {}

-----------------------------------------------------------------------------
(* The store and the builder                                               *)

\* FrameValidator does not know the pixels of an image.
SaneImageBytes(image) ==
  /\ SaneSize(image) /\ image.stride > 0 /\ image.bytes > 0
  /\ image.stride >= image.width
  /\ HoldsRows(image)

StoreAccepts(images) == SaneImageBytes(images.rgb) /\ SaneImageBytes(images.depth)

ConvertibleToView(images) ==
  /\ images.rgb.width = images.depth.width
  /\ images.rgb.height = images.depth.height
  /\ images.rgb.stride >= images.rgb.width * ColorPixel
  /\ images.depth.stride >= images.depth.width * DepthPixel

\* The end of the last row that the conversion reads.
RowsRead(image, bytesPerPixel) ==
  (image.height - 1) * image.stride + image.width * bytesPerPixel

ReadInside(images) ==
  /\ RowsRead(images.rgb, ColorPixel) <= images.rgb.bytes
  /\ RowsRead(images.depth, DepthPixel) <= images.depth.bytes
=============================================================================
