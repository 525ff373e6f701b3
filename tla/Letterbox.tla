------------------------------ MODULE Letterbox ------------------------------
(***************************************************************************)
(* yolo_validator/letterbox.py and the code that pads with it: how many    *)
(* pixels of border go on each side of a resized image, and which pad the  *)
(* boxes are shifted back by.  One axis: `input` pixels of model input of  *)
(* which `size` are the resized image.                                     *)
(*                                                                         *)
(* The code works on floats.  Pads are numbers of tenths below, and        *)
(* (input - size) / 2 and the 0.1 are exact in them; a scale is a fraction *)
(* [num, den]; a point of the input is a number of half pixels, and one of *)
(* the original image a number of 1 / (2 * num) pixels.                    *)
(***************************************************************************)
EXTENDS Integers

Least(m, n) == IF m <= n THEN m ELSE n
Greatest(m, n) == IF m >= n THEN m ELSE n

\* compute_letterbox: the smaller of the two ratios; scaleup is off.
Scale(inputW, inputH, w, h) ==
    IF w <= inputW /\ h <= inputH THEN [num |-> 1, den |-> 1]
    ELSE IF inputW * h <= inputH * w THEN [num |-> inputW, den |-> w]
    ELSE [num |-> inputH, den |-> h]

\* round(orig * scale).  The product is a float: a half may go either way.
NewSizes(orig, scale) ==
    {n \in 0 .. orig : /\ 2 * (orig * scale.num - n * scale.den) <= scale.den
                       /\ 2 * (n * scale.den - orig * scale.num) <= scale.den}

\* 10 * pad_x of compute_letterbox, pad_x = (input_w - new_w) / 2.0.
PadTenths(input, size) == 5 * (input - size)

\* int(round(x / 10)).  Half-way cases are never met here: 5 * n - 1 and
\* 5 * n + 1 end in 4, 6, 9 or 1.
RoundTenths(x) == (x + 5) \div 10

\* NumpyPreprocessor.preprocess: the borders added before and after.
Before(input, size) == RoundTenths(PadTenths(input, size) - 1)
After(input, size) == RoundTenths(PadTenths(input, size) + 1)

\* pad_int, by which unletterbox_boxes shifts boxes back.
PadInt(tenths) == RoundTenths(tenths - 1)

\* The device lanes pad with (input - size) // 2 and hand that integer on in
\* their LetterboxInfo.
LanePad(input, size) == (input - size) \div 2

\* materialize_masks_numpy: the columns of the mask that are image.
MaskLeft(input, size) == RoundTenths(PadTenths(input, size) - 1)
MaskRight(input, size) == input - RoundTenths(PadTenths(input, size) + 1)

\* unletterbox_boxes: an edge of a box in the original image.
Back(input, orig, size, scale, edge) ==
    Greatest(0, Least(2 * scale.num * orig,
                      (edge - 2 * PadInt(PadTenths(input, size))) * scale.den))

\* The pixels of `size` that the bilinear resize to `orig` gives weight in
\* pixel i: those on either side of (i + 0.5) * size / orig - 0.5, the border
\* pixel outside the first and the last.
Sources(orig, size, i) ==
    LET at == (2 * i + 1) * size - orig     \* in 1 / (2 * orig) pixels
        low == at \div (2 * orig)
        high == IF at % (2 * orig) = 0 THEN low ELSE low + 1
    IN  {Greatest(0, low), Least(size - 1, high)}

\* The border fills the input exactly: the slice that guards the size of the
\* padded image cuts nothing.
Fills(input, size) == Before(input, size) + size + After(input, size) = input

\* Boxes are shifted back by the border the image was given, in the host's
\* lanes and in the device lanes.
ShiftsBack(input, size) ==
    /\ PadInt(PadTenths(input, size)) = Before(input, size)
    /\ PadInt(10 * LanePad(input, size)) = LanePad(input, size)

\* The mask keeps all of the image and none of the border.
MaskIsImage(input, size) ==
    /\ MaskLeft(input, size) = Before(input, size)
    /\ MaskRight(input, size) - MaskLeft(input, size) = size

=============================================================================
