------------------------------ MODULE MaskRecords ------------------------------
(***************************************************************************)
(* One image from the decoded candidates to its COCO records:              *)
(*   - the columns of `decode` (yolo_validator/postprocess*.py), which are *)
(*     taken from the output by the places of the candidates, indexed anew *)
(*     when the candidates are cut to the best, and once more by the kept  *)
(*     places, and whose boxes are mapped back to the original image;      *)
(*   - the masks (yolo_validator/masks.py), one detection after the other  *)
(*     by NumPy or all at once by Torch;                                   *)
(*   - detections_to_coco (yolo_validator/coco_output.py).                 *)
(*                                                                         *)
(* Boxes are in half pixels of the input, axis by axis.  A mask is whose   *)
(* coefficients its logits come from and which columns and rows of the     *)
(* original image the crop to the box leaves them in: the logits           *)
(* themselves are taken to be positive all over.                           *)
(***************************************************************************)
EXTENDS Decode, Letterbox, SequencesExt

CONSTANTS
    Input,      \* [x |-> input_w, y |-> input_h]
    MaxOrig,    \* the longest side of an image
    Edges       \* half pixels at which a box may begin or end

Axes == {"x", "y"}

ASSUME GeometryAssumption ==
    /\ Input \in [Axes -> Nat \ {0}]
    /\ MaxOrig \in Nat \ {0}
    /\ Edges \subseteq Int

VARIABLES
    image,     \* the image's geometry: size, resized size and scale
    box,       \* per anchor, its box in the letterboxed input, by axis
    task,      \* "segment" when there are prototypes and masks are wanted
    device,    \* who makes the masks: "numpy" or "torch"
    cols,      \* the columns: of each row its candidate, which only the model
               \* knows, and the anc_idx, cls_idx and sc that the code has of it
    out,       \* "decode", "masks", "records" or "sent"
    dets,      \* Detections, one row for each kept candidate
    masks,
    records

recordInputs == <<image, box, task, device>>
listVars == <<recordInputs, out, dets, masks, records>>
recordVars == <<listVars, cols>>
allVars == <<vars, recordVars>>

Interval == {e \in Edges \X Edges : e[1] < e[2]}

\* compute_letterbox; an image so thin that a side would round to nothing is
\* refused by cv2.resize.
Images ==
    UNION {LET scale == Scale(Input.x, Input.y, orig.x, orig.y)
           IN  {[orig |-> orig, size |-> [x |-> w, y |-> h], scale |-> scale] :
                   w \in NewSizes(orig.x, scale) \ {0},
                   h \in NewSizes(orig.y, scale) \ {0}} :
           orig \in [Axes -> 1 .. MaxOrig]}

NoRows == [of |-> <<>>, anc |-> <<>>, cls |-> <<>>, sc |-> <<>>]

RecordsInit ==
    /\ cols = NoRows
    /\ box \in [Anchors -> [Axes -> Interval]]
    /\ task \in {"detect", "segment"}
    /\ device \in {"numpy", "torch"}
    /\ out = "decode"
    /\ dets = <<>>
    /\ masks = <<>>
    /\ records = <<>>

-----------------------------------------------------------------------------
(* Operators.                                                              *)

\* unletterbox_boxes.
BoxBack(b) ==
    [a \in Axes |->
        <<Back(Input[a], image.orig[a], image.size[a], image.scale, b[a][1]),
          Back(Input[a], image.orig[a], image.size[a], image.scale, b[a][2])>>]

\* np.where(cls_scores > conf) and sc = cls_scores[anc_idx, cls_idx]: the rows
\* in some fixed order, which nothing rests on.
Found ==
    LET list == SetToSeq(Passing)
    IN  [of |-> list,
         anc |-> [i \in DOMAIN list |-> list[i][1]],
         cls |-> [i \in DOMAIN list |-> list[i][2]],
         sc |-> [i \in DOMAIN list |-> score[list[i]]]]

\* Mutant: anc_idx is left as it was.
IndexedButAnchors(table, top) ==
    LET Taken(col) == [i \in DOMAIN top |-> col[top[i]]]
    IN  [of |-> Taken(table.of), anc |-> table.anc, cls |-> Taken(table.cls),
         sc |-> Taken(table.sc)]

\* anc_idx[top], cls_idx[top], sc[top].
Indexed(table, top) ==
    LET Taken(col) == [i \in DOMAIN top |-> col[top[i]]]
    IN  [of |-> Taken(table.of), anc |-> Taken(table.anc), cls |-> Taken(table.cls),
         sc |-> Taken(table.sc)]

Place(p) == CHOOSE j \in DOMAIN cols.of : cols.of[j] = p

\* Row k of Detections: j is idx[k], xyxy and co are made from anc_idx, and all
\* of the columns are taken at j.
Row(k) ==
    LET j == Place(keep[k])
        xyxy == box[cols.anc[j]]
    IN  [score |-> cols.sc[j], class |-> cols.cls[j], anchor |-> cols.anc[j],
         boxLb |-> xyxy, box |-> BoxBack(xyxy)]

\* Mutant: the crop of the input is not where the image is.
SpanWithBorder(a, edges) ==
    {i \in 0 .. image.orig[a] - 1 :
        \A j \in Sources(image.orig[a], image.size[a], i) :
            edges[1] <= 2 * j /\ 2 * j < edges[2]}

\* Pixels of the original image along an axis that keep their logits: at the
\* input's resolution those from the box's first edge to before its last
\* remain, the border is cut off, and the floor after the bilinear resize
\* leaves the pixels all of whose sources remain.
Span(a, edges) ==
    LET left == MaskLeft(Input[a], image.size[a])
    IN  {i \in 0 .. image.orig[a] - 1 :
            \A j \in Sources(image.orig[a], image.size[a], i) :
                edges[1] <= 2 * (left + j) /\ 2 * (left + j) < edges[2]}

MaskOf(row) ==
    [logits |-> row.anchor, span |-> [a \in Axes |-> Span(a, row.boxLb[a])]]

\* coco80_to_coco91: the category of each class, in order.
coco80_to_coco91 ==
    << 1, 2, 3, 4, 5, 6, 7, 8, 9, 10, 11, 13, 14, 15, 16, 17, 18, 19, 20, 21,
       22, 23, 24, 25, 27, 28, 31, 32, 33, 34, 35, 36, 37, 38, 39, 40, 41, 42,
       43, 44, 46, 47, 48, 49, 50, 51, 52, 53, 54, 55, 56, 57, 58, 59, 60, 61,
       62, 63, 64, 65, 67, 70, 72, 73, 74, 75, 76, 77, 78, 79, 80, 81, 82, 84,
       85, 86, 87, 88, 89, 90 >>

\* bbox is a corner and an extent.
Record(k) ==
    [category |-> coco80_to_coco91[dets[k].class],
     score |-> dets[k].score,
     bbox |-> [a \in Axes |-> <<dets[k].box[a][1],
                                dets[k].box[a][2] - dets[k].box[a][1]>>],
     segmentation |-> IF k <= Len(masks) THEN <<masks[k]>> ELSE <<>>]

-----------------------------------------------------------------------------
(* The steps.                                                              *)

\* The steps of the decoding with their columns.  argpartition leaves the best
\* in any order.
Decoding ==
    /\ \/ Threshold /\ cols' = Found
       \/ /\ Cap
          /\ \E best \in SetToSeqs(order') :
                cols' = Indexed(cols, [i \in DOMAIN best |-> Place(best[i])])
       \/ (NoCap \/ Prune \/ KeepBest \/ Truncate) /\ UNCHANGED cols
    /\ UNCHANGED listVars

\* The end of decode.  Masks are for a segmentation run with detections.
Gather ==
    /\ phase = "done"
    /\ out = "decode"
    /\ dets' = [k \in 1 .. Len(keep) |-> Row(k)]
    /\ out' = IF task = "segment" /\ keep # <<>> THEN "masks" ELSE "records"
    /\ UNCHANGED <<vars, recordInputs, cols, masks, records>>

\* The loop of materialize_masks_numpy.
MaskOne ==
    /\ out = "masks"
    /\ device = "numpy"
    /\ masks' = Append(masks, MaskOf(dets[Len(masks) + 1]))
    /\ out' = IF Len(masks') = Len(dets) THEN "records" ELSE "masks"
    /\ UNCHANGED <<vars, recordInputs, cols, dets, records>>

\* materialize_masks_torch.
MaskAll ==
    /\ out = "masks"
    /\ device = "torch"
    /\ masks' = [k \in 1 .. Len(dets) |-> MaskOf(dets[k])]
    /\ out' = "records"
    /\ UNCHANGED <<vars, recordInputs, cols, dets, records>>

\* The loop of detections_to_coco.
Serialize ==
    /\ out = "records"
    /\ Len(records) < Len(dets)
    /\ records' = Append(records, Record(Len(records) + 1))
    /\ UNCHANGED <<vars, recordInputs, cols, out, dets, masks>>

Send ==
    /\ out = "records"
    /\ Len(records) = Len(dets)
    /\ out' = "sent"
    /\ UNCHANGED <<vars, recordInputs, cols, dets, masks, records>>

Sent ==
    /\ out = "sent"
    /\ UNCHANGED allVars

RecordsNext ==
    \/ Decoding
    \/ Gather
    \/ MaskOne
    \/ MaskAll
    \/ Serialize
    \/ Send
    \/ Sent

RecordsSpec == Init /\ image \in Images /\ RecordsInit /\ [][RecordsNext]_allVars

-----------------------------------------------------------------------------
(* Properties.                                                             *)

\* The rows of the columns are candidates, each column has what belongs to its
\* row, and a row is there for every candidate that is kept or left.
ColumnsInv ==
    phase # "threshold" =>
        /\ \A j \in DOMAIN cols.of :
              /\ cols.of[j] \in Candidate
              /\ cols.anc[j] = cols.of[j][1]
              /\ cols.cls[j] = cols.of[j][2]
              /\ cols.sc[j] = score[cols.of[j]]
        /\ Kept \union order \subseteq Range(cols.of)

\* The inductive invariant: the columns of all kept candidates are gathered at
\* once, the lists of masks and records are filled from the front, and no
\* record is written before the masks are complete.
ListsInv ==
    /\ out \in {"decode", "masks", "records", "sent"}
    /\ out = "decode" => Len(dets) = 0
    /\ out # "decode" => phase = "done" /\ Len(dets) = Len(keep)
    /\ out \in {"decode", "masks"} => Len(records) = 0
    /\ out = "masks" => task = "segment" /\ Len(masks) < Len(dets)
    /\ out \in {"records", "sent"} =>
          Len(masks) = IF task = "segment" THEN Len(dets) ELSE 0
    /\ out = "sent" => Len(records) = Len(dets)
    /\ Len(masks) <= Len(dets) /\ Len(records) <= Len(dets)
    /\ \A k \in 1 .. Len(dets) : dets[k] = Row(k)
    /\ \A k \in 1 .. Len(masks) : masks[k] = MaskOf(dets[k])
    /\ \A k \in 1 .. Len(records) : records[k] = Record(k)

\* Everything of a record comes from the candidate whose place it has.
IsRecordOf(r, p) ==
    /\ r.category = coco80_to_coco91[p[2]]
    /\ r.score = score[p]
    /\ \A a \in Axes :
          r.bbox[a] = <<BoxBack(box[p[1]])[a][1],
                        BoxBack(box[p[1]])[a][2] - BoxBack(box[p[1]])[a][1]>>
    /\ r.segmentation =
          IF task = "segment"
          THEN <<[logits |-> p[1], span |-> [a \in Axes |-> Span(a, box[p[1]][a])]]>>
          ELSE <<>>

\* The records of an image are the kept candidates, best first: none is lost
\* or added between decoding and serialization, and each has the score, class,
\* box and, in a segmentation run, mask of one candidate.  The score, the class
\* and the anchor are in columns of their own, which are indexed by the
\* threshold, by the cut to the best and by the kept places; the masks are in a
\* list that is filled by a loop or a batch and read by position.
RecordsOfKept ==
    out = "sent" =>
        /\ Len(records) = Len(keep)
        /\ \A k \in 1 .. Len(keep) : IsRecordOf(records[k], keep[k])

\* A pixel of the input, in units of the original image.
InputPixel == 2 * image.scale.den

Centre(i) == (2 * i + 1) * image.scale.num

\* A mask and its box are cut at different resolutions from the same edges, and
\* the border comes off one by slicing and off the other by arithmetic.  They
\* still agree: no pixel of a mask lies more than a pixel of the input outside
\* its record's box, and none more than two inside it is missing.
MaskFollowsBox ==
    \A r \in Range(records) : \A m \in Range(r.segmentation) : \A a \in Axes :
        LET low == r.bbox[a][1]
            high == r.bbox[a][1] + r.bbox[a][2]
        IN  \A i \in 0 .. image.orig[a] - 1 :
               /\ i \in m.span[a] =>
                     low - InputPixel <= Centre(i) /\ Centre(i) <= high + InputPixel
               /\ low + 2 * InputPixel <= Centre(i) /\ Centre(i) <= high - 2 * InputPixel =>
                     i \in m.span[a]

=============================================================================
