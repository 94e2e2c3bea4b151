---------------------------- MODULE PixelFormats ----------------------------
(***************************************************************************)
(* The numbers of the imaging pipeline: 16-bit samples of decoded and      *)
(* exported images and masks, 32-bit floating-point pixels, and what the   *)
(* nodes of an edit graph do to a pixel.                                   *)
(*                                                                         *)
(* A float is an integer in units of 1/Unit, rounded to a number of        *)
(* significant bits; doubles are exact fractions, pairs of a numerator and *)
(* a positive denominator.  The colour of a pixel is one number, its three *)
(* channels being treated alike, premultiplied with its alpha.  Source and *)
(* destination have one colour encoding, so no matrix is applied.          *)
(* Exposures are counted in steps of any fraction of an EV.                *)
(*                                                                         *)
(* A definition named Operator_Defect is a faulty variant of Operator.     *)
(***************************************************************************)
EXTENDS Integers, Sequences

CONSTANTS
  Maximum,      \* largest 16-bit sample (65535)
  Unit,         \* the float 1.0
  Significand,  \* 2^24: floats are a number below it times a power of two
  MaxExponent,  \* the largest of these powers
  ExposureLimit,\* 10 EV, in steps
  Exp2,         \* Exp2[e]: std::exp2 of e steps, a fraction
  CurveUnit     \* 1.0 in the coordinates of the points of a curve

ASSUME FormatAssumption ==
  /\ Maximum \in Nat \ {0} /\ Unit \in Nat \ {0}
  /\ Significand \in Nat \ {0} /\ MaxExponent \in Nat
  /\ CurveUnit \in Nat \ {0}

Samples == 0..Maximum

PowerOfTwo[e \in Nat] == IF e = 0 THEN 1 ELSE 2 * PowerOfTwo[e - 1]

FloatMax == (Significand - 1) * PowerOfTwo[MaxExponent]

\* Floats tell the samples apart, with a bit to spare, and 1.0 is not too large.
ASSUME PrecisionAssumption ==
  /\ Maximum < Unit /\ 2 * Maximum < Significand
  /\ Significand % 2 = 0
  /\ Unit <= FloatMax

ASSUME ExponentialAssumption ==
  /\ ExposureLimit \in Nat \ {0}
  /\ -ExposureLimit..ExposureLimit \subseteq DOMAIN Exp2
  /\ \A e \in DOMAIN Exp2 : Exp2[e] \in (Nat \ {0}) \X (Nat \ {0})

Magnitude(n) == IF n < 0 THEN -n ELSE n

\* The fraction n/d as a float: to the nearest, ties to the even multiple.
Spacing(n, d) ==
  LET enough == {e \in 0..MaxExponent : Magnitude(n) < d * Significand * PowerOfTwo[e]}
  IN  PowerOfTwo[CHOOSE e \in enough : \A f \in enough : e <= f]

ToFloat(n, d) ==
  LET step  == Spacing(n, d)
      below == n \div (d * step)
      rest  == n % (d * step)
  IN  step * (IF 2 * rest < d * step \/ (2 * rest = d * step /\ below % 2 = 0)
              THEN below ELSE below + 1)

(***************************************************************************)
(* color_encoding.cpp: rows of 16-bit samples to pixels and back           *)
(***************************************************************************)
Opaque(sample) == [colour |-> ToFloat(sample * Unit, Maximum), alpha |-> Unit]

\* quantize_u16 of n/d.
Quantized(n, d) ==
  IF n <= 0 THEN 0 ELSE IF n >= d THEN Maximum ELSE (2 * n * Maximum + d) \div (2 * d)

\* The pixel over a matte of its own, in the sample of an opaque image.
Exported(pixel, matte) ==
  Quantized(pixel.colour * Unit + (Unit - pixel.alpha) * matte, Unit * Unit)

\* apply_exposure of operations.cpp, for previews and projects without graphs.
Brightened(sample, ev) ==
  LET n == sample * Exp2[ev][1]
      d == Exp2[ev][2]
  IN  IF n >= Maximum * d THEN Maximum ELSE (2 * n + d) \div (2 * d)

(***************************************************************************)
(* apply_node and evaluate_curve                                           *)
(***************************************************************************)

\* The parameters of a node that create_edit_graph accepts: a bounded exposure,
\* or a curve over the whole interval whose points lie one behind the other.
IsAdjustment(node) ==
  /\ node.kind \in {"exposure", "curve"}
  /\ node.opacity \in Nat \X (Nat \ {0}) /\ node.opacity[1] <= node.opacity[2]
  /\ node.kind = "exposure" => node.ev \in -ExposureLimit..ExposureLimit
  /\ node.kind = "curve" =>
       /\ node.points \in Seq([x : 0..CurveUnit, y : 0..CurveUnit]) /\ Len(node.points) >= 2
       /\ \A i, j \in DOMAIN node.points : i < j => node.points[i].x < node.points[j].x
       /\ node.points[1].x = 0 /\ node.points[Len(node.points)].x = CurveUnit

\* The line through the two control points around n/d, or through the two at
\* the end it is beyond: d times its value at n/d.
CurveAt(points, n, d) ==
  LET above == {i \in DOMAIN points : points[i].x * d > n * CurveUnit}
      upper == IF above = {} THEN Len(points) + 1
               ELSE CHOOSE i \in above : \A j \in above : i <= j
      right == points[IF upper = 1 THEN 2 ELSE IF above = {} THEN Len(points) ELSE upper]
      left  == points[IF upper = 1 THEN 1 ELSE IF above = {} THEN Len(points) - 1 ELSE upper - 1]
      run   == right.x - left.x
  IN  <<left.y * run * d + (n * CurveUnit - left.x * d) * (right.y - left.y), CurveUnit * run>>

\* An exposure scales the premultiplied colour; a curve is applied to the
\* straight colour, which a transparent pixel does not have, and the result
\* multiplied with alpha again.
Adjusted(node, pixel) ==
  IF node.kind = "exposure" THEN <<pixel.colour * Exp2[node.ev][1], Exp2[node.ev][2]>>
  ELSE IF pixel.alpha = 0 THEN <<pixel.colour, 1>>
  ELSE CurveAt(node.points, pixel.colour, pixel.alpha)

\* apply_node throws; there is no pixel.
NumericFailure == [colour |-> 0, alpha |-> -1]

Skipped(node) == ~node.enabled \/ node.opacity[1] = 0

\* Variant: between two nodes an image has samples, not floats.
Applied_InSamples(node, coverage, pixel) ==
  LET adjusted == Adjusted(node, pixel)
      d        == adjusted[2] * coverage[2]
      n        == pixel.colour * d
                    + (adjusted[1] - pixel.colour * adjusted[2]) * coverage[1]
  IN  IF pixel = NumericFailure \/ Skipped(node) THEN pixel
      ELSE IF Magnitude(n) > FloatMax * d THEN NumericFailure
      ELSE [pixel EXCEPT !.colour = Opaque((2 * n * Maximum + d * Unit) \div (2 * d * Unit)).colour]

\* coverage, a fraction, tells how much of the adjustment is blended in.
Applied(node, coverage, pixel) ==
  LET adjusted == Adjusted(node, pixel)
      d        == adjusted[2] * coverage[2]
      n        == pixel.colour * d
                    + (adjusted[1] - pixel.colour * adjusted[2]) * coverage[1]
  IN  IF pixel = NumericFailure \/ Skipped(node) THEN pixel
      ELSE IF Magnitude(n) > FloatMax * d THEN NumericFailure
      ELSE [pixel EXCEPT !.colour = ToFloat(n, d)]

\* One node after another, each with the coverage it has at the pixel.
Developed(steps, pixel) ==
  LET after[n \in 0..Len(steps)] ==
        IF n = 0 THEN pixel ELSE Applied(steps[n].node, steps[n].coverage, after[n - 1])
  IN  after[Len(steps)]
=============================================================================
