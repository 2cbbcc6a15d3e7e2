------------------------------- MODULE Quantize -------------------------------
(***************************************************************************)
(* The quantization of a tile that is kept in a small floating point       *)
(* format (compute/dpotrf_mixed_precision.cpp): requantizeTileHost, which  *)
(* the mixed precision Cholesky factorization calls on every tile that a   *)
(* dtrsm has stored, and the error bound by which                          *)
(* makeMixedPrecisionTiledArray chooses the format.                        *)
(*                                                                         *)
(* An element is an integer, in units of 2^-Unit, and the format's largest *)
(* number in halves; the floats of the code are exact on such values, and  *)
(* so are log2 and the powers of two.  The formats that the code handles   *)
(* with a conversion of the hardware (FP16, FP32) are left out.            *)
(***************************************************************************)
EXTENDS Integers, FiniteSets, FiniteSetsExt

CONSTANTS
  Rows, Cols,  \* rows and columns of the tile: intervals from 0
  Subtile,     \* mx_block_subtile
  Unit,        \* see above
  Inputs(_),   \* what a kernel may leave in a tile: functions from the cells
  Targets      \* what a tile may be asked to be; records with
               \*   ebits, mbits, max: the format; max is twice mx_max_norm
               \*   layout: "plain" (no scale), "tile", "rows", "blocks", "vectors"
               \*   underflow: the set of "subnormal" and "gu" that are switched on

ASSUME SubtileAssumption == Subtile \in Nat \ {0}

VARIABLES
  tile,        \* its target; never changes
  data,        \* the elements in host memory
  kernel,      \* the elements as the kernel left them
  stored       \* requantizeTileHost has not run yet

vars == <<tile, data, kernel, stored>>

Cells == Rows \X Cols

Bias         == 2^(tile.ebits - 1) - 1
Magnitude(v) == IF v < 0 THEN -v ELSE v
Log2(v)      == CHOOSE n \in 0 .. 29 : 2^n =< v /\ v < 2^(n + 1)

\* Multiples of 2^k; a unit is a multiple of 2^k for k =< 0.
RoundAway(v, k) == IF k =< 0 THEN v ELSE ((v + 2^(k - 1)) \div 2^k) * 2^k
RoundEven(v, k) == IF k > 0 /\ v % 2^(k + 1) = 2^(k - 1) THEN v - 2^(k - 1) ELSE RoundAway(v, k)
-----------------------------------------------------------------------------
(* requantizeTileHost                                                      *)

Scaled == tile.layout # "plain"

\* Two cells share a scale.
Together(c, d) ==
  CASE tile.layout \in {"plain", "tile"} -> TRUE
    [] tile.layout = "rows"    -> c[1] = d[1]
    [] tile.layout = "vectors" -> c[1] = d[1] /\ c[2] \div Subtile = d[2] \div Subtile
    [] tile.layout = "blocks"  -> /\ c[1] \div Subtile = d[1] \div Subtile
                                  /\ c[2] \div Subtile = d[2] \div Subtile

\* computeScaleBitsFromMax: the power of two of the largest element, in eight bits.
Scale(x, c) ==
  LET m == Max({Magnitude(x[d]) : d \in {e \in Cells : Together(c, e)}})
  IN  IF ~Scaled \/ m = 0 THEN 0 ELSE Max({-128, Min({127, Log2(m) - Unit})})

Largest(s) == (tile.max * 2^(Unit + s)) \div 2

\* Mutant of Subnormal: the rest is cut off instead of rounded.
SubnormalCut(v, s) ==
  LET k == 1 - Bias - tile.mbits + s + Unit
  IN  IF "subnormal" \notin tile.underflow THEN 0
      ELSE IF k =< 0 THEN v ELSE (v \div 2^k) * 2^k

Subnormal(v, s) == IF "subnormal" \in tile.underflow
                     THEN RoundEven(v, 1 - Bias - tile.mbits + s + Unit) ELSE 0

\* Mutant of Normal: a mantissa that rounds up to 2 is not carried.
NormalWrapped(v, s) == LET r == RoundAway(v, Log2(v) - tile.mbits)
                       IN  IF r = 2^(Log2(v) + 1) THEN 2^Log2(v) ELSE Min({r, Largest(s)})

Normal(v, s) == Min({RoundAway(v, Log2(v) - tile.mbits), Largest(s)})

\* Mutant of QuantizeFp: the largest exponent is one too small.
QuantizeFpEarly(v, s) ==
  LET a   == Min({v, Largest(s)})
      exp == Log2(a) - Unit - s + Bias
  IN  IF v = 0 THEN 0
      ELSE CASE exp =< 0                      -> Subnormal(a, s)
             [] exp >= 2^tile.ebits - 2      -> Largest(s)
             [] exp \in 1 .. 2^tile.ebits - 3 -> Normal(a, s)

\* quantizeFp of the magnitude v under the scale 2^s, times the scale.
QuantizeFp(v, s) ==
  LET a   == Min({v, Largest(s)})
      exp == Log2(a) - Unit - s + Bias
  IN  IF v = 0 THEN 0
      ELSE CASE exp =< 0                 -> Subnormal(a, s)
             [] exp >= 2^tile.ebits - 1 -> Largest(s)
             [] OTHER                    -> Normal(a, s)

Quantized(x) == [c \in Cells |-> LET q == QuantizeFp(Magnitude(x[c]), Scale(x, c))
                                 IN  IF x[c] < 0 THEN -q ELSE q]
-----------------------------------------------------------------------------
Init == /\ tile \in Targets
        /\ kernel \in Inputs(tile)
        /\ data = kernel
        /\ stored = TRUE

RequantizeTileHost == /\ stored
                      /\ data' = Quantized(data)
                      /\ stored' = FALSE
                      /\ UNCHANGED <<tile, kernel>>

Next == RequantizeTileHost

Spec == Init /\ [][Next]_vars
-----------------------------------------------------------------------------
(* What the format can hold                                                *)

\* The finite numbers of the format under the scale 2^s.
Numbers(s) ==
  LET base == s + Unit - Bias - tile.mbits
      normal == {(2^tile.mbits + m) * 2^(e + base) :
                   m \in 0 .. 2^tile.mbits - 1,
                   e \in {i \in 1 .. 2^tile.ebits - 1 : i + base >= 0}}
      subnormal == IF "subnormal" \in tile.underflow /\ base >= -1
                     THEN {m * 2^(1 + base) : m \in 0 .. 2^tile.mbits - 1} ELSE {0}
  IN  {n \in normal \cup subnormal : n =< Largest(s)}

Distance(x, y) == Magnitude(x - y)

\* Cell c holds a number of the format and no other is nearer to what the kernel left.
Nearest(c) ==
  LET x == Magnitude(kernel[c])
      q == Magnitude(data[c])
      N == Numbers(Scale(kernel, c))
  IN  q \in N /\ \A n \in N : Distance(x, q) =< Distance(x, n)

\* format_fmin, but no less than a unit.
SmallestNormal(s) == 2^Max({0, 1 - Bias + s + Unit})

Flushed(c) == /\ "subnormal" \notin tile.underflow
              /\ Magnitude(kernel[c]) < SmallestNormal(Scale(kernel, c))

\* The largest exponent of the format, which quantizeFp takes for that of infinity.
Top(c) == Magnitude(kernel[c]) >= 2^(2^tile.ebits - 1 - Bias + Scale(kernel, c) + Unit)
-----------------------------------------------------------------------------
(* evaluate_format_tile_bound                                              *)

\* 1/u, u being format_unit_roundoff.
Precision == 2^(tile.mbits + 1)

\* What the bound allows for the underflow of cell c, times Precision.
Eta(c) ==
  LET x == Magnitude(kernel[c])
      fmin == SmallestNormal(Scale(kernel, c))
      gmin == IF "gu" \in tile.underflow THEN fmin ELSE fmin * 2^tile.mbits
  IN  IF x < fmin THEN Min({gmin, x * Precision}) ELSE 0

\* The format is out of the question.
Overflow == \E c \in Cells : Magnitude(kernel[c]) > Largest(Scale(kernel, c))
-----------------------------------------------------------------------------
(* Properties                                                              *)

\* Every element becomes the number of the format that is nearest to it, under the scale
\* of its group, or 0 where underflow is flushed; the largest exponent of a plain format
\* is not looked at here.
Rounds == ~stored => \A c \in Cells :
            IF Flushed(c) THEN data[c] = 0
            ELSE (Scaled \/ ~Top(c)) => Nearest(c)

\* Order and sign survive among the elements that share a scale.
Monotone == ~stored => \A c, d \in Cells :
              Together(c, d) /\ kernel[c] =< kernel[d] => data[c] =< data[d]

\* With gradual underflow the error of each element is within what the choice of the
\* format has assumed for it: u times the element, and the term of underflow.
BoundHolds == ~stored /\ "subnormal" \in tile.underflow /\ ~Overflow =>
                \A c \in Cells : Scaled \/ ~Top(c) =>
                  Distance(kernel[c], data[c]) * Precision =< Magnitude(kernel[c]) + Eta(c)
=============================================================================
