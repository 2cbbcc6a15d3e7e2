------------------------------ MODULE QuantizeMC ------------------------------
(***************************************************************************)
(* The formats and tiles on which module Quantize is checked.              *)
(***************************************************************************)
EXTENDS Quantize, TLC

Format(e, m, x) == [ebits |-> e, mbits |-> m, max |-> 2 * x]

E4M3 == Format(4, 3, 448)
E5M2 == Format(5, 2, 57344)
E3M2 == Format(3, 2, 28)
E2M3 == [Format(2, 3, 7) EXCEPT !.max = 15]
E2M1 == Format(2, 1, 6)

Ask(formats, layouts) ==
  {f @@ [layout |-> l, underflow |-> u] :
     f \in formats, l \in layouts, u \in {{}, {"subnormal"}, {"subnormal", "gu"}}}

\* Tiles with at most Nonzero elements other than 0.
Tiles(values, nonzero) ==
  LET zero == [c \in Cells |-> 0] IN
  UNION {{[c \in Cells |-> IF c \in s THEN f[c] ELSE 0] : f \in [s -> values]} :
           s \in {s \in SUBSET Cells : Cardinality(s) =< nonzero}}

\* In units of 1/4096.  For a scale: a number that rounds up to the next power of two, a
\* tie of E2M1, -1/4, less than 1/64, less
\* than -5.  Without one: numbers near the
\* largest ones of E4M3 and E5M2, less than the smallest one of E4M3, and 17/4.
MCValues(t) == IF t.layout = "plain"
                 THEN {1020000, -1540000, 2000000, 234000000, -44, 17408}
                 ELSE {7936, 5120, -1024, 44, -21000}
MCInputs(t) == Tiles(MCValues(t), IF t.layout = "plain" THEN 2 ELSE 3)

MCTargets == Ask({E4M3, E3M2, E2M3, E2M1}, {"tile", "rows", "blocks", "vectors"})
             \cup Ask({E4M3, E5M2}, {"plain"})
=============================================================================
