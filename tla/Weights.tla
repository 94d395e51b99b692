------------------------------ MODULE Weights -------------------------------
(***************************************************************************)
(* The weights of a Model (src/model.cpp), as load_model (src/main.cpp)    *)
(* leaves them: as the file has them, or quantized by convert_weights.     *)
(* Elements are integers, and scales are kept as what they are made of, so *)
(* arithmetic is exact: q8 keeps amax for the scale amax / 127, q4 keeps   *)
(* the greatest element m of a group for m / -8.                           *)
(***************************************************************************)
EXTENDS Integers, Sequences

CONSTANTS
  GroupSize, \* G of quantize_q4, 32 in the code
  Files,   \* model files: type (the header's weight_dtype) and weights, a sequence of
           \* [type, rows, cols, val], where val[r][k] is element k of row r, from 0
  Targets  \* what --dtype may be, "none" when it is not given

VARIABLES
  file,      \* the mapping
  target,    \* --dtype
  loading,   \* "loaded", "converting", "ready", or "refused" when it threw
  turn,      \* convert_weights' loop over graph.tensors
  weights,   \* the weights of graph.tensors: type, data and scales by row
  reported   \* cfg.weight_dtype

\* A weight as the exporter writes it: norms are vectors of floats, and q4 has whole groups.
IsWeight(e) ==
  /\ e.type \in {"f32", "q8", "q4"} /\ e.rows \in Nat /\ e.cols \in Nat
  /\ e.val \in [0..e.rows-1 -> [0..e.cols-1 -> Int]]
  /\ e.rows = 1 => e.type = "f32"
  /\ e.type = "q4" => e.cols % GroupSize = 0
IsFile(f) == \A n \in DOMAIN f.weights : IsWeight(f.weights[n])

weightVars == <<file, target, loading, turn, weights, reported>>

Abs(n) == IF n < 0 THEN -n ELSE n
Clamped(n, low, high) == IF n < low THEN low ELSE IF n > high THEN high ELSE n
\* round_away(p / q): halves go away from zero; the quantizers divide 0 by 1 when a scale is 0.
RoundAway(p, q) ==
  LET n == IF q = 0 THEN 0 ELSE (2 * Abs(p) + Abs(q)) \div (2 * Abs(q))
  IN  IF (p < 0) = (q < 0) THEN n ELSE -n
-----------------------------------------------------------------------------
(* The quantizers and dequantize_row, on a row x                           *)

\* The first of the indices K where x is greatest in magnitude.
Best(x, K) == CHOOSE k \in K : \A l \in K : Abs(x[k]) > Abs(x[l]) \/ (Abs(x[k]) = Abs(x[l]) /\ k <= l)
GroupAt(g) == g * GroupSize .. (g + 1) * GroupSize - 1
Half == GroupSize \div 2

Q8Scales(x) == [g \in {0} |-> Abs(x[Best(x, DOMAIN x)])]
Q8Data(x) == [k \in DOMAIN x |-> Clamped(RoundAway(127 * x[k], Q8Scales(x)[0]), -127, 127)]

\* Mutant of Q4Scales: the magnitude of the greatest element, without its sign.
Q4ScalesUnsigned(x, cols) == [g \in 0 .. cols \div GroupSize - 1 |-> Abs(x[Best(x, GroupAt(g))])]
Q4Scales(x, cols) == [g \in 0 .. cols \div GroupSize - 1 |-> x[Best(x, GroupAt(g))]]
\* A byte holds an element of the group's first half, low, and one of its second half, high.
Nibble(v, m) == Clamped(RoundAway(-8 * v, m), -8, 7) + 8
Q4Data(x, cols) ==
  [n \in 0 .. cols \div 2 - 1 |->
     LET g == n \div Half
         k == g * GroupSize + (n % Half)
         m == Q4Scales(x, cols)[g]
     IN  Nibble(x[k], m) + 16 * Nibble(x[k + Half], m)]
Unpacked(data, k) ==
  LET byte == data[(k \div GroupSize) * Half + (k % Half)]
  IN  (IF k % GroupSize < Half THEN byte % 16 ELSE byte \div 16) - 8

Quantized(w, type) ==
  [type |-> type, rows |-> w.rows, cols |-> w.cols,
   data |-> [r \in 0..w.rows-1 |-> IF type = "q8" THEN Q8Data(w.data[r]) ELSE Q4Data(w.data[r], w.cols)],
   scales |-> [r \in 0..w.rows-1 |-> IF type = "q8" THEN Q8Scales(w.data[r]) ELSE Q4Scales(w.data[r], w.cols)]]
\* What dequantize_row gives for element k of row r, times Unit.
Unit(w) == CASE w.type = "f32" -> 1 [] w.type = "q8" -> 127 [] w.type = "q4" -> -8
Dequantized(w, r, k) ==
  CASE w.type = "f32" -> w.data[r][k]
    [] w.type = "q8" -> w.data[r][k] * w.scales[r][0]
    [] w.type = "q4" -> Unpacked(w.data[r], k) * w.scales[r][k \div GroupSize]
-----------------------------------------------------------------------------
(* load_model                                                              *)

\* Model::load: tensors point into the mapping, where the exporter has put them with the same rounding.
Mapped(w) ==
  LET plain == [type |-> "f32", rows |-> w.rows, cols |-> w.cols, data |-> w.val, scales |-> <<>>]
  IN  IF w.type = "f32" THEN plain ELSE Quantized(plain, w.type)
Load(f) ==
  /\ file = f /\ loading = "loaded" /\ turn = 1
  /\ weights = [n \in DOMAIN f.weights |-> Mapped(f.weights[n])] /\ reported = f.type

\* Without --dtype, or when the file's type is the one asked for, nothing is converted.
Keep ==
  /\ loading = "loaded" /\ target \in {"none", reported} /\ loading' = "ready"
  /\ UNCHANGED <<file, target, turn, weights, reported>>
Convert ==
  /\ loading = "loaded" /\ target \notin {"none", reported}
  /\ loading' = IF target = "f32" THEN "refused" ELSE "converting"
  /\ UNCHANGED <<file, target, turn, weights, reported>>

Convertible(w) == w.type = "f32" /\ w.rows > 1
\* A turn of convert_weights' loop; quantize_q4 checks the columns.
ConvertNext ==
  /\ loading = "converting" /\ turn <= Len(weights)
  /\ LET w == weights[turn] IN
       IF Convertible(w) /\ target = "q4" /\ w.cols % GroupSize # 0
       THEN loading' = "refused" /\ UNCHANGED <<turn, weights>>
       ELSE /\ turn' = turn + 1 /\ UNCHANGED loading
            /\ weights' = IF Convertible(w) THEN [weights EXCEPT ![turn] = Quantized(w, target)] ELSE weights
  /\ UNCHANGED <<file, target, reported>>
Converted ==
  /\ loading = "converting" /\ turn > Len(weights)
  /\ loading' = "ready" /\ reported' = target
  /\ UNCHANGED <<file, target, turn, weights>>

LoadModel == Keep \/ Convert \/ ConvertNext \/ Converted
-----------------------------------------------------------------------------
(* Properties                                                              *)

\* "half a step of the coarsest row scale" for q8, "one q4 step of the coarsest group (clamp at +7)" for
\* q4 (test_ops.cpp), here by row and by group, and for q4 more than half a step only where the clamp
\* bites, opposite in sign to the greatest element: what the kernels will read of each element is that
\* near to what the file was made from, through packing and clamps, ties and signs; a vector, which
\* rmsnorm reads as floats, is as it was.  So it is after every turn of the conversion, and when a matrix
\* is refused in the midst of it: those before it are converted and that one is whole, as in the file.
WithinStep(w, exact, r, k) ==
  LET error == Abs(Dequantized(w, r, k) - Unit(w) * exact[k])
  IN  CASE w.type = "f32" -> error = 0
        [] w.type = "q8" -> 2 * error <= Abs(exact[Best(exact, DOMAIN exact)])
        [] w.type = "q4" -> LET m == exact[Best(exact, GroupAt(k \div GroupSize))]
                            IN  2 * error <= Abs(m) \/ (error <= Abs(m) /\ (exact[k] < 0) # (m < 0))
QuantizedWithinStep ==
  \A n \in DOMAIN weights :
    /\ weights[n].rows = 1 => weights[n].type = "f32"
    /\ \A r \in 0..weights[n].rows-1, k \in 0..weights[n].cols-1 :
         WithinStep(weights[n], file.weights[n].val[r], r, k)
=============================================================================
