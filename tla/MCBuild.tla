------------------------------ MODULE MCBuild -------------------------------
(* Models, files and options for Build.                                    *)
EXTENDS Build

Op(type, in, k) == [type |-> type, in |-> in, out |-> <<k>>, rope |-> FALSE]

Linear == <<Op("MATMUL", <<0, -1>>, 1)>>
\* A feed-forward block, its residual added; nothing is left of it but FFN_SWIGLU and MATMUL_ADD.
Ffn ==
  <<Op("MATMUL", <<0, -1>>, 1), Op("MATMUL", <<0, -2>>, 2), Op("SILU", <<1>>, 3), Op("MUL", <<3, 2>>, 4),
    Op("MATMUL", <<4, -3>>, 5), Op("ADD", <<5, 0>>, 6)>>
\* The graph of tools/elm.py with one layer.
Decoder ==
  <<Op("EMBED", <<0, -1>>, 1), Op("RMSNORM", <<1, -2>>, 2),
    Op("MATMUL", <<2, -3>>, 3), Op("MATMUL", <<2, -4>>, 4), Op("MATMUL", <<2, -5>>, 5),
    Op("ROPE", <<3>>, 6), Op("ROPE", <<4>>, 7), Op("ATTENTION", <<6, 7, 5>>, 8),
    Op("MATMUL", <<8, -6>>, 9), Op("ADD", <<1, 9>>, 10), Op("RMSNORM", <<10, -7>>, 11),
    Op("MATMUL", <<11, -8>>, 12), Op("MATMUL", <<11, -9>>, 13), Op("SILU", <<12>>, 14),
    Op("MUL", <<14, 13>>, 15), Op("MATMUL", <<15, -10>>, 16), Op("ADD", <<10, 16>>, 17),
    Op("LAST_ROWS", <<17>>, 18), Op("RMSNORM", <<18, -11>>, 19), Op("MATMUL", <<19, -1>>, 20)>>
SomeModels == {Linear, Ffn, Decoder}
LastTensor == 20
SomeSize(t) == IF t % 2 = 0 THEN 60 ELSE 129

Four == 4
Matrix(type, x, y) ==
  LET row == <<x, y, 2, -1, 5, y, x, -4>>
  IN  [type |-> type, rows |-> 2, cols |-> 8,
       val |-> [r \in 0..1 |-> [k \in 0..7 |-> IF r = 0 THEN row[k + 1] ELSE row[8 - k]]]]
Ragged == [type |-> "f32", rows |-> 2, cols |-> 6, val |-> [r \in 0..1 |-> [k \in 0..5 |-> k - r]]]
Vector == [type |-> "f32", rows |-> 1, cols |-> 4, val |-> [r \in {0} |-> [k \in 0..3 |-> 2 * k - 5]]]
File(type, list) == [type |-> type, weights |-> list]

\* One matrix of every kind, its elements exhaustive where they are f32.
LinearFiles ==
  {File("f32", <<Matrix("f32", x, y)>>) : x \in {-6, -4, -1, 0, 3, 5}, y \in {-5, 0, 4, 7}} \cup {File("f32", <<Ragged>>)} \cup
  {File(type, <<Matrix(type, x, 3)>>) : type \in {"q8", "q4"}, x \in {-5, 0, 6}}
\* Files the loader accepts with matrices of several types; the exporter varies the embedding only.
FfnFiles ==
  {File("q8", <<Matrix(a, 3, -6), Matrix(b, 6, 6), Matrix(c, 0, 1)>>) :
     a \in {"q8", "q4"}, b \in {"q8", "f32"}, c \in {"q4", "f32"}} \cup
  {File("f32", <<Matrix("f32", 3, -6), Ragged, Matrix("f32", 0, 1)>>)}
\* By the weight's number: norms are vectors, the embedding is never below q8 in an exported file.
DecoderWeight(type, n) ==
  IF n \in {2, 7, 11} THEN Vector
  ELSE Matrix(IF n = 1 /\ type = "q4" THEN "q8" ELSE type, n, -n)
\* In one file the matrices that share an input are of different types.
DecoderFiles ==
  {File(type, [n \in 1..11 |-> DecoderWeight(type, n)]) : type \in {"f32", "q8", "q4"}} \cup
  {File("q8", [n \in 1..11 |-> DecoderWeight(IF n \in {4, 9} THEN "q4" ELSE "q8", n)])}
SomeFiles == LinearFiles \cup FfnFiles \cup DecoderFiles
Fitting(f, m) == Len(f.weights) = CASE m = Linear -> 1 [] m = Ffn -> 3 [] m = Decoder -> 11

SomeTargets == {"none", "f32", "q8", "q4"}
SomeNames == {<<>>, <<"cpu">>, <<"matmul-only">>, <<"matmul-only", "cpu">>, <<"cpu", "ref", "matmul-only">>, <<"npu">>}
=============================================================================
