------------------------------ MODULE MCFusion ------------------------------
(* Op lists for Fusion.                                                    *)
EXTENDS Fusion

Op(type, in, k) == [type |-> type, in |-> in, out |-> <<k>>, rope |-> FALSE]

\* Op k writes tensor k and reads earlier ones; each MATMUL has a weight of its own.
Matmuls(k) == {Op("MATMUL", <<x, -k>>, k) : x \in 0..k-1}
Unary(type, k) == {Op(type, <<x>>, k) : x \in 0..k-1}
Muls(k) == {Op("MUL", <<x, y>>, k) : x \in 0..k-1, y \in 0..k-1}
Adds(k) == {Op("ADD", <<x, y>>, k) : x \in 0..k-1, y \in 0..k-1}
Attentions(k) == {Op("ATTENTION", <<x, y, z>>, k) : x \in 0..k-1, y \in 0..k-1, z \in 0..k-1}
First == Matmuls(1)
Linear(k) == Matmuls(k) \cup Unary("SILU", k)
Ffn(k) == Linear(k) \cup Muls(k) \cup Adds(k)
Roped(k) == Matmuls(k) \cup Unary("ROPE", k)

\* Every tensor but the output is read.
Useful(l) == \A k \in 1..Len(l)-1 : \E m \in DOMAIN l : k \in Range(l[m].in)
FfnLists ==
  {l \in {<<p, q, r, s>> : p \in First, q \in Ffn(2), r \in Ffn(3), s \in Muls(4) \cup Adds(4)} : Useful(l)}
GluLists ==
  {l \in {<<p, q, r, s, t>> : p \in First, q \in Matmuls(2), r \in Linear(3), s \in Ffn(4),
                              t \in Muls(5) \cup Adds(5)} : Useful(l)}
RopeLists ==
  {l \in {<<p, q, r, s, t>> : p \in First, q \in Roped(2), r \in Roped(3), s \in Attentions(4),
                              t \in Roped(5)} : Useful(l)}

\* The graph of tools/elm.py with one layer.
Decoder ==
  <<Op("EMBED", <<0, -1>>, 1), Op("RMSNORM", <<1, -2>>, 2),
    Op("MATMUL", <<2, -3>>, 3), Op("MATMUL", <<2, -4>>, 4), Op("MATMUL", <<2, -5>>, 5),
    Op("ROPE", <<3>>, 6), Op("ROPE", <<4>>, 7), Op("ATTENTION", <<6, 7, 5>>, 8),
    Op("MATMUL", <<8, -6>>, 9), Op("ADD", <<1, 9>>, 10), Op("RMSNORM", <<10, -7>>, 11),
    Op("MATMUL", <<11, -8>>, 12), Op("MATMUL", <<11, -9>>, 13), Op("SILU", <<12>>, 14),
    Op("MUL", <<14, 13>>, 15), Op("MATMUL", <<15, -10>>, 16), Op("ADD", <<10, 16>>, 17),
    Op("LAST_ROWS", <<17>>, 18), Op("RMSNORM", <<18, -11>>, 19), Op("MATMUL", <<19, -1>>, 20)>>

\* Queries and keys that are rotated twice.
TwiceRotated ==
  <<Op("ROPE", <<0>>, 1), Op("ROPE", <<1>>, 2), Op("MATMUL", <<0, -1>>, 3), Op("ROPE", <<3>>, 4),
    Op("ROPE", <<4>>, 5), Op("ATTENTION", <<2, 5, 0>>, 6)>>

AllModels == FfnLists \cup GluLists \cup RopeLists \cup {Decoder, TwiceRotated}
=============================================================================
