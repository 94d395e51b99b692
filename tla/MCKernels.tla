----------------------------- MODULE MCKernels ------------------------------
(* Small calls for Kernels: blocks of two rows, register blocks of two, activation blocks of two columns. *)
EXTENDS Kernels

W(type, rows) == [type |-> type, rows |-> rows]
Matmul(T, K, w, res, act) ==
  [kernel |-> "matmul", T |-> T, K |-> K, w |-> w, res |-> res, act |-> act, simd |-> TRUE, pool |-> TRUE]
Swiglu(T, K, type, other, rows, act) ==
  [kernel |-> "swiglu", T |-> T, K |-> K, w |-> <<W(type, rows), W(other, rows)>>, act |-> act,
   simd |-> TRUE, pool |-> TRUE]
Attention(T, pos0, heads, grp, rope) ==
  [kernel |-> "attention", T |-> T, pos0 |-> pos0, heads |-> heads, grp |-> grp, rope |-> rope,
   act |-> FALSE, simd |-> TRUE, pool |-> TRUE]
Rmsnorm(T, K) == [kernel |-> "rmsnorm", T |-> T, K |-> K, act |-> FALSE, simd |-> TRUE, pool |-> TRUE]

Types == {"f32", "q8", "q4"}
\* One weight of two blocks, the second of them short; a fused pair of different types; columns that no
\* activation block fills.
OneMatmul ==
  {Matmul(T, 2, <<W(type, 3)>>, <<res>>, act) :
     T \in 1..3, type \in Types, res \in BOOLEAN, act \in BOOLEAN}
FusedMatmul ==
  {Matmul(T, 2, <<W(a, 2), W(b, 1)>>, <<FALSE, FALSE>>, act) :
     T \in {1, 3}, a \in Types, b \in Types, act \in BOOLEAN}
Swiglus == {Swiglu(T, 2, type, type, 3, act) : T \in 1..3, type \in Types, act \in BOOLEAN}
RaggedColumns == {Matmul(2, 3, <<W("q8", 3)>>, <<TRUE>>, TRUE), Swiglu(2, 3, "q8", "q8", 2, TRUE)}
Attentions ==
  {Attention(2, 0, 2, 2, TRUE), Attention(1, 3, 2, 1, TRUE), Attention(2, 1, 1, 1, FALSE)}
Pooled == OneMatmul \cup FusedMatmul \cup Swiglus \cup RaggedColumns \cup Attentions \cup {Rmsnorm(3, 2)}
\* The matmul-only backend has no pool, and a build for another processor no register blocks.
SomeCalls ==
  Pooled \cup {[c EXCEPT !.pool = FALSE] : c \in OneMatmul} \cup {[c EXCEPT !.simd = FALSE] : c \in OneMatmul \cup Swiglus}

\* Files whose gate and up weights have different types.
MixedCalls == {Swiglu(2, 2, "f32", "q8", 3, TRUE), Swiglu(2, 2, "q4", "f32", 3, TRUE)}
=============================================================================
