----------------------------- MODULE MCBufPool -----------------------------
(* BufPool for TLC. *)
EXTENDS BufPool, TLC

ClientBufferSymmetry == Permutations(Clients) \cup Permutations(Buffers)
=============================================================================
