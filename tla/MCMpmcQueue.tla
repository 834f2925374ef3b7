------------------------------ MODULE MCMpmcQueue ------------------------------
(***************************************************************************)
(* MpmcQueue for TLC: the threads and items of the configurations are      *)
(* interchangeable.                                                        *)
(***************************************************************************)
EXTENDS MpmcQueue, TLC

Bits == INSTANCE Bitwise

\* pos & buffer_mask_ is the remainder of pos, as MpmcQueue!Cell has it.
ASSUME MaskIsRemainder ==
  \A n \in 0..(4 * BufferSize) : Bits!&(n, BufferSize - 1) = Cell(n)

Symmetry ==
  Permutations(Producers) \cup Permutations(Consumers) \cup Permutations(Item)

=============================================================================
