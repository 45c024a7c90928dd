-------------------------- MODULE MCJupiterSession --------------------------
(* JupiterSession for TLC: the values of its constants. *)
EXTENDS JupiterRefinement, TLC

CONSTANTS sol, eth, t1, t2, u1, u2

\* Trades of 1 and trades of 2 against one cap, and a budget whose cap does not
\* parse; markets and expiries differ.
MCSerialTerms ==
  {[perMax |-> 1, cap |-> 2, assets |-> {sol}, exp |-> 0],
   [perMax |-> 2, cap |-> 2, assets |-> {sol}, exp |-> 1],
   [perMax |-> 2, cap |-> -1, assets |-> {sol, eth}, exp |-> 0]}

\* A trade of size 1 fits the first until time 0 and never the second: only a
\* blend of the two would let it through at time 1.
MCTerms ==
  {[perMax |-> 1, cap |-> 2, assets |-> {sol}, exp |-> 0],
   [perMax |-> 0, cap |-> 2, assets |-> {sol}, exp |-> 1]}

\* One set of terms.
MCOneTerms == {[perMax |-> 1, cap |-> 1, assets |-> {sol}, exp |-> 1]}

\* Request slots are interchangeable.
MCSymmetry == Permutations(Tasks)
=============================================================================
