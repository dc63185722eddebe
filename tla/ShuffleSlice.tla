---------------------------- MODULE ShuffleSlice ----------------------------
(***************************************************************************)
(* ShuffleInterfaceSlice of common/utils.go as operators.  The loop copies *)
(* slice[n] into position n of the result and, for n >= 1, swaps it with *)
(* position rand.Int() % n (after an extra coin-flip swap of positions 0  *)
(* and 1 when n = 1).  The random results are inputs: ShuffleOutcomes     *)
(* collects the result of every possible sequence of them.  Positions are *)
(* 1-based here: the code's index i is position i + 1.                     *)
(***************************************************************************)
EXTENDS Naturals, Sequences

\* swapSliceItem(sl, a, b): v := sl[a]; sl[a] = sl[b]; sl[b] = v.
SwapLost(sl, a, b) == [sl EXCEPT ![a] = sl[b]]

SwapItems(sl, a, b) == [sl EXCEPT ![a] = sl[b], ![b] = sl[a]]

\* One iteration for code index n, given the coin (used when n = 1) and
\* k = rand.Int() % n; the result holds positions 1..n+1.
ShuffleStep(slice, sh, n, coin, k) ==
    LET placed == Append(sh, slice[n + 1])
        flipped == IF n = 1 /\ coin THEN SwapItems(placed, 1, 2) ELSE placed
    IN  IF n = 0 THEN placed ELSE SwapItems(flipped, k + 1, n + 1)

\* Every result the loop can produce from code index n on.
RECURSIVE ShuffleFrom(_, _, _)
ShuffleFrom(slice, sh, n) ==
    IF n = Len(slice) THEN {sh}
    ELSE UNION {ShuffleFrom(slice, ShuffleStep(slice, sh, n, coin, k), n + 1) :
                   coin \in BOOLEAN, k \in 0..(IF n = 0 THEN 0 ELSE n - 1)}

\* ShuffleInterfaceSlice: a slice of length <= 1 is returned as it is.
ShuffleOutcomes(slice) ==
    IF Len(slice) <= 1 THEN {slice} ELSE ShuffleFrom(slice, <<>>, 0)
=============================================================================
