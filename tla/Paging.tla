------------------------------- MODULE Paging -------------------------------
(***************************************************************************)
(* The window a page request selects from a list: page and batchPage       *)
(* (internal/store/store.go) and SQLite.Batches, which do the same         *)
(* arithmetic.  Page and size come from the URL, so the page number may be *)
(* any int; int arithmetic wraps around.                                   *)
(***************************************************************************)
EXTENDS Integers

CONSTANTS IntMax,       \* largest int: 2^63 - 1 in the code
          SizeCap,      \* largest page size: 200 in the code
          DefaultSize   \* page size when none is given: 20 in the code

ASSUME PagingAssumption == /\ IntMax \in Nat
                           /\ SizeCap \in Nat \ {0}
                           /\ DefaultSize \in 1 .. SizeCap
                           /\ 2 * SizeCap =< IntMax

Ints == -(IntMax + 1) .. IntMax

\* Two's complement wrap-around.
Wrap(x) == IF x \in Ints THEN x
           ELSE ((x + IntMax + 1) % (2 * (IntMax + 1))) - (IntMax + 1)

PageNo(p) == IF p < 1 THEN 1 ELSE p

PageSize(s) == IF s < 1 THEN DefaultSize ELSE IF s > SizeCap THEN SizeCap ELSE s

\* Mutant of BeyondLast: the last page, which is not full, is refused.
BeyondFull(n, p, s) == PageNo(p) > n \div PageSize(s)

\* Mutant of BeyondLast: the page is multiplied before it is checked.
BeyondProduct(n, p, s) == Wrap((PageNo(p) - 1) * PageSize(s)) > n

\* The page is checked before it is multiplied.
BeyondLast(n, p, s) == PageNo(p) > (n \div PageSize(s)) + 1

\* Mutant of Window: page numbers taken for zero-based.
WindowAfter(n, p, s) ==
  LET start == Wrap(PageNo(p) * PageSize(s))
      end   == Wrap(start + PageSize(s)) IN
  IF BeyondLast(n, p, s) \/ start > n THEN << 0, 0 >>
  ELSE << start, IF end > n THEN n ELSE end >>

\* entries[start:end] of a list of n, as the pair << start, end >>.
Window(n, p, s) ==
  LET start == Wrap((PageNo(p) - 1) * PageSize(s))
      end   == Wrap(start + PageSize(s)) IN
  IF BeyondLast(n, p, s) THEN << 0, 0 >>
  ELSE << start, IF end > n THEN n ELSE end >>

\* A slice expression that does not panic.
ValidSlice(n, w) == 0 =< w[1] /\ w[1] =< w[2] /\ w[2] =< n

=============================================================================
