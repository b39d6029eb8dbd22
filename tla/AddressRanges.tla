--------------------------- MODULE AddressRanges ---------------------------
(***************************************************************************)
(* The arithmetic on address ranges by which conflict.rs recognises        *)
(* another program's tunnel and live_runtime.rs recognises its own: one    *)
(* pass over the sorted ranges each.  A routing table is a set of blocks,  *)
(* which are ranges like their unions and differences.  Neither u32 nor    *)
(* u128 is left: where the code adds one to the last address it either     *)
(* calculates in a wider type or stops there.                              *)
(***************************************************************************)
EXTENDS Naturals, FiniteSets, Folds

CONSTANT Width   \* bits of an address

ASSUME WidthAssumption == Width \in Nat

Address == 0 .. 2^Width - 1
Length(r) == r.last + 1 - r.first

\* What a prefix of the given length stands for.
Blocks(length) ==
  {[first |-> n * 2^(Width - length), last |-> (n + 1) * 2^(Width - length) - 1] :
     n \in 0 .. 2^length - 1}

\* The order of sort_unstable: by the first address, then by the last.
Final(ranges) ==
  CHOOSE r \in ranges : \A q \in ranges :
    q.first < r.first \/ (q.first = r.first /\ q.last <= r.last)

\* op over the sorted ranges.
InOrder(op(_, _), base, ranges) ==
  MapThenFoldSet(LAMBDA r, sofar : op(sofar, r), base, LAMBDA r : r, Final, ranges)

\* The next range continues the last merged one, or starts another.
Extend(merged, r) ==
  LET previous == Final(merged)
  IN  IF merged # {} /\ r.first <= previous.last + 1
      THEN (merged \ {previous}) \cup
             {[first |-> previous.first,
               last  |-> IF r.last > previous.last THEN r.last ELSE previous.last]}
      ELSE merged \cup {r}

Normalized(ranges) == InOrder(Extend, {}, ranges)

\* The number of addresses in any of the ranges.
Coverage(ranges) == MapThenFoldSet(+, 0, Length, Final, Normalized(ranges))

\* One included range without the excluded ones: cursor is the first address
\* not yet decided.
Cut(included, excluded) ==
  LET Skip(sofar, e) ==
        IF e.last < sofar.cursor \/ e.first > included.last \/ sofar.cursor > included.last
        THEN sofar
        ELSE [parts  |-> sofar.parts \cup
                           IF e.first > sofar.cursor
                           THEN {[first |-> sofar.cursor, last |-> e.first - 1]} ELSE {},
              cursor |-> e.last + 1]
      end == InOrder(Skip, [parts |-> {}, cursor |-> included.first], excluded)
  IN  end.parts \cup
        IF end.cursor <= included.last
        THEN {[first |-> end.cursor, last |-> included.last]} ELSE {}

Subtract(included, excluded) == UNION {Cut(r, excluded) : r \in included}

\* Mutant of Covers: a range that starts beyond the cursor leaves no gap.
CoversIgnoringGaps(actual, expected) ==
  \A e \in expected : \E a \in actual : a.first <= e.last /\ a.last >= e.last

\* Every expected range is covered by the actual ones, without a gap.
Covers(actual, expected) ==
  \A e \in expected :
    LET Reach(sofar, a) ==
          IF sofar.verdict # "open" \/ a.last < sofar.cursor THEN sofar
          ELSE IF a.first > sofar.cursor THEN [sofar EXCEPT !.verdict = "gap"]
          ELSE IF a.last >= e.last THEN [sofar EXCEPT !.verdict = "covered"]
          ELSE [sofar EXCEPT !.cursor = a.last + 1]
    IN  InOrder(Reach, [verdict |-> "open", cursor |-> e.first], actual).verdict = "covered"
============================================================================
