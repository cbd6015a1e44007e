-------------------------------- MODULE Diag --------------------------------
(***************************************************************************)
(* Where diag draws: from the byte offsets of an error's labels to lines   *)
(* and columns of its source.  A source is a sequence of bytes, of which   *)
(* only the newlines matter.  Offsets and columns count from 0, as in the  *)
(* code; lines from 1, as they are printed, and 0 is no line.  A label's   *)
(* start and length are whatever ints the program gave.                    *)
(***************************************************************************)
EXTENDS Integers, Sequences, FiniteSetsExt

CONSTANT MaxInt  \* the largest int

ASSUME MaxIntAssumption == MaxInt \in Nat

NL == "nl"

\* The source an error may carry, "x" for every other byte, and its labels.
Source == Seq({NL, "x"})
Ints == -(MaxInt + 1) .. MaxInt
Labels == [start : Ints, len : Ints]
Drawings == [src : Source, labels : Seq(Labels)]

NoDrawing == [src |-> <<>>, labels |-> <<>>]

-----------------------------------------------------------------------------
(* Lines *)

\* The k-th smallest of a set of numbers.
Nth(S, k) == CHOOSE i \in S : Cardinality({j \in S : j < i}) = k - 1

\* The lengths of the lines, strings.Split's result.
Split(src) ==
    LET ends == {i \in DOMAIN src : src[i] = NL} \cup {Len(src) + 1}
    IN  [k \in 1 .. Cardinality(ends) |->
            Nth(ends, k) - 1 - (IF k = 1 THEN 0 ELSE Nth(ends, k - 1))]

\* Where they start: after the line before, and its newline.
Starts(lines) ==
    LET start[k \in DOMAIN lines] == IF k = 1 THEN 0 ELSE start[k - 1] + lines[k - 1] + 1
    IN  start

\* The newline belongs to the line before it, not to the one after.
locateAfter(starts, off) ==
    LET ln == Cardinality({k \in DOMAIN starts : \A j \in 1 .. k : off > starts[j]})
    IN  [line |-> ln, col |-> IF ln = 0 THEN 0 ELSE off - starts[ln]]

\* The last line, from the first on, that starts at or before the offset.
locate(starts, off) ==
    LET ln == Cardinality({k \in DOMAIN starts : \A j \in 1 .. k : off >= starts[j]})
    IN  [line |-> ln, col |-> IF ln = 0 THEN 0 ELSE off - starts[ln]]

-----------------------------------------------------------------------------
(* Underlines *)

\* The sum of two ints that are not negative.
IntSum(m, n) == IF m + n > MaxInt THEN m + n - 2 * (MaxInt + 1) ELSE m + n

\* At least one caret, and none past the end of the line unless it is the one.
\* Where the sum overflows nothing is clipped, and a width of that size makes
\* strings.Repeat panic.
Underline(lines, at, len) ==
    LET ul == Max({len, 1})
    IN  [line |-> at.line, col |-> at.col,
         width |-> IF IntSum(at.col, ul) > lines[at.line] THEN Max({1, lines[at.line] - at.col}) ELSE ul]

\* The underlines of graphical, in the order of the labels: a label before the
\* source has none.
Drawn(d) ==
    LET lines == Split(d.src)
        at(i) == locate(Starts(lines), d.labels[i].start)
        on    == {i \in DOMAIN d.labels : at(i).line # 0}
    IN  IF d.src = <<>> THEN <<>>
        ELSE [n \in 1 .. Cardinality(on) |-> Underline(lines, at(Nth(on, n)), d.labels[Nth(on, n)].len)]

\* The places narrate tells: all of them.
Told(d) ==
    IF d.src = <<>> THEN <<>>
    ELSE [i \in DOMAIN d.labels |-> locate(Starts(Split(d.src)), d.labels[i].start)]

-----------------------------------------------------------------------------
(* The same from the text alone, without starts and search *)

\* A byte is on the line after as many newlines as come before it, in the
\* column that is its distance from the last of them.
Place(src, off) ==
    LET before == {i \in DOMAIN src : i <= off /\ src[i] = NL}
    IN  [line |-> Cardinality(before) + 1, col |-> off - Max(before \cup {0})]

\* What a label covers of the line it starts on.
Covered(src, lb) ==
    {off \in lb.start .. lb.start + lb.len - 1 :
        off < Len(src) /\ src[off + 1] # NL /\ Place(src, off).line = Place(src, lb.start).line}

\* The column and the length of a label add up to an int.
Fits(src, lb) == Place(src, lb.start).col + Max({lb.len, 1}) <= MaxInt

\* An underline is under its label: it starts where that starts and is as long
\* as what it covers of its line, or one caret if that is nothing.
Under(src, lb, u) ==
    LET p == Place(src, lb.start)
    IN  u = [line |-> p.line, col |-> p.col, width |-> Max({1, Cardinality(Covered(src, lb))})]
=============================================================================
