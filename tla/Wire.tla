-------------------------------- MODULE Wire --------------------------------
(***************************************************************************)
(* The cursors every decoder reads with (struct Cursor in circuit, mpcith  *)
(* and proof): fields are read in order, the first failure ends decoding.  *)
(*                                                                         *)
(* A field of fixed width, be it a byte, an integer, a digest or a field   *)
(* element, is one number: truncation inside a field is truncation.  What  *)
(* a decoder reads is given as a sequence of the fields defined below.     *)
(***************************************************************************)
EXTENDS Integers, SequencesExt

\* A field with one of the values ok; a count and as many groups of fields; count
\* groups of fields; a tag and the fields of that tag; a length and as many symbols,
\* decoded on their own and, if whole, used up.
Fixed(ok, error) == [read |-> "fixed", ok |-> ok, error |-> error]
Many(counts, error, of) == [read |-> "many", ok |-> counts, error |-> error, of |-> of]
Exactly(count, of) == [read |-> "exactly", count |-> count, of |-> of]
Tagged(of, error) == [read |-> "tagged", ok |-> DOMAIN of, of |-> of, error |-> error]
Block(of, whole, error) == [read |-> "block", ok |-> Nat, of |-> of, whole |-> whole, error |-> error]

Free == Fixed(Nat, "")

\* A cursor: what is left, what was read, and the error for the end of the input.
Cursor(bytes, eof) == [error |-> "Ok", rest |-> bytes, got |-> << >>, eof |-> eof]

Fail(c, error) == [c EXCEPT !.error = error]
Push(c, value) == [c EXCEPT !.got = Append(@, value)]

RECURSIVE ReadField(_, _), ReadGroups(_, _, _, _)
ReadFields(c, fields) == FoldLeft(ReadField, c, fields)
\* count groups, collected in items.
ReadGroups(c, count, of, items) ==
  IF count = 0 THEN Push(c, items)
  ELSE LET group == ReadFields([c EXCEPT !.got = << >>], of)
       IN  IF group.error # "Ok" THEN group
           ELSE ReadGroups([group EXCEPT !.got = c.got], count - 1, of,
                           Append(items, IF Len(of) = 1 THEN group.got[1] ELSE group.got))
ReadField(c, f) ==
  LET v == Head(c.rest)
      next == [c EXCEPT !.rest = Tail(@)]
  IN  IF c.error # "Ok" THEN c
      ELSE IF f.read = "exactly" THEN ReadGroups(c, f.count, f.of, << >>)
      ELSE IF c.rest = << >> THEN Fail(c, c.eof)
      ELSE IF v \notin f.ok THEN Fail(c, f.error)
      ELSE CASE f.read = "fixed" -> Push(next, v)
             [] f.read = "many" -> ReadGroups(next, v, f.of, << >>)
             [] f.read = "tagged" ->
                  LET group == ReadFields([next EXCEPT !.got = <<v>>], f.of[v])
                  IN  Push([group EXCEPT !.got = c.got], group.got)
             [] f.read = "block" ->
                  IF Len(next.rest) < v THEN Fail(c, c.eof)
                  ELSE LET inner == ReadFields(Cursor(SubSeq(next.rest, 1, v), f.error), f.of)
                       IN  IF inner.error # "Ok" THEN Fail(c, inner.error)
                           ELSE IF f.whole /\ inner.rest # << >> THEN Fail(c, f.error)
                           ELSE Push([next EXCEPT !.rest = SubSeq(@, v + 1, Len(@))], inner.got)

\* A decoder's result: the error, or the value made from what was read.
Decoded(c, trailing, Make(_)) ==
  IF c.error # "Ok" THEN [error |-> c.error, value |-> << >>]
  ELSE IF c.rest # << >> THEN [error |-> trailing, value |-> << >>]
  ELSE [error |-> "Ok", value |-> Make(c.got)]

\* A length and what it counts.
Prefixed(s) == <<Len(s)>> \o s
=============================================================================
