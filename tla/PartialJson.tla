------------------------------ MODULE PartialJson ------------------------------
(***************************************************************************)
(* parsePartialJSON: what of a JSON text that is still being written can   *)
(* be shown.  A text is a sequence of characters: the brackets, comma,     *)
(* colon, "q" for the quote, "b" for the backslash, "_" for white space,   *)
(* digits, and "x" for any other character of a string.                    *)
(***************************************************************************)
EXTENDS Integers, Sequences, SequencesExt

Digit == {"1", "2"}

\* A value: its type, the characters of a number, string or literal, and the
\* entries of a container, the keys of an object apart from its values.
Node(t, s, keys, kids) == [t |-> t, s |-> s, keys |-> keys, kids |-> kids]
Leaf(t, s) == Node(t, s, <<>>, <<>>)
Empty(open) == Node(IF open = "{" THEN "object" ELSE "array", <<>>, <<>>, <<>>)
Closing == [c \in {"{", "["} |-> IF c = "{" THEN "}" ELSE "]"]

(* -------------------------------- JSON.parse -------------------------------- *)

Fail == [at |-> 0, val |-> Leaf("none", <<>>)]
At(s, i) == IF i \in DOMAIN s THEN s[i] ELSE "end"

SkipSpace(s, i) == CHOOSE j \in i..(Len(s) + 1) :
                     At(s, j) # "_" /\ \A k \in i..(j - 1) : s[k] = "_"
DigitsEnd(s, i) == CHOOSE j \in i..(Len(s) + 1) :
                     At(s, j) \notin Digit /\ \A k \in i..(j - 1) : s[k] \in Digit

\* The place after the quote that ends the string opened at i, 0 if it is open.
StringEnd(s, i) ==
  LET next[j \in (i + 1)..(Len(s) + 2)] ==
        IF j > Len(s) THEN 0
        ELSE IF s[j] = "b" THEN next[j + 2]
        ELSE IF s[j] = "q" THEN j + 1
        ELSE next[j + 1]
  IN next[i + 1]

RECURSIVE ParseValue(_, _), ParseEntries(_, _, _)

ParseValue(s, i0) ==
  LET i == SkipSpace(s, i0)
      c == At(s, i)
  IN CASE c \in Digit ->
            LET j == DigitsEnd(s, i) IN [at |-> j, val |-> Leaf("number", SubSeq(s, i, j - 1))]
       [] c = "q" ->
            LET j == StringEnd(s, i)
            IN IF j = 0 THEN Fail ELSE [at |-> j, val |-> Leaf("string", SubSeq(s, i + 1, j - 2))]
       [] c \in DOMAIN Closing ->
            LET j == SkipSpace(s, i + 1)
            IN IF At(s, j) = Closing[c] THEN [at |-> j + 1, val |-> Empty(c)]
                                        ELSE ParseEntries(s, i + 1, Empty(c))
       [] OTHER -> Fail

ParseEntries(s, i, so_far) ==
  LET object == so_far.t = "object"
      k == IF object THEN ParseValue(s, i) ELSE Fail
      colon == SkipSpace(s, k.at)
      keyed == k.val.t = "string" /\ At(s, colon) = ":"
      v == IF ~object THEN ParseValue(s, i)
           ELSE IF keyed THEN ParseValue(s, colon + 1) ELSE Fail
      val == [so_far EXCEPT !.keys = IF object THEN Append(@, k.val.s) ELSE @,
                            !.kids = Append(@, v.val)]
      end == SkipSpace(s, v.at)
  IN CASE v.at = 0 -> Fail
       [] v.at # 0 /\ At(s, end) = "," -> ParseEntries(s, end + 1, val)
       [] v.at # 0 /\ At(s, end) = (IF object THEN "}" ELSE "]") -> [at |-> end + 1, val |-> val]
       [] OTHER -> Fail

JSONparse(s) == LET r == ParseValue(s, 1)
                IN IF r.at # 0 /\ SkipSpace(s, r.at) = Len(s) + 1 THEN r.val ELSE Fail.val
IsJSON(s) == JSONparse(s).t # "none"

(* ---------------------------------- the scan ---------------------------------- *)

\* How far the scan has got: where it is (0 once it has given up or is done), the
\* brackets to close, whether a key comes next, and the ends it could cut at.
Scanner == [i |-> 1, stack |-> <<>>, expectKey |-> <<>>, checkpoints |-> <<>>]

InObject(st) == st.stack # <<>> /\ Last(st.stack) = "}"
Expect(st, key) == IF InObject(st) THEN [st EXCEPT !.expectKey[Len(st.expectKey)] = key] ELSE st
pushCheckpoint(st, end) ==
  [st EXCEPT !.checkpoints = Append(@, [end |-> end, closing |-> Reverse(st.stack)])]

ScanOpen(st, c) == [st EXCEPT !.stack = Append(@, Closing[c]),
                              !.expectKey = Append(@, c = "{"), !.i = @ + 1]

ScanClose(st, c) ==
  IF st.stack = <<>> \/ Last(st.stack) # c THEN [st EXCEPT !.i = 0]
  ELSE LET up == Expect([st EXCEPT !.stack = Front(@), !.expectKey = Front(@)], FALSE)
           cut == pushCheckpoint(up, st.i)
       IN [cut EXCEPT !.i = IF up.stack = <<>> THEN 0 ELSE @ + 1]

ScanString(s, st) ==
  LET j == StringEnd(s, st.i)
      wasKey == InObject(st) /\ Last(st.expectKey)
      cut == pushCheckpoint(Expect(st, FALSE), j - 1)
  IN CASE j = 0 -> [st EXCEPT !.i = 0]
       [] j # 0 /\ wasKey -> [st EXCEPT !.i = j]
       [] j # 0 /\ ~wasKey -> [cut EXCEPT !.i = IF st.stack = <<>> THEN 0 ELSE j]

\* Mutant of ScanNumber: what is there of a number is taken for the whole of it.
ScanNumberEager(s, st) ==
  LET j == DigitsEnd(s, st.i) IN [pushCheckpoint(Expect(st, FALSE), j - 1) EXCEPT !.i = j]

\* A number at the end of the text may go on: it is not a place to cut at.
ScanNumber(s, st) ==
  LET j == DigitsEnd(s, st.i)
      terminated == At(s, j) \in {",", "}", "]", "_"}
      on == Expect(st, FALSE)
  IN CASE terminated -> [pushCheckpoint(on, j - 1) EXCEPT !.i = j]
       [] ~terminated /\ st.stack = <<>> -> [pushCheckpoint(on, j - 1) EXCEPT !.i = 0]
       [] OTHER -> [on EXCEPT !.i = j]

ScanToken(s, st) ==
  LET c == s[st.i] IN
  CASE c = "_" -> [st EXCEPT !.i = @ + 1]
    [] c \in DOMAIN Closing -> ScanOpen(st, c)
    [] c \in {"}", "]"} -> ScanClose(st, c)
    [] c = "," -> [Expect(pushCheckpoint(st, st.i - 1), TRUE) EXCEPT !.i = @ + 1]
    [] c = ":" -> [Expect(st, FALSE) EXCEPT !.i = @ + 1]
    [] c = "q" -> ScanString(s, st)
    [] c \in Digit -> ScanNumber(s, st)
    [] OTHER -> [st EXCEPT !.i = 0]

RECURSIVE Scan(_, _)
Scan(s, st) == IF st.i \notin DOMAIN s THEN st ELSE Scan(s, ScanToken(s, st))

Nothing == [value |-> Fail.val, complete |-> FALSE]

\* The text itself, or else its longest cut that can be closed, or an empty
\* container; Nothing if not even that.
parsePartialJSON(s) ==
  LET cps == Scan(s, Scanner).checkpoints
      text(k) == SubSeq(s, 1, cps[k].end) \o cps[k].closing
      good == {k \in DOMAIN cps : IsJSON(text(k))}
      head == At(s, SkipSpace(s, 1))
  IN CASE IsJSON(s) -> [value |-> JSONparse(s), complete |-> TRUE]
       [] ~IsJSON(s) /\ good # {} ->
            [value |-> JSONparse(text(CHOOSE k \in good : \A l \in good : l <= k)),
             complete |-> FALSE]
       [] ~IsJSON(s) /\ good = {} /\ head \in DOMAIN Closing ->
            [value |-> Empty(head), complete |-> FALSE]
       [] OTHER -> Nothing

(* ------------------------------ what it promises ------------------------------ *)

\* a shows part of b: what a has, b has with the same value, in the same place.
RECURSIVE Within(_, _)
Within(a, b) ==
  /\ a.t = b.t /\ a.s = b.s
  /\ IsPrefix(a.keys, b.keys)
  /\ Len(a.kids) <= Len(b.kids)
  /\ \A i \in DOMAIN a.kids : Within(a.kids[i], b.kids[i])
=============================================================================
