----------------------------- MODULE LogPattern -----------------------------
(***************************************************************************)
(* The patterns of seelog's exceptions: splitPattern cuts a pattern into   *)
(* texts and asterisks, stringMatchesPattern compares a string with them.  *)
(* Patterns and strings are sequences of characters.                       *)
(***************************************************************************)
EXTENDS Naturals, Sequences, FiniteSetsExt, SequencesExt

CONSTANTS
    Star, Others,           \* the characters
    MaxPattern, MaxString   \* bounds: lengths

PatternAssumption == Star \notin Others

VARIABLES
    pattern,
    string, matches     \* what it was compared with last: matches "none" before

vars == <<pattern, string, matches>>
-----------------------------------------------------------------------------
\* Asterisks in a row count as one.
splitPattern(p) ==
    LET Add(parts, i) ==
          IF p[i] = Star
          THEN IF i > 1 /\ p[i - 1] = Star THEN parts ELSE Append(parts, <<Star>>)
          ELSE IF i > 1 /\ p[i - 1] # Star
               THEN [parts EXCEPT ![Len(parts)] = Append(@, p[i])]
               ELSE Append(parts, <<p[i]>>)
    IN  FoldLeftDomain(Add, <<>>, p)

\* Where part first occurs in s, 0 for nowhere.
Index(s, part) ==
    LET at == {i \in 1..(Len(s) - Len(part) + 1) : SubSeq(s, i, i + Len(part) - 1) = part}
    IN  IF at = {} THEN 0 ELSE Min(at)

After(s, i) == SubSeq(s, i, Len(s))

\* The loop over the occurrences of the text after an asterisk: each is looked for behind
\* the one before.
RECURSIVE stringMatchesPattern(_, _)
RECURSIVE AnyOccurrence(_, _)

AnyOccurrence(parts, s) ==
    LET i == Index(s, parts[1])
        rest == After(s, i + Len(parts[1]))
    IN  i # 0 /\ (stringMatchesPattern(Tail(parts), rest) \/ AnyOccurrence(parts, rest))

\* Wrong on purpose, to see MatchSound fail: text that comes first may stand anywhere.
MatchesAnywhere(parts, s) ==
    IF parts = <<>> THEN s = <<>>
    ELSE IF parts[1] # <<Star>>
    THEN LET i == Index(s, parts[1])
         IN  i # 0 /\ stringMatchesPattern(Tail(parts), After(s, i + Len(parts[1])))
    ELSE Len(parts) = 1 \/ AnyOccurrence(Tail(parts), s)

stringMatchesPattern(parts, s) ==
    IF parts = <<>> THEN s = <<>>
    ELSE IF parts[1] # <<Star>>
    THEN Index(s, parts[1]) = 1 /\ stringMatchesPattern(Tail(parts), After(s, Len(parts[1]) + 1))
    ELSE Len(parts) = 1 \/ AnyOccurrence(Tail(parts), s)

Init ==
    /\ pattern \in BoundedSeq(Others \cup {Star}, MaxPattern)
    /\ string = <<>>
    /\ matches = "none"

Match ==
    /\ matches = "none"
    /\ string' \in BoundedSeq(Others, MaxString)
    /\ matches' = IF stringMatchesPattern(splitPattern(pattern), string') THEN "yes" ELSE "no"
    /\ UNCHANGED pattern

Next == Match

Spec == Init /\ [][Next]_vars
-----------------------------------------------------------------------------
\* What a pattern means: an asterisk stands for any string.
Glob(p, s) ==
    LET Stands[i \in 0..Len(p), j \in 0..Len(s)] ==
          IF i = 0 THEN j = 0
          ELSE IF p[i] = Star THEN \E k \in 0..j : Stands[i - 1, k]
          ELSE j > 0 /\ p[i] = s[j] /\ Stands[i - 1, j - 1]
    IN  Stands[Len(p), Len(s)]

TypeOK == matches \in {"none", "yes", "no"}

\* An exception applies to no function or file that its pattern does not mean.
MatchSound == matches = "yes" => Glob(pattern, string)

\* Begins and ends with the same text.
Overlaps(part) == \E k \in 1..(Len(part) - 1) : SubSeq(part, 1, k) = After(part, Len(part) - k + 1)

\* It applies to all that its pattern means, unless a text in it can overlap itself: of
\* two overlapping occurrences only the first is tried, so that *aa does not match aaa.
MatchComplete ==
    matches = "no" /\ Glob(pattern, string) => \E part \in ToSet(splitPattern(pattern)) : Overlaps(part)

\* The normal form by which exceptions are told apart (FuncPattern, FilePattern) means
\* the same as the pattern, and is its own normal form.
JoinedTheSame ==
    LET joined == FlattenSeq(splitPattern(pattern))
    IN  /\ Glob(joined, string) <=> Glob(pattern, string)
        /\ FlattenSeq(splitPattern(joined)) = joined
=============================================================================
