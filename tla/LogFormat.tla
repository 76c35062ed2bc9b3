----------------------------- MODULE LogFormat -----------------------------
(***************************************************************************)
(* seelog's message formats: newFormatter cuts a format into the text that *)
(* Sprintf is given and the verbs whose values it is given; Format writes  *)
(* a message with them.  A format is a sequence of characters over a small *)
(* alphabet.                                                               *)
(***************************************************************************)
EXTENDS Naturals, Sequences, FiniteSetsExt, SequencesExt

CONSTANTS
    Percent, Open, Close,  \* % ( )
    Letters, V,            \* letters; V is the v of Sprintf's %v
    Verbs,                 \* names of the verbs, sequences of letters
    Parametrized,          \* of those that may have a parameter
    MaxFormat              \* bound: length of a format

FormatAssumption ==
    /\ V \in Letters /\ {Percent, Open, Close} \cap Letters = {}
    /\ Verbs \cup Parametrized \subseteq Seq(Letters) \ {<<>>}

VARIABLES
    format,
    formatter    \* outcome, fmtString and verbs; outcome "none" before it is made

vars == <<format, formatter>>

FormatChar == Letters \cup {Percent, Open, Close}
-----------------------------------------------------------------------------
\* extractLetterSequence: the lengths up to which only letters follow i.
Runs(i) == {k \in 1..(Len(format) - i + 1) : ToSet(SubSeq(format, i, i + k - 1)) \subseteq Letters}

\* The verbs of a table that stand at i, by their length.
StandingAt(table, i) == {k \in Runs(i) : SubSeq(format, i, i + k - 1) \in table}

EndIndex(start) == {j \in start..Len(format) : format[j] = Close}

Nothing == [verb |-> <<>>, parameter |-> <<>>]

\* findparameter: the text between the parentheses that follow at start; its length is
\* counted with them.  Without the second one it slices the format backwards.
findparameter(start) ==
    IF start > Len(format) \/ format[start] # Open
    THEN [outcome |-> "made", text |-> <<>>, length |-> 0]
    ELSE IF EndIndex(start) = {} \/ Min(EndIndex(start)) < start
    THEN [outcome |-> "panic", text |-> <<>>, length |-> 0]
    ELSE LET end == Min(EndIndex(start))
         IN  [outcome |-> "made", text |-> SubSeq(format, start + 1, end - 1),
              length |-> end - start + 1]

\* Wrong on purpose, to see EveryVerbReachable fail: the shortest verb is taken.
extractVerbFuncShortest(i) ==
    LET plain == StandingAt(Verbs, i)
        parametrized == StandingAt(Parametrized, i)
        length == IF plain # {} THEN Min(plain) ELSE Min(parametrized)
        parameter == IF plain = {} /\ length = Max(Runs(i)) THEN findparameter(i + length)
                     ELSE [outcome |-> "made", text |-> <<>>, length |-> 0]
    IN  IF plain \cup parametrized = {} THEN [outcome |-> "error", verb |-> Nothing, next |-> i]
        ELSE [outcome |-> parameter.outcome,
              verb |-> [verb |-> SubSeq(format, i, i + length - 1), parameter |-> parameter.text],
              next |-> i + length + parameter.length]

\* The longest verb without a parameter, or else the longest of the others, whose
\* parameter counts only if no letter follows the verb.
extractVerbFunc(i) ==
    LET plain == StandingAt(Verbs, i)
        parametrized == StandingAt(Parametrized, i)
        length == IF plain # {} THEN Max(plain) ELSE Max(parametrized)
        parameter == IF plain = {} /\ length = Max(Runs(i)) THEN findparameter(i + length)
                     ELSE [outcome |-> "made", text |-> <<>>, length |-> 0]
    IN  IF plain \cup parametrized = {} THEN [outcome |-> "error", verb |-> Nothing, next |-> i]
        ELSE [outcome |-> parameter.outcome,
              verb |-> [verb |-> SubSeq(format, i, i + length - 1), parameter |-> parameter.text],
              next |-> i + length + parameter.length]

\* buildVerbFuncs from character i on, with what it has so far.  A doubled percent sign
\* becomes a single one.
RECURSIVE buildVerbFuncs(_, _, _)
buildVerbFuncs(i, fmtString, verbs) ==
    IF i > Len(format) THEN [outcome |-> "made", fmtString |-> fmtString, verbs |-> verbs]
    ELSE IF format[i] # Percent THEN buildVerbFuncs(i + 1, Append(fmtString, format[i]), verbs)
    ELSE IF i = Len(format) THEN [outcome |-> "error", fmtString |-> <<>>, verbs |-> <<>>]
    ELSE IF format[i + 1] = Percent THEN buildVerbFuncs(i + 2, Append(fmtString, Percent), verbs)
    ELSE LET found == extractVerbFunc(i + 1)
         IN  IF found.outcome # "made"
             THEN [outcome |-> found.outcome, fmtString |-> <<>>, verbs |-> <<>>]
             ELSE buildVerbFuncs(found.next, fmtString \o <<Percent, V>>, Append(verbs, found.verb))

\* fmt.Sprintf: a percent sign and the letter after it take the next value; anything else
\* is written with a complaint.
RECURSIVE Sprintf(_, _)
Sprintf(text, values) ==
    IF text = <<>> THEN IF values = <<>> THEN <<>> ELSE <<"EXTRA">>
    ELSE IF Head(text) # Percent THEN <<Head(text)>> \o Sprintf(Tail(text), values)
    ELSE IF Len(text) = 1 THEN <<"NOVERB">>
    ELSE IF text[2] = Percent THEN <<Percent>> \o Sprintf(Tail(Tail(text)), values)
    ELSE IF values = <<>> THEN <<"MISSING">> \o Sprintf(Tail(Tail(text)), values)
    ELSE (IF text[2] = V THEN Head(values) ELSE <<"BAD">>)
           \o Sprintf(Tail(Tail(text)), Tail(values))

\* Format, with the texts that the verbs write.
Format(written) ==
    IF formatter.verbs = <<>> THEN formatter.fmtString ELSE Sprintf(formatter.fmtString, written)

Unmade == [outcome |-> "none", fmtString |-> <<>>, verbs |-> <<>>]

Init == format \in BoundedSeq(FormatChar, MaxFormat) /\ formatter = Unmade

newFormatter ==
    /\ formatter = Unmade
    /\ formatter' = buildVerbFuncs(1, <<>>, <<>>)
    /\ UNCHANGED format

Next == newFormatter

Spec == Init /\ [][Next]_vars
-----------------------------------------------------------------------------
TypeOK ==
    /\ formatter.outcome \in {"none", "made", "error", "panic"}
    /\ formatter.outcome # "made" => formatter.fmtString = <<>> /\ formatter.verbs = <<>>

Holds(part) ==
    \E i \in 0..(Len(format) - Len(part)) : SubSeq(format, i + 1, i + Len(part)) = part

\* If each verb wrote its own text, parameter included, Format would write the format:
\* no character is lost or written twice and no value goes to another verb.  (Doubled
\* percent signs are left out: the single ones made of them take the values of verbs.)
Echo(v) == <<Percent>> \o v.verb
             \o (IF v.parameter = <<>> THEN <<>> ELSE <<Open>> \o v.parameter \o <<Close>>)

VerbsEcho ==
    formatter.outcome = "made" /\ ~Holds(<<Percent, Percent>>) /\ ~Holds(<<Open, Close>>) =>
      Format([k \in DOMAIN formatter.verbs |-> Echo(formatter.verbs[k])]) = format

\* No verb is hidden by a shorter one that its name begins with.
EveryVerbReachable ==
    formatter # Unmade =>
      \A name \in Verbs \cup Parametrized :
        format = <<Percent>> \o name => formatter.verbs = <<[verb |-> name, parameter |-> <<>>]>>

\* newFormatter panics for a parameter whose parenthesis is not closed, and for no other.
PanicOnlyUnclosed ==
    formatter.outcome = "panic" =>
      \E i \in DOMAIN format : format[i] = Open /\ \A j \in i..Len(format) : format[j] # Close
=============================================================================
