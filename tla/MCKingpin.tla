----------------------------- MODULE MCKingpin -----------------------------
(***************************************************************************)
(* The application of TestArgsLooksLikeFlagsWithConsumeRemainder, whose    *)
(* only argument takes all the words that are left, and lines of one to    *)
(* three words of which some look like flags.                              *)
(***************************************************************************)
EXTENDS Kingpin, TLC

MCApplications ==
    {<<>> :> [flags |-> {}, args |-> <<Arg("opts", "strings", TRUE, "")>>, commands |-> <<>>]}

MCWords == {Text("hello"), ShortWord(<<"w", "d">>), LongWord(FALSE, "world", NoText)}

MCCommandLines == UNION {[1..n -> MCWords] : n \in 1..3}

MCValid == [kind \in Kinds |-> {"true", "false", "hello"}]
MCKey == [text \in {"hello"} |-> text]
=============================================================================
