------------------------------ MODULE MCTexts ------------------------------
(***************************************************************************)
(* Small instances for TLC of the parts that take texts apart and put them *)
(* together: SessionName, RoleNames, seelog's LogConfig, LogFormat and     *)
(* LogPattern, and Kingpin.  They share no state, so that one of them      *)
(* moves in each behaviour: part says which.                               *)
(***************************************************************************)
EXTENDS SessionName, RoleNames, LogConfig, Kingpin, MCLogDocuments

CONSTANTS
    MaxLen,                                     \* of the names of containers
    MaxFormat, MaxPattern, MaxString            \* of LogFormat, LogPattern

VARIABLES
    part,
    format, formatter,                          \* LogFormat
    pattern, string, matches                    \* LogPattern

sessionVars == <<container, session>>
formatVars == <<format, formatter>>
patternVars == <<pattern, string, matches>>
textVars == <<part, sessionVars, roleVars, configVars, formatVars, patternVars, commandVars>>

\* SessionName: every pair of name lengths up to MaxLen, at the code's own limits.  The
\* characters of each text carry their position, so that a wrong cut shows.
Characters(tag, len) == [i \in 1..len |-> <<tag, i>>]

MCInvalidChar == {<<"image", i>> : i \in {j \in 1..MaxLen : j % 3 = 0}}
MCDash == <<"dash", 0>>
MCUnderscore == <<"underscore", 0>>
MCChar == {<<tag, i>> : tag \in {"id", "name", "image"}, i \in 1..MaxLen}
            \cup {MCDash, MCUnderscore}

MCContainers == {[id |-> Characters("id", shortIDLen + 2),
                  name |-> Characters("name", n), image |-> Characters("image", i)]
                  : n \in 1..MaxLen, i \in 0..MaxLen}

\* Verbs like Lev and Level, of which one begins the other, and Date with its parameter.
F == INSTANCE LogFormat WITH
       Percent <- "%", Open <- "(", Close <- ")", Letters <- {"l", "d", "v"}, V <- "v",
       Verbs <- {<<"l">>, <<"l", "l">>}, Parametrized <- {<<"d">>}

P == INSTANCE LogPattern WITH Star <- "*", Others <- {"a", "b"}

\* "y" has the key of "x"; no value but a string takes "bad".
MCValid ==
    [kind \in Kinds |->
       CASE kind = "bool" -> {"true", "false"}
         [] kind = "strings" -> {"x", "y", "go", "help", "bad", ""}
         [] OTHER -> {"x", "y", "go", "help", ""}]
MCKey == [text \in {"x", "y", "go", "help", ""} |-> IF text = "y" THEN "x" ELSE text]

group(flags, args, commands) == [flags |-> flags, args |-> args, commands |-> commands]
flag(name, short, kind) == Flag(name, short, kind, FALSE, "", "", FALSE)
required(f) == [f EXCEPT !.required = TRUE]
with(f, default) == [f EXCEPT !.default = default]

\* The flags of main.go: server, default-iam-role (here role) and verbose.
program == {with(flag("server", "s", "one"), "y"), flag("role", "r", "arn"), flag("verbose", "", "bool")}

MCApplications ==
    { <<>> :> group(program, <<>>, <<>>),
      <<>> :> group({required(flag("server", "s", "one")), with(flag("verbose", "v", "bool"), "true")},
                    <<Arg("first", "one", TRUE, ""), Arg("rest", "strings", FALSE, "y")>>, <<>>),
      <<>> :> group({Flag("server", "s", "strings", FALSE, "x", "y", FALSE), flag("role", "r", "map"),
                     flag("verbose", "v", "list")},
                    <<Arg("first", "one", FALSE, "x"), Arg("next", "one", FALSE, "bad")>>, <<>>),
      <<>> :> group({flag("server", "s", "list")}, <<Arg("all", "map", TRUE, "")>>, <<>>),
      <<>> :> group({flag("role", "r", "map")}, <<>>, <<"go">>)
        @@ <<"go">> :> group({with(flag("verbose", "v", "bool"), "true")}, <<>>, <<"x">>)
        @@ <<"go", "x">> :> group({required(flag("server", "s", "one")),
                                   Flag("role", "r", "one", FALSE, "x", "y", FALSE)},
                                  <<Arg("first", "one", FALSE, "")>>, <<>>),
      <<>> :> group({required(flag("server", "s", "one"))}, <<>>, <<"go", "x">>)
        @@ <<"go">> :> group({}, <<Arg("first", "one", TRUE, "")>>, <<>>)
        @@ <<"x">> :> group({with(flag("role", "r", "one"), "bad")}, <<>>, <<>>) }

\* Those that init refuses.
MCRefused ==
    { <<>> :> group({}, <<Arg("first", "one", FALSE, "")>>, <<"go">>) @@ <<"go">> :> group({}, <<>>, <<>>),
      <<>> :> group({required(with(flag("server", "s", "one"), "x"))}, <<>>, <<>>),
      <<>> :> group({flag("server", "s", "untyped")}, <<>>, <<>>),
      <<>> :> group({}, <<Arg("all", "strings", FALSE, ""), Arg("last", "one", FALSE, "")>>, <<>>) }

MCWords ==
    {Text(text) : text \in {"x", "go", "help", "bad"}}
      \cup {LongWord(FALSE, name, NoText) : name \in {"server", "verbose", "help"}}
      \cup {LongWord(TRUE, name, NoText) : name \in {"server", "verbose"}}
      \cup {LongWord(FALSE, "server", <<"x">>)}
      \cup {LongWord(FALSE, "role", <<text>>) : text \in {"", "x"}}
      \cup {ShortWord(letters) : letters \in {<<>>, <<"s">>, <<"v", "s">>}}

\* The words of longer lines.
MCFewWords ==
    {Text("x"), Text("go"), LongWord(FALSE, "server", <<"x">>), ShortWord(<<"v", "s">>),
     LongWord(FALSE, "role", <<"y">>)}

MCAllApplications == MCApplications \cup MCRefused

MCCommandLines == BoundedSeq(MCWords, 2) \cup BoundedSeq(MCFewWords, 4)

ASSUME RoleNamesAssumption /\ F!FormatAssumption /\ P!PatternAssumption

TextsInit ==
    /\ part \in {"session", "role", "config", "format", "pattern", "command"}
    /\ IF part = "session" THEN Init
       ELSE container = (CHOOSE c \in Containers : TRUE) /\ session = <<>>
    /\ IF part = "role" THEN RoleInit
       ELSE arn = NewRoleArn(<<"x">>) /\ subpath = <<>> /\ response = "none"
    /\ IF part = "config" THEN ConfigInit
       ELSE document = doc(none, none) /\ result = NoResult /\ making = <<>> /\ done = 0
    /\ IF part = "format" THEN F!Init ELSE format = <<>> /\ formatter = <<>>
    /\ IF part = "pattern" THEN P!Init ELSE pattern = <<>> /\ string = <<>> /\ matches = <<>>
    /\ IF part = "command" THEN CommandInit
       ELSE /\ app = (<<>> :> group({}, <<>>, <<>>)) /\ line = <<>> /\ outcome = "none"
            /\ tokens = <<>> /\ first = 1 /\ command = <<>> /\ phase = "words" /\ missing = {}
            /\ absent = {} /\ next = 1 /\ values = <<>> /\ reading = <<>>

TextsNext ==
    /\ UNCHANGED part
    /\ \/ /\ part = "session" /\ Next
          /\ UNCHANGED <<roleVars, configVars, formatVars, patternVars, commandVars>>
       \/ /\ part = "role" /\ RoleNext
          /\ UNCHANGED <<sessionVars, configVars, formatVars, patternVars, commandVars>>
       \/ /\ part = "config" /\ ConfigNext
          /\ UNCHANGED <<sessionVars, roleVars, formatVars, patternVars, commandVars>>
       \/ /\ part = "format" /\ F!Next
          /\ UNCHANGED <<sessionVars, roleVars, configVars, patternVars, commandVars>>
       \/ /\ part = "pattern" /\ P!Next
          /\ UNCHANGED <<sessionVars, roleVars, configVars, formatVars, commandVars>>
       \/ /\ part = "command" /\ CommandNext
          /\ UNCHANGED <<sessionVars, roleVars, configVars, formatVars, patternVars>>

TextsSpec == TextsInit /\ [][TextsNext]_textVars
-----------------------------------------------------------------------------
\* The properties of SessionName, RoleNames, LogConfig and Kingpin go by their own names;
\* those of the other parts, one or several of a module together, see the modules.
TextsTypeOK ==
    CASE part = "session" -> TypeOK
      [] part = "role" -> RoleTypeOK
      [] part = "config" -> ConfigTypeOK
      [] part = "format" -> F!TypeOK
      [] part = "pattern" -> P!TypeOK
      [] part = "command" -> CommandTypeOK

\* A format is taken apart into verbs and text with nothing lost, the longest verb first,
\* and only an unclosed parameter makes that panic.
FormatTakenApart ==
    part = "format" => F!VerbsEcho /\ F!EveryVerbReachable /\ F!PanicOnlyUnclosed

\* A pattern, and its normal form, matches what it means.
MatchesAsMeant == part = "pattern" => P!MatchSound /\ P!MatchComplete /\ P!JoinedTheSame
=============================================================================
