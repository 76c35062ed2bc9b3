------------------------------ MODULE Kingpin ------------------------------
(***************************************************************************)
(* kingpin, which reads the program's command line: the words are cut into *)
(* tokens; a group reads flags up to the first token that is none, checks  *)
(* the required ones, gives the absent ones their defaults and leaves the  *)
(* rest to its arguments or to one of its commands.  An application is a   *)
(* function from the paths of its commands to groups; <<>> is its own.     *)
(***************************************************************************)
EXTENDS Naturals, Sequences, FiniteSetsExt, SequencesExt

CONSTANTS
    Applications,
    CommandLines,  \* sequences of words
    Valid,         \* for each kind of value, the texts that Set accepts
    Key            \* the keys of the texts that maps accept

\* What Set does to a value: "bool" and "one" (string, number, duration, address, file, URL,
\* enum) are replaced, "arn" is too but for "", "list" and "strings" are appended to.
Single == {"bool", "one", "arn"}
Lists == {"list", "strings"}
Kinds == Single \cup Lists \cup {"map"}

\* As an argument these take all the words that are left.
Cumulative == {"strings", "map"}

\* Only the groups of the first two levels are initialised, those below are not looked at.
Initialised(p) == Len(p) <= 1

Flags ==
    [name : STRING, short : STRING, kind : STRING, required : BOOLEAN, default : STRING,
     env : STRING, exits : BOOLEAN]
Args == [name : STRING, kind : STRING, required : BOOLEAN, default : STRING]
Groups == [flags : SUBSET Flags, args : Seq(Args), commands : Seq(STRING)]

Words ==
    [form : {"long"}, no : BOOLEAN, name : STRING, text : Seq(STRING)]
      \cup [form : {"short"}, letters : Seq(STRING)]
      \cup [form : {"text"}, text : STRING]

\* Commands have groups; a group's flags are told apart by their names, and none of a
\* program's own is called help.  Below the first level, where init does not look, all
\* flags and arguments have a type.
ASSUME KingpinAssumption ==
    /\ \A a \in Applications :
         /\ <<>> \in DOMAIN a
         /\ \A p \in DOMAIN a :
              /\ p \in Seq(STRING) /\ a[p] \in Groups
              /\ \A f \in a[p].flags : (f.kind \in Kinds \/ Initialised(p)) /\ f.name # "help"
              /\ \A f, g \in a[p].flags : f.name = g.name => f = g
              /\ \A i \in DOMAIN a[p].args : a[p].args[i].kind \in Kinds \/ Initialised(p)
              /\ \A i \in DOMAIN a[p].commands : Append(p, a[p].commands[i]) \in DOMAIN a
    /\ CommandLines \subseteq Seq(Words)
    /\ {"true", "false"} \subseteq Valid["bool"]

VARIABLES
    app, line,        \* the application and its command line
    outcome,          \* parsing, or how it ended
    tokens, first,    \* the line's tokens, and the number of the first that is not read yet
    command, phase,   \* the group that reads, by the path of its command, and what it reads
    missing, absent,  \* its required flags, and all its flags, not read so far
    next,             \* number of the word or of the argument to be read
    values,           \* what each flag and argument holds
    reading           \* history: what the tokens that were read were taken for, by their number

commandVars ==
    <<app, line, outcome, tokens, first, command, phase, missing, absent, next, values, reading>>
-----------------------------------------------------------------------------
Flag(name, short, kind, required, default, env, exits) ==
    [name |-> name, short |-> short, kind |-> kind, required |-> required,
     default |-> default, env |-> env, exits |-> exits]

Arg(name, kind, required, default) ==
    [name |-> name, kind |-> kind, required |-> required, default |-> default]

\* Every group has a flag help, an application with commands a command help.
HelpFlag == Flag("help", "", "bool", FALSE, "", "", TRUE)

HelpCommand == [flags |-> {}, args |-> <<Arg("command", "one", FALSE, "")>>, commands |-> <<>>]

Built ==
    LET helped == app[<<>>].commands # <<>>
        group(p) == IF helped /\ p = <<"help">> THEN HelpCommand ELSE app[p]
    IN  [p \in DOMAIN app \cup (IF helped THEN {<<"help">>} ELSE {}) |->
          [flags |-> group(p).flags \cup {HelpFlag},
           args |-> group(p).args,
           commands |-> IF p = <<>> /\ helped THEN Append(group(p).commands, "help")
                        ELSE group(p).commands]]

Group == Built[command]

\* flag.init: the environment overrides the default, where flags are initialised.
DefaultOf(p, f) == IF Initialised(p) /\ f.env # "" THEN f.env ELSE f.default

\* argGroup.init
ArgsRefused(args) ==
    \/ \E i, j \in DOMAIN args : i # j /\ args[i].name = args[j].name
    \/ \E i \in DOMAIN args : args[i].kind \in Cumulative /\ i # Len(args)
    \/ \E i, j \in DOMAIN args : i < j /\ ~args[i].required /\ args[j].required
    \/ \E i \in DOMAIN args : args[i].kind \notin Kinds \/ (args[i].required /\ args[i].default # "")

\* What init refuses, before it looks at the command line.
Refused ==
    \E p \in {q \in DOMAIN Built : Initialised(q)} :
      \/ Built[p].args # <<>> /\ Built[p].commands # <<>>
      \/ \E f \in Built[p].flags : f.kind \notin Kinds \/ (f.required /\ f.default # "")
      \/ ~IsInjective(Built[p].commands)
      \/ ArgsRefused(Built[p].args)
-----------------------------------------------------------------------------
\* A word is --name or --name=text, letters after a hyphen, or a text alone.
LongWord(no, name, text) == [form |-> "long", no |-> no, name |-> name, text |-> text]
ShortWord(letters) == [form |-> "short", letters |-> letters]
Text(text) == [form |-> "text", text |-> text]
NoText == <<>>

\* no tells a name that begins with "no-", which value leaves out.
Token(type, no, value) == [type |-> type, no |-> no, value |-> value]

Tokens(word) ==
    CASE word.form = "long" ->
           <<Token("long", word.no, word.name)>>
             \o (IF word.text = NoText THEN <<>> ELSE <<Token("arg", FALSE, word.text[1])>>)
      [] word.form = "short" ->
           [i \in DOMAIN word.letters |-> Token("short", FALSE, word.letters[i])]
      [] OTHER -> <<Token("arg", FALSE, word.text)>>

TokenEOL == Token("end", FALSE, "")

AtEnd == first > Len(tokens)
Peek == IF AtEnd THEN TokenEOL ELSE tokens[first]

IsFlag(token) == token.type \in {"long", "short"}

\* Short names are known where flags are initialised.
NamedFlags(token) ==
    {f \in Group.flags : \/ token.type = "long" /\ f.name = token.value
                         \/ token.type = "short" /\ f.short = token.value /\ Initialised(command)}

\* Set without an error.
Accepts(kind, text) == text \in Valid[kind]

\* RoleArnValue of main.go takes "" for no role at all and keeps what it has.
Set(kind, held, text) ==
    CASE kind = "arn" /\ text = "" -> held
      [] kind \in Single /\ ~(kind = "arn" /\ text = "") -> <<text>>
      [] kind = "map" -> [key \in DOMAIN held \cup {Key[text]} |->
                            IF key = Key[text] THEN text ELSE held[key]]
      [] OTHER -> Append(held, text)

FlagSlot(p, f) == <<"flag", p, f.name>>
ArgSlot(p, i) == <<"arg", p, i>>

\* The values after the defaults of some flags or arguments were Set.
WithDefaults(todo) ==
    [s \in DOMAIN values |->
      LET defaults == {t \in todo : t.slot = s /\ t.default # ""}
      IN  IF defaults = {} THEN values[s]
          ELSE LET t == CHOOSE t \in defaults : TRUE IN Set(t.kind, values[s], t.default)]

InvalidDefault(todo) == \E t \in todo : t.default # "" /\ ~Accepts(t.kind, t.default)

FlagDefaults ==
    {[slot |-> FlagSlot(command, f), kind |-> f.kind, default |-> DefaultOf(command, f)] : f \in absent}

ArgDefaults ==
    {[slot |-> ArgSlot(command, i), kind |-> Group.args[i].kind, default |-> Group.args[i].default]
       : i \in next..Len(Group.args)}

\* The next width tokens are read, as one text for a flag, an argument or a command.
Read(slot, text, width) ==
    /\ first' = first + width
    /\ reading' = [i \in DOMAIN reading \cup {first} |->
                     IF i = first THEN [slot |-> slot, text |-> text] ELSE reading[i]]

End(how) ==
    /\ outcome' = how
    /\ UNCHANGED <<app, line, tokens, first, command, phase, missing, absent, next, values, reading>>
-----------------------------------------------------------------------------
Slots ==
    UNION {{FlagSlot(p, f) : f \in Built[p].flags} \cup {ArgSlot(p, i) : i \in DOMAIN Built[p].args}
             : p \in DOMAIN Built}

CommandInit ==
    /\ app \in Applications /\ line \in CommandLines
    /\ outcome = "starting" /\ tokens = <<>> /\ first = 1 /\ command = <<>> /\ phase = "words"
    /\ missing = {} /\ absent = {} /\ next = 1 /\ reading = <<>>
    /\ values = [s \in Slots |-> <<>>]

\* Application.Parse: init, then the words.
ParseLine ==
    /\ outcome = "starting"
    /\ End(IF Refused THEN "refused" ELSE "parsing")

\* One word of the loop.
Tokenize ==
    /\ outcome = "parsing" /\ phase = "words" /\ next <= Len(line)
    /\ tokens' = tokens \o Tokens(line[next])
    /\ next' = next + 1
    /\ UNCHANGED <<app, line, outcome, first, command, phase, missing, absent, values, reading>>

\* flagGroup.parse begins for the group of a command, or for the program's own.
Enter(p, ignoreRequired) ==
    /\ command' = p /\ phase' = "flags"
    /\ absent' = Built[p].flags
    /\ missing' = {f \in Built[p].flags : ~ignoreRequired /\ f.required /\ DefaultOf(p, f) = ""}

HelpFirst == tokens # <<>> /\ tokens[1].value = "help" /\ ~tokens[1].no

\* Application.parse: no flag is required if the first token reads help, so that help can be
\* had without them.
ParseGroup ==
    /\ outcome = "parsing" /\ phase = "words" /\ next > Len(line)
    /\ Enter(<<>>, HelpFirst) /\ next' = 1
    /\ UNCHANGED <<app, line, outcome, tokens, first, values, reading>>

\* What flag f reads from the tokens: a Boolean one itself, another one the text after it.
TakesText(f) == f.kind # "bool"

FlagText(f) ==
    IF TakesText(f) THEN tokens[first + 1].value ELSE IF Peek.no THEN "false" ELSE "true"

Readable(f) ==
    /\ TakesText(f) => ~Peek.no /\ first < Len(tokens) /\ tokens[first + 1].type = "arg"
    /\ Accepts(f.kind, FlagText(f))

\* Wrong on purpose, to see ValuesAsRead fail: a flag that was read counts as absent.
ParseFlagAbsent ==
    /\ outcome = "parsing" /\ phase = "flags" /\ IsFlag(Peek)
    /\ \E f \in NamedFlags(Peek) :
         /\ Readable(f)
         /\ missing' = missing \ {f}
         /\ values' = [values EXCEPT ![FlagSlot(command, f)] = Set(f.kind, @, FlagText(f))]
         /\ Read(FlagSlot(command, f), FlagText(f), IF TakesText(f) THEN 2 ELSE 1)
         /\ outcome' = IF f.exits THEN "helped" ELSE outcome
    /\ UNCHANGED <<app, line, tokens, command, phase, next, absent>>

\* The flag help dispatches to onHelp, which exits.
ParseFlag ==
    /\ outcome = "parsing" /\ phase = "flags" /\ IsFlag(Peek)
    /\ \E f \in NamedFlags(Peek) :
         /\ Readable(f)
         /\ missing' = missing \ {f} /\ absent' = absent \ {f}
         /\ values' = [values EXCEPT ![FlagSlot(command, f)] = Set(f.kind, @, FlagText(f))]
         /\ Read(FlagSlot(command, f), FlagText(f), IF TakesText(f) THEN 2 ELSE 1)
         /\ outcome' = IF f.exits THEN "helped" ELSE outcome
    /\ UNCHANGED <<app, line, tokens, command, phase, next>>

FlagError ==
    /\ outcome = "parsing" /\ phase = "flags" /\ IsFlag(Peek)
    /\ \A f \in NamedFlags(Peek) : ~Readable(f)
    /\ End("error")

\* The command help is not read further: its dispatch shows the help and exits.
AfterFlags(p) ==
    IF p # <<>> /\ Last(p) = "help" THEN "done"
    ELSE IF Built[p].commands # <<>> /\ (p # <<>> \/ Built[p].args = <<>>) THEN "commands"
    ELSE IF Built[p].args # <<>> THEN "args" ELSE "done"

FlagsDone ==
    /\ outcome = "parsing" /\ phase = "flags" /\ ~IsFlag(Peek)
    /\ IF missing # {} \/ InvalidDefault(FlagDefaults) THEN End("error")
       ELSE /\ values' = WithDefaults(FlagDefaults)
            /\ phase' = AfterFlags(command)
            /\ UNCHANGED <<app, line, outcome, tokens, first, command, missing, absent, next, reading>>

\* cmdGroup.parse; without a word for a command none is selected.
ParseCommand ==
    /\ outcome = "parsing" /\ phase = "commands"
    /\ IF AtEnd
       THEN /\ phase' = "done"
            /\ UNCHANGED <<app, line, outcome, tokens, first, command, missing, absent, next, values, reading>>
       ELSE IF \E i \in DOMAIN Group.commands : Group.commands[i] = Peek.value
       THEN /\ Enter(Append(command, Peek.value), FALSE)
            /\ Read(<<"command", command>>, Peek.value, 1)
            /\ UNCHANGED <<app, line, outcome, tokens, next, values>>
       ELSE End("error")

ParseArg ==
    /\ outcome = "parsing" /\ phase = "args"
    /\ next <= Len(Group.args) /\ Peek.type = "arg"
    /\ LET arg == Group.args[next]
       IN  IF ~Accepts(arg.kind, Peek.value) THEN End("error")
           ELSE /\ values' = [values EXCEPT ![ArgSlot(command, next)] = Set(arg.kind, @, Peek.value)]
                /\ Read(ArgSlot(command, next), Peek.value, 1)
                /\ next' = IF arg.kind \in Cumulative THEN next ELSE next + 1
                /\ UNCHANGED <<app, line, outcome, tokens, command, phase, missing, absent>>

\* A flag between the arguments is not read: the argument is passed over, unless it takes
\* all that is left.
PassArg ==
    /\ outcome = "parsing" /\ phase = "args"
    /\ next <= Len(Group.args) /\ IsFlag(Peek)
    /\ IF Group.args[next].kind \in Cumulative THEN End("error")
       ELSE /\ next' = next + 1
            /\ UNCHANGED <<app, line, outcome, tokens, first, command, phase, missing, absent, values, reading>>

\* The tokens that were read for a flag or an argument.
Given(slot) == {i \in DOMAIN reading : reading[i].slot = slot}

\* The remaining arguments get their defaults; so does one that took all that was left.
ArgsDone ==
    /\ outcome = "parsing" /\ phase = "args"
    /\ next > Len(Group.args) \/ AtEnd
    /\ IF \/ next <= Len(Group.args) /\ Group.args[next].required /\ Given(ArgSlot(command, next)) = {}
          \/ InvalidDefault(ArgDefaults)
       THEN End("error")
       ELSE /\ values' = WithDefaults(ArgDefaults)
            /\ phase' = "done"
            /\ UNCHANGED <<app, line, outcome, tokens, first, command, missing, absent, next, reading>>

\* The rest of Application.Parse, and Parse of the package, which shows the usage and exits
\* if no command is selected.
Finish ==
    /\ outcome = "parsing" /\ phase = "done"
    /\ End(CASE command = <<"help">> -> "helped"
             [] command # <<"help">> /\ ~AtEnd -> "error"
             [] command = <<>> /\ AtEnd /\ Group.commands # <<>> -> "usage"
             [] OTHER -> "parsed")

CommandNext ==
    \/ ParseLine \/ Tokenize \/ ParseGroup \/ ParseFlag \/ FlagError \/ FlagsDone \/ ParseCommand
    \/ ParseArg \/ PassArg \/ ArgsDone \/ Finish

CommandSpec == CommandInit /\ [][CommandNext]_commandVars
-----------------------------------------------------------------------------
CommandTypeOK ==
    /\ outcome \in {"starting", "parsing", "refused", "error", "helped", "usage", "parsed"}
    /\ phase \in {"words", "flags", "commands", "args", "done"}
    /\ command \in DOMAIN Built
    /\ missing \subseteq absent /\ absent \subseteq Group.flags
    /\ next \in 1..(Len(IF phase = "words" THEN line ELSE Group.args) + 1)
    /\ first \in 1..(Len(tokens) + 1)
    /\ DOMAIN values = Slots

\* The groups that had their turn.
Selected == {p \in DOMAIN Built : IsPrefix(p, command)}

\* A line that is parsed leaves nothing unread: each of its tokens is a flag of a group that
\* had its turn, the text of the flag before it, a command or an argument, and was read once
\* as what it says.  An argument is a text: that nothing else becomes one is what the code
\* does, against its README (FlagsPassToStrings).
IsFlagAt(i) == i \in DOMAIN reading /\ reading[i].slot[1] = "flag"

TextAt(i) ==
    /\ IsFlagAt(i)
    /\ \E f \in Built[reading[i].slot[2]].flags : f.name = reading[i].slot[3] /\ TakesText(f)

TokenRead(i) ==
    /\ i \in DOMAIN reading <=> ~TextAt(i - 1)
    /\ i \in DOMAIN reading =>
         LET r == reading[i]
         IN  /\ r.slot[2] \in Selected
             /\ IF IsFlagAt(i)
                THEN \E f \in Built[r.slot[2]].flags :
                       /\ r.slot[3] = f.name
                       /\ IsFlag(tokens[i]) /\ tokens[i].value \in {f.name, f.short}
                       /\ IF TakesText(f)
                          THEN /\ i + 1 \in DOMAIN tokens /\ ~tokens[i].no
                               /\ tokens[i + 1] = Token("arg", FALSE, r.text)
                          ELSE r.text = IF tokens[i].no THEN "false" ELSE "true"
                ELSE tokens[i] = Token("arg", FALSE, r.text)

EveryTokenRead == outcome = "parsed" => \A i \in DOMAIN tokens : TokenRead(i)

\* What was Set, in the order of the tokens, a default after them.
Said(slot, default) ==
    [i \in Given(slot) \cup {e \in {Len(tokens) + 1} : default # ""} |->
       IF i \in Given(slot) THEN reading[i].text ELSE default]

\* A value holds the last of what was said, all of it, or the last for each key.
Holds(held, kind, said) ==
    LET At == DOMAIN said
        Counts(i) == kind = "arn" => said[i] # ""
    IN  CASE kind \in Single ->
               /\ (\A i \in At : ~Counts(i)) => held = <<>>
               /\ \A i \in At : Counts(i) /\ (\A j \in At : Counts(j) => j <= i) => held = <<said[i]>>
          [] kind = "map" ->
               /\ DOMAIN held = {Key[said[i]] : i \in At}
               /\ \A i \in At :
                    (\A j \in At : Key[said[j]] = Key[said[i]] => j <= i) => held[Key[said[i]]] = said[i]
          [] OTHER ->
               /\ Len(held) = Cardinality(At)
               /\ \A i \in At : held[Cardinality({j \in At : j <= i})] = said[i]

\* What a parsed line leaves in a flag or argument: what it gave, or else the default, in the
\* groups that had their turn; the zero value elsewhere.  An argument that takes all that is
\* left has its default added to what was given.
FlagAsRead(p, f) ==
    LET slot == FlagSlot(p, f)
    IN  IF p \in Selected
        THEN Holds(values[slot], f.kind, Said(slot, IF Given(slot) = {} THEN DefaultOf(p, f) ELSE ""))
        ELSE values[slot] = <<>>

ArgAsRead(p, i) ==
    LET slot == ArgSlot(p, i)
        arg == Built[p].args[i]
    IN  IF p \in Selected /\ AfterFlags(p) = "args"
        THEN Holds(values[slot], arg.kind,
                   Said(slot, IF Given(slot) = {} \/ arg.kind \in Cumulative THEN arg.default ELSE ""))
        ELSE values[slot] = <<>>

ValuesAsRead ==
    outcome = "parsed" =>
      \A p \in DOMAIN Built :
        /\ \A f \in Built[p].flags : FlagAsRead(p, f)
        /\ \A i \in DOMAIN Built[p].args : ArgAsRead(p, i)

\* A line that is parsed gave all that is required of the groups it selected, except that
\* a first word "help" suspends the program's own required flags, an argument of that text
\* included, and that init does not look at the arguments of commands below the first level.
RequiredGiven ==
    outcome = "parsed" =>
      \A p \in Selected :
        /\ \A f \in Built[p].flags :
             f.required /\ DefaultOf(p, f) = "" /\ ~(p = <<>> /\ HelpFirst) =>
               Given(FlagSlot(p, f)) # {}
        /\ \A i \in DOMAIN Built[p].args :
             /\ Built[p].args[i].required /\ AfterFlags(p) = "args" /\ ~ArgsRefused(Built[p].args)
             => Given(ArgSlot(p, i)) # {}

\* Help is had whatever is required: with --help first, whatever follows; and with the
\* command help first where there are commands, only texts follow, and no default of the
\* program's own flags, or variable of its environment, is invalid.
HelpAlways ==
    outcome \in {"error", "usage", "parsed"} /\ line # <<>> =>
      /\ ~(line[1].form = "long" /\ line[1].name = "help" /\ ~line[1].no)
      /\ ~(/\ Built[<<>>].commands # <<>> /\ line[1] = Text("help")
           /\ \A i \in DOMAIN line : line[i].form = "text"
           /\ \A f \in Built[<<>>].flags :
                DefaultOf(<<>>, f) # "" => Accepts(f.kind, DefaultOf(<<>>, f)))

\* Every word of a command line is read once as what it says, values and defaults end up
\* where they belong, and what is required is there or help is shown.
CommandLineRead == EveryTokenRead /\ ValuesAsRead /\ RequiredGiven /\ HelpAlways

\* README.md:25-26 of kingpin, on its version 1.2.0: "Pass any value through to `Strings()`
\* when final argument. Allows for values that look like flags to be processed."  So no value
\* for such an argument makes the command line an error because it looks like a flag.
FlagsPassToStrings ==
    outcome = "error" /\ phase = "args"
      /\ next <= Len(Group.args) /\ Group.args[next].kind = "strings"
    => ~IsFlag(Peek)
=============================================================================
