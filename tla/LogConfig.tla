----------------------------- MODULE LogConfig -----------------------------
(***************************************************************************)
(* seelog's configuration parser: from the tree of a document's elements   *)
(* to the logger, or to an error.  An element is a record of its name, its *)
(* attributes and its children; the value of an attribute is the sequence  *)
(* of its words, which commas separate.  A formatter is known by where it  *)
(* comes from, as the code compares pointers.  A receiver is known by its  *)
(* path, the elements from the root to its own.  The constructors call one *)
(* another: those that have begun are a path too, and each receiver made   *)
(* is a step.                                                              *)
(***************************************************************************)
EXTENDS Integers, Sequences, Functions, FiniteSetsExt, SequencesExt

CONSTANTS
    Documents,     \* the root elements given to the parser
    Number,        \* of the words that are numbers
    WellFormed,    \* format strings that newFormatter takes
    Predefined,    \* ids of the predefined formats
    NormalForm,    \* of the patterns with no other characters than they may have
    Receivers,     \* names of the registered custom receivers
    Refusing       \* those whose AfterParse returns an error

VARIABLES
    document,
    result,    \* the logger and the tree of its receivers: a set of paths
    making,    \* the path of the constructors that have begun, <<>> without one
    done       \* how many inner receivers the last of them has made

configVars == <<document, result, making, done>>

Has(node, attr) == attr \in DOMAIN node.attributes
Value(node, attr) == node.attributes[attr]
Word(node, attr) == Value(node, attr)[1]

\* An attribute that may be left out, or is one of these words.
Maybe(node, attr, words) == Has(node, attr) => Value(node, attr) \in {<<w>> : w \in words}
IsNumber(value) == Len(value) = 1 /\ value[1] \in DOMAIN Number
IsUint(value) == IsNumber(value) /\ Number[value[1]] >= 0
NumberOf(node, attr) == IF Has(node, attr) THEN Number[Word(node, attr)] ELSE 0

\* checkUnexpectedAttribute
OnlyAttributes(node, expected) == DOMAIN node.attributes \subseteq expected

\* checkExpectedElements, without and with multiplicity.
OnlyOnce(node, names) ==
    /\ \A i \in DOMAIN node.children : node.children[i].name \in names
    /\ IsInjective([i \in DOMAIN node.children |-> node.children[i].name])
OnlySome(node, name) ==
    node.children # <<>> /\ \A i \in DOMAIN node.children : node.children[i].name = name

Plain(name) == [name |-> name, attributes |-> <<>>, children |-> <<>>]

\* The child of that name, or an element without children: OnlyOnce leaves one at most.
HasChild(node, name) == \E i \in DOMAIN node.children : node.children[i].name = name
Child(node, name) ==
    IF HasChild(node, name)
    THEN node.children[CHOOSE i \in DOMAIN node.children : node.children[i].name = name]
    ELSE Plain("")

\* An attribute has a word at least, if only the empty one.
ASSUME DocumentsAssumption ==
    \A config \in Documents :
      \A node \in {config} \cup ToSet(Child(config, "exceptions").children) :
        \A a \in DOMAIN node.attributes : node.attributes[a] \in Seq(STRING) \ {<<>>}
-----------------------------------------------------------------------------
Levels == [trace |-> 0, debug |-> 1, info |-> 2, warn |-> 3, error |-> 4, critical |-> 5, off |-> 6]

AreLevels(value) == ToSet(value) \subseteq DOMAIN Levels
LevelOf(node, attr, default) == IF Has(node, attr) THEN Levels[Word(node, attr)] ELSE default

SaysOff(node) ==
    \/ Has(node, "levels") /\ Value(node, "levels") = <<"off">>
    \/ Has(node, "minlevel") /\ ~Has(node, "maxlevel") /\ Value(node, "minlevel") = <<"off">>

\* validateOffLevel
OffAlone(value) == "off" \in ToSet(value) => ToSet(value) = {"off"}

\* Wrong on purpose, to see SilentOnlyIfOff fail: min and max may cross.
ConstrainsCrossed(node) ==
    /\ ~({"levels", "minlevel", "maxlevel"} \subseteq DOMAIN node.attributes)
    /\ \/ SaysOff(node)
       \/ Has(node, "levels") /\ AreLevels(Value(node, "levels"))
                              /\ OffAlone(Value(node, "levels"))
       \/ /\ ~Has(node, "levels")
          /\ Maybe(node, "minlevel", DOMAIN Levels) /\ Maybe(node, "maxlevel", DOMAIN Levels)

\* getConstraints finds no error; levels and one of the others may stand together, and
\* levels counts then.
Constrains(node) ==
    /\ ~({"levels", "minlevel", "maxlevel"} \subseteq DOMAIN node.attributes)
    /\ \/ SaysOff(node)
       \/ Has(node, "levels") /\ AreLevels(Value(node, "levels"))
                              /\ OffAlone(Value(node, "levels"))
       \/ /\ ~Has(node, "levels")
          /\ Maybe(node, "minlevel", DOMAIN Levels) /\ Maybe(node, "maxlevel", DOMAIN Levels)
          /\ LevelOf(node, "minlevel", 0) <= LevelOf(node, "maxlevel", 5)
          /\ LevelOf(node, "maxlevel", 5) <= 5

Constraints(node) ==
    IF SaysOff(node) THEN {}
    ELSE IF Has(node, "levels") THEN {Levels[l] : l \in ToSet(Value(node, "levels"))} \ {6}
    ELSE LevelOf(node, "minlevel", 0)..LevelOf(node, "maxlevel", 5)
-----------------------------------------------------------------------------
Pattern(node, attr) == IF Has(node, attr) THEN NormalForm[Word(node, attr)] ELSE "*"

Exceptions(config) ==
    [i \in DOMAIN Child(config, "exceptions").children |->
       LET node == Child(config, "exceptions").children[i]
       IN  [func |-> Pattern(node, "funcpattern"), file |-> Pattern(node, "filepattern"),
            levels |-> Constraints(node)]]

SameException(e, f) == e.func = f.func /\ e.file = f.file

\* getExceptions and checkDistinctExceptions
ExceptionsFit(config) ==
    HasChild(config, "exceptions") =>
      LET node == Child(config, "exceptions")
      IN  /\ OnlyAttributes(node, {}) /\ OnlySome(node, "exception")
          /\ \A i \in DOMAIN node.children :
               /\ OnlyAttributes(node.children[i],
                    {"minlevel", "maxlevel", "levels", "funcpattern", "filepattern"})
               /\ Constrains(node.children[i])
               /\ Maybe(node.children[i], "funcpattern", DOMAIN NormalForm)
               /\ Maybe(node.children[i], "filepattern", DOMAIN NormalForm)
          /\ \A i, j \in DOMAIN node.children :
               i # j => ~SameException(Exceptions(config)[i], Exceptions(config)[j])

\* getFormats
FormatsFit(config) ==
    HasChild(config, "formats") =>
      LET node == Child(config, "formats")
      IN  /\ OnlyAttributes(node, {}) /\ OnlySome(node, "format")
          /\ \A i \in DOMAIN node.children :
               /\ DOMAIN node.children[i].attributes = {"id", "format"}
               /\ Word(node.children[i], "format") \in WellFormed

Named(config, id) ==
    {i \in DOMAIN Child(config, "formats").children :
       Word(Child(config, "formats").children[i], "id") = id}

Default == <<"default">>

\* The last format of that id, or a predefined one.
getCurrentFormat(config, node, formatFromParent) ==
    IF ~Has(node, "formatid") THEN formatFromParent
    ELSE LET own == Named(config, Word(node, "formatid"))
         IN  IF own # {} THEN <<"formats", Max(own)>>
             ELSE <<"predefined", Word(node, "formatid")>>

HasFormat(config, node) ==
    Has(node, "formatid") =>
      Word(node, "formatid") \in Predefined \/ Named(config, Word(node, "formatid")) # {}
-----------------------------------------------------------------------------
\* The attributes each element must and may have besides formatid; custom takes any that
\* begins with data- as well.
Element == [
    splitter    |-> [must |-> {}, may |-> {}],
    filter      |-> [must |-> {"levels"}, may |-> {}],
    buffered    |-> [must |-> {"size"}, may |-> {"flushperiod"}],
    console     |-> [must |-> {}, may |-> {}],
    file        |-> [must |-> {"path"}, may |-> {}],
    conn        |-> [must |-> {"addr", "net"}, may |-> {"reconnectonmsg"}],
    custom      |-> [must |-> {"name"}, may |-> {"data-key"}],
    smtp        |-> [must |-> {"senderaddress", "sendername", "hostname", "hostport",
                               "username", "password"}, may |-> {}],
    rollingfile |-> [must |-> {"type", "filename"},
                     may |-> {"maxrolls", "archivetype", "archivepath", "maxsize",
                              "datepattern"}]]

Nesting == {"splitter", "filter", "buffered"}
IsWriter(name) == name \in {"buffered", "console", "file", "conn", "smtp", "rollingfile"}

\* What the constructors check of their own values before they make anything.
FilterFits(node) == AreLevels(Value(node, "levels"))

BufferedFits(node) == IsNumber(Value(node, "size")) /\ Maybe(node, "flushperiod", DOMAIN Number)

Bools == {"true", "false"}
ConnFits(node) == Maybe(node, "reconnectonmsg", Bools)

\* customReceiverByName, and AfterParse of the receiver.
customReceiverByName(name) == name \in Receivers
CustomFits(node) == customReceiverByName(Word(node, "name"))
Refuses(node) == node.name = "custom" /\ Word(node, "name") \in Refusing

SmtpFits(node) ==
    /\ IsNumber(Value(node, "hostport"))
    /\ \A i \in DOMAIN node.children :
         LET c == node.children[i]
         IN  \/ c.name = "recipient" /\ Has(c, "address")
             \/ c.name = "cacertdirpath" /\ Has(c, "path")

Archives == {"none", "zip"}

RollingFits(node) ==
    /\ Maybe(node, "archivetype", Archives) /\ Maybe(node, "maxrolls", DOMAIN Number)
    /\ \/ /\ Word(node, "type") = "size" /\ ~Has(node, "datepattern")
          /\ Has(node, "maxsize") /\ IsNumber(Value(node, "maxsize"))
       \/ Word(node, "type") = "date" /\ ~Has(node, "maxsize") /\ Has(node, "datepattern")

ValuesFit(node) ==
    CASE node.name = "filter" -> FilterFits(node)
      [] node.name = "buffered" -> BufferedFits(node)
      [] node.name = "conn" -> ConnFits(node)
      [] node.name = "custom" -> CustomFits(node)
      [] node.name = "smtp" -> SmtpFits(node)
      [] node.name = "rollingfile" -> RollingFits(node)
      [] OTHER -> TRUE

Fits(config, node) ==
    /\ node.name \in DOMAIN Element
    /\ Element[node.name].must \subseteq DOMAIN node.attributes
    /\ OnlyAttributes(node, Element[node.name].must \cup Element[node.name].may \cup {"formatid"})
    /\ (node.children # <<>>) = (node.name \in Nesting \cup {"smtp"})
    /\ HasFormat(config, node)
    /\ ValuesFit(node)

\* The receiver of an element, the i-th inside its parent.
Receiver(node, formatFromParent, i) ==
    [node |-> node, format |-> getCurrentFormat(document, node, formatFromParent), at |-> i]

\* createInnerReceivers: the i-th receiver inside the last one of a path.
Inner(path, i) ==
    Append(path, Receiver(Last(path).node.children[i], Last(path).format, i))

\* A buffered writer uses only its first inner receiver.
Used(path) == \A k \in 2..Len(path) : path[k - 1].node.name = "buffered" => path[k].at = 1

\* Wrong on purpose, to see NearestFormat fail: the writer inside may have its own format.
BufferedAnyFormat(node, format) ==
    /\ IsWriter(node.children[1].name)
    /\ NumberOf(node, "size") > 0 /\ NumberOf(node, "flushperiod") >= 0

\* What a buffered writer finds inside must be a writer of its own format.
Buffered(node, format) ==
    /\ IsWriter(node.children[1].name)
    /\ getCurrentFormat(document, node.children[1], format) = format
    /\ NumberOf(node, "size") > 0 /\ NumberOf(node, "flushperiod") >= 0

\* getOutputsTree: the element outputs is a splitter; without one there is a console.
Outputs(config) ==
    IF HasChild(config, "outputs") THEN [Child(config, "outputs") EXCEPT !.name = "splitter"]
    ELSE [Plain("splitter") EXCEPT !.children = <<Plain("console")>>]
-----------------------------------------------------------------------------
\* getloggerTypeFromStringData: the type and the numbers it needs.
Types == {"sync", "asyncloop", "asynctimer", "adaptive"}
Intervals == {"mininterval", "maxinterval", "critmsgcount"}

LoggerType(config) == IF Has(config, "type") THEN Value(config, "type") ELSE <<"asyncloop">>

LoggerDataFits(config) ==
    \E type \in Types :
      /\ LoggerType(config) = <<type>>
      /\ \A a \in (CASE type = "asynctimer" -> {"asyncinterval"}
                  [] type = "adaptive" -> Intervals
                  [] OTHER -> {}) : Has(config, a) /\ IsUint(Value(config, a))

\* newAsyncTimerLogger, newAsyncAdaptiveLogger: a maximum of 32 bits is below a minute.
TimerFits(config) == NumberOf(config, "asyncinterval") > 0
AdaptiveFits(config) ==
    NumberOf(config, "mininterval") > 0 /\ NumberOf(config, "critmsgcount") \in 1..1000

\* createLoggerFromConfig: a timer logger that is not made is "nil" without an error.
Logger(config) ==
    CASE ~LoggerDataFits(config) -> "error"
      [] LoggerDataFits(config) /\ LoggerType(config) = <<"asynctimer">> ->
           IF TimerFits(config) THEN "made" ELSE "nil"
      [] LoggerDataFits(config) /\ LoggerType(config) = <<"adaptive">> ->
           IF AdaptiveFits(config) THEN "made" ELSE "error"
      [] OTHER -> "made"

RootAttributes == {"minlevel", "maxlevel", "levels", "type", "asyncinterval"} \cup Intervals

RootFits(config) ==
    /\ config.name = "seelog"
    /\ OnlyAttributes(config, RootAttributes)
    /\ OnlyOnce(config, {"outputs", "formats", "exceptions"})
    /\ Constrains(config) /\ ExceptionsFit(config) /\ FormatsFit(config)

NoResult == [logger |-> "none", tree |-> {}]

ConfigInit == document \in Documents /\ result = NoResult /\ making = <<>> /\ done = 0

Root == Receiver(Outputs(document), Default, 1)

\* configFromReaderWithConfig, up to the receivers in the outputs.
Parse ==
    /\ result = NoResult
    /\ IF RootFits(document) /\ Fits(document, Root.node)
       THEN result' = [result EXCEPT !.logger = "parsing"] /\ making' = <<Root>>
       ELSE result' = [result EXCEPT !.logger = "error"] /\ UNCHANGED making
    /\ UNCHANGED <<document, done>>

this == Last(making)
HasNext == making # <<>> /\ done + 1 \in DOMAIN this.node.children

\* An error after receivers were made drops them and closes none: the dispatcher is nil
\* whenever getOutputsTree returns an error.
Fail ==
    /\ result' = [result EXCEPT !.logger = "error", !.tree = {}]
    /\ making' = <<>> /\ done' = 0

\* The receiver is there, if its dispatcher has a use for it.
Made(path) == result' = [result EXCEPT !.tree = IF Used(path) THEN @ \cup {path} ELSE @]

\* A constructor, up to its inner receivers if it has some.
Construct ==
    /\ HasNext
    /\ LET path == Inner(making, done + 1)
            node == Last(path).node
       IN  IF ~Fits(document, node) \/ Refuses(node) THEN Fail
           ELSE IF node.name \in Nesting
           THEN making' = path /\ done' = 0 /\ UNCHANGED result
           ELSE Made(path) /\ done' = done + 1 /\ UNCHANGED making
    /\ UNCHANGED document

\* The rest of a constructor, when its inner receivers are made.
Join ==
    /\ making # <<>> /\ ~HasNext
    /\ IF this.node.name = "buffered" /\ ~Buffered(this.node, this.format) THEN Fail
       ELSE Made(making) /\ making' = Front(making) /\ done' = this.at
    /\ UNCHANGED document

\* The rest of configFromReaderWithConfig, and LoggerFromConfigAsString.
Complete ==
    /\ result.logger = "parsing" /\ making = <<>>
    /\ result' = [result EXCEPT !.logger = Logger(document)]
    /\ UNCHANGED <<document, making, done>>

ConfigNext == Parse \/ Construct \/ Join \/ Complete

ConfigSpec == ConfigInit /\ [][ConfigNext]_configVars
-----------------------------------------------------------------------------
Accepted == result.logger \in {"made", "nil"}

\* The tree of a logger is whole: with a receiver it has those inside it, but for what a
\* buffered writer has no use for.
TreeWhole ==
    Accepted =>
      /\ <<Root>> \in result.tree
      /\ \A p \in result.tree : Last(p).node.name \in Nesting =>
           \A i \in DOMAIN Last(p).node.children :
             Used(Inner(p, i)) => Inner(p, i) \in result.tree

ConfigTypeOK ==
    /\ result.logger \in {"none", "parsing", "error", "nil", "made"}
    /\ \A p \in result.tree : p # <<>> /\ Last(p).node.name \in DOMAIN Element
    /\ \A k \in DOMAIN making : making[k].node.name \in Nesting
    /\ done \in Nat
    /\ TreeWhole

\* The outermost writer of a path formats the message, and those inside it are given the
\* text.  Whatever formats stand where, it is that of the nearest formatid above the
\* innermost one: the last of the document's formats of that id, then a predefined one.
NearestFormat ==
    Accepted => \A p \in result.tree :
      IsWriter(Last(p).node.name) =>
        LET formats == Child(document, "formats").children
            outermost == CHOOSE i \in DOMAIN p :
                           IsWriter(p[i].node.name) /\ ~IsWriter(p[i - 1].node.name)
            applied == p[outermost].format
            saying == {i \in DOMAIN p : Has(p[i].node, "formatid")}
            id == Word(p[Max(saying)].node, "formatid")
            own == {i \in DOMAIN formats : Word(formats[i], "id") = id}
        IN  CASE saying = {} -> applied = Default
              [] saying # {} /\ own = {} -> applied = <<"predefined", id>>
              [] OTHER -> applied = <<"formats", Max(own)>>

\* A logger, and an exception, lets no level through if and only if its document says
\* off: no order of levels, and no mixture of the three attributes, silences it.
SilentOnlyIfOff ==
    Accepted =>
      \A node \in {document} \cup ToSet(Child(document, "exceptions").children) :
        Constraints(node) = {} <=>
          \/ Has(node, "levels") /\ "off" \in ToSet(Value(node, "levels"))
          \/ Has(node, "minlevel") /\ Value(node, "minlevel") = <<"off">>
=============================================================================
