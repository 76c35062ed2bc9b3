--------------------------- MODULE MCLogDocuments ---------------------------
(***************************************************************************)
(* Configurations of seelog for TLC: trees of receivers up to depth two,   *)
(* rules of levels and exceptions, types of loggers, and shapes the parser *)
(* refuses.                                                                *)
(***************************************************************************)
EXTENDS Integers, Sequences, TLC

el(name, attributes, children) == [name |-> name, attributes |-> attributes, children |-> children]
at(name, word) == name :> <<word>>
none == <<>>

MCNumber == [n \in {"-1", "0", "1", "500"} |->
               CASE n = "-1" -> -1 [] n = "0" -> 0 [] n = "1" -> 1 [] OTHER -> 500]
MCNormalForm == [p \in {"*", "**", "main.*", "main.**"} |-> IF p \in {"*", "**"} THEN "*" ELSE "main.*"]

mail == at("senderaddress", "a") @@ at("sendername", "b") @@ at("hostname", "h")
          @@ at("username", "u") @@ at("password", "p")

leaves == {
    el("console", none, none), el("console", at("formatid", "out"), none),
    el("file", at("path", "f") @@ at("formatid", "std:fast"), none), el("file", none, none),
    el("conn", at("addr", "a") @@ at("net", "tcp") @@ at("reconnectonmsg", "true"), none),
    el("conn", at("addr", "a") @@ at("net", "tcp") @@ at("reconnectonmsg", "1"), none),
    el("custom", at("name", "pager") @@ at("data-key", "k"), none),
    el("custom", at("name", "refusing"), none), el("custom", at("name", "unknown"), none),
    el("rollingfile", at("type", "size") @@ at("filename", "r") @@ at("maxsize", "500")
                        @@ at("archivetype", "zip"), none),
    el("rollingfile", at("type", "date") @@ at("filename", "r") @@ at("maxsize", "1"), none),
    el("smtp", mail @@ at("hostport", "500"), <<el("recipient", at("address", "x"), none)>>),
    el("smtp", mail @@ at("hostport", "port"), <<el("cacertdirpath", at("path", "x"), none)>>),
    el("console", at("formatid", "missing"), none), el("console", none, <<el("console", none, none)>>) }

some == {<<>>} \cup {<<a>> : a \in leaves} \cup {<<a, b>> : a, b \in leaves}

nests == {el("splitter", at("formatid", "std:json"), s) : s \in some}
    \cup {el("splitter", none, s) : s \in some}
    \cup {el("filter", "levels" :> <<"error", "critical">>, s) : s \in some}
    \cup {el("filter", "levels" :> <<"loud">>, s) : s \in {t \in some : Len(t) = 1}}
    \cup {el("buffered", at("size", n) @@ at("flushperiod", "0"), s) : n \in {"1", "0"}, s \in some}
    \cup {el("buffered", at("size", "1") @@ at("formatid", "out"), s) : s \in some}

formats == el("formats", none, <<el("format", at("id", "out") @@ at("format", "%Msg"), none),
                                 el("format", at("id", "std:fast") @@ at("format", "%Msg"), none),
                                 el("format", at("id", "out") @@ at("format", "%Date %Msg"), none)>>)

doc(attributes, children) == el("seelog", attributes, children)

deep == {el("splitter", none, <<n>>) : n \in
           {el("buffered", at("size", "1"), <<el("buffered", at("size", "1") @@ a, <<l>>)>>) :
              a \in {none, at("formatid", "out")}, l \in leaves}}

trees == {doc(none, <<el("outputs", a, <<c, n>>), formats>>) :
            a \in {none, at("formatid", "out")}, n \in nests \cup deep,
            c \in {el("console", none, none), el("custom", at("name", "pager"), none)}}

choice(attr, values) == {none} \cup {attr :> v : v \in values}
bounds == {a @@ b @@ c : a \in choice("minlevel", {<<"off">>, <<"info">>, <<"error">>}),
                         b \in choice("maxlevel", {<<"off">>, <<"info">>, <<"loud">>}),
                         c \in choice("levels", {<<"off">>, <<"off", "info">>, <<"info", "warn">>})}

patterns == {a @@ b : a \in choice("funcpattern", {<<"**">>, <<"main.*">>, <<"main.**">>, <<"!">>}),
                      b \in choice("filepattern", {<<"*">>, <<"main.*">>})}

rules == {doc(b, <<>>) : b \in bounds}
    \cup {doc(none, <<el("exceptions", none, <<el("exception", b, none)>>)>>) : b \in bounds}
    \cup {doc(none, <<el("exceptions", none, <<el("exception", a, none), el("exception", b, none)>>)>>) :
             a, b \in patterns}

ints == {"-1", "0", "1", "500", "many"}
types == {doc(a @@ b, <<>>) : a \in {at("type", t) : t \in {"sync", "asyncloop", "asynctimer", "lazy"}},
                              b \in choice("asyncinterval", {<<i>> : i \in ints})}
    \cup {doc(at("type", "adaptive") @@ at("mininterval", i) @@ at("maxinterval", j)
                 @@ at("critmsgcount", k), <<>>) : i, j, k \in ints}

shapes == {el("other", none, <<>>), doc(at("colour", "red"), <<>>),
           doc(none, <<formats, formats>>), doc(none, <<el("inputs", none, none)>>),
           doc(none, <<el("formats", none, none)>>),
           doc(none, <<el("formats", none, <<el("format", at("id", "out"), none)>>)>>),
           doc(none, <<el("formats", none, <<el("format", at("id", "out") @@ at("format", "%"), none)>>)>>),
           doc(none, <<el("outputs", at("levels", "info"), none)>>),
           doc(none, <<el("outputs", none, <<el("bogus", none, none)>>)>>),
           \* configureLogging of main.go
           doc(at("minlevel", "info"), <<el("outputs", at("formatid", "out"), <<el("console", none, none)>>), formats>>)}

MCDocuments == trees \cup rules \cup types \cup shapes
====
