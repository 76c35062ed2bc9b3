---------------------------- MODULE SessionName ----------------------------
(***************************************************************************)
(* generateSessionName (container.go): the STS role session name of a      *)
(* container, built from the ends of its image name and container name and *)
(* the start of its id so that it fits the length limit.  Characters are   *)
(* opaque; what matters is which of them survive, and in which order.      *)
(***************************************************************************)
EXTENDS Naturals, Sequences

CONSTANTS
    Char,                \* characters of ids, names and image names
    InvalidChar,         \* those the session name regexp replaces
    Dash, Underscore,    \* the separator and the replacement
    maxSessionNameLen,   \* 32 in the code
    shortIDLen,          \* 6 in the code
    Containers           \* the containers docker may report

ASSUME SessionNameAssumption ==
    /\ InvalidChar \subseteq Char
    /\ {Dash, Underscore} \subseteq Char \ InvalidChar
    /\ shortIDLen \in Nat
    /\ maxSessionNameLen \in Nat
    /\ maxSessionNameLen >= shortIDLen + 2
    \* An even number of characters is left for the two names (32 - 8).  With an
    \* odd one the code would exceed the limit by a character: it rounds the
    \* image name's half up before giving it what the container name leaves.
    /\ (maxSessionNameLen - shortIDLen) % 2 = 0
    /\ \A c \in Containers :
         /\ c.id \in Seq(Char) /\ Len(c.id) >= shortIDLen
         /\ c.name \in Seq(Char) /\ Len(c.name) >= 1    \* its leading '/'
         /\ c.image \in Seq(Char)

VARIABLES
    container,   \* the inspected container: id, name (with its '/') and image
    session      \* the session name, << >> until it is generated

vars == <<container, session>>

\* a - b, or 0: the code clamps the difference with maxInt(0, a - b).
Excess(a, b) == IF a > b THEN a - b ELSE 0

\* Wrong on purpose, to see NameFits fail: one character too many.
LastCharsOffByOne(s, n) == IF n < Len(s) THEN SubSeq(s, Len(s) - n, Len(s)) ELSE s

\* The last n characters of s.
LastChars(s, n) == IF n < Len(s) THEN SubSeq(s, Len(s) - n + 1, Len(s)) ELSE s

\* Characters left for the two names, after the id and the two separators.
remaining == maxSessionNameLen - (shortIDLen + 2)

\* Wrong on purpose, to see NamesShareFairly fail: the container name gets only
\* what the whole image name leaves.
ContainerNameLast(c) == LastChars(Tail(c.name), Excess(remaining, Len(c.image)))

ContainerName(c) ==
    LET half == remaining \div 2
    IN  LastChars(Tail(c.name), half + Excess(half, Len(c.image)))

\* Wrong on purpose, to see NameIsFull fail: the image name is held to its half
\* whatever the container name leaves.
ImageNameHalf(c) == LastChars(c.image, (remaining + 1) \div 2)

ImageName(c) ==
    LET half == (remaining + 1) \div 2
    IN  LastChars(c.image, half + Excess(half, Len(ContainerName(c))))

\* Wrong on purpose, to see TypeOK fail: characters STS refuses are kept.
ReplaceNothing(s) == s

Replace(s) == [i \in DOMAIN s |-> IF s[i] \in InvalidChar THEN Underscore ELSE s[i]]

generateSessionName(c) ==
    Replace(ImageName(c) \o <<Dash>> \o ContainerName(c) \o <<Dash>>
              \o SubSeq(c.id, 1, shortIDLen))

Init == container \in Containers /\ session = << >>

Generate == session = << >> /\ session' = generateSessionName(container)
                            /\ UNCHANGED container

Next == Generate

Spec == Init /\ [][Next]_vars
-----------------------------------------------------------------------------
TypeOK == container \in Containers /\ session \in Seq(Char \ InvalidChar)

Generated == session # << >>

\* The name never exceeds maxSessionNameLen, whatever the lengths of the
\* container and image names: STS would reject the whole AssumeRole call.
NameFits == Len(session) <= maxSessionNameLen

\* Nothing that would have fit is cut: either the whole text is there or the
\* name is exactly as long as allowed (container.go:192-194: the characters one
\* name leaves unused are given to the other).
NameIsFull ==
    Generated =>
      LET full == Len(container.image) + Len(Tail(container.name)) + shortIDLen + 2
      IN  Len(session) = full \/ Len(session) = maxSessionNameLen

\* Neither name is crowded out: each keeps its half of the characters, or all
\* of itself when it is shorter than that (container.go:192).
NamesShareFairly ==
    LET half == remaining \div 2
        Keeps(kept, name) == Len(kept) >= half \/ kept = name
    IN  Generated =>
          /\ Keeps(ContainerName(container), Tail(container.name))
          /\ Keeps(ImageName(container), container.image)
          /\ Len(session) = Len(ImageName(container))
                              + Len(ContainerName(container)) + shortIDLen + 2
=============================================================================
