------------------------------ MODULE RoleNames ------------------------------
(***************************************************************************)
(* What becomes of a role ARN: NewRoleArn (role.go) splits it into path    *)
(* and name with a regular expression, and handleCredentials (main.go)     *)
(* lists the name and compares it with what the client asks for.  Texts    *)
(* are sequences over a small alphabet in which only '/' and ':' count.    *)
(***************************************************************************)
EXTENDS Naturals, Sequences, FiniteSetsExt, SequencesExt

CONSTANTS
    Slash, Colon,   \* the characters the code looks at
    Letter,         \* all others
    MaxValueLen,    \* bound: length of an ARN after ".*:role/"
    MaxSubpathLen   \* bound: length of a requested subpath

RoleNamesAssumption ==
    Slash \notin Letter /\ Colon \notin Letter /\ Slash # Colon

VARIABLES
    arn,       \* the parsed ARN: its text after ".*:role/", path and name
    subpath,   \* what follows ".../iam/security-credentials/" in the request
    response   \* what the handler answered, "none" before that

roleVars == <<arn, subpath, response>>

ArnChar == Letter \cup {Slash, Colon}

\* A value that is not a role ARN: roleArnRegex does not match.
Invalid == [value |-> << >>, path |-> << >>, name |-> << >>]

\* Wrong on purpose, to see NameIsLastSegment fail: ([^:]+?/)? takes the first
\* slash instead of the last one.
PathEndFirst(value) ==
    LET ends == {i \in 2..(Len(value) - 1) : value[i] = Slash}
    IN  IF ends = {} THEN 0 ELSE Min(ends)

\* Where ([^:]+/)? ends: at the last slash that has something on both sides.
PathEnd(value) ==
    LET ends == {i \in 2..(Len(value) - 1) : value[i] = Slash}
    IN  IF ends = {} THEN 0 ELSE Max(ends)

\* value is what follows "arn:aws:iam::<digits>:role/"; without that start the
\* regular expression does not match either.
NewRoleArn(value) ==
    IF value = << >> \/ Colon \in ToSet(value) THEN Invalid
    ELSE [value |-> value,
          path  |-> <<Slash>> \o SubSeq(value, 1, PathEnd(value)),
          name  |-> SubSeq(value, PathEnd(value) + 1, Len(value))]

RoleName == arn.name

\* The code's condition: Go's subpath[len(roleName)-1] is the last character of
\* the name, and not the one that follows it.
NotTheRole(p) ==
    \/ ~IsPrefix(RoleName, p)
    \/ Len(p) > Len(RoleName) /\ p[Len(RoleName)] # Slash

\* handleCredentials, once RoleForIP has returned a role.
Answer(p) ==
    IF p = << >> THEN "list"
    ELSE IF NotTheRole(p) THEN "notFound" ELSE "credentials"

RoleInit ==
    /\ arn \in {NewRoleArn(v) : v \in BoundedSeq(ArnChar, MaxValueLen)} \ {Invalid}
    /\ subpath = << >>
    /\ response = "none"

handleCredentials ==
    /\ response = "none"
    /\ subpath' \in BoundedSeq(ArnChar, MaxSubpathLen)
    /\ response' = Answer(subpath')
    /\ UNCHANGED arn

RoleNext == handleCredentials

RoleSpec == RoleInit /\ [][RoleNext]_roleVars
-----------------------------------------------------------------------------
RoleTypeOK ==
    /\ LET Text == Seq(ArnChar \ {Colon})
       IN  arn \in [value : Text, path : Text, name : Text]
    /\ subpath \in Seq(ArnChar)
    /\ response \in {"none", "list", "notFound", "credentials"}

\* Path and name are the whole of the ARN's last part, and the name is not empty
\* (main.go:210 indexes the subpath with its length).
ArnReassembles ==
    /\ arn.path \o arn.name = <<Slash>> \o arn.value
    /\ arn.name # << >>
    /\ Last(arn.path) = Slash

\* The name is the last segment of the ARN: it has no slash inside, so that the
\* path of a role in nested paths is never taken for a part of its name.
NameIsLastSegment ==
    \A i \in 2..(Len(arn.name) - 1) : arn.name[i] # Slash

\* A client that reads the listing and asks for the name it got, as the AWS
\* clients do, is served, whatever the name.
ListedNameServed ==
    response # "none" /\ subpath = RoleName => response = "credentials"

\* A name that only starts with the role's is another role's: not found.
PrefixIsNotEnough ==
    response = "credentials" /\ Slash \notin ToSet(RoleName) =>
      /\ IsPrefix(RoleName, subpath)
      /\ subpath = RoleName \/ subpath[Len(RoleName) + 1] = Slash

\* The name split off a role's ARN is its last segment, and the one under which the proxy
\* lists and serves the role.
NamesServed == ArnReassembles /\ NameIsLastSegment /\ ListedNameServed /\ PrefixIsNotEnough

\* "So long as the correct role name is provided, it can be followed by a slash
\* and anything after the slash is ignored" (main.go:211-213).
SlashAndRestIgnored ==
    response # "none" /\ IsPrefix(Append(RoleName, Slash), subpath) =>
      response = "credentials"
=============================================================================
