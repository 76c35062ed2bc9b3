---------------------------- MODULE TextsProofs ----------------------------
(***************************************************************************)
(* What is made of texts of every length: the session name of a container, *)
(* for every limit; the path and name of a role ARN, over any alphabet,    *)
(* with the requests that name it; the levels and formats that a           *)
(* configuration of seelog's gets, for documents of every depth; and what  *)
(* kingpin reads, for every application and command line.                  *)
(***************************************************************************)
EXTENDS SessionName, RoleNames, LogConfig, Kingpin, FiniteSetTheorems, SequenceTheorems,
        WellFoundedInduction, TLAPS

\* LastChars(s, n) is s itself when it fits, and n characters otherwise.
LEMMA LastCharsLen ==
    ASSUME NEW S, NEW s \in Seq(S), NEW n \in Nat
    PROVE  /\ LastChars(s, n) \in Seq(S)
           /\ Len(LastChars(s, n)) = IF n < Len(s) THEN n ELSE Len(s)
           /\ Len(LastChars(s, n)) = Len(s) => LastChars(s, n) = s
<1>1. CASE n < Len(s)
  <2>1. SubSeq(s, Len(s) - n + 1, Len(s)) \in Seq(S)
    BY <1>1
  <2>2. Len(SubSeq(s, Len(s) - n + 1, Len(s))) = n
    BY <1>1
  <2> QED  BY <1>1, <2>1, <2>2 DEF LastChars
<1>2. CASE ~(n < Len(s))
  BY <1>2 DEF LastChars
<1> QED  BY <1>1, <1>2

\* Concatenation adds lengths.
LEMMA ConcatLen ==
    ASSUME NEW S, NEW s \in Seq(S), NEW t \in Seq(S)
    PROVE  s \o t \in Seq(S) /\ Len(s \o t) = Len(s) + Len(t)
OBVIOUS

\* The clamped difference is a natural number.
LEMMA ExcessNat == ASSUME NEW a \in Nat, NEW b \in Nat PROVE Excess(a, b) \in Nat
BY DEF Excess

\* The arithmetic of the split: of names of N and I characters, n and i are
\* kept, h being half of what is left for them.
LEMMA HalvesSplit ==
    ASSUME NEW h \in Nat, NEW I \in Nat, NEW N \in Nat, NEW i \in Nat, NEW n \in Nat,
           n = IF h + Excess(h, I) < N THEN h + Excess(h, I) ELSE N,
           i = IF h + Excess(h, n) < I THEN h + Excess(h, n) ELSE I
    PROVE  /\ i + n <= 2 * h
           /\ n >= h \/ n = N
           /\ i >= h \/ i = I
           /\ i + n = 2 * h \/ (i = I /\ n = N)
BY DEF Excess

\* Replacing characters keeps the length and leaves only valid characters.
LEMMA ReplaceLen ==
    ASSUME NEW s \in Seq(Char)
    PROVE  /\ Replace(s) \in Seq(Char \ InvalidChar)
           /\ Len(Replace(s)) = Len(s)
<1> DEFINE n == Len(s)
<1>1. n \in Nat /\ s \in [1..n -> Char] /\ DOMAIN s = 1..n
  BY LenProperties
<1>2. Replace(s) \in [1..n -> Char \ InvalidChar]
  BY <1>1, SessionNameAssumption DEF Replace
<1>3. Replace(s) \in Seq(Char \ InvalidChar)
  BY <1>1, <1>2, SeqDef
<1>4. Len(Replace(s)) = n
  BY <1>1, <1>2, <1>3, LenProperties
<1> QED  BY <1>3, <1>4

\* What is left for the names is twice its half, rounded either way.
LEMMA Halves ==
    \E h \in Nat : /\ remaining = 2 * h
                  /\ remaining \div 2 = h
                  /\ (remaining + 1) \div 2 = h
                  /\ maxSessionNameLen = 2 * h + shortIDLen + 2
<1>1. remaining \in Nat /\ remaining + shortIDLen + 2 = maxSessionNameLen
  BY SessionNameAssumption DEF remaining
<1>2. remaining % 2 = 0
  BY <1>1, SessionNameAssumption
<1> DEFINE h == remaining \div 2
<1>3. h \in Nat /\ remaining = 2 * h /\ (remaining + 1) \div 2 = h
  BY <1>1, <1>2
<1> QED  BY <1>1, <1>3, SessionNameAssumption

\* What is kept of the two names, and the length of the name made of them.
LEMMA Lengths ==
    ASSUME NEW c \in Containers
    PROVE  LET i == Len(ImageName(c))
               n == Len(ContainerName(c))
           IN  /\ i \in Nat /\ n \in Nat /\ i + n + shortIDLen + 2 <= maxSessionNameLen
               /\ n >= remaining \div 2 \/ ContainerName(c) = Tail(c.name)
               /\ i >= remaining \div 2 \/ ImageName(c) = c.image
               /\ \/ i + n + shortIDLen + 2 = maxSessionNameLen
                  \/ i = Len(c.image) /\ n = Len(Tail(c.name))
               /\ generateSessionName(c) \in Seq(Char \ InvalidChar)
               /\ Len(generateSessionName(c)) = i + n + shortIDLen + 2
<1> DEFINE I == Len(c.image)
           N == Len(Tail(c.name))
           n == Len(ContainerName(c))
           i == Len(ImageName(c))
<1>1. PICK h \in Nat : /\ remaining \div 2 = h
                      /\ (remaining + 1) \div 2 = h
                      /\ maxSessionNameLen = 2 * h + shortIDLen + 2
  BY Halves
<1>3. I \in Nat /\ c.image \in Seq(Char) /\ Tail(c.name) \in Seq(Char) /\ N \in Nat
  BY SessionNameAssumption
<1>4. h + Excess(h, I) \in Nat
  BY <1>3 DEF Excess
<1>5. /\ ContainerName(c) \in Seq(Char) /\ n \in Nat
      /\ n = IF h + Excess(h, I) < N THEN h + Excess(h, I) ELSE N
      /\ n = N => ContainerName(c) = Tail(c.name)
  <2>1. ContainerName(c) = LastChars(Tail(c.name), h + Excess(h, I))
    BY <1>1 DEF ContainerName
  <2> QED  BY <2>1, <1>3, <1>4, LastCharsLen
<1>6. h + Excess(h, n) \in Nat
  BY <1>5 DEF Excess
<1>7. /\ ImageName(c) \in Seq(Char) /\ i \in Nat
      /\ i = IF h + Excess(h, n) < I THEN h + Excess(h, n) ELSE I
      /\ i = I => ImageName(c) = c.image
  <2>1. ImageName(c) = LastChars(c.image, h + Excess(h, n))
    BY <1>1 DEF ImageName
  <2> QED  BY <2>1, <1>3, <1>6, LastCharsLen
<1> DEFINE id == SubSeq(c.id, 1, shortIDLen)
           text == ImageName(c) \o <<Dash>> \o ContainerName(c) \o <<Dash>> \o id
<1>8. id \in Seq(Char) /\ Len(id) = shortIDLen
  BY SessionNameAssumption
<1>9. <<Dash>> \in Seq(Char) /\ Len(<<Dash>>) = 1
  BY SessionNameAssumption
<1>10. text \in Seq(Char) /\ Len(text) = i + n + shortIDLen + 2
  <2> DEFINE t1 == ImageName(c) \o <<Dash>>
             t2 == t1 \o ContainerName(c)
             t3 == t2 \o <<Dash>>
  <2> HIDE DEF id
  <2>1. t1 \in Seq(Char) /\ Len(t1) = i + 1
    BY <1>7, <1>9, ConcatLen
  <2>2. t2 \in Seq(Char) /\ Len(t2) = i + 1 + n
    <3> HIDE DEF t1
    <3> QED  BY <2>1, <1>5, ConcatLen
  <2>3. t3 \in Seq(Char) /\ Len(t3) = i + 1 + n + 1
    <3> HIDE DEF t2
    <3> QED  BY <2>2, <1>9, ConcatLen
  <2>4. t3 \o id \in Seq(Char) /\ Len(t3 \o id) = i + 1 + n + 1 + shortIDLen
    <3> HIDE DEF t3
    <3> QED  BY <2>3, <1>8, ConcatLen
  <2>5. i + 1 + n + 1 + shortIDLen = i + n + shortIDLen + 2
    <3>1. i \in Nat /\ n \in Nat /\ shortIDLen \in Nat
      BY <1>5, <1>7, SessionNameAssumption
    <3> HIDE DEF i, n
    <3> QED  BY <3>1
  <2> QED  BY <2>4, <2>5
<1>11. /\ generateSessionName(c) \in Seq(Char \ InvalidChar)
       /\ Len(generateSessionName(c)) = i + n + shortIDLen + 2
  BY <1>10, ReplaceLen DEF generateSessionName
<1>12. /\ i + n <= 2 * h
       /\ n >= h \/ n = N
       /\ i >= h \/ i = I
       /\ i + n = 2 * h \/ (i = I /\ n = N)
  <2>1. /\ I \in Nat /\ N \in Nat /\ i \in Nat /\ n \in Nat
        /\ n = IF h + Excess(h, I) < N THEN h + Excess(h, I) ELSE N
        /\ i = IF h + Excess(h, n) < I THEN h + Excess(h, n) ELSE I
    BY <1>3, <1>5, <1>7
  <2> HIDE DEF i, n, I, N
  <2> QED  BY <2>1, HalvesSplit
<1>13. /\ i + n + shortIDLen + 2 <= maxSessionNameLen
       /\ i + n = 2 * h => i + n + shortIDLen + 2 = maxSessionNameLen
  <2> HIDE DEF i, n
  <2> QED  BY <1>1, <1>5, <1>7, <1>12, SessionNameAssumption
<1> QED  BY <1>1, <1>5, <1>7, <1>11, <1>12, <1>13

-----------------------------------------------------------------------------
\* The name, once there, is the one generated for the container.
IInv == container \in Containers /\ session \in {<< >>, generateSessionName(container)}

\* The state only ever holds inputs and the name made of them.
LEMMA IInvHolds == Spec => []IInv
<1>1. Init => IInv
  BY DEF Init, IInv
<1>2. IInv /\ [Next]_vars => IInv'
  BY DEF IInv, Next, Generate, vars
<1> QED  BY <1>1, <1>2, PTL DEF Spec

\* No session name is longer than the limit (generateSessionName).
THEOREM SessionNameFits == Spec => []NameFits
<1>1. IInv => NameFits
  BY Lengths, SessionNameAssumption DEF IInv, NameFits
<1> QED  BY <1>1, IInvHolds, PTL

\* Nothing that would have fit is cut (container.go:192-194).
THEOREM SessionNameIsFull == Spec => []NameIsFull
<1>1. IInv => NameIsFull
  BY Lengths, SessionNameAssumption DEF IInv, NameIsFull, Generated
<1> QED  BY <1>1, IInvHolds, PTL

\* Neither of the two names is cut below its half (container.go:192).
THEOREM SessionNamesShareFairly == Spec => []NamesShareFairly
<1>1. IInv => NamesShareFairly
  BY Lengths, SessionNameAssumption DEF IInv, NamesShareFairly, Generated
<1> QED  BY <1>1, IInvHolds, PTL

\* No session name has a character that STS refuses, whatever names docker reports.
THEOREM SessionNamesAreValid == Spec => []TypeOK
<1>1. IInv => TypeOK
  <2> SUFFICES ASSUME IInv
               PROVE  TypeOK
    OBVIOUS
  <2>1. generateSessionName(container) \in Seq(Char \ InvalidChar)
    BY Lengths DEF IInv
  <2>2. << >> \in Seq(Char \ InvalidChar)
    BY EmptySeq
  <2> QED  BY <2>1, <2>2 DEF IInv, TypeOK
<1> QED  BY <1>1, IInvHolds, PTL
-----------------------------------------------------------------------------
ArnText == Seq(ArnChar)

\* A bounded set of numbers has a greatest element.
LEMMA GreatestIs ==
    ASSUME NEW n \in Nat, NEW T \in SUBSET (0..n), T # {}
    PROVE  Max(T) \in T /\ \A y \in T : Max(T) >= y
<1> DEFINE D == {n - x : x \in T}
<1>1. D \subseteq Nat /\ D # {}
  OBVIOUS
<1>2. PICK d \in D : \A y \in D : ~ (<<y, d>> \in OpToRel(<, Nat))
  BY <1>1, NatLessThanWellFounded, WFMin
<1>3. \A y \in D : ~ (y < d)
  BY <1>1, <1>2 DEF OpToRel
<1>4. PICK x \in T : d = n - x
  BY <1>2
<1>5. \A y \in T : x >= y
  BY <1>3, <1>4
<1>6. \E z \in T : \A y \in T : z >= y
  BY <1>5
<1> QED  BY <1>6 DEF Max

\* The path ends at the last slash that is neither the first nor the last character, or is
\* empty where there is none.
LEMMA PathEndIs ==
    ASSUME NEW v \in ArnText, v # << >>
    PROVE  /\ PathEnd(v) \in 0..(Len(v) - 1)
           /\ PathEnd(v) # 0 => v[PathEnd(v)] = Slash
           /\ \A i \in 2..(Len(v) - 1) : v[i] = Slash => i <= PathEnd(v)
<1> DEFINE ends == {i \in 2..(Len(v) - 1) : v[i] = Slash}
<1>1. Len(v) \in Nat \ {0}
  BY EmptySeq, LenProperties DEF ArnText
<1>2. PathEnd(v) = IF ends = {} THEN 0 ELSE Max(ends)
  BY DEF PathEnd
<1>a. ends \in SUBSET (0..Len(v)) /\ Len(v) \in Nat
  BY <1>1
<1> HIDE DEF ends
<1>3. ends # {} => Max(ends) \in ends /\ \A y \in ends : Max(ends) >= y
  BY <1>a, GreatestIs
<1>4. CASE ends = {}
  BY <1>1, <1>2, <1>4 DEF ends
<1>5. CASE ends # {}
  BY <1>1, <1>2, <1>3, <1>5 DEF ends
<1> QED  BY <1>4, <1>5

\* NewRoleArn cuts the text in two and loses nothing.
LEMMA NewRoleArnSplits ==
    ASSUME NEW v \in ArnText, v # << >>, Colon \notin ToSet(v)
    PROVE  LET a == NewRoleArn(v)  e == PathEnd(v)
           IN  /\ a.value = v
               /\ a.path = <<Slash>> \o SubSeq(v, 1, e) /\ a.name = SubSeq(v, e + 1, Len(v))
               /\ SubSeq(v, 1, e) \in ArnText /\ Len(SubSeq(v, 1, e)) = e
               /\ a.path \in ArnText /\ Len(a.path) = e + 1
               /\ a.path[e + 1] = Slash
               /\ a.name \in ArnText /\ Len(a.name) = Len(v) - e
               /\ \A i \in 1..(Len(v) - e) : a.name[i] = v[e + i]
<1> DEFINE a == NewRoleArn(v)
           e == PathEnd(v)
           s == SubSeq(v, 1, e)
           t == SubSeq(v, e + 1, Len(v))
<1>1. a = [value |-> v, path |-> <<Slash>> \o s, name |-> t]
  BY DEF NewRoleArn
<1>2. /\ e \in 0..(Len(v) - 1) /\ (e # 0 => v[e] = Slash)
      /\ Len(v) \in Nat \ {0} /\ \A i \in 1..Len(v) : v[i] \in ArnChar
  BY PathEndIs, EmptySeq, LenProperties DEF ArnText
<1> HIDE DEF a, e
<1>3. s \in ArnText /\ Len(s) = e /\ \A i \in 1..e : s[i] = v[i]
  BY <1>2, SubSeqProperties DEF ArnText
<1>4. t \in ArnText /\ Len(t) = Len(v) - e /\ \A i \in 1..(Len(v) - e) : t[i] = v[e + i]
  BY <1>2, SubSeqProperties DEF ArnText
<1>5. <<Slash>> \in ArnText /\ Len(<<Slash>>) = 1 /\ <<Slash>>[1] = Slash
  BY DEF ArnText, ArnChar
<1> HIDE DEF s, t
<1>6. /\ <<Slash>> \o s \in ArnText /\ Len(<<Slash>> \o s) = e + 1
      /\ (<<Slash>> \o s)[e + 1] = Slash
  BY <1>2, <1>3, <1>5, ConcatProperties DEF ArnText
<1>7. a.value = v /\ a.path = <<Slash>> \o s /\ a.name = t
  BY <1>1
<1> QED  BY <1>3, <1>4, <1>6, <1>7 DEF a, e, s, t

\* Before and after the answer.
Inv ==
    /\ arn.value \in ArnText /\ arn.value # << >> /\ Colon \notin ToSet(arn.value)
    /\ arn = NewRoleArn(arn.value)
    /\ subpath \in ArnText
    /\ response \in {"none", Answer(subpath)}
\* Only an ARN that was taken apart gets a container its role.
LEMMA NamesInit == ASSUME RoleInit PROVE Inv
<1>1. PICK v \in BoundedSeq(ArnChar, MaxValueLen) : arn = NewRoleArn(v) /\ arn # Invalid
  BY DEF RoleInit
<1>2. v \in ArnText
  BY <1>1 DEF BoundedSeq, SeqOf, ArnText
<1>3. v # << >> /\ Colon \notin ToSet(v)
  BY <1>1 DEF NewRoleArn
<1>4. arn.value = v
  BY <1>1, <1>2, <1>3, NewRoleArnSplits
<1>5. << >> \in ArnText
  BY EmptySeq DEF ArnText
<1> QED  BY <1>1, <1>2, <1>3, <1>4, <1>5 DEF RoleInit, Inv

\* A request leaves the ARN alone.
LEMMA NamesStep == ASSUME Inv, [RoleNext]_roleVars PROVE Inv'
<1>1. CASE UNCHANGED roleVars
  BY <1>1 DEF roleVars, Inv, Answer, NotTheRole, RoleName
<1>2. CASE handleCredentials
  <2>1. subpath' \in ArnText /\ response' = Answer(subpath') /\ arn' = arn
    BY <1>2 DEF handleCredentials, BoundedSeq, SeqOf, ArnText
  <2>2. Answer(subpath)' = Answer(subpath')
    BY <2>1 DEF Answer, NotTheRole, RoleName
  <2> QED  BY <2>1, <2>2 DEF Inv
<1> QED  BY <1>1, <1>2 DEF RoleNext

\* Where the ARN's text was cut, with what is known of both halves.
LEMMA Cut ==
    ASSUME Inv
    PROVE  \E e \in 0..(Len(arn.value) - 1) :
             /\ arn.path = <<Slash>> \o SubSeq(arn.value, 1, e)
             /\ arn.name = SubSeq(arn.value, e + 1, Len(arn.value))
             /\ arn.path \in ArnText /\ Len(arn.path) = e + 1 /\ arn.path[e + 1] = Slash
             /\ arn.name \in ArnText /\ Len(arn.name) = Len(arn.value) - e
             /\ \A i \in 1..(Len(arn.value) - e) : arn.name[i] = arn.value[e + i]
             /\ \A i \in 2..(Len(arn.value) - 1) : arn.value[i] = Slash => i <= e
<1> DEFINE v == arn.value
<1>1. arn = NewRoleArn(v) /\ v \in ArnText /\ v # << >> /\ Colon \notin ToSet(v)
  BY DEF Inv
<1> HIDE DEF v
<1>2. LET a == NewRoleArn(v)  e == PathEnd(v)
      IN  /\ a.path = <<Slash>> \o SubSeq(v, 1, e) /\ a.name = SubSeq(v, e + 1, Len(v))
          /\ a.path \in ArnText /\ Len(a.path) = e + 1 /\ a.path[e + 1] = Slash
          /\ a.name \in ArnText /\ Len(a.name) = Len(v) - e
          /\ \A i \in 1..(Len(v) - e) : a.name[i] = v[e + i]
  BY <1>1, NewRoleArnSplits
<1>3. /\ PathEnd(v) \in 0..(Len(v) - 1)
      /\ \A i \in 2..(Len(v) - 1) : v[i] = Slash => i <= PathEnd(v)
  BY <1>1, PathEndIs
<1>4. \E e \in 0..(Len(v) - 1) :
        /\ arn.path = <<Slash>> \o SubSeq(v, 1, e)
        /\ arn.name = SubSeq(v, e + 1, Len(v))
        /\ arn.path \in ArnText /\ Len(arn.path) = e + 1 /\ arn.path[e + 1] = Slash
        /\ arn.name \in ArnText /\ Len(arn.name) = Len(v) - e
        /\ \A i \in 1..(Len(v) - e) : arn.name[i] = v[e + i]
        /\ \A i \in 2..(Len(v) - 1) : v[i] = Slash => i <= e
  BY <1>1, <1>2, <1>3
<1> QED  BY <1>4 DEF v

\* The cut loses nothing, and leaves the name something.
LEMMA Reassembles == ASSUME Inv PROVE ArnReassembles
<1> DEFINE v == arn.value
<1>1. v \in ArnText /\ v # << >> /\ Len(v) \in Nat \ {0}
  BY EmptySeq DEF Inv, ArnText
<1>2. PICK e \in 0..(Len(v) - 1) :
        /\ arn.path = <<Slash>> \o SubSeq(v, 1, e) /\ arn.name = SubSeq(v, e + 1, Len(v))
        /\ arn.path \in ArnText /\ Len(arn.path) = e + 1 /\ arn.path[e + 1] = Slash
        /\ arn.name \in ArnText /\ Len(arn.name) = Len(v) - e
  BY Cut
<1> HIDE DEF v
<1>3. <<Slash>> \in ArnText /\ SubSeq(v, 1, e) \in ArnText /\ arn.name \in ArnText
  <2>1. \A i \in 1..Len(v) : v[i] \in ArnChar
    BY <1>1, ElementOfSeq DEF ArnText
  <2>2. SubSeq(v, 1, e) \in ArnText
    BY <1>1, <2>1, SubSeqProperties DEF ArnText
  <2> QED  BY <1>2, <2>2 DEF ArnText, ArnChar
<1>4. SubSeq(v, 1, e) \o SubSeq(v, e + 1, Len(v)) = v
  <2>1. SubSeq(v, 1, e) \o SubSeq(v, e + 1, Len(v)) = SubSeq(v, 1, Len(v))
    <3>1. 1 \in 1..(Len(v) + 1) /\ e \in (1 - 1)..Len(v) /\ Len(v) \in e..Len(v)
      BY <1>1
    <3> QED  BY <1>1, <3>1, ConcatAdjacentSubSeq DEF ArnText
  <2> QED  BY <1>1, <2>1, SubSeqFull DEF ArnText
<1>5. arn.path \o arn.name = <<Slash>> \o (SubSeq(v, 1, e) \o arn.name)
  <2> DEFINE h == <<Slash>>
             s == SubSeq(v, 1, e)
             t == arn.name
  <2>1. h \in ArnText /\ s \in ArnText /\ t \in ArnText /\ arn.path = h \o s
    BY <1>2, <1>3
  <2> HIDE DEF h, s, t
  <2>2. (h \o s) \o t = h \o (s \o t)
    BY <2>1, ConcatAssociative DEF ArnText
  <2>3. arn.path \o t = h \o (s \o t)
    BY <2>1, <2>2
  <2> QED  BY <2>3 DEF h, s, t
<1>6. arn.path \o arn.name = <<Slash>> \o v
  BY <1>2, <1>4, <1>5
<1>7. arn.name # << >> /\ Last(arn.path) = Slash
  <2>1. Len(arn.name) # 0
    <3>1. Len(v) - e # 0
      BY <1>1
    <3> QED  BY <1>2, <3>1
  <2>2. Len(<< >>) = 0
    OBVIOUS
  <2>3. arn.path[Len(arn.path)] = Slash
    BY <1>2
  <2> QED  BY <2>1, <2>2, <2>3 DEF Last
<1> QED  BY <1>6, <1>7 DEF ArnReassembles, v

\* No slash behind the cut, but for a last character.
LEMMA LastSegment == ASSUME Inv PROVE NameIsLastSegment
<1>1. Len(arn.value) \in Nat
  BY LenProperties DEF Inv, ArnText
<1>2. PICK e \in 0..(Len(arn.value) - 1) :
        /\ Len(arn.name) = Len(arn.value) - e
        /\ \A i \in 1..(Len(arn.value) - e) : arn.name[i] = arn.value[e + i]
        /\ \A i \in 2..(Len(arn.value) - 1) : arn.value[i] = Slash => i <= e
  BY Cut
<1> SUFFICES ASSUME NEW i \in 2..(Len(arn.name) - 1)
             PROVE  arn.name[i] # Slash
  BY DEF NameIsLastSegment
<1>3. e + i \in 2..(Len(arn.value) - 1) /\ e + i > e /\ i \in 1..(Len(arn.value) - e)
  BY <1>1, <1>2
<1> QED  BY <1>2, <1>3

\* Of the names that begin with the role's only that one passes, if it has no slash.
LEMMA Served ==
    ASSUME Inv
    PROVE  ListedNameServed /\ PrefixIsNotEnough
<1> DEFINE n == RoleName
           p == subpath
<1>1. /\ n \in ArnText /\ n # << >> /\ p \in ArnText
      /\ Len(n) \in Nat \ {0} /\ Len(p) \in Nat
      /\ response \in {"none", Answer(p)}
  <2>1. n \in ArnText /\ n # << >>
    BY Cut, Reassembles DEF ArnReassembles, RoleName
  <2>2. p \in ArnText /\ response \in {"none", Answer(p)}
    BY DEF Inv
  <2> HIDE DEF n, p
  <2> QED  BY <2>1, <2>2, EmptySeq, LenProperties DEF ArnText
<1>2. IsPrefix(n, n)
  BY <1>1 DEF IsPrefix
<1>3. ListedNameServed
  <2>1. ASSUME p = n
        PROVE  Answer(p) = "credentials"
    <3>1. ~NotTheRole(n)
      BY <1>1, <1>2 DEF NotTheRole
    <3> QED  BY <1>1, <2>1, <3>1 DEF Answer
  <2> QED  BY <1>1, <2>1 DEF ListedNameServed
<1>4. ASSUME response = "credentials", Slash \notin ToSet(n)
      PROVE  IsPrefix(n, p) /\ p = n
  <2>1. ~NotTheRole(p)
    BY <1>1, <1>4 DEF Answer
  <2>2. IsPrefix(n, p) /\ (Len(p) > Len(n) => p[Len(n)] = Slash)
    BY <2>1 DEF NotTheRole
  <2>3. p[Len(n)] = n[Len(n)] /\ n[Len(n)] # Slash
    <3>1. SubSeq(n, 1, Len(n))[Len(n)] = SubSeq(p, 1, Len(n))[Len(n)] /\ Len(n) <= Len(p)
      BY <2>2 DEF IsPrefix
    <3>2. SubSeq(n, 1, Len(n))[Len(n)] = n[Len(n)] /\ SubSeq(p, 1, Len(n))[Len(n)] = p[Len(n)]
      BY <1>1, <3>1
    <3>3. n[Len(n)] \in ToSet(n)
      BY <1>1 DEF ToSet, ArnText
    <3> QED  BY <1>4, <3>1, <3>2, <3>3
  <2>4. Len(p) = Len(n)
    BY <1>1, <2>2, <2>3 DEF IsPrefix
  <2> QED  BY <1>1, <2>2, <2>4, SubSeqFull DEF IsPrefix, ArnText
<1>5. PrefixIsNotEnough
  BY <1>4 DEF PrefixIsNotEnough
<1> QED  BY <1>3, <1>5
-----------------------------------------------------------------------------
\* The pieces of an ARN put together are the ARN, and the name is its last segment, however
\* many slashes it has.
THEOREM NamesAreSplit ==
    RoleSpec => [](ArnReassembles /\ NameIsLastSegment)
<1>1. RoleInit => Inv
  BY NamesInit
<1>2. Inv /\ [RoleNext]_roleVars => Inv'
  BY NamesStep
<1>3. Inv => ArnReassembles /\ NameIsLastSegment
  BY Reassembles, LastSegment
<1> QED  BY <1>1, <1>2, <1>3, PTL DEF RoleSpec

\* Who asks for the listed name gets the credentials; who asks for a longer one
\* that begins with it gets nothing, if the name has no slash.
THEOREM NamesAreServed ==
    RoleSpec => [](ListedNameServed /\ PrefixIsNotEnough)
<1>1. RoleInit => Inv
  BY NamesInit
<1>2. Inv /\ [RoleNext]_roleVars => Inv'
  BY NamesStep
<1>3. Inv => ListedNameServed /\ PrefixIsNotEnough
  BY Served
<1> QED  BY <1>1, <1>2, <1>3, PTL DEF RoleSpec

\* Both together: the name split off an ARN is its last segment, and the one under which
\* the proxy lists and serves the role.
THEOREM RolesAreServed == RoleSpec => []NamesServed
<1>1. /\ ArnReassembles /\ NameIsLastSegment
      /\ ListedNameServed /\ PrefixIsNotEnough
      => NamesServed
  BY DEF NamesServed
<1> QED  BY <1>1, NamesAreSplit, NamesAreServed, PTL

\* No colon is in a role's path or name, so that what is listed and compared is one segment of
\* the ARN.
THEOREM RoleNamesAreTexts ==
    ASSUME RoleNamesAssumption
    PROVE  RoleSpec => []RoleTypeOK
<1>1. Inv => RoleTypeOK
  <2> SUFFICES ASSUME Inv
               PROVE  RoleTypeOK
    OBVIOUS
  <2> DEFINE v == arn.value
             a == NewRoleArn(v)
             T == ArnChar \ {Colon}
  <2>1. arn = a /\ v \in ArnText /\ v # << >> /\ Colon \notin ToSet(v)
    BY DEF Inv
  <2>2. v \in Seq(T)
    <3>1. \A i \in 1..Len(v) : v[i] \in T
      <4>1. \A i \in 1..Len(v) : v[i] \in ArnChar /\ v[i] \in ToSet(v)
        BY <2>1, ElementOfSeq DEF ToSet, ArnText
      <4> QED  BY <2>1, <4>1
    <3>2. Len(v) \in Nat /\ v \in [1..Len(v) -> ArnChar]
      BY <2>1, LenProperties DEF ArnText
    <3> HIDE DEF v, T
    <3>3. v \in [1..Len(v) -> T]
      BY <3>1, <3>2
    <3> QED  BY <3>2, <3>3, SeqDef
  <2>3. PathEnd(v) \in 0..(Len(v) - 1) /\ Len(v) \in Nat
    BY <2>1, PathEndIs, LenProperties DEF ArnText
  <2>4. SubSeq(v, 1, PathEnd(v)) \in Seq(T) /\ SubSeq(v, PathEnd(v) + 1, Len(v)) \in Seq(T)
    <3> HIDE DEF v, T
    <3> QED  BY <2>2, <2>3
  <2>5. <<Slash>> \in Seq(T)
    BY DEF RoleNamesAssumption, ArnChar
  <2>6. a = [value |-> v, path |-> <<Slash>> \o SubSeq(v, 1, PathEnd(v)),
             name |-> SubSeq(v, PathEnd(v) + 1, Len(v))]
    BY <2>1 DEF NewRoleArn
  <2>7. <<Slash>> \o SubSeq(v, 1, PathEnd(v)) \in Seq(T)
    <3> DEFINE s == SubSeq(v, 1, PathEnd(v))
    <3> HIDE DEF v, T, s
    <3>1. s \in Seq(T)
      BY <2>4 DEF s
    <3>2. <<Slash>> \o s \in Seq(T)
      BY <2>5, <3>1, ConcatProperties
    <3> QED  BY <3>2 DEF s
  <2>8. a \in [value : Seq(T), path : Seq(T), name : Seq(T)]
    <3> HIDE DEF v, T
    <3> QED  BY <2>2, <2>4, <2>6, <2>7
  <2>9. subpath \in Seq(ArnChar) /\ response \in {"none", "list", "notFound", "credentials"}
    BY DEF Inv, ArnText, Answer
  <2>10. arn \in [value : Seq(T), path : Seq(T), name : Seq(T)]
    BY <2>1, <2>8
  <2> QED  BY <2>9, <2>10 DEF RoleTypeOK
<1> QED  BY <1>1, NamesInit, NamesStep, PTL DEF RoleSpec
-----------------------------------------------------------------------------
\* A nonempty set of natural numbers has a least one.
LEMMA LeastIs ==
    ASSUME NEW T \in SUBSET Nat, T # {}
    PROVE  \E x \in T : \A y \in T : x <= y
<1>1. PICK x \in T : \A y \in T : ~ (<<y, x>> \in OpToRel(<, Nat))
  BY NatLessThanWellFounded, WFMin
<1>2. \A y \in T : ~ (y < x)
  BY <1>1 DEF OpToRel
<1> QED  BY <1>2

\* The levels an attribute may name are numbers, of which "off" is the last.
LEMMA LevelNumbers ==
    /\ \A w \in DOMAIN Levels : Levels[w] \in 0..6 /\ (Levels[w] = 6 <=> w = "off")
    /\ "off" \in DOMAIN Levels
BY DEF Levels

\* The words of an attribute.
Attributed(node) == \A a \in DOMAIN node.attributes : node.attributes[a] \in Seq(STRING) \ {<<>>}

\* A level that may be left out is one of the levels.
LEMMA LevelOfOne ==
    ASSUME NEW node, NEW a, NEW d \in 0..6, Maybe(node, a, DOMAIN Levels)
    PROVE  /\ LevelOf(node, a, d) \in 0..6
           /\ Has(node, a) /\ LevelOf(node, a, d) # 6 => Value(node, a) # <<"off">>
           /\ Has(node, a) /\ Value(node, a) = <<"off">> => LevelOf(node, a, d) = 6
<1>1. CASE ~Has(node, a)
  BY <1>1 DEF LevelOf
<1>2. CASE Has(node, a)
  <2>1. PICK w \in DOMAIN Levels : Value(node, a) = <<w>>
    BY <1>2 DEF Maybe
  <2>2. Word(node, a) = w
    BY <2>1 DEF Word
  <2>3. LevelOf(node, a, d) = Levels[w]
    BY <1>2, <2>2 DEF LevelOf
  <2> QED  BY <2>1, <2>3, LevelNumbers
<1> QED  BY <1>1, <1>2

\* What says off and nothing else lets no level through.
LEMMA SilentIf ==
    ASSUME NEW node, Attributed(node), Constrains(node)
    PROVE  Constraints(node) = {} <=>
             \/ Has(node, "levels") /\ "off" \in ToSet(Value(node, "levels"))
             \/ Has(node, "minlevel") /\ Value(node, "minlevel") = <<"off">>
<1> DEFINE levels == Value(node, "levels")
<1>1. CASE SaysOff(node)
  <2>1. "off" \in ToSet(<<"off">>)
    <3>1. 1 \in DOMAIN <<"off">> /\ <<"off">>[1] = "off"
      OBVIOUS
    <3> QED  BY <3>1 DEF ToSet
  <2>2. Constraints(node) = {}
    BY <1>1 DEF Constraints
  <2> QED  BY <1>1, <2>1, <2>2 DEF SaysOff
<1>2. CASE ~SaysOff(node) /\ Has(node, "levels")
  <2>1. AreLevels(levels) /\ OffAlone(levels)
    BY <1>2 DEF Constrains
  <2>2. ToSet(levels) \subseteq DOMAIN Levels /\ ToSet(levels) # {}
    <3>1. levels \in Seq(STRING) /\ levels # <<>>
      BY <1>2 DEF Attributed, Has, Value
    <3>2. 1 \in DOMAIN levels
      <4> HIDE DEF levels
      <4> QED  BY <3>1, EmptySeq
    <3> QED  BY <2>1, <3>2 DEF AreLevels, ToSet
  <2>3. Constraints(node) = {Levels[l] : l \in ToSet(levels)} \ {6}
    BY <1>2 DEF Constraints
  <2>4. ~(Has(node, "minlevel") /\ Value(node, "minlevel") = <<"off">>)
    BY <1>2 DEF SaysOff, Constrains, Has
  <2>5. CASE "off" \in ToSet(levels)
    <3>1. ToSet(levels) = {"off"}
      BY <2>1, <2>5 DEF OffAlone
    <3>2. Constraints(node) = {}
      BY <2>3, <3>1, LevelNumbers
    <3> QED  BY <1>2, <2>5, <3>2
  <2>6. CASE "off" \notin ToSet(levels)
    <3>1. PICK l \in ToSet(levels) : TRUE
      BY <2>2
    <3>2. Levels[l] # 6
      BY <2>2, <2>6, <3>1, LevelNumbers
    <3>3. Constraints(node) # {}
      BY <2>3, <3>1, <3>2
    <3> QED  BY <2>4, <2>6, <3>3
  <2> QED  BY <2>5, <2>6
<1>3. CASE ~SaysOff(node) /\ ~Has(node, "levels")
  <2> DEFINE low == LevelOf(node, "minlevel", 0)
             high == LevelOf(node, "maxlevel", 5)
  <2>1. /\ Maybe(node, "minlevel", DOMAIN Levels) /\ Maybe(node, "maxlevel", DOMAIN Levels)
        /\ low <= high /\ high <= 5
    BY <1>3 DEF Constrains
  <2>2. low \in 0..6 /\ high \in 0..6
    BY <2>1, LevelOfOne
  <2>3. Constraints(node) = low..high
    BY <1>3 DEF Constraints
  <2>4. ~(Has(node, "minlevel") /\ Value(node, "minlevel") = <<"off">>)
    <3>1. low # 6
      BY <2>1, <2>2
    <3> QED  BY <2>1, <3>1, LevelOfOne
  <2>5. Constraints(node) # {}
    <3> HIDE DEF low, high
    <3>1. low \in low..high
      BY <2>1, <2>2
    <3> QED  BY <2>3, <3>1
  <2> QED  BY <1>3, <2>4, <2>5
<1> QED  BY <1>1, <1>2, <1>3

\* Every rule of a document that passes constrains.
LEMMA RulesConstrain ==
    ASSUME NEW config \in Documents, RootFits(config),
           NEW node \in {config} \cup ToSet(Child(config, "exceptions").children)
    PROVE  Attributed(node) /\ Constrains(node)
<1>1. Attributed(node)
  BY DocumentsAssumption DEF Attributed
<1>2. CASE node = config
  BY <1>1, <1>2 DEF RootFits
<1>3. CASE node \in ToSet(Child(config, "exceptions").children)
  <2>1. CASE HasChild(config, "exceptions")
    BY <1>1, <1>3, <2>1 DEF RootFits, ExceptionsFit, ToSet
  <2>2. CASE ~HasChild(config, "exceptions")
    <3>1. Child(config, "exceptions").children = <<>>
      BY <2>2 DEF Child, Plain
    <3>2. ToSet(<<>>) = {}
      BY DEF ToSet
    <3> QED  BY <1>3, <3>1, <3>2
  <2> QED  BY <2>1, <2>2
<1> QED  BY <1>2, <1>3
-----------------------------------------------------------------------------
\* A path of receivers, whatever they hold.
IsPath(p) == \E S : p \in Seq(S)

LEMMA PathOf ==
    ASSUME NEW p, IsPath(p)
    PROVE  Len(p) \in Nat /\ DOMAIN p = 1..Len(p) /\ (p = <<>> <=> Len(p) = 0)
<1>1. PICK S : p \in Seq(S)
  BY DEF IsPath
<1> QED  BY <1>1, EmptySeq, LenProperties

LEMMA PathAppend ==
    ASSUME NEW p, NEW r, IsPath(p)
    PROVE  /\ IsPath(Append(p, r)) /\ Len(Append(p, r)) = Len(p) + 1
           /\ \A k \in 1..Len(p) : Append(p, r)[k] = p[k]
           /\ Append(p, r)[Len(p) + 1] = r
<1>1. PICK S : p \in Seq(S)
  BY DEF IsPath
<1> DEFINE T == S \cup {r}
<1>2. p \in Seq(T) /\ r \in T
  <2>1. S \subseteq T
    OBVIOUS
  <2> QED  BY <1>1, <2>1, LenProperties, SeqDef
<1> HIDE DEF T
<1>3. Append(p, r) \in Seq(T) /\ Len(Append(p, r)) = Len(p) + 1
  BY <1>2, AppendProperties
<1>4. IsPath(Append(p, r))
  BY <1>3 DEF IsPath
<1> QED  BY <1>2, <1>3, <1>4, AppendProperties

LEMMA PathFront ==
    ASSUME NEW p, IsPath(p), p # <<>>
    PROVE  /\ IsPath(Front(p)) /\ Len(Front(p)) = Len(p) - 1
           /\ \A k \in 1..(Len(p) - 1) : Front(p)[k] = p[k]
<1>1. PICK S : p \in Seq(S)
  BY DEF IsPath
<1>2. Len(p) \in Nat \ {0}
  BY PathOf
<1>3. SubSeq(p, 1, Len(p) - 1) \in Seq(S)
  BY <1>1, <1>2
<1>4. IsPath(SubSeq(p, 1, Len(p) - 1))
  BY <1>3 DEF IsPath
<1>5. Len(SubSeq(p, 1, Len(p) - 1)) = Len(p) - 1
  BY <1>1, <1>2
<1>6. \A k \in 1..(Len(p) - 1) : SubSeq(p, 1, Len(p) - 1)[k] = p[k]
  BY <1>1, <1>2
<1> QED  BY <1>4, <1>5, <1>6 DEF Front
-----------------------------------------------------------------------------
\* The formatter of an id, and the one that the nearest formatid up to the k-th element
\* of a path names.
OfId(id) ==
    LET own == Named(document, id)
    IN  IF own # {} THEN <<"formats", Max(own)>> ELSE <<"predefined", id>>

Saying(p, k) == {i \in 1..k : Has(p[i].node, "formatid")}

FormatAt(p, k) ==
    IF Saying(p, k) = {} THEN Default ELSE OfId(Word(p[Max(Saying(p, k))].node, "formatid"))

\* The k-th receiver of a path: the root is a splitter, the others are inside the one above,
\* the first inside a buffered writer being the one that it uses.
Grows(p, k) ==
    /\ k = 1 => p[k].node.name = "splitter"
    /\ k # 1 => /\ p[k - 1].node.name \in Nesting
                /\ p[k].at = 1 => p[k].node = p[k - 1].node.children[1]
                /\ p[k].format = getCurrentFormat(document, p[k].node, p[k - 1].format)
    /\ p[k].at \in Nat
    /\ p[k].format = FormatAt(p, k)

Grown(p) == IsPath(p) /\ p # <<>> /\ \A k \in 1..Len(p) : Grows(p, k)

\* What a buffered writer needs has been seen, or its constructor has not ended yet.
Seen(r) == r.node.name = "buffered" => Buffered(r.node, r.format)
Sound(p, k) == Seen(p[k]) \/ (k \in 1..Len(making) /\ making[k] = p[k])

InTree(p) == Grown(p) /\ Used(p) /\ \A k \in 1..Len(p) : Sound(p, k)

ConfigInv ==
    /\ document \in Documents
    /\ {"logger", "tree"} \subseteq DOMAIN result
    /\ result.logger \in {"none", "parsing", "error", "nil", "made"}
    /\ result.logger \in {"parsing", "nil", "made"} => RootFits(document)
    /\ result.logger \in {"nil", "made"} => making = <<>>
    /\ done \in Nat
    /\ making # <<>> => Grown(making) /\ Last(making).node.name \in Nesting
    /\ \A p \in result.tree : InTree(p)

\* getCurrentFormat takes the element's own formatid, or leaves the format as it is.
LEMMA CurrentFormat ==
    ASSUME NEW node, NEW f
    PROVE  getCurrentFormat(document, node, f) =
             IF Has(node, "formatid") THEN OfId(Word(node, "formatid")) ELSE f
BY DEF getCurrentFormat, OfId

\* The nearest formatid is one's own, or the nearest to the receiver above.
LEMMA FormatNext ==
    ASSUME NEW p, NEW k \in Nat \ {0}, NEW f, k = 1 => f = Default, k # 1 => f = FormatAt(p, k - 1)
    PROVE  FormatAt(p, k) = getCurrentFormat(document, p[k].node, f)
<1>1. CASE Has(p[k].node, "formatid")
  <2> DEFINE T == Saying(p, k)
  <2>1. k \in T /\ T \in SUBSET (0..k) /\ T # {} /\ \A x \in T : x <= k
    BY <1>1 DEF Saying
  <2>2. Max(T) \in T /\ \A y \in T : Max(T) >= y
    <3> HIDE DEF T
    <3> QED  BY <2>1, GreatestIs
  <2>3. Max(T) = k
    <3> HIDE DEF T
    <3>1. Max(T) \in 0..k /\ Max(T) >= k
      BY <2>1, <2>2
    <3> QED  BY <3>1
  <2>4. FormatAt(p, k) = OfId(Word(p[k].node, "formatid"))
    BY <2>1, <2>3 DEF FormatAt
  <2> QED  BY <1>1, <2>4, CurrentFormat
<1>2. CASE ~Has(p[k].node, "formatid")
  <2>1. getCurrentFormat(document, p[k].node, f) = f
    BY <1>2, CurrentFormat
  <2>2. CASE k = 1
    <3>1. Saying(p, k) = {}
      BY <1>2, <2>2 DEF Saying
    <3> QED  BY <2>1, <2>2, <3>1 DEF FormatAt
  <2>3. CASE k # 1
    <3>1. Saying(p, k) = Saying(p, k - 1)
      BY <1>2, <2>3 DEF Saying
    <3> QED  BY <2>1, <2>3, <3>1 DEF FormatAt
  <2> QED  BY <2>2, <2>3
<1> QED  BY <1>1, <1>2

\* What a path tells of its k-th receiver depends on the receivers up to that.
LEMMA GrowsSame ==
    ASSUME NEW p, NEW q, NEW k \in Nat \ {0}, \A i \in 1..k : p[i] = q[i], Grows(p, k)
    PROVE  Grows(q, k)
<1>1. Saying(p, k) = Saying(q, k)
  BY DEF Saying
<1>2. FormatAt(p, k) = FormatAt(q, k)
  <2>1. CASE Saying(p, k) = {}
    BY <1>1, <2>1 DEF FormatAt
  <2>2. CASE Saying(p, k) # {}
    <3>1. Max(Saying(p, k)) \in Saying(p, k)
      <4>1. Saying(p, k) \in SUBSET (0..k)
        BY DEF Saying
      <4> QED  BY <2>2, <4>1, GreatestIs
    <3>2. Max(Saying(p, k)) \in 1..k
      BY <3>1 DEF Saying
    <3> QED  BY <1>1, <3>2 DEF FormatAt
  <2> QED  BY <2>1, <2>2
<1>3. p[k] = q[k] /\ (k # 1 => p[k - 1] = q[k - 1])
  OBVIOUS
<1> QED  BY <1>2, <1>3 DEF Grows

\* The root's path.
LEMMA RootGrown == Grown(<<Root>>) /\ <<Root>>[1] = Root /\ Len(<<Root>>) = 1
<1> DEFINE p == <<Root>>
<1>1. Len(p) = 1 /\ p[1] = Root /\ p # <<>>
  OBVIOUS
<1>2. IsPath(p)
  <2>1. p \in Seq({Root})
    OBVIOUS
  <2> QED  BY <2>1 DEF IsPath
<1>3. Root.node.name = "splitter" /\ Root.at = 1
      /\ Root.format = getCurrentFormat(document, Root.node, Default)
  <2>1. Root.node = Outputs(document) /\ Root.at = 1
        /\ Root.format = getCurrentFormat(document, Root.node, Default)
    BY DEF Root, Receiver
  <2>2. Outputs(document).name = "splitter"
    <3>1. CASE HasChild(document, "outputs")
      BY <3>1 DEF Outputs
    <3>2. CASE ~HasChild(document, "outputs")
      BY <3>2 DEF Outputs, Plain
    <3> QED  BY <3>1, <3>2
  <2> QED  BY <2>1, <2>2
<1>4. FormatAt(p, 1) = Root.format
  <2>1. FormatAt(p, 1) = getCurrentFormat(document, p[1].node, Default)
    BY FormatNext
  <2> QED  BY <1>1, <1>3, <2>1
<1>5. Grows(p, 1)
  <2> HIDE DEF p
  <2> QED  BY <1>1, <1>3, <1>4 DEF Grows
<1> HIDE DEF p
<1>6. \A k \in 1..Len(p) : k = 1
  BY <1>1
<1>7. Grown(p)
  BY <1>1, <1>2, <1>5, <1>6 DEF Grown
<1> QED  BY <1>1, <1>7 DEF p

\* The path of an inner receiver.
LEMMA InnerGrown ==
    ASSUME NEW p, Grown(p), Last(p).node.name \in Nesting, NEW i \in Nat
    PROVE  LET q == Inner(p, i)
               n == Len(p)
           IN  /\ Grown(q) /\ Len(q) = n + 1 /\ n \in Nat \ {0}
               /\ \A k \in 1..n : q[k] = p[k]
               /\ q[n + 1] = Receiver(Last(p).node.children[i], Last(p).format, i)
               /\ Last(q) = q[n + 1]
<1> DEFINE q == Inner(p, i)
           n == Len(p)
           r == Receiver(Last(p).node.children[i], Last(p).format, i)
<1>1. IsPath(p) /\ n \in Nat \ {0} /\ q = Append(p, r)
  BY PathOf DEF Grown, Inner
<1>2. IsPath(q) /\ Len(q) = n + 1 /\ (\A k \in 1..n : q[k] = p[k]) /\ q[n + 1] = r
  <2> HIDE DEF r, q
  <2> QED  BY <1>1, PathAppend
<1>3. r.node = Last(p).node.children[i] /\ r.at = i
      /\ r.format = getCurrentFormat(document, r.node, Last(p).format)
  BY DEF Receiver
<1>4. Last(p) = p[n] /\ Last(q) = q[n + 1] /\ q[n] = p[n]
  <2> HIDE DEF r, q
  <2> QED  BY <1>1, <1>2 DEF Last
<1> HIDE DEF q, r
<1>5. \A k \in 1..n : Grows(q, k)
  <2> SUFFICES ASSUME NEW k \in 1..n
               PROVE  Grows(q, k)
    OBVIOUS
  <2>1. Grows(p, k) /\ k \in Nat \ {0} /\ (\A j \in 1..k : p[j] = q[j])
    BY <1>1, <1>2 DEF Grown
  <2> QED  BY <2>1, GrowsSame
<1>6. Grows(q, n + 1)
  <2>1. q[n].format = FormatAt(q, n)
    BY <1>1, <1>5 DEF Grows
  <2>2. n + 1 \in Nat \ {0} /\ n + 1 # 1 /\ (n + 1) - 1 = n
    BY <1>1
  <2> HIDE DEF n
  <2>3. FormatAt(q, n + 1) = getCurrentFormat(document, q[n + 1].node, q[n].format)
    BY <2>1, <2>2, FormatNext
  <2>4. q[n + 1].format = FormatAt(q, n + 1)
    BY <1>2, <1>3, <1>4, <2>3
  <2>5. q[(n + 1) - 1] = p[n] /\ p[n] = Last(p)
    BY <1>4, <2>2
  <2> QED  BY <1>2, <1>3, <1>4, <2>2, <2>4, <2>5 DEF Grows
<1>7. \A k \in 1..Len(q) : Grows(q, k)
  <2>1. \A k \in 1..Len(q) : k \in 1..n \/ k = n + 1
    BY <1>1, <1>2
  <2> QED  BY <1>5, <1>6, <2>1
<1>8. q # <<>>
  BY <1>1, <1>2, PathOf
<1>9. Grown(q)
  BY <1>2, <1>7, <1>8 DEF Grown
<1> QED  BY <1>1, <1>2, <1>4, <1>9 DEF q, r, n

\* What is left of a path without its last receiver.
LEMMA FrontGrown ==
    ASSUME NEW p, Grown(p), Front(p) # <<>>
    PROVE  /\ Grown(Front(p)) /\ Last(Front(p)).node.name \in Nesting
<1> DEFINE q == Front(p)
           n == Len(p)
<1>1. n \in Nat \ {0} /\ IsPath(q) /\ Len(q) = n - 1 /\ (\A k \in 1..(n - 1) : q[k] = p[k])
  BY PathOf, PathFront DEF Grown
<1>2. n - 1 \in Nat \ {0}
  <2> HIDE DEF q
  <2>1. Len(q) # 0
    BY <1>1, PathOf DEF q
  <2> QED  BY <1>1, <2>1
<1>3. \A k \in 1..Len(q) : Grows(q, k)
  <2> SUFFICES ASSUME NEW k \in 1..Len(q)
               PROVE  Grows(q, k)
    OBVIOUS
  <2> HIDE DEF q
  <2>1. Grows(p, k) /\ k \in Nat \ {0} /\ (\A j \in 1..k : p[j] = q[j])
    BY <1>1, <1>2 DEF Grown
  <2> QED  BY <2>1, GrowsSame
<1>4. Last(q).node.name \in Nesting
  <2> HIDE DEF q
  <2>1. Grows(p, n) /\ n # 1
    BY <1>1, <1>2 DEF Grown
  <2>2. p[n - 1].node.name \in Nesting
    BY <2>1 DEF Grows
  <2>3. Last(q) = p[n - 1]
    BY <1>1, <1>2 DEF Last
  <2> QED  BY <2>2, <2>3
<1> QED  BY <1>1, <1>3, <1>4 DEF Grown

\* The receivers of a path still being made stay so, or have been seen, when the rest of a
\* constructor is done or one more has begun.
LEMMA InTreeSame ==
    ASSUME NEW p, InTree(p), document' = document,
           \A k \in 1..Len(making) :
             \/ k \in 1..Len(making') /\ making'[k] = making[k]
             \/ Seen(making[k])
    PROVE  InTree(p)'
<1>1. Grown(p)' <=> Grown(p)
  BY DEF Grown, Grows, FormatAt, OfId, Named, getCurrentFormat
<1>2. \A r : Seen(r)' <=> Seen(r)
  BY DEF Seen, Buffered, getCurrentFormat, Named
<1>3. Used(p)' <=> Used(p)
  BY DEF Used
<1>4. ASSUME NEW k \in 1..Len(p)
      PROVE  Sound(p, k)'
  <2>1. Seen(p[k]) \/ (k \in 1..Len(making) /\ making[k] = p[k])
    BY DEF InTree, Sound
  <2>2. CASE Seen(p[k])
    BY <1>2, <2>2 DEF Sound
  <2>3. CASE k \in 1..Len(making) /\ making[k] = p[k]
    BY <1>2, <2>3 DEF Sound
  <2> QED  BY <2>1, <2>2, <2>3
<1> QED  BY <1>1, <1>3, <1>4 DEF InTree

\* A path that has been made stands in the tree with its receivers seen.
LEMMA Bigger ==
    ASSUME NEW path, Made(path), {"logger", "tree"} \subseteq DOMAIN result
    PROVE  /\ {"logger", "tree"} \subseteq DOMAIN result'
           /\ result'.logger = result.logger
           /\ \A p \in result'.tree : p \in result.tree \/ (p = path /\ Used(path))
<1>1. DOMAIN result' = DOMAIN result
  BY DEF Made
<1>2. result'.logger = result.logger
  BY DEF Made
<1>3. result'.tree = IF Used(path) THEN result.tree \cup {path} ELSE result.tree
  BY DEF Made
<1> QED  BY <1>1, <1>2, <1>3

\* The parser begins with nothing made.
LEMMA ConfigStarts == ConfigInit => ConfigInv
BY DEF ConfigInit, ConfigInv, NoResult

\* The document is parsed up to its outputs, whose splitter begins.
LEMMA ParseStep == ConfigInv /\ Parse => ConfigInv'
<1> SUFFICES ASSUME ConfigInv, Parse
             PROVE  ConfigInv'
  OBVIOUS
<1>1. document' = document /\ done' = done /\ done \in Nat /\ document \in Documents
      /\ result.tree = {}
  BY DEF ConfigInv, Parse, NoResult
<1>2. CASE RootFits(document) /\ Fits(document, Root.node)
  <2>1. result' = [result EXCEPT !.logger = "parsing"] /\ making' = <<Root>>
    BY <1>2 DEF Parse
  <2>2. result'.logger = "parsing" /\ result'.tree = {} /\ DOMAIN result' = DOMAIN result
    BY <1>1, <2>1 DEF ConfigInv
  <2>3. RootFits(document)'
    <3>1. RootFits(document') <=> RootFits(document)
      BY <1>1
    <3> QED  BY <1>1, <1>2, <3>1
  <2>4. Grown(making)' /\ (Last(making).node.name \in Nesting)'
    <3>1. Grown(<<Root>>) /\ Last(<<Root>>).node.name = "splitter"
      BY RootGrown DEF Last, Grown, Grows
    <3>2. Grown(making') /\ Last(making').node.name \in Nesting
      BY <2>1, <3>1 DEF Nesting
    <3>3. Grown(making)' <=> Grown(making')
      BY <1>1 DEF Grown, Grows, FormatAt, OfId, Named, getCurrentFormat
    <3> QED  BY <3>2, <3>3
  <2>5. document' \in Documents /\ done' \in Nat
        /\ ({"logger", "tree"} \subseteq DOMAIN result)'
    BY <1>1, <2>2 DEF ConfigInv
  <2> QED  BY <2>2, <2>3, <2>4, <2>5 DEF ConfigInv
<1>3. CASE ~(RootFits(document) /\ Fits(document, Root.node))
  <2>1. result' = [result EXCEPT !.logger = "error"] /\ making' = making
    BY <1>3 DEF Parse
  <2>2. result'.logger = "error" /\ result'.tree = {} /\ DOMAIN result' = DOMAIN result
    BY <1>1, <2>1 DEF ConfigInv
  <2>3. Grown(making)' <=> Grown(making)
    BY <1>1, <2>1 DEF Grown, Grows, FormatAt, OfId, Named, getCurrentFormat
  <2>4. making # <<>> => Grown(making) /\ Last(making).node.name \in Nesting
    BY DEF ConfigInv
  <2>5. document' \in Documents /\ done' \in Nat
        /\ ({"logger", "tree"} \subseteq DOMAIN result)'
    BY <1>1, <2>2 DEF ConfigInv
  <2> QED  BY <2>1, <2>2, <2>3, <2>4, <2>5 DEF ConfigInv
<1> QED  BY <1>2, <1>3

\* An error leaves no tree and nothing being made.
LEMMA FailStep == ConfigInv /\ Fail /\ UNCHANGED document => ConfigInv'
<1> SUFFICES ASSUME ConfigInv, Fail, document' = document
             PROVE  ConfigInv'
  OBVIOUS
<1>1. /\ result'.logger = "error" /\ result'.tree = {} /\ DOMAIN result' = DOMAIN result
      /\ making' = <<>> /\ done' = 0
  BY DEF ConfigInv, Fail
<1>2. document \in Documents /\ {"logger", "tree"} \subseteq DOMAIN result
  BY DEF ConfigInv
<1> QED  BY <1>1, <1>2 DEF ConfigInv

\* A receiver begins, with those inside it to come, or is made at once.
LEMMA ConstructStep == ConfigInv /\ Construct => ConfigInv'
<1> SUFFICES ASSUME ConfigInv, Construct
             PROVE  ConfigInv'
  OBVIOUS
<1> DEFINE path == Inner(making, done + 1)
           node == Last(path).node
           n == Len(making)
<1>1. /\ document' = document /\ document \in Documents /\ done \in Nat
      /\ {"logger", "tree"} \subseteq DOMAIN result
      /\ result.logger \in {"none", "parsing", "error"}
      /\ result.logger = "parsing" => RootFits(document)
      /\ making # <<>> /\ Grown(making) /\ Last(making).node.name \in Nesting
      /\ \A p \in result.tree : InTree(p)
  BY DEF ConfigInv, Construct, HasNext
<1>2. /\ Grown(path) /\ Len(path) = n + 1 /\ n \in Nat \ {0}
      /\ \A k \in 1..n : path[k] = making[k]
      /\ Last(path) = path[n + 1]
  <2>1. done + 1 \in Nat
    BY <1>1
  <2> QED  BY <1>1, <2>1, InnerGrown
<1>3. RootFits(document)' <=> RootFits(document)
  BY <1>1
<1>4. \A p : Grown(p)' <=> Grown(p)
  BY <1>1 DEF Grown, Grows, FormatAt, OfId, Named, getCurrentFormat
<1> HIDE DEF path
<1>5. CASE ~Fits(document, node) \/ Refuses(node)
  <2>1. Fail
    BY <1>5 DEF Construct, path
  <2> QED  BY <1>1, <2>1, FailStep
<1>6. CASE ~(~Fits(document, node) \/ Refuses(node)) /\ node.name \in Nesting
  <2>1. making' = path /\ done' = 0 /\ result' = result
    BY <1>6 DEF Construct, path
  <2>2. \A p \in result.tree : InTree(p)'
    <3>1. \A k \in 1..Len(making) : k \in 1..Len(making') /\ making'[k] = making[k]
      BY <1>2, <2>1
    <3> QED  BY <1>1, <3>1, InTreeSame
  <2>3. Grown(making)' /\ (Last(making).node.name \in Nesting)'
    BY <1>2, <1>4, <1>6, <2>1 DEF Grown
  <2> QED  BY <1>1, <1>3, <2>1, <2>2, <2>3 DEF ConfigInv
<1>7. CASE ~(~Fits(document, node) \/ Refuses(node)) /\ node.name \notin Nesting
  <2>1. making' = making /\ done' = done + 1 /\ Made(path)
    BY <1>7 DEF Construct, path
  <2>2. \A p \in result.tree : InTree(p)'
    <3>1. \A k \in 1..Len(making) : k \in 1..Len(making') /\ making'[k] = making[k]
      BY <2>1
    <3> QED  BY <1>1, <3>1, InTreeSame
  <2>3. ASSUME Used(path), NEW p, p = path
        PROVE  InTree(p)'
    <3>1. \A k \in 1..Len(p) : Sound(p, k)'
      <4> SUFFICES ASSUME NEW k \in 1..Len(p)
                   PROVE  Sound(p, k)'
        OBVIOUS
      <4>1. CASE k \in 1..n
        BY <1>2, <2>1, <2>3, <4>1 DEF Sound
      <4>2. CASE k = n + 1
        <5>1. p[k].node.name # "buffered"
          BY <1>2, <1>7, <2>3, <4>2 DEF Nesting
        <5> QED  BY <5>1 DEF Sound, Seen
      <4> QED  BY <1>2, <2>3, <4>1, <4>2
    <3> QED  BY <1>2, <1>4, <2>3, <3>1 DEF InTree, Used
  <2>4. \A p \in result'.tree : InTree(p)'
    BY <1>1, <2>1, <2>2, <2>3, Bigger
  <2>5. result'.logger = result.logger /\ {"logger", "tree"} \subseteq DOMAIN result'
    BY <1>1, <2>1, Bigger
  <2>6. Grown(making)'
    BY <1>1, <1>4, <2>1
  <2> QED  BY <1>1, <1>3, <2>1, <2>4, <2>5, <2>6 DEF ConfigInv
<1> QED  BY <1>5, <1>6, <1>7

\* A receiver with others inside it is made, and a buffered writer seen to have a writer of
\* its own format.
LEMMA JoinStep == ConfigInv /\ Join => ConfigInv'
<1> SUFFICES ASSUME ConfigInv, Join
             PROVE  ConfigInv'
  OBVIOUS
<1> DEFINE n == Len(making)
<1>1. /\ document' = document /\ document \in Documents
      /\ {"logger", "tree"} \subseteq DOMAIN result
      /\ result.logger \in {"none", "parsing", "error"}
      /\ result.logger = "parsing" => RootFits(document)
      /\ making # <<>> /\ Grown(making)
      /\ \A p \in result.tree : InTree(p)
  BY DEF ConfigInv, Join
<1>2. RootFits(document)' <=> RootFits(document)
  BY <1>1
<1>3. \A p : Grown(p)' <=> Grown(p)
  BY <1>1 DEF Grown, Grows, FormatAt, OfId, Named, getCurrentFormat
<1>4. CASE this.node.name = "buffered" /\ ~Buffered(this.node, this.format)
  <2>1. Fail
    BY <1>4 DEF Join
  <2> QED  BY <1>1, <2>1, FailStep
<1>5. CASE ~(this.node.name = "buffered" /\ ~Buffered(this.node, this.format))
  <2>1. making' = Front(making) /\ done' = this.at /\ Made(making)
    BY <1>5 DEF Join
  <2>2. n \in Nat \ {0} /\ Len(making') = n - 1 /\ \A k \in 1..(n - 1) : making'[k] = making[k]
    BY <1>1, <2>1, PathOf, PathFront DEF Grown
  <2>3. this = making[n] /\ Seen(making[n])
    BY <1>5 DEF this, Last, Seen
  <2>4. done' \in Nat
    <3>1. Grows(making, n)
      BY <1>1, <2>2 DEF Grown
    <3> QED  BY <2>1, <2>3, <3>1 DEF Grows
  <2>5. \A k \in 1..Len(making) :
          \/ k \in 1..Len(making') /\ making'[k] = making[k]
          \/ Seen(making[k])
    <3>1. \A k \in 1..n : k = n \/ k \in 1..(n - 1)
      BY <2>2
    <3> QED  BY <2>2, <2>3, <3>1
  <2>6. \A p \in result.tree : InTree(p)'
    BY <1>1, <2>5, InTreeSame
  <2>7. ASSUME Used(making)
        PROVE  \A p : p = making => InTree(p)'
    <3>1. InTree(making)
      BY <1>1, <2>7 DEF InTree, Sound
    <3>2. \A p : p = making => InTree(p)
      BY <3>1
    <3> QED  BY <1>1, <2>5, <3>2, InTreeSame
  <2>8. \A p \in result'.tree : InTree(p)'
    BY <1>1, <2>1, <2>6, <2>7, Bigger
  <2>9. result'.logger = result.logger /\ {"logger", "tree"} \subseteq DOMAIN result'
    BY <1>1, <2>1, Bigger
  <2>10. making' # <<>> => Grown(making)' /\ (Last(making).node.name \in Nesting)'
    BY <1>1, <1>3, <2>1, FrontGrown
  <2> QED  BY <1>1, <1>2, <2>4, <2>8, <2>9, <2>10 DEF ConfigInv
<1> QED  BY <1>4, <1>5

\* The logger is there, of a tree whose constructors have all ended.
LEMMA CompleteStep == ConfigInv /\ Complete => ConfigInv'
<1> SUFFICES ASSUME ConfigInv, Complete
             PROVE  ConfigInv'
  OBVIOUS
<1>1. /\ document' = document /\ making' = making /\ done' = done /\ making = <<>>
      /\ RootFits(document)
  BY DEF ConfigInv, Complete
<1>2. Logger(document) \in {"error", "made", "nil"}
  BY DEF Logger
<1>3. /\ result'.logger = Logger(document) /\ result'.tree = result.tree
      /\ DOMAIN result' = DOMAIN result
  BY DEF ConfigInv, Complete
<1>4. \A p \in result.tree : InTree(p)'
  BY <1>1, InTreeSame DEF ConfigInv
<1>5. RootFits(document)'
  BY <1>1
<1> QED  BY <1>1, <1>2, <1>3, <1>4, <1>5 DEF ConfigInv

\* ConfigInv is inductive.
LEMMA ConfigStep == ConfigInv /\ [ConfigNext]_configVars => ConfigInv'
<1> SUFFICES ASSUME ConfigInv, [ConfigNext]_configVars
             PROVE  ConfigInv'
  OBVIOUS
<1>1. CASE Parse
  BY <1>1, ParseStep
<1>2. CASE Construct
  BY <1>2, ConstructStep
<1>3. CASE Join
  BY <1>3, JoinStep
<1>4. CASE Complete
  BY <1>4, CompleteStep
<1>5. CASE UNCHANGED configVars
  <2>1. document' = document /\ making' = making /\ done' = done /\ result' = result
    BY <1>5 DEF configVars
  <2>2. \A p \in result.tree : InTree(p)'
    BY <2>1, InTreeSame DEF ConfigInv
  <2>3. Grown(making)' <=> Grown(making)
    BY <2>1 DEF Grown, Grows, FormatAt, OfId, Named, getCurrentFormat
  <2>4. RootFits(document)' <=> RootFits(document)
    BY <2>1
  <2> QED  BY <2>1, <2>2, <2>3, <2>4 DEF ConfigInv
<1> QED  BY <1>1, <1>2, <1>3, <1>4, <1>5 DEF ConfigNext

\* A writer inside a writer is inside a buffered one, and has its format.
LEMMA WriterInside ==
    ASSUME ConfigInv, making = <<>>, NEW p \in result.tree, NEW k \in 2..Len(p),
           IsWriter(p[k - 1].node.name)
    PROVE  IsWriter(p[k].node.name) /\ p[k].format = p[k - 1].format
<1>1. InTree(p)
  BY DEF ConfigInv
<1>2. Len(p) \in Nat
  BY <1>1, PathOf DEF InTree, Grown
<1>3. k \in 1..Len(p) /\ k - 1 \in 1..Len(p) /\ k # 1
  BY <1>2
<1>4. Grows(p, k) /\ Sound(p, k - 1)
  BY <1>1, <1>3 DEF InTree, Grown
<1>5. p[k - 1].node.name = "buffered"
  BY <1>3, <1>4 DEF Grows, Nesting, IsWriter
<1>6. Buffered(p[k - 1].node, p[k - 1].format)
  <2>1. Len(making) = 0
    OBVIOUS
  <2> QED  BY <1>4, <1>5, <2>1 DEF Sound, Seen
<1>7. p[k].node = p[k - 1].node.children[1]
  <2>1. p[k].at = 1
    BY <1>1, <1>5 DEF InTree, Used
  <2> QED  BY <1>3, <1>4, <2>1 DEF Grows
<1>8. p[k].format = getCurrentFormat(document, p[k].node, p[k - 1].format)
  BY <1>3, <1>4 DEF Grows
<1> QED  BY <1>6, <1>7, <1>8 DEF Buffered

\* From the outermost writer on all receivers are writers of its format.
LEMMA WritersAgree ==
    ASSUME ConfigInv, making = <<>>, NEW p \in result.tree, NEW i \in 1..Len(p),
           IsWriter(p[i].node.name)
    PROVE  p[Len(p)].format = p[i].format
<1>1. Len(p) \in Nat
  BY PathOf DEF ConfigInv, InTree, Grown
<1> DEFINE Agrees(j) == IsWriter(p[j].node.name) /\ p[j].format = p[i].format
           T == {j \in i..Len(p) : ~Agrees(j)}
<1>2. T = {}
  <2> SUFFICES ASSUME T # {}
               PROVE  FALSE
    OBVIOUS
  <2>1. T \in SUBSET Nat
    BY <1>1
  <2>2. PICK j \in T : \A m \in T : j <= m
    <3> HIDE DEF T
    <3> QED  BY <2>1, LeastIs
  <2>3. j \in 2..Len(p) /\ j > i
    BY <1>1, <2>2
  <2>4. Agrees(j - 1)
    BY <1>1, <2>2, <2>3
  <2>5. Agrees(j)
    BY <2>3, <2>4, WriterInside
  <2> QED  BY <2>2, <2>5
<1>3. Agrees(Len(p))
  BY <1>1, <1>2
<1> QED  BY <1>3

\* A path to a writer has an outermost one.
LEMMA Outermost ==
    ASSUME ConfigInv, NEW p \in result.tree, IsWriter(Last(p).node.name)
    PROVE  \E i \in DOMAIN p : IsWriter(p[i].node.name) /\ ~IsWriter(p[i - 1].node.name)
<1>1. Grown(p) /\ Len(p) \in Nat \ {0} /\ DOMAIN p = 1..Len(p)
  BY PathOf DEF ConfigInv, InTree, Grown
<1> DEFINE T == {i \in 1..Len(p) : IsWriter(p[i].node.name)}
<1>2. T \in SUBSET Nat /\ Len(p) \in T
  BY <1>1 DEF Last
<1>3. PICK i \in T : \A j \in T : i <= j
  <2> HIDE DEF T
  <2> QED  BY <1>2, LeastIs
<1>4. i # 1
  <2>1. Grows(p, 1)
    BY <1>1 DEF Grown
  <2> QED  BY <1>3, <2>1 DEF Grows, IsWriter
<1>5. i - 1 \in 1..Len(p) /\ i - 1 \notin T
  BY <1>1, <1>3, <1>4
<1> QED  BY <1>1, <1>3, <1>5

\* The format that a message gets is that of the nearest formatid.
LEMMA Formatted == ConfigInv => NearestFormat
<1> SUFFICES ASSUME ConfigInv, Accepted, NEW p \in result.tree, IsWriter(Last(p).node.name)
             PROVE  LET formats == Child(document, "formats").children
                        outermost == CHOOSE i \in DOMAIN p :
                                       IsWriter(p[i].node.name) /\ ~IsWriter(p[i - 1].node.name)
                        applied == p[outermost].format
                        saying == {i \in DOMAIN p : Has(p[i].node, "formatid")}
                        id == Word(p[Max(saying)].node, "formatid")
                        own == {i \in DOMAIN formats : Word(formats[i], "id") = id}
                    IN  CASE saying = {} -> applied = Default
                          [] saying # {} /\ own = {} -> applied = <<"predefined", id>>
                          [] OTHER -> applied = <<"formats", Max(own)>>
  BY DEF NearestFormat
<1> DEFINE formats == Child(document, "formats").children
           outermost == CHOOSE i \in DOMAIN p :
                          IsWriter(p[i].node.name) /\ ~IsWriter(p[i - 1].node.name)
           saying == {i \in DOMAIN p : Has(p[i].node, "formatid")}
           id == Word(p[Max(saying)].node, "formatid")
           own == {i \in DOMAIN formats : Word(formats[i], "id") = id}
           applied == p[outermost].format
<1>1. making = <<>>
  BY DEF ConfigInv, Accepted
<1>2. Grown(p) /\ Len(p) \in Nat \ {0} /\ DOMAIN p = 1..Len(p)
  BY PathOf DEF ConfigInv, InTree, Grown
<1>3. outermost \in 1..Len(p) /\ IsWriter(p[outermost].node.name)
  BY <1>2, Outermost
<1>4. p[Len(p)].format = applied
  <2> HIDE DEF outermost
  <2> QED  BY <1>1, <1>3, WritersAgree
<1>5. p[Len(p)].format = FormatAt(p, Len(p))
  BY <1>2 DEF Grown, Grows
<1>6. saying = Saying(p, Len(p)) /\ own = Named(document, id)
  BY <1>2 DEF Saying, Named
<1> HIDE DEF outermost, saying, id, own, applied
<1>7. CASE saying = {}
  <2>1. applied = Default
    BY <1>4, <1>5, <1>6, <1>7 DEF FormatAt
  <2> QED  BY <1>7, <2>1 DEF outermost, saying, id, own, applied
<1>8. CASE saying # {}
  <2>1. applied = OfId(id)
    BY <1>4, <1>5, <1>6, <1>8 DEF FormatAt, id
  <2>2. own = {} => applied = <<"predefined", id>>
    BY <1>6, <2>1 DEF OfId
  <2>3. own # {} => applied = <<"formats", Max(own)>>
    BY <1>6, <2>1 DEF OfId
  <2> QED  BY <1>8, <2>2, <2>3 DEF outermost, saying, id, own, applied
<1> QED  BY <1>7, <1>8

\* Levels silence where the document says off.
LEMMA Silenced == ConfigInv => SilentOnlyIfOff
<1> SUFFICES ASSUME ConfigInv, Accepted,
                    NEW node \in {document} \cup ToSet(Child(document, "exceptions").children)
             PROVE  Constraints(node) = {} <=>
                      \/ Has(node, "levels") /\ "off" \in ToSet(Value(node, "levels"))
                      \/ Has(node, "minlevel") /\ Value(node, "minlevel") = <<"off">>
  BY DEF SilentOnlyIfOff
<1>1. RootFits(document) /\ document \in Documents
  BY DEF ConfigInv, Accepted
<1>2. Attributed(node) /\ Constrains(node)
  BY <1>1, RulesConstrain
<1> QED  BY <1>2, SilentIf
-----------------------------------------------------------------------------
\* The parser keeps ConfigInv: every path in the tree grows from the outputs, and a receiver
\* whose inner one has not been looked at yet is still being made.
THEOREM ParserInvariance == ConfigSpec => []ConfigInv
<1>1. ConfigInit => ConfigInv
  BY ConfigStarts
<1>2. ConfigInv /\ [ConfigNext]_configVars => ConfigInv'
  BY ConfigStep
<1> QED  BY <1>1, <1>2, PTL DEF ConfigSpec

\* In documents of any depth a message gets the format of the nearest formatid: a buffered
\* writer refuses a writer of another format, so that the outermost has the innermost's.
THEOREM FormatsAreNearest == ConfigSpec => []NearestFormat
<1>1. ConfigInv => NearestFormat
  BY Formatted
<1> QED  BY <1>1, ParserInvariance, PTL

\* Whatever levels a document has, a logger or an exception of it is silent if and only if
\* the document says off.
THEOREM SilentWhereOff == ConfigSpec => []SilentOnlyIfOff
<1>1. ConfigInv => SilentOnlyIfOff
  BY Silenced
<1> QED  BY <1>1, ParserInvariance, PTL
-----------------------------------------------------------------------------
\* The invariant of the command line.  What its variables are in each phase:
IsToken(token) == IsFlag(token) \/ token = Token("arg", FALSE, token.value)

\* Among commands and arguments a flag is never read.
Stuck == ~AtEnd /\ IsFlag(Peek)

Shape ==
    /\ outcome \in {"starting", "parsing", "refused", "error", "helped", "usage", "parsed"}
    /\ phase \in {"words", "flags", "commands", "args", "done"}
    /\ app \in Applications /\ line \in CommandLines
    /\ outcome \notin {"starting", "refused"} => ~Refused
    /\ IsPath(tokens) /\ \A i \in DOMAIN tokens : IsToken(tokens[i])
    /\ first \in Nat \ {0} /\ first <= Len(tokens) + 1
    /\ command \in DOMAIN Built
    /\ missing \subseteq absent /\ absent \subseteq Group.flags
    /\ next \in Nat \ {0}
    /\ next <= Len(IF phase = "words" THEN line ELSE Group.args) + 1
    /\ DOMAIN values = Slots
    /\ DOMAIN reading \subseteq 1..(first - 1)
    /\ phase = "words" => first = 1 /\ reading = <<>> /\ command = <<>>
    /\ phase \in {"flags", "commands"} => next = 1
    /\ phase \in {"commands", "args"} => AfterFlags(command) = phase
    /\ phase = "commands" => ~Stuck
    /\ \A p \in Selected : p # command => AfterFlags(p) = "commands"
    /\ outcome \in {"starting", "refused"} => phase = "words"
    /\ outcome \in {"error", "usage", "parsed", "helped"} => phase # "words"
    /\ outcome = "parsed" => phase = "done" /\ AtEnd

LongHelp == line[1].form = "long" /\ line[1].name = "help" /\ ~line[1].no
TextHelp == line[1] = Text("help")
AllText == \A i \in DOMAIN line : line[i].form = "text"

\* What the first tokens are.
FirstTokens ==
    /\ line # <<>> /\ (phase # "words" \/ next > 1) =>
         /\ LongHelp => /\ tokens # <<>> /\ tokens[1].type = "long"
                        /\ tokens[1].value = "help" /\ ~tokens[1].no
         /\ TextHelp => tokens # <<>> /\ tokens[1] = Token("arg", FALSE, "help")
    /\ AllText => \A i \in DOMAIN tokens : ~IsFlag(tokens[i])
    /\ phase = "words" /\ next = 1 => tokens = <<>>

\* What was read so far was read as what it says, and the last of it whole.
SoFar == (\A i \in 1..(first - 1) : TokenRead(i)) /\ ~TextAt(first - 1)

FlagKept(p, f) ==
    LET slot == FlagSlot(p, f)
    IN  /\ f.kind \in Lists => IsPath(values[slot])
        /\ IF p \notin Selected \/ phase = "words" THEN values[slot] = <<>> /\ Given(slot) = {}
           ELSE IF p = command /\ phase = "flags"
           THEN Holds(values[slot], f.kind, Said(slot, "")) /\ (Given(slot) = {} <=> f \in absent)
           ELSE FlagAsRead(p, f)

ArgKept(p, i) ==
    LET slot == ArgSlot(p, i)
        kind == Built[p].args[i].kind
    IN  /\ kind \in Lists => IsPath(values[slot])
        /\ IF p # command \/ phase \notin {"args", "done"} \/ AfterFlags(p) # "args"
           THEN values[slot] = <<>> /\ Given(slot) = {}
           ELSE IF phase = "args"
           THEN /\ Holds(values[slot], kind, Said(slot, ""))
                /\ i > next \/ (i = next /\ kind \notin Cumulative) => Given(slot) = {}
                /\ i < next => kind \notin Cumulative /\ (Given(slot) # {} \/ Stuck)
           ELSE Stuck \/ ArgAsRead(p, i)

Kept ==
    \A p \in DOMAIN Built :
      /\ \A f \in Built[p].flags : FlagKept(p, f)
      /\ \A i \in DOMAIN Built[p].args : ArgKept(p, i)

\* A required flag was given, or will be missed; so was a required argument, or it was
\* passed over for a flag that will be.
FlagRequired(p, f) ==
    f.required /\ DefaultOf(p, f) = "" /\ ~(p = <<>> /\ HelpFirst) /\ phase # "words" =>
      \/ Given(FlagSlot(p, f)) # {}
      \/ p = command /\ phase = "flags" /\ f \in missing

ArgRequired(p, i) ==
    /\ Built[p].args[i].required /\ AfterFlags(p) = "args" /\ ~ArgsRefused(Built[p].args)
    /\ phase = "done"
    => Given(ArgSlot(p, i)) # {} \/ Stuck

Required ==
    \A p \in Selected :
      /\ \A f \in Built[p].flags : FlagRequired(p, f)
      /\ \A i \in DOMAIN Built[p].args : ArgRequired(p, i)

DefaultsFit ==
    \A f \in Built[<<>>].flags : DefaultOf(<<>>, f) # "" => Accepts(f.kind, DefaultOf(<<>>, f))

\* Where a line that asks for help is.
Helping ==
    line # <<>> /\ outcome \notin {"starting", "refused", "helped"} /\ phase # "words" =>
      /\ LongHelp => outcome = "parsing" /\ phase = "flags" /\ first = 1 /\ command = <<>>
      /\ TextHelp /\ Built[<<>>].commands # <<>> /\ AllText /\ DefaultsFit =>
           /\ outcome = "parsing"
           /\ \/ phase \in {"flags", "commands"} /\ first = 1 /\ command = <<>> /\ missing = {}
              \/ phase \in {"flags", "done"} /\ command = <<"help">> /\ missing = {}

LineInv == Shape /\ FirstTokens /\ SoFar /\ Kept /\ Required /\ Helping

\* A sequence of one element.
LEMMA One ==
    ASSUME NEW a
    PROVE  IsPath(<<a>>) /\ DOMAIN <<a>> = {1} /\ <<a>>[1] = a /\ Len(<<a>>) = 1 /\ <<a>> # <<>>
<1>1. <<a>> \in Seq({a}) /\ Len(<<a>>) = 1 /\ <<a>>[1] = a /\ <<a>> # <<>>
  OBVIOUS
<1>2. IsPath(<<a>>)
  BY <1>1 DEF IsPath
<1> QED  BY <1>1, <1>2, PathOf

\* Sequences that agree are equal, and a part of one is a sequence.
LEMMA PathEqual ==
    ASSUME NEW p, NEW q, IsPath(p), IsPath(q), Len(p) = Len(q), \A i \in 1..Len(p) : p[i] = q[i]
    PROVE  p = q
<1>1. PICK S : p \in Seq(S)
  BY DEF IsPath
<1>2. PICK T : q \in Seq(T)
  BY DEF IsPath
<1> DEFINE U == S \cup T
<1>3. S \subseteq U /\ T \subseteq U
  OBVIOUS
<1>4. p \in Seq(U) /\ q \in Seq(U)
  BY <1>1, <1>2, <1>3, LenProperties, SeqDef
<1> HIDE DEF U
<1> QED  BY <1>4, SeqEqual

\* The first elements of a sequence.
LEMMA PathPart ==
    ASSUME NEW p, IsPath(p), NEW n \in 0..Len(p)
    PROVE  /\ IsPath(SubSeq(p, 1, n)) /\ Len(SubSeq(p, 1, n)) = n
           /\ \A i \in 1..n : SubSeq(p, 1, n)[i] = p[i]
<1>1. PICK S : p \in Seq(S)
  BY DEF IsPath
<1>2. Len(p) \in Nat /\ n \in Nat /\ n <= Len(p) /\ \A i \in 1..n : p[i] \in S
  BY <1>1
<1>3. /\ SubSeq(p, 1, n) \in Seq(S) /\ Len(SubSeq(p, 1, n)) = IF 1 <= n THEN n - 1 + 1 ELSE 0
      /\ \A i \in 1..(n - 1 + 1) : SubSeq(p, 1, n)[i] = p[1 + i - 1]
  BY <1>2, SubSeqProperties
<1> QED  BY <1>2, <1>3 DEF IsPath

\* One sequence after another.
LEMMA PathConcat ==
    ASSUME NEW p, NEW q, IsPath(p), IsPath(q)
    PROVE  /\ IsPath(p \o q) /\ Len(p \o q) = Len(p) + Len(q)
           /\ \A i \in 1..Len(p) : (p \o q)[i] = p[i]
           /\ \A i \in 1..Len(q) : (p \o q)[Len(p) + i] = q[i]
<1>1. PICK S : p \in Seq(S)
  BY DEF IsPath
<1>2. PICK T : q \in Seq(T)
  BY DEF IsPath
<1> DEFINE U == S \cup T
<1>3. S \subseteq U /\ T \subseteq U
  OBVIOUS
<1>4. p \in Seq(U) /\ q \in Seq(U) /\ Len(p) \in Nat /\ Len(q) \in Nat
  BY <1>1, <1>2, <1>3, LenProperties, SeqDef
<1> HIDE DEF U
<1>5. /\ p \o q \in Seq(U) /\ Len(p \o q) = Len(p) + Len(q)
      /\ \A i \in 1..(Len(p) + Len(q)) : (p \o q)[i] = IF i <= Len(p) THEN p[i] ELSE q[i - Len(p)]
  BY <1>4, ConcatProperties
<1>6. ASSUME NEW i \in 1..Len(q) PROVE (p \o q)[Len(p) + i] = q[i]
  <2>1. Len(p) + i \in 1..(Len(p) + Len(q)) /\ ~(Len(p) + i <= Len(p)) /\ Len(p) + i - Len(p) = i
    BY <1>4
  <2> QED  BY <1>5, <2>1
<1>7. \A i \in 1..Len(p) : (p \o q)[i] = p[i]
  BY <1>4, <1>5
<1> QED  BY <1>5, <1>6, <1>7 DEF IsPath

\* The empty sequence.
LEMMA Empty == IsPath(<<>>) /\ Len(<<>>) = 0 /\ DOMAIN <<>> = {}
<1>1. <<>> \in Seq({})
  OBVIOUS
<1> QED  BY <1>1 DEF IsPath

\* The path of the command help.
LEMMA HelpPath == Append(<<>>, "help") = <<"help">>
<1>1. IsPath(<<"help">>) /\ Len(<<"help">>) = 1 /\ <<"help">>[1] = "help"
  BY One
<1>2. /\ IsPath(Append(<<>>, "help")) /\ Len(Append(<<>>, "help")) = Len(<<>>) + 1
      /\ Append(<<>>, "help")[Len(<<>>) + 1] = "help"
  BY Empty, PathAppend
<1>3. Len(<<>>) + 1 = 1
  BY Empty
<1>4. Len(Append(<<>>, "help")) = 1 /\ Append(<<>>, "help")[1] = "help"
  BY <1>2, <1>3
<1> QED  BY <1>1, <1>2, <1>4, PathEqual

\* The groups that init makes of an application's.
LEMMA BuiltIs ==
    ASSUME app \in Applications
    PROVE  /\ <<>> \in DOMAIN Built
           /\ \A p \in DOMAIN Built :
                /\ IsPath(p) /\ IsPath(Built[p].args) /\ IsPath(Built[p].commands)
                /\ HelpFlag \in Built[p].flags
                /\ \A f, g \in Built[p].flags : f.name = g.name => f = g
                /\ \A i \in DOMAIN Built[p].commands : Append(p, Built[p].commands[i]) \in DOMAIN Built
                /\ ~Refused => /\ \A f \in Built[p].flags : f.kind \in Kinds
                               /\ \A i \in DOMAIN Built[p].args : Built[p].args[i].kind \in Kinds
           /\ Built[<<>>].commands # <<>> =>
                \E i \in DOMAIN Built[<<>>].commands : Built[<<>>].commands[i] = "help"
<1> DEFINE helped == app[<<>>].commands # <<>>
           group(p) == IF helped /\ p = <<"help">> THEN HelpCommand ELSE app[p]
           H == IF helped THEN {<<"help">>} ELSE {}
<1>1. DOMAIN Built = DOMAIN app \cup H /\ <<>> \in DOMAIN app
  BY KingpinAssumption DEF Built
<1>2. ASSUME NEW p \in DOMAIN Built
      PROVE  /\ Built[p].flags = group(p).flags \cup {HelpFlag}
             /\ Built[p].args = group(p).args
             /\ Built[p].commands = IF p = <<>> /\ helped THEN Append(group(p).commands, "help")
                                    ELSE group(p).commands
  BY DEF Built
<1>3. HelpFlag.name = "help" /\ HelpFlag.kind \in Kinds
  BY DEF HelpFlag, Flag, Kinds, Single
<1>4. HelpCommand.flags = {} /\ HelpCommand.commands = <<>> /\ IsPath(HelpCommand.args)
      /\ DOMAIN HelpCommand.args = {1} /\ HelpCommand.args[1].kind \in Kinds
  <2>1. HelpCommand.args = <<Arg("command", "one", FALSE, "")>>
    BY DEF HelpCommand
  <2>2. Arg("command", "one", FALSE, "").kind \in Kinds
    BY DEF Arg, Kinds, Single
  <2>3. HelpCommand.flags = {} /\ HelpCommand.commands = <<>>
    BY DEF HelpCommand
  <2> QED  BY <2>1, <2>2, <2>3, One
<1>5. ASSUME NEW p \in DOMAIN app
      PROVE  /\ IsPath(p) /\ IsPath(app[p].args) /\ app[p].commands \in Seq(STRING)
             /\ IsPath(app[p].commands)
             /\ \A f \in app[p].flags : (f.kind \in Kinds \/ Initialised(p)) /\ f.name # "help"
             /\ \A f, g \in app[p].flags : f.name = g.name => f = g
             /\ \A i \in DOMAIN app[p].args : app[p].args[i].kind \in Kinds \/ Initialised(p)
             /\ \A i \in DOMAIN app[p].commands : Append(p, app[p].commands[i]) \in DOMAIN app
  <2>1. /\ p \in Seq(STRING) /\ app[p] \in Groups
        /\ \A f \in app[p].flags : (f.kind \in Kinds \/ Initialised(p)) /\ f.name # "help"
        /\ \A f, g \in app[p].flags : f.name = g.name => f = g
        /\ \A i \in DOMAIN app[p].args : app[p].args[i].kind \in Kinds \/ Initialised(p)
        /\ \A i \in DOMAIN app[p].commands : Append(p, app[p].commands[i]) \in DOMAIN app
    BY KingpinAssumption
  <2>2. app[p].args \in Seq(Args) /\ app[p].commands \in Seq(STRING)
    BY <2>1 DEF Groups
  <2> QED  BY <2>1, <2>2 DEF IsPath
<1> HIDE DEF group, helped
<1>6. ASSUME NEW p \in DOMAIN Built
      PROVE  \/ group(p) = HelpCommand /\ p = <<"help">> /\ helped
             \/ group(p) = app[p] /\ p \in DOMAIN app
  BY <1>1 DEF group, helped
<1>0. <<"help">> # <<>> /\ IsPath(<<"help">>) /\ Append(<<>>, "help") = <<"help">>
      /\ Len(<<"help">>) = 1
  BY One, HelpPath
<1>7. ASSUME NEW p \in DOMAIN Built
      PROVE  /\ IsPath(p) /\ IsPath(Built[p].args) /\ IsPath(Built[p].commands)
             /\ HelpFlag \in Built[p].flags
             /\ \A f, g \in Built[p].flags : f.name = g.name => f = g
  <2>1. CASE group(p) = HelpCommand /\ p = <<"help">>
    <3>2. Built[p].args = HelpCommand.args /\ Built[p].commands = <<>>
          /\ Built[p].flags = {HelpFlag}
      BY <1>2, <1>4, <2>1, <1>0
    <3> QED  BY <1>4, <1>0, <2>1, <3>2, Empty
  <2>2. CASE group(p) = app[p] /\ p \in DOMAIN app
    <3>1. IsPath(Built[p].args) /\ Built[p].flags = app[p].flags \cup {HelpFlag}
      BY <1>2, <1>5, <2>2
    <3>2. IsPath(Built[p].commands)
      <4>1. IsPath(app[p].commands) /\ IsPath(Append(app[p].commands, "help"))
        BY <1>5, <2>2, PathAppend
      <4> QED  BY <1>2, <2>2, <4>1
    <3>3. ASSUME NEW f \in Built[p].flags, NEW g \in Built[p].flags, f.name = g.name
          PROVE  f = g
      BY <1>3, <1>5, <2>2, <3>1, <3>3
    <3> QED  BY <1>5, <2>2, <3>1, <3>2, <3>3
  <2> QED  BY <1>6, <2>1, <2>2
<1>8. ASSUME NEW p \in DOMAIN Built, NEW i \in DOMAIN Built[p].commands
      PROVE  Append(p, Built[p].commands[i]) \in DOMAIN Built
  <2>1. CASE group(p) = HelpCommand /\ p = <<"help">>
    <3>1. Built[p].commands = <<>>
      BY <1>0, <1>2, <1>4, <2>1
    <3> QED  BY <3>1
  <2>2. CASE group(p) = app[p] /\ p \in DOMAIN app
    <3>1. CASE p = <<>> /\ helped
      <4>1. Built[p].commands = Append(app[p].commands, "help")
        BY <1>2, <2>2, <3>1
      <4>2. \/ i \in DOMAIN app[p].commands /\ Built[p].commands[i] = app[p].commands[i]
            \/ Built[p].commands[i] = "help"
        <5>1. Len(Built[p].commands) = Len(app[p].commands) + 1
          BY <1>5, <2>2, <4>1, PathAppend
        <5>2. i \in 1..(Len(app[p].commands) + 1) /\ DOMAIN app[p].commands = 1..Len(app[p].commands)
              /\ Len(app[p].commands) \in Nat
          BY <1>5, <1>7, <2>2, <5>1, PathOf
        <5> QED  BY <1>5, <2>2, <4>1, <5>2, PathAppend
      <4> QED  BY <1>0, <1>1, <1>5, <2>2, <3>1, <4>2 DEF helped
    <3>2. CASE ~(p = <<>> /\ helped)
      <4>1. Built[p].commands = app[p].commands
        BY <1>2, <2>2, <3>2
      <4> QED  BY <1>1, <1>5, <2>2, <4>1
    <3> QED  BY <3>1, <3>2
  <2> QED  BY <1>6, <2>1, <2>2
<1>9. ASSUME NEW p \in DOMAIN Built, ~Refused
      PROVE  /\ \A f \in Built[p].flags : f.kind \in Kinds
             /\ \A i \in DOMAIN Built[p].args : Built[p].args[i].kind \in Kinds
  <2>1. CASE Initialised(p)
    BY <1>9, <2>1 DEF Refused, ArgsRefused
  <2>2. CASE ~Initialised(p)
    <3>1. group(p) = app[p] /\ p \in DOMAIN app
      <4>1. p # <<"help">>
        <5>1. ~(Len(p) <= 1)
          BY <2>2 DEF Initialised
        <5>2. Len(<<"help">>) <= 1
          BY <1>0
        <5> QED  BY <5>1, <5>2
      <4> QED  BY <1>6, <4>1
    <3> QED  BY <1>2, <1>3, <1>5, <2>2, <3>1
  <2> QED  BY <2>1, <2>2
<1>10. ASSUME Built[<<>>].commands # <<>>
       PROVE  \E i \in DOMAIN Built[<<>>].commands : Built[<<>>].commands[i] = "help"
  <2>1. <<>> \in DOMAIN Built /\ group(<<>>) = app[<<>>]
    BY <1>0, <1>1, <1>6
  <2>2. helped /\ Built[<<>>].commands = Append(app[<<>>].commands, "help")
    BY <1>2, <1>10, <2>1 DEF helped
  <2>3. Built[<<>>].commands[Len(app[<<>>].commands) + 1] = "help"
        /\ Len(Built[<<>>].commands) = Len(app[<<>>].commands) + 1
    BY <1>1, <1>5, <2>2, PathAppend
  <2>4. Len(app[<<>>].commands) + 1 \in DOMAIN Built[<<>>].commands
    BY <1>1, <1>5, <1>7, <2>1, <2>3, PathOf
  <2> QED  BY <2>3, <2>4
<1> QED  BY <1>1, <1>7, <1>8, <1>9, <1>10

\* Of slots that are different, none is another's.
LEMMA SlotsDiffer ==
    ASSUME NEW p, NEW q, NEW f, NEW g, NEW i, NEW j
    PROVE  /\ FlagSlot(p, f) = FlagSlot(q, g) <=> p = q /\ f.name = g.name
           /\ ArgSlot(p, i) = ArgSlot(q, j) <=> p = q /\ i = j
           /\ FlagSlot(p, f) # ArgSlot(q, i)
           /\ FlagSlot(p, f) # <<"command", q>> /\ ArgSlot(p, i) # <<"command", q>>
BY DEF FlagSlot, ArgSlot

\* A value in which nothing was said is zero.
LEMMA NothingHeld ==
    ASSUME NEW kind \in Kinds, NEW said, DOMAIN said = {}
    PROVE  Holds(<<>>, kind, said)
<1>1. Cardinality({}) = 0 /\ Len(<<>>) = 0 /\ DOMAIN <<>> = {}
  BY FS_EmptySet
<1> QED  BY <1>1 DEF Holds

\* Finitely many numbers come before one.
LEMMA FiniteBefore == ASSUME NEW n \in Nat PROVE IsFiniteSet(1..(n - 1))
<1>1. 1 \in Int /\ n - 1 \in Int
  OBVIOUS
<1> QED  BY <1>1, FS_Interval

\* What is Set last comes after all that was said before.
LEMMA SetHolds ==
    ASSUME NEW kind \in Kinds, NEW held, NEW said, NEW more, NEW text, NEW n \in Nat,
           DOMAIN said \subseteq 1..(n - 1), DOMAIN more = DOMAIN said \cup {n},
           \A i \in DOMAIN said : more[i] = said[i], more[n] = text,
           Holds(held, kind, said), kind \in Lists => IsPath(held)
    PROVE  /\ Holds(Set(kind, held, text), kind, more)
           /\ kind \in Lists => IsPath(Set(kind, held, text))
<1> DEFINE At == DOMAIN said
<1>1. n \notin At /\ \A i \in At : i \in Nat /\ i < n
  OBVIOUS
<1>2. CASE kind \in Single
  <2>1. kind \notin Lists /\ kind # "map"
    BY <1>2 DEF Single, Lists
  <2>2. /\ (\A i \in At : ~(kind = "arn" => said[i] # "")) => held = <<>>
        /\ \A i \in At : (kind = "arn" => said[i] # "")
                         /\ (\A j \in At : (kind = "arn" => said[j] # "") => j <= i) => held = <<said[i]>>
    BY <1>2, <2>1 DEF Holds
  <2> DEFINE new == Set(kind, held, text)
  <2>3. /\ (\A i \in DOMAIN more : ~(kind = "arn" => more[i] # "")) => new = <<>>
        /\ \A i \in DOMAIN more : (kind = "arn" => more[i] # "")
             /\ (\A j \in DOMAIN more : (kind = "arn" => more[j] # "") => j <= i) => new = <<more[i]>>
    <3>1. CASE kind = "arn" /\ text = ""
      <4>1. new = held
        BY <3>1 DEF Set
      <4> QED  BY <1>1, <2>2, <3>1, <4>1
    <3>2. CASE ~(kind = "arn" /\ text = "")
      <4>1. new = <<text>>
        BY <1>2, <2>1, <3>2 DEF Set
      <4>2. n \in DOMAIN more /\ (kind = "arn" => more[n] # "")
        BY <3>2
      <4>3. ASSUME NEW i \in DOMAIN more,
                   \A j \in DOMAIN more : (kind = "arn" => more[j] # "") => j <= i
            PROVE  i = n
        <5>1. n <= i
          BY <4>2, <4>3
        <5> QED  BY <1>1, <5>1
      <4> QED  BY <4>1, <4>2, <4>3
    <3> QED  BY <3>1, <3>2
  <2> HIDE DEF new
  <2>4. Holds(new, kind, more)
    BY <1>2, <2>1, <2>3 DEF Holds
  <2> QED  BY <2>1, <2>4 DEF new
<1>3. CASE kind = "map"
  <2> DEFINE new == [key \in DOMAIN held \cup {Key[text]} |-> IF key = Key[text] THEN text ELSE held[key]]
  <2>1. kind \notin Single /\ kind \notin Lists /\ Set(kind, held, text) = new
    BY <1>3 DEF Single, Lists, Set
  <2>2. /\ DOMAIN held = {Key[said[i]] : i \in At}
        /\ \A i \in At : (\A j \in At : Key[said[j]] = Key[said[i]] => j <= i) => held[Key[said[i]]] = said[i]
    BY <1>3, <2>1 DEF Holds
  <2>3. DOMAIN new = {Key[more[i]] : i \in DOMAIN more}
    <3>1. {Key[more[i]] : i \in DOMAIN more} = {Key[said[i]] : i \in At} \cup {Key[text]}
      OBVIOUS
    <3> QED  BY <2>2, <3>1
  <2>4. ASSUME NEW i \in DOMAIN more,
               \A j \in DOMAIN more : Key[more[j]] = Key[more[i]] => j <= i
        PROVE  new[Key[more[i]]] = more[i]
    <3>1. CASE i = n
      BY <3>1
    <3>2. CASE i # n
      <4>1. i \in At /\ more[i] = said[i]
        BY <3>2
      <4>2. Key[text] # Key[said[i]]
        <5>1. n \in DOMAIN more /\ ~(n <= i)
          BY <1>1, <4>1
        <5> QED  BY <2>4, <4>1, <5>1
      <4>3. \A j \in At : Key[said[j]] = Key[said[i]] => j <= i
        BY <2>4, <4>1
      <4>4. held[Key[said[i]]] = said[i] /\ Key[said[i]] \in DOMAIN held
        BY <2>2, <4>1, <4>3
      <4> QED  BY <4>1, <4>2, <4>4
    <3> QED  BY <3>1, <3>2
  <2> HIDE DEF new
  <2> QED  BY <1>3, <2>1, <2>3, <2>4 DEF Holds
<1>4. CASE kind \in Lists
  <2>1. kind \notin Single /\ kind # "map" /\ kind # "arn"
    BY <1>4 DEF Single, Lists
  <2>2. Set(kind, held, text) = Append(held, text)
    BY <2>1 DEF Set
  <2> DEFINE r(i) == Cardinality({j \in At : j <= i})
             s(i) == Cardinality({j \in DOMAIN more : j <= i})
  <2>3. Len(held) = Cardinality(At) /\ \A i \in At : held[r(i)] = said[i]
    BY <2>1 DEF Holds
  <2>4. IsFiniteSet(At) /\ Cardinality(At) \in Nat
    <3>1. IsFiniteSet(1..(n - 1))
      BY FiniteBefore
    <3> QED  BY <3>1, FS_Subset, FS_CardinalityType
  <2>5. Cardinality(DOMAIN more) = Cardinality(At) + 1
    BY <1>1, <2>4, FS_AddElement
  <2>6. ASSUME NEW i \in At
        PROVE  s(i) = r(i) /\ r(i) \in 1..Cardinality(At)
    <3>1. {j \in DOMAIN more : j <= i} = {j \in At : j <= i}
      BY <1>1
    <3>2. IsFiniteSet({j \in At : j <= i}) /\ r(i) \in Nat /\ r(i) <= Cardinality(At)
      BY <2>4, FS_Subset, FS_CardinalityType
    <3>3. r(i) # 0
      <4>1. i \in {j \in At : j <= i}
        BY <1>1
      <4> QED  BY <3>2, <4>1, FS_EmptySet
    <3>4. s(i) = r(i)
      BY <3>1
    <3> HIDE DEF r, s
    <3>5. r(i) \in 1..Cardinality(At)
      BY <2>4, <3>2, <3>3
    <3> QED  BY <3>4, <3>5
  <2>7. s(n) = Cardinality(At) + 1
    <3>1. {j \in DOMAIN more : j <= n} = DOMAIN more
      BY <1>1
    <3> QED  BY <2>5, <3>1
  <2>8. /\ IsPath(Append(held, text)) /\ Len(Append(held, text)) = Cardinality(At) + 1
        /\ \A k \in 1..Cardinality(At) : Append(held, text)[k] = held[k]
        /\ Append(held, text)[Cardinality(At) + 1] = text
    BY <1>4, <2>3, PathAppend
  <2>9. \A i \in DOMAIN more : Append(held, text)[s(i)] = more[i]
    <3>1. ASSUME NEW i \in DOMAIN more
          PROVE  Append(held, text)[s(i)] = more[i]
      <4> HIDE DEF r, s
      <4>1. CASE i = n
        BY <2>7, <2>8, <4>1
      <4>2. CASE i # n
        <5>1. i \in At /\ more[i] = said[i]
          BY <4>2
        <5>2. s(i) = r(i) /\ r(i) \in 1..Cardinality(At) /\ held[r(i)] = said[i]
          BY <2>3, <2>6, <5>1
        <5> QED  BY <2>8, <5>1, <5>2
      <4> QED  BY <4>1, <4>2
    <3> QED  BY <3>1
  <2> QED  BY <1>4, <2>1, <2>2, <2>5, <2>8, <2>9 DEF Holds
<1> QED  BY <1>2, <1>3, <1>4 DEF Kinds

\* What a prefix is.
LEMMA PrefixIs ==
    ASSUME NEW p, NEW c, IsPath(p), IsPath(c)
    PROVE  IsPrefix(p, c) <=> Len(p) <= Len(c) /\ \A i \in 1..Len(p) : p[i] = c[i]
<1>1. Len(p) \in Nat /\ Len(c) \in Nat
  BY PathOf
<1>2. ASSUME Len(p) <= Len(c)
      PROVE  /\ IsPath(SubSeq(c, 1, Len(p))) /\ Len(SubSeq(c, 1, Len(p))) = Len(p)
             /\ \A i \in 1..Len(p) : SubSeq(c, 1, Len(p))[i] = c[i]
  BY <1>1, <1>2, PathPart
<1>3. /\ IsPath(SubSeq(p, 1, Len(p))) /\ Len(SubSeq(p, 1, Len(p))) = Len(p)
      /\ \A i \in 1..Len(p) : SubSeq(p, 1, Len(p))[i] = p[i]
  BY <1>1, PathPart
<1>4. SubSeq(p, 1, Len(p)) = p
  BY <1>3, PathEqual
<1>5. IsPrefix(p, c) <=> Len(p) <= Len(c) /\ p = SubSeq(c, 1, Len(p))
  BY <1>4 DEF IsPrefix
<1>6. ASSUME Len(p) <= Len(c), \A i \in 1..Len(p) : p[i] = c[i]
      PROVE  p = SubSeq(c, 1, Len(p))
  BY <1>1, <1>2, <1>6, PathEqual
<1> QED  BY <1>1, <1>2, <1>5, <1>6

\* When a command begins, its group is one more that had its turn.
LEMMA PrefixGrows ==
    ASSUME NEW p, NEW c, NEW v, IsPath(p), IsPath(c)
    PROVE  /\ IsPrefix(p, Append(c, v)) <=> IsPrefix(p, c) \/ p = Append(c, v)
           /\ ~IsPrefix(Append(c, v), c) /\ Append(c, v) # c
<1> DEFINE d == Append(c, v)
<1>1. /\ IsPath(d) /\ Len(d) = Len(c) + 1 /\ \A i \in 1..Len(c) : d[i] = c[i]
      /\ Len(c) \in Nat /\ Len(p) \in Nat
  BY PathAppend, PathOf
<1> HIDE DEF d
<1>2. IsPrefix(p, c) => IsPrefix(p, d)
  BY <1>1, PrefixIs
<1>3. ~IsPrefix(d, c) /\ IsPrefix(d, d) /\ d # c
  BY <1>1, PrefixIs
<1>4. ASSUME IsPrefix(p, d), ~IsPrefix(p, c)
      PROVE  p = d
  <2>1. Len(p) <= Len(d) /\ \A i \in 1..Len(p) : p[i] = d[i]
    BY <1>1, <1>4, PrefixIs
  <2>2. Len(p) = Len(d)
    BY <1>1, <1>4, <2>1, PrefixIs
  <2> QED  BY <1>1, <2>1, <2>2, PathEqual
<1> QED  BY <1>2, <1>3, <1>4 DEF d

\* The group that reads is the last that had its turn, the program's own the first.
LEMMA SelectedIs ==
    ASSUME app \in Applications, command \in DOMAIN Built
    PROVE  /\ command \in Selected /\ <<>> \in Selected /\ (command = <<>> => Selected = {<<>>})
           /\ IsPath(command) /\ Selected \subseteq DOMAIN Built
<1>1. IsPath(command) /\ <<>> \in DOMAIN Built /\ Len(command) \in Nat
  BY BuiltIs, PathOf
<1>2. IsPath(<<>>) /\ Len(<<>>) = 0
  BY Empty
<1>3. command \in Selected /\ <<>> \in Selected
  <2>1. IsPrefix(command, command) /\ IsPrefix(<<>>, command)
    BY <1>1, <1>2, PrefixIs
  <2> QED  BY <1>1, <2>1 DEF Selected
<1>4. ASSUME command = <<>>, NEW p \in Selected PROVE p = <<>>
  <2>1. IsPath(p) /\ Len(p) <= 0 /\ Len(p) \in Nat
    BY <1>1, <1>2, <1>4, PrefixIs, PathOf, BuiltIs DEF Selected
  <2> QED  BY <2>1, PathOf
<1> QED  BY <1>1, <1>3, <1>4 DEF Selected

\* What tokens are.
LEMMA TokenFields ==
    ASSUME NEW type, NEW no, NEW value
    PROVE  /\ Token(type, no, value).type = type /\ Token(type, no, value).no = no
           /\ Token(type, no, value).value = value
BY DEF Token

\* A text is no flag.
LEMMA TextIs ==
    ASSUME NEW value
    PROVE  IsToken(Token("arg", FALSE, value)) /\ ~IsFlag(Token("arg", FALSE, value))
<1>1. Token("arg", FALSE, value).type = "arg" /\ Token("arg", FALSE, value).value = value
  BY DEF Token
<1>2. ~IsFlag(Token("arg", FALSE, value))
  BY <1>1 DEF IsFlag
<1>3. IsToken(Token("arg", FALSE, value))
  <2> DEFINE v == Token("arg", FALSE, value).value
  <2>1. v = value
    BY <1>1
  <2> HIDE DEF v
  <2>2. Token("arg", FALSE, value) = Token("arg", FALSE, v)
    BY <2>1
  <2> QED  BY <2>2 DEF IsToken, v
<1> QED  BY <1>2, <1>3

\* A long name is a flag's.
LEMMA LongIs == ASSUME NEW no, NEW value PROVE IsToken(Token("long", no, value))
<1>1. Token("long", no, value).type = "long"
  BY DEF Token
<1> QED  BY <1>1 DEF IsToken, IsFlag

\* So is a short one.
LEMMA ShortIs == ASSUME NEW value PROVE IsToken(Token("short", FALSE, value))
<1>1. Token("short", FALSE, value).type = "short"
  BY DEF Token
<1> QED  BY <1>1 DEF IsToken, IsFlag

\* There is no flag after the last token.
LEMMA EndIs == ~IsFlag(TokenEOL) /\ TokenEOL.type = "end"
<1>1. TokenEOL.type = "end"
  BY DEF Token, TokenEOL
<1> QED  BY <1>1 DEF IsFlag

\* A word is cut into tokens.
LEMMA TokensOf ==
    ASSUME NEW word \in Words
    PROVE  /\ IsPath(Tokens(word)) /\ \A i \in DOMAIN Tokens(word) : IsToken(Tokens(word)[i])
           /\ word.form = "text" => Tokens(word) = <<Token("arg", FALSE, word.text)>>
           /\ word.form = "long" =>
                /\ Tokens(word) # <<>> /\ Tokens(word)[1] = Token("long", word.no, word.name)
<1>2. CASE word.form = "long"
  <2> DEFINE a == <<Token("long", word.no, word.name)>>
             b == IF word.text = NoText THEN <<>> ELSE <<Token("arg", FALSE, word.text[1])>>
  <2>1. Tokens(word) = a \o b
    BY <1>2 DEF Tokens
  <2>2. IsPath(a) /\ Len(a) = 1 /\ a[1] = Token("long", word.no, word.name)
    BY One
  <2>3. IsPath(b) /\ \A i \in DOMAIN b : IsToken(b[i])
    <3>1. CASE word.text = NoText
      BY <3>1, Empty
    <3>2. CASE word.text # NoText
      <4> DEFINE t == Token("arg", FALSE, word.text[1])
      <4>1. b = <<t>> /\ IsToken(t)
        BY <3>2, TextIs
      <4> HIDE DEF t, b
      <4> QED  BY <4>1, One
    <3> QED  BY <3>1, <3>2
  <2> HIDE DEF a, b
  <2>4. IsPath(a \o b) /\ Len(a \o b) = 1 + Len(b) /\ (a \o b)[1] = a[1]
        /\ \A i \in 1..Len(b) : (a \o b)[1 + i] = b[i]
    <3>1. Len(a \o b) = Len(a) + Len(b) /\ IsPath(a \o b) /\ (\A i \in 1..Len(a) : (a \o b)[i] = a[i])
          /\ \A i \in 1..Len(b) : (a \o b)[Len(a) + i] = b[i]
      <4>1. IsPath(a) /\ IsPath(b)
        BY <2>2, <2>3
      <4>2. Len(a \o b) = Len(a) + Len(b)
        BY <4>1, PathConcat
      <4>3. IsPath(a \o b) 
        BY <4>1, PathConcat
      <4>4. (\A i \in 1..Len(a) : (a \o b)[i] = a[i])
        BY <4>1, PathConcat
      <4>5. \A i \in 1..Len(b) : (a \o b)[Len(a) + i] = b[i]
        BY <4>1, PathConcat
      <4> QED BY <4>2, <4>3, <4>4, <4>5
    <3> QED  BY <2>2, <3>1
  <2>5. IsToken(a[1])
    BY <2>2, LongIs
  <2>6. ASSUME NEW i \in DOMAIN (a \o b)
        PROVE  IsToken((a \o b)[i])
    <3>1. Len(b) \in Nat /\ DOMAIN b = 1..Len(b) /\ i \in 1..(1 + Len(b))
      BY <2>3, <2>4, PathOf
    <3>2. CASE i = 1
      BY <2>4, <2>5, <3>2
    <3>3. CASE i # 1
      <4>1. i - 1 \in 1..Len(b) /\ 1 + (i - 1) = i
        BY <3>1, <3>3
      <4>2. (a \o b)[i] = b[i - 1]
        BY <2>4, <4>1
      <4> QED  BY <2>3, <3>1, <4>1, <4>2
    <3> QED  BY <3>2, <3>3
  <2> QED  BY <1>2, <2>1, <2>2, <2>4, <2>6, PathOf
<1>3. CASE word.form = "short"
  <2>1. word.letters \in Seq(STRING)
    BY <1>3 DEF Words
  <2> DEFINE n == Len(word.letters)
             S == {Token("short", FALSE, x) : x \in STRING}
  <2>2. n \in Nat /\ DOMAIN word.letters = 1..n
    BY <2>1, LenProperties
  <2>3. Tokens(word) = [i \in 1..n |-> Token("short", FALSE, word.letters[i])]
    BY <1>3, <2>2 DEF Tokens
  <2>4. \A i \in 1..n : word.letters[i] \in STRING
    BY <2>1, <2>2
  <2>5. Tokens(word) \in [1..n -> S]
    BY <2>3, <2>4
  <2>6. Tokens(word) \in Seq(S)
    BY <2>2, <2>5, SeqDef
  <2>7. \A i \in DOMAIN Tokens(word) : IsToken(Tokens(word)[i])
    BY <2>3, ShortIs
  <2>8. IsPath(Tokens(word))
    BY <2>6 DEF IsPath
  <2> QED  BY <1>3, <2>7, <2>8
<1>4. CASE word.form = "text"
  <2> DEFINE t == Token("arg", FALSE, word.text)
  <2>1. Tokens(word) = <<t>> /\ IsToken(t)
    BY <1>4, TextIs DEF Tokens
  <2> HIDE DEF t
  <2>2. \A i \in DOMAIN <<t>> : IsToken(<<t>>[i])
    BY <2>1, One
  <2> QED  BY <1>4, <2>1, <2>2, One DEF t
<1> QED  BY <1>2, <1>3, <1>4 DEF Words

\* What a step leaves alone.
LEMMA GroupsSame ==
    ASSUME app' = app
    PROVE  /\ Built' = Built /\ Slots' = Slots /\ (Refused' <=> Refused)
           /\ \A p : AfterFlags(p)' = AfterFlags(p)
           /\ (DefaultsFit' <=> DefaultsFit)
           /\ command' = command => Selected' = Selected /\ Group' = Group
<1>1. Built' = Built
  BY DEF Built
<1>2. Slots' = Slots /\ (Refused' <=> Refused)
  BY <1>1 DEF Slots, Refused
<1>3. \A p : AfterFlags(p)' = AfterFlags(p)
  BY <1>1 DEF AfterFlags
<1>4. DefaultsFit' <=> DefaultsFit
  BY <1>1 DEF DefaultsFit
<1>5. command' = command => Selected' = Selected /\ Group' = Group
  BY <1>1 DEF Selected, Group
<1> QED  BY <1>1, <1>2, <1>3, <1>4, <1>5

\* Where the tokens stay and the same one is next, it reads as before.
LEMMA PlaceSame ==
    ASSUME tokens' = tokens
    PROVE  /\ HelpFirst' <=> HelpFirst
           /\ first' = first => (AtEnd' <=> AtEnd) /\ Peek' = Peek /\ (Stuck' <=> Stuck)
<1>1. HelpFirst' <=> HelpFirst
  BY DEF HelpFirst
<1>2. ASSUME first' = first PROVE (AtEnd' <=> AtEnd) /\ Peek' = Peek
  BY <1>2 DEF AtEnd, Peek
<1> QED  BY <1>1, <1>2 DEF Stuck

\* A line asks for help or not, whatever was read of it.
LEMMA LineSame ==
    ASSUME line' = line
    PROVE  (LongHelp' <=> LongHelp) /\ (TextHelp' <=> TextHelp) /\ (AllText' <=> AllText)
BY DEF LongHelp, TextHelp, AllText

\* What was said of a slot stays said where nothing is read for it.
LEMMA SaidSame ==
    ASSUME NEW slot, tokens' = tokens, Given(slot)' = Given(slot),
           \A i \in Given(slot) : reading'[i] = reading[i]
    PROVE  \A default : Said(slot, default)' = Said(slot, default)
BY DEF Said

\* A flag's value that no step of its group touches is kept.
LEMMA FlagStays ==
    ASSUME NEW p, NEW f, tokens' = tokens,
           values'[FlagSlot(p, f)] = values[FlagSlot(p, f)],
           Given(FlagSlot(p, f))' = Given(FlagSlot(p, f)),
           \A i \in Given(FlagSlot(p, f)) : reading'[i] = reading[i],
           p \in Selected' <=> p \in Selected, phase # "words", phase' # "words",
           p = command' /\ phase' = "flags" <=> p = command /\ phase = "flags",
           p = command /\ phase = "flags" => (f \in absent' <=> f \in absent),
           FlagKept(p, f)
    PROVE  FlagKept(p, f)'
<1> DEFINE slot == FlagSlot(p, f)
<1>1. \A d : Said(slot, d)' = Said(slot, d)
  BY SaidSame
<1>2. FlagAsRead(p, f)' <=> FlagAsRead(p, f)
  BY DEF FlagAsRead, Said, DefaultOf
<1> QED  BY <1>1, <1>2 DEF FlagKept

\* The value of an argument whose group does not read its arguments yet is zero.
LEMMA ArgIdle ==
    ASSUME NEW p \in DOMAIN Built, NEW i \in DOMAIN Built[p].args, app' = app,
           p # command \/ phase \notin {"args", "done"} \/ AfterFlags(p) # "args",
           p # command' \/ phase' \notin {"args", "done"} \/ AfterFlags(p) # "args",
           values'[ArgSlot(p, i)] = values[ArgSlot(p, i)],
           Given(ArgSlot(p, i))' = Given(ArgSlot(p, i)), ArgKept(p, i)
    PROVE  ArgKept(p, i)'
<1>1. Built' = Built /\ AfterFlags(p)' = AfterFlags(p)
  BY GroupsSame
<1> QED  BY <1>1 DEF ArgKept

\* The value of an argument that a step does not touch is kept.
LEMMA ArgStays ==
    ASSUME NEW p \in DOMAIN Built, NEW i \in DOMAIN Built[p].args,
           UNCHANGED <<app, tokens, first, command, phase, next, reading>>,
           values'[ArgSlot(p, i)] = values[ArgSlot(p, i)], ArgKept(p, i)
    PROVE  ArgKept(p, i)'
<1> DEFINE slot == ArgSlot(p, i)
<1>1. Built' = Built /\ AfterFlags(p)' = AfterFlags(p) /\ (Stuck' <=> Stuck) /\ Selected' = Selected
  BY GroupsSame, PlaceSame
<1>2. Given(slot)' = Given(slot)
  BY DEF Given
<1>3. \A d : Said(slot, d)' = Said(slot, d)
  BY <1>2, SaidSame
<1>4. ArgAsRead(p, i)' <=> ArgAsRead(p, i)
  BY <1>1, <1>2 DEF ArgAsRead, Said
<1> QED  BY <1>1, <1>2, <1>3, <1>4 DEF ArgKept

\* A flag required stays given, or missed.
LEMMA FlagStaysRequired ==
    ASSUME NEW p, NEW f, tokens' = tokens, phase # "words",
           Given(FlagSlot(p, f)) # {} => Given(FlagSlot(p, f))' # {},
           p = command /\ phase = "flags" /\ f \in missing =>
             \/ Given(FlagSlot(p, f))' # {}
             \/ p = command' /\ phase' = "flags" /\ f \in missing',
           FlagRequired(p, f)
    PROVE  FlagRequired(p, f)'
<1>1. HelpFirst' <=> HelpFirst
  BY PlaceSame
<1> QED  BY <1>1 DEF FlagRequired, DefaultOf

\* What was read stays read.
LEMMA TextAtStays ==
    ASSUME NEW j, app' = app, j \in DOMAIN reading' <=> j \in DOMAIN reading,
           j \in DOMAIN reading => reading'[j] = reading[j]
    PROVE  (IsFlagAt(j)' <=> IsFlagAt(j)) /\ (TextAt(j)' <=> TextAt(j))
<1>1. Built' = Built
  BY GroupsSame
<1>2. IsFlagAt(j)' <=> IsFlagAt(j)
  BY DEF IsFlagAt
<1>3. TextAt(j)' <=> TextAt(j)
  BY <1>1, <1>2 DEF TextAt, IsFlagAt, TakesText
<1> QED  BY <1>2, <1>3

\* A token that was read stays read as what it was.
LEMMA TokenStays ==
    ASSUME NEW i, app' = app, tokens' = tokens, Selected \subseteq Selected',
           i \in DOMAIN reading' <=> i \in DOMAIN reading,
           i \in DOMAIN reading => reading'[i] = reading[i],
           TextAt(i - 1)' <=> TextAt(i - 1), TokenRead(i)
    PROVE  TokenRead(i)'
<1>1. Built' = Built
  BY GroupsSame
<1>2. IsFlagAt(i)' <=> IsFlagAt(i)
  BY TextAtStays
<1>3. i \in DOMAIN reading' <=> ~TextAt(i - 1)'
  BY DEF TokenRead
<1>4. ASSUME i \in DOMAIN reading
      PROVE  LET r == reading[i]
             IN  /\ r.slot[2] \in Selected'
                 /\ IF IsFlagAt(i)
                    THEN \E f \in Built[r.slot[2]].flags :
                           /\ r.slot[3] = f.name
                           /\ IsFlag(tokens[i]) /\ tokens[i].value \in {f.name, f.short}
                           /\ IF TakesText(f)
                              THEN /\ i + 1 \in DOMAIN tokens /\ ~tokens[i].no
                                   /\ tokens[i + 1] = Token("arg", FALSE, r.text)
                              ELSE r.text = IF tokens[i].no THEN "false" ELSE "true"
                    ELSE tokens[i] = Token("arg", FALSE, r.text)
  BY <1>4 DEF TokenRead
<1> QED  BY <1>1, <1>2, <1>3, <1>4 DEF TokenRead

\* Where nothing is read, all stays.
LEMMA SoFarStays ==
    ASSUME SoFar, first \in Nat, UNCHANGED <<app, tokens, command, reading, first>>
    PROVE  SoFar'
<1>1. \A j : TextAt(j)' <=> TextAt(j)
  BY TextAtStays
<1>2. Selected' = Selected
  BY GroupsSame
<1>3. ASSUME NEW i \in 1..(first - 1) PROVE TokenRead(i)'
  BY <1>1, <1>2, TokenStays DEF SoFar
<1> QED  BY <1>1, <1>3 DEF SoFar

\* The value of a flag whose group did not have its turn is zero.
LEMMA FlagIdle ==
    ASSUME NEW p, NEW f, p \notin Selected \/ phase = "words", p \notin Selected' \/ phase' = "words",
           values'[FlagSlot(p, f)] = values[FlagSlot(p, f)],
           Given(FlagSlot(p, f))' = Given(FlagSlot(p, f)), FlagKept(p, f)
    PROVE  FlagKept(p, f)'
BY DEF FlagKept

\* How a command line is parsed first.
LEMMA LineStarts == CommandInit => LineInv
<1> SUFFICES ASSUME CommandInit PROVE LineInv
  OBVIOUS
<1>1. /\ app \in Applications /\ line \in CommandLines /\ outcome = "starting" /\ tokens = <<>>
      /\ first = 1 /\ command = <<>> /\ phase = "words" /\ missing = {} /\ absent = {} /\ next = 1
      /\ reading = <<>> /\ values = [s \in Slots |-> <<>>]
  BY DEF CommandInit
<1>2. <<>> \in DOMAIN Built /\ Selected = {<<>>}
  BY <1>1, BuiltIs, SelectedIs
<1>3. line \in Seq(Words)
  BY <1>1, KingpinAssumption
<1>4. \A slot : Given(slot) = {}
  BY <1>1, Empty DEF Given
<1>5. \A p \in DOMAIN Built : /\ \A f \in Built[p].flags : FlagSlot(p, f) \in Slots
                              /\ \A i \in DOMAIN Built[p].args : ArgSlot(p, i) \in Slots
  BY DEF Slots
<1>6. Shape
  <2>1. Len(line) \in Nat /\ DOMAIN values = Slots /\ DOMAIN reading = {} /\ Len(tokens) = 0
        /\ IsPath(tokens) /\ DOMAIN tokens = {}
    BY <1>1, <1>3, Empty
  <2> QED  BY <1>1, <1>2, <2>1 DEF Shape
<1>7. FirstTokens
  BY <1>1, Empty DEF FirstTokens
<1>8. SoFar
  BY <1>1, Empty DEF SoFar, TextAt, IsFlagAt
<1>9. ASSUME NEW p \in DOMAIN Built, NEW f \in Built[p].flags PROVE FlagKept(p, f)
  <2>1. values[FlagSlot(p, f)] = <<>>
    BY <1>1, <1>5
  <2> QED  BY <1>1, <1>4, <2>1, Empty DEF FlagKept
<1>10. ASSUME NEW p \in DOMAIN Built, NEW i \in DOMAIN Built[p].args PROVE ArgKept(p, i)
  <2>1. values[ArgSlot(p, i)] = <<>>
    BY <1>1, <1>5
  <2> QED  BY <1>1, <1>4, <2>1, Empty DEF ArgKept
<1>11. Kept
  BY <1>9, <1>10 DEF Kept
<1>12. Required
  BY <1>1 DEF Required, FlagRequired, ArgRequired
<1>13. Helping
  BY <1>1 DEF Helping
<1> QED  BY <1>6, <1>7, <1>8, <1>11, <1>12, <1>13 DEF LineInv

\* init refuses the application, or the words are read.
LEMMA ParseLineKeeps == LineInv /\ ParseLine => LineInv'
<1> SUFFICES ASSUME LineInv, ParseLine PROVE LineInv'
  OBVIOUS
<1>1. /\ outcome = "starting" /\ outcome' = IF Refused THEN "refused" ELSE "parsing"
      /\ UNCHANGED <<app, line, tokens, first, command, phase, missing, absent, next, values, reading>>
  BY DEF ParseLine, End
<1>2. Shape /\ FirstTokens /\ SoFar /\ Kept /\ Required /\ phase = "words"
  BY <1>1 DEF LineInv, Shape
<1>3. Built' = Built /\ Slots' = Slots /\ Selected' = Selected /\ Group' = Group
      /\ (Refused' <=> Refused) /\ \A p : AfterFlags(p)' = AfterFlags(p)
  BY <1>1, GroupsSame
<1>4. (AtEnd' <=> AtEnd) /\ (Stuck' <=> Stuck)
  BY <1>1, PlaceSame
<1>5. Shape'
  BY <1>1, <1>2, <1>3, <1>4 DEF Shape
<1>6. FirstTokens'
  BY <1>1, <1>2, LineSame DEF FirstTokens
<1>7. SoFar'
  BY <1>1, <1>2, SoFarStays DEF Shape
<1>8. \A slot : Given(slot)' = Given(slot)
  BY <1>1 DEF Given
<1>9. ASSUME NEW p \in DOMAIN Built, NEW f \in Built[p].flags PROVE FlagKept(p, f)'
  BY <1>1, <1>2, <1>8, FlagIdle DEF Kept
<1>10. ASSUME NEW p \in DOMAIN Built, NEW i \in DOMAIN Built[p].args PROVE ArgKept(p, i)'
  BY <1>1, <1>2, ArgStays DEF Kept
<1>11. Kept'
  BY <1>3, <1>9, <1>10 DEF Kept
<1>12. Required'
  BY <1>1, <1>2 DEF Required, FlagRequired, ArgRequired
<1>13. Helping'
  BY <1>1, <1>2 DEF Helping
<1> QED  BY <1>5, <1>6, <1>7, <1>11, <1>12, <1>13 DEF LineInv

\* A line whose parsing ends is left as it was read.
LEMMA EndKeeps ==
    ASSUME LineInv, outcome = "parsing", phase # "words",
           NEW how \in {"error", "usage", "parsed", "helped"}, End(how),
           how = "parsed" => phase = "done" /\ AtEnd,
           how # "helped" /\ line # <<>> =>
             ~LongHelp /\ ~(TextHelp /\ Built[<<>>].commands # <<>> /\ AllText /\ DefaultsFit)
    PROVE  LineInv'
<1>1. /\ outcome' = how
      /\ UNCHANGED <<app, line, tokens, first, command, phase, missing, absent, next, values, reading>>
  BY DEF End
<1>2. Shape /\ FirstTokens /\ SoFar /\ Kept /\ Required
  BY DEF LineInv
<1>3. Built' = Built /\ Slots' = Slots /\ Selected' = Selected /\ Group' = Group
      /\ (Refused' <=> Refused) /\ (DefaultsFit' <=> DefaultsFit) /\ \A p : AfterFlags(p)' = AfterFlags(p)
  BY <1>1, GroupsSame
<1>4. (AtEnd' <=> AtEnd) /\ (Stuck' <=> Stuck)
  BY <1>1, PlaceSame
<1>5. Shape'
  BY <1>1, <1>2, <1>3, <1>4 DEF Shape
<1>6. FirstTokens'
  BY <1>1, <1>2, LineSame DEF FirstTokens
<1>7. SoFar'
  BY <1>1, <1>2, SoFarStays DEF Shape
<1>8. \A slot : Given(slot)' = Given(slot)
  BY <1>1 DEF Given
<1>9. ASSUME NEW p \in DOMAIN Built, NEW f \in Built[p].flags PROVE FlagKept(p, f)'
  <2>1. FlagKept(p, f)
    BY <1>2 DEF Kept
  <2> QED  BY <1>1, <1>3, <1>8, <2>1, FlagStays
<1>10. ASSUME NEW p \in DOMAIN Built, NEW i \in DOMAIN Built[p].args PROVE ArgKept(p, i)'
  BY <1>1, <1>2, ArgStays DEF Kept
<1>11. Kept'
  BY <1>3, <1>9, <1>10 DEF Kept
<1>12. Required'
  <2>1. ASSUME NEW p \in Selected, NEW f \in Built[p].flags PROVE FlagRequired(p, f)'
    <3>1. FlagRequired(p, f)
      BY <1>2 DEF Required
    <3> QED  BY <1>1, <1>8, <3>1, FlagStaysRequired
  <2>2. ASSUME NEW p \in Selected, NEW i \in DOMAIN Built[p].args PROVE ArgRequired(p, i)'
    <3>1. ArgRequired(p, i)
      BY <1>2 DEF Required
    <3> QED  BY <1>1, <1>3, <1>4, <1>8, <3>1 DEF ArgRequired
  <2> QED  BY <1>3, <2>1, <2>2 DEF Required
<1>13. Helping'
  BY <1>1, <1>3, LineSame DEF Helping
<1> QED  BY <1>5, <1>6, <1>7, <1>11, <1>12, <1>13 DEF LineInv

\* A word is cut.
LEMMA TokenizeKeeps == LineInv /\ Tokenize => LineInv'
<1> SUFFICES ASSUME LineInv, Tokenize PROVE LineInv'
  OBVIOUS
<1> DEFINE word == line[next]
           more == Tokens(word)
<1>1. /\ outcome = "parsing" /\ phase = "words" /\ next <= Len(line)
      /\ tokens' = tokens \o more /\ next' = next + 1
      /\ UNCHANGED <<app, line, outcome, first, command, phase, missing, absent, values, reading>>
  BY DEF Tokenize
<1>2. Shape /\ FirstTokens /\ SoFar /\ Kept
  BY DEF LineInv
<1>3. Built' = Built /\ Slots' = Slots /\ Selected' = Selected /\ Group' = Group
      /\ (Refused' <=> Refused) /\ \A p : AfterFlags(p)' = AfterFlags(p)
  BY <1>1, GroupsSame
<1>4. /\ line \in Seq(Words) /\ Len(line) \in Nat /\ next \in 1..Len(line)
      /\ first = 1 /\ reading = <<>> /\ IsPath(tokens)
  BY <1>1, <1>2, KingpinAssumption DEF Shape
<1>5. word \in Words
  BY <1>4
<1>6. IsPath(more) /\ \A i \in DOMAIN more : IsToken(more[i])
  BY <1>5, TokensOf
<1> HIDE DEF more
<1>7. /\ IsPath(tokens') /\ Len(tokens') = Len(tokens) + Len(more)
      /\ Len(tokens) \in Nat /\ DOMAIN tokens = 1..Len(tokens)
      /\ Len(more) \in Nat /\ DOMAIN more = 1..Len(more)
      /\ DOMAIN tokens' = 1..(Len(tokens) + Len(more))
  <2>1. IsPath(tokens \o more)
    BY <1>4, <1>6, PathConcat
  <2>2. Len(tokens \o more) = Len(tokens) + Len(more)
    BY <1>4, <1>6, PathConcat
  <2> QED  BY <1>1, <1>4, <1>6, <2>1, <2>2, PathOf
<1>8. \A i \in 1..Len(tokens) : tokens'[i] = tokens[i]
  BY <1>1, <1>4, <1>6, PathConcat
<1>9. \A i \in 1..Len(more) : tokens'[Len(tokens) + i] = more[i]
  BY <1>1, <1>4, <1>6, PathConcat
<1>10. ASSUME NEW i \in DOMAIN tokens'
       PROVE  (i \in DOMAIN tokens /\ tokens'[i] = tokens[i]) \/ \E j \in DOMAIN more : tokens'[i] = more[j]
  <2>1. CASE i <= Len(tokens)
    BY <1>7, <1>8, <2>1
  <2>2. CASE ~(i <= Len(tokens))
    <3>1. i - Len(tokens) \in 1..Len(more) /\ Len(tokens) + (i - Len(tokens)) = i
      BY <1>7, <2>2
    <3> QED  BY <1>7, <1>9, <3>1
  <2> QED  BY <2>1, <2>2
<1>11. Shape'
  <2>1. \A i \in DOMAIN tokens' : IsToken(tokens'[i])
    BY <1>2, <1>6, <1>10 DEF Shape
  <2>2. next' \in Nat \ {0} /\ next' <= Len(line) + 1 /\ first' <= Len(tokens') + 1
    BY <1>1, <1>4, <1>7
  <2>3. (Stuck' => phase # "commands") /\ (phase = "words" => line' = line)
    BY <1>1
  <2> QED  BY <1>1, <1>2, <1>3, <1>4, <1>7, <2>1, <2>2, <2>3 DEF Shape, IsToken, IsFlag, Token
<1>12. FirstTokens'
  <2>1. (LongHelp' <=> LongHelp) /\ (TextHelp' <=> TextHelp) /\ (AllText' <=> AllText) /\ line # <<>>
    BY <1>1, <1>4, LineSame
  <2>2. CASE next = 1
    <3>1. tokens = <<>> /\ Len(tokens) = 0
      BY <1>1, <1>2, <2>2, Empty DEF FirstTokens
    <3>2. more # <<>> => tokens' # <<>> /\ tokens'[1] = more[1]
      <4>1. ASSUME more # <<>> PROVE 1 \in 1..Len(more) /\ Len(tokens) + 1 = 1 /\ Len(tokens') # 0
        BY <1>6, <1>7, <3>1, <4>1, PathOf
      <4> QED  BY <1>7, <1>9, <4>1, Empty
    <3>3. ASSUME LongHelp PROVE /\ tokens' # <<>> /\ tokens'[1].type = "long"
                                /\ tokens'[1].value = "help" /\ ~tokens'[1].no
      <4>1. word.form = "long" /\ word.name = "help" /\ ~word.no
        BY <2>2, <3>3 DEF LongHelp
      <4>2. more # <<>> /\ more[1] = Token("long", word.no, word.name)
        BY <1>5, <4>1, TokensOf DEF more
      <4>3. more[1].type = "long" /\ more[1].value = "help" /\ ~more[1].no
        BY <4>1, <4>2 DEF Token
      <4> QED  BY <3>2, <4>2, <4>3
    <3>4. ASSUME TextHelp PROVE tokens' # <<>> /\ tokens'[1] = Token("arg", FALSE, "help")
      <4>1. word.form = "text" /\ word.text = "help"
        BY <2>2, <3>4 DEF TextHelp, Text
      <4>2. more = <<Token("arg", FALSE, word.text)>>
        BY <1>5, <4>1, TokensOf DEF more
      <4>3. more # <<>> /\ more[1] = Token("arg", FALSE, "help")
        BY <4>1, <4>2, One
      <4> QED  BY <3>2, <4>3
    <3>5. (LongHelp => /\ tokens # <<>> /\ tokens[1].type = "long"
                       /\ tokens[1].value = "help" /\ ~tokens[1].no)'
          /\ (TextHelp => tokens # <<>> /\ tokens[1] = Token("arg", FALSE, "help"))'
      BY <2>1, <3>3, <3>4 DEF Token
    <3>6. AllText' => \A i \in DOMAIN tokens' : ~IsFlag(tokens'[i])
      <4>1. ASSUME AllText, NEW i \in DOMAIN tokens' PROVE ~IsFlag(tokens'[i])
        <5>1. word.form = "text"
          BY <1>4, <4>1 DEF AllText
        <5>2. more = <<Token("arg", FALSE, word.text)>>
          BY <1>5, <5>1, TokensOf DEF more
        <5>3. \A j \in DOMAIN more : ~IsFlag(more[j])
          BY <5>2, One, TextIs
        <5> QED  BY <1>2, <1>10, <4>1, <5>3 DEF FirstTokens
      <4> QED  BY <2>1, <4>1
    <3> QED  BY <1>1, <1>4, <3>5, <3>6 DEF FirstTokens, IsFlag, Token
  <2>3. CASE next # 1
    <3>1. (LongHelp => /\ tokens # <<>> /\ tokens[1].type = "long"
                       /\ tokens[1].value = "help" /\ ~tokens[1].no)
          /\ (TextHelp => tokens # <<>> /\ tokens[1] = Token("arg", FALSE, "help"))
      <4>1. next > 1
        BY <1>4, <2>3
      <4> QED  BY <1>2, <2>1, <4>1 DEF FirstTokens
    <3>2. tokens # <<>> => tokens' # <<>> /\ tokens'[1] = tokens[1]
      BY <1>4, <1>7, <1>8, PathOf
    <3>5. (LongHelp => /\ tokens # <<>> /\ tokens[1].type = "long"
                       /\ tokens[1].value = "help" /\ ~tokens[1].no)'
          /\ (TextHelp => tokens # <<>> /\ tokens[1] = Token("arg", FALSE, "help"))'
      BY <2>1, <3>1, <3>2 DEF Token
    <3>6. AllText' => \A i \in DOMAIN tokens' : ~IsFlag(tokens'[i])
      <4>1. ASSUME AllText, NEW i \in DOMAIN tokens' PROVE ~IsFlag(tokens'[i])
        <5>1. word.form = "text"
          BY <1>4, <4>1 DEF AllText
        <5>2. more = <<Token("arg", FALSE, word.text)>>
          BY <1>5, <5>1, TokensOf DEF more
        <5>3. \A j \in DOMAIN more : ~IsFlag(more[j])
          BY <5>2, One, TextIs
        <5> QED  BY <1>2, <1>10, <4>1, <5>3 DEF FirstTokens
      <4> QED  BY <2>1, <4>1
    <3> QED  BY <1>1, <1>4, <3>5, <3>6 DEF FirstTokens, IsFlag, Token
  <2> QED  BY <2>2, <2>3
<1>13. SoFar'
  BY <1>1, <1>4, Empty DEF SoFar, TextAt, IsFlagAt
<1>14. \A slot : Given(slot)' = Given(slot)
  BY <1>1 DEF Given
<1>15. ASSUME NEW p \in DOMAIN Built, NEW f \in Built[p].flags PROVE FlagKept(p, f)'
  BY <1>1, <1>2, <1>14, FlagIdle DEF Kept
<1>16. ASSUME NEW p \in DOMAIN Built, NEW i \in DOMAIN Built[p].args PROVE ArgKept(p, i)'
  BY <1>1, <1>2, <1>14, ArgIdle DEF Kept
<1>17. Kept'
  BY <1>3, <1>15, <1>16 DEF Kept
<1>18. Required'
  BY <1>1 DEF Required, FlagRequired, ArgRequired
<1>19. Helping'
  BY <1>1 DEF Helping
<1> QED  BY <1>11, <1>12, <1>13, <1>17, <1>18, <1>19 DEF LineInv

\* The words are cut, and the program's own group begins.
LEMMA ParseGroupKeeps == LineInv /\ ParseGroup => LineInv'
<1> SUFFICES ASSUME LineInv, ParseGroup PROVE LineInv'
  OBVIOUS
<1>1. /\ outcome = "parsing" /\ phase = "words" /\ next > Len(line) /\ next' = 1
      /\ command' = <<>> /\ phase' = "flags" /\ absent' = Built[<<>>].flags
      /\ missing' = {f \in Built[<<>>].flags : ~HelpFirst /\ f.required /\ DefaultOf(<<>>, f) = ""}
      /\ UNCHANGED <<app, line, outcome, tokens, first, values, reading>>
  BY DEF ParseGroup, Enter
<1>2. Shape /\ FirstTokens /\ SoFar /\ Kept
  BY DEF LineInv
<1>3. /\ first = 1 /\ reading = <<>> /\ command = <<>> /\ app \in Applications /\ ~Refused
      /\ (line # <<>> => next > 1)
  <2>1. first = 1 /\ reading = <<>> /\ command = <<>> /\ app \in Applications /\ ~Refused
        /\ line \in CommandLines /\ next \in Nat
    BY <1>1, <1>2 DEF Shape
  <2>2. line \in Seq(Words)
    BY <2>1, KingpinAssumption
  <2>3. Len(line) \in Nat /\ (line # <<>> => Len(line) # 0)
    BY <2>2
  <2>4. next > Len(line)
    BY <1>1
  <2>5. line # <<>> => next > 1
    BY <2>1, <2>3, <2>4
  <2> QED  BY <2>1, <2>5
<1>4. Built' = Built /\ Slots' = Slots /\ Selected' = Selected /\ Group' = Group
      /\ (Refused' <=> Refused) /\ \A p : AfterFlags(p)' = AfterFlags(p)
  BY <1>1, <1>3, GroupsSame
<1>5. <<>> \in DOMAIN Built /\ Selected = {<<>>} /\ Group = Built[<<>>] /\ IsPath(Built[<<>>].args)
      /\ \A p \in DOMAIN Built : /\ \A f \in Built[p].flags : f.kind \in Kinds
                                 /\ \A i \in DOMAIN Built[p].args : Built[p].args[i].kind \in Kinds
  BY <1>1, <1>3, BuiltIs, SelectedIs DEF Group
<1>6. Shape'
  <2>1. next' <= Len(Group.args) + 1
    <3>1. Len(Group.args) \in Nat
      BY <1>5, PathOf
    <3>2. next' = 1
      BY <1>1
    <3> QED  BY <3>1, <3>2
  <2>2. next' <= Len(IF phase' = "words" THEN line' ELSE Group'.args) + 1
    BY <1>1, <1>4, <2>1
  <2> QED  BY <1>1, <1>2, <1>3, <1>4, <1>5, <2>2 DEF Shape, IsToken, IsFlag, Token
<1>7. FirstTokens'
  <2>1. line # <<>> => next > 1
    BY <1>3
  <2>2. (LongHelp' <=> LongHelp) /\ (TextHelp' <=> TextHelp) /\ (AllText' <=> AllText)
    BY <1>1, LineSame
  <2> QED  BY <1>1, <1>2, <2>1, <2>2 DEF FirstTokens
<1>8. SoFar'
  BY <1>1, <1>2, <1>3, SoFarStays
<1>9. \A slot : Given(slot) = {} /\ Given(slot)' = {}
  BY <1>1, <1>3, Empty DEF Given
<1>10. ASSUME NEW p \in DOMAIN Built, NEW f \in Built[p].flags PROVE FlagKept(p, f)'
  <2> DEFINE slot == FlagSlot(p, f)
  <2>1. FlagKept(p, f) /\ values[slot] = <<>>
    BY <1>1, <1>2 DEF Kept, FlagKept
  <2>2. CASE p # <<>>
    BY <1>1, <1>4, <1>5, <1>9, <2>1, <2>2, FlagIdle
  <2>3. CASE p = <<>>
    <3>1. DOMAIN Said(slot, "")' = {}
      BY <1>9 DEF Said
    <3>2. Holds(values[slot], f.kind, Said(slot, "")')
      BY <1>5, <2>1, <3>1, NothingHeld
    <3>3. Holds(values[slot], f.kind, Said(slot, ""))'
      BY <1>1, <3>2 DEF Said
    <3> QED  BY <1>1, <1>4, <1>5, <1>9, <2>1, <2>3, <3>3, Empty DEF FlagKept
  <2> QED  BY <2>2, <2>3
<1>11. ASSUME NEW p \in DOMAIN Built, NEW i \in DOMAIN Built[p].args PROVE ArgKept(p, i)'
  BY <1>1, <1>2, <1>9, ArgIdle DEF Kept
<1>12. Kept'
  BY <1>4, <1>10, <1>11 DEF Kept
<1>13. Required'
  <2>1. HelpFirst' <=> HelpFirst
    BY <1>1, PlaceSame
  <2>2. ASSUME NEW p \in Selected, NEW f \in Built[p].flags PROVE FlagRequired(p, f)'
    BY <1>1, <1>5, <2>1 DEF FlagRequired, DefaultOf
  <2>3. ASSUME NEW p \in Selected, NEW i \in DOMAIN Built[p].args PROVE ArgRequired(p, i)'
    BY <1>1 DEF ArgRequired
  <2> QED  BY <1>4, <2>2, <2>3 DEF Required
<1>14. Helping'
  <2>1. ASSUME line # <<>>, TextHelp PROVE missing' = {}
    <3>1. tokens # <<>> /\ tokens[1] = Token("arg", FALSE, "help")
      BY <1>1, <1>2, <1>3, <2>1 DEF FirstTokens
    <3>2. HelpFirst
      BY <3>1 DEF HelpFirst, Token
    <3> QED  BY <1>1, <3>2
  <2>2. (TextHelp' <=> TextHelp)
    BY <1>1, LineSame
  <2> QED  BY <1>1, <1>3, <2>1, <2>2 DEF Helping
<1> QED  BY <1>6, <1>7, <1>8, <1>12, <1>13, <1>14 DEF LineInv

\* The token to be read.
LEMMA PeekIs ==
    ASSUME Shape
    PROVE  /\ IF AtEnd THEN Peek = TokenEOL /\ first = Len(tokens) + 1
              ELSE Peek = tokens[first] /\ first \in DOMAIN tokens
           /\ IsFlag(Peek) => ~AtEnd
           /\ ~AtEnd /\ ~IsFlag(Peek) => Peek = Token("arg", FALSE, Peek.value)
           /\ Peek.type = "arg" => ~AtEnd /\ ~IsFlag(Peek)
           /\ Len(tokens) \in Nat /\ DOMAIN tokens = 1..Len(tokens) /\ first \in Nat /\ first > 0
           /\ first <= Len(tokens) + 1
<1>1. /\ IsPath(tokens) /\ first \in Nat \ {0} /\ first <= Len(tokens) + 1
      /\ \A i \in DOMAIN tokens : IsToken(tokens[i])
  BY DEF Shape
<1>2. Len(tokens) \in Nat /\ DOMAIN tokens = 1..Len(tokens) /\ first \in Nat /\ first > 0
  BY <1>1, PathOf
<1>3. CASE AtEnd
  <2>1. Peek = TokenEOL /\ first = Len(tokens) + 1
    BY <1>1, <1>2, <1>3 DEF AtEnd, Peek
  <2> QED  BY <1>1, <1>2, <1>3, <2>1, EndIs
<1>4. CASE ~AtEnd
  <2>1. Peek = tokens[first] /\ first \in DOMAIN tokens
    BY <1>1, <1>2, <1>4 DEF AtEnd, Peek
  <2>2. ~IsFlag(Peek) => Peek = Token("arg", FALSE, Peek.value)
    BY <1>1, <2>1 DEF IsToken
  <2>3. Peek.type = "arg" => ~IsFlag(Peek)
    BY DEF IsFlag
  <2> QED  BY <1>1, <1>2, <1>4, <2>1, <2>2, <2>3, Zenon
<1> QED  BY <1>3, <1>4

\* Where a line that asks for help is.
LEMMA LongHelpAt ==
    ASSUME LineInv, outcome = "parsing", phase # "words", line # <<>>, LongHelp
    PROVE  /\ phase = "flags" /\ command = <<>> /\ IsFlag(Peek) /\ ~Peek.no
           /\ Peek.type = "long" /\ Peek.value = "help"
<1>1. phase = "flags" /\ first = 1 /\ command = <<>>
  BY DEF LineInv, Helping
<1>2. tokens # <<>> /\ tokens[1].type = "long" /\ tokens[1].value = "help" /\ ~tokens[1].no
  BY DEF LineInv, FirstTokens
<1>3. IsPath(tokens) /\ Len(tokens) # 0
  BY <1>2, PathOf DEF LineInv, Shape
<1>4. ~AtEnd /\ Peek = tokens[1]
  BY <1>1, <1>3, PathOf DEF AtEnd, Peek
<1> QED  BY <1>1, <1>2, <1>4 DEF IsFlag

\* So is a line that begins with the command help and asks for nothing else.
LEMMA TextHelpAt ==
    ASSUME LineInv, outcome = "parsing", phase # "words", line # <<>>, TextHelp,
           Built[<<>>].commands # <<>>, AllText, DefaultsFit
    PROVE  /\ missing = {} /\ ~IsFlag(Peek)
           /\ \/ /\ phase \in {"flags", "commands"} /\ command = <<>> /\ ~AtEnd
                 /\ Peek = Token("arg", FALSE, "help")
              \/ phase \in {"flags", "done"} /\ command = <<"help">>
<1>1. \/ phase \in {"flags", "commands"} /\ first = 1 /\ command = <<>> /\ missing = {}
      \/ phase \in {"flags", "done"} /\ command = <<"help">> /\ missing = {}
  BY DEF LineInv, Helping
<1>2. tokens # <<>> /\ tokens[1] = Token("arg", FALSE, "help")
  BY DEF LineInv, FirstTokens
<1>3. \A i \in DOMAIN tokens : ~IsFlag(tokens[i])
  BY DEF LineInv, FirstTokens
<1>4. ~IsFlag(Peek)
  BY <1>3, PeekIs, EndIs DEF LineInv
<1>5. IsPath(tokens) /\ Len(tokens) # 0
  BY <1>2, PathOf DEF LineInv, Shape
<1>6. ASSUME first = 1 PROVE ~AtEnd /\ Peek = tokens[1]
  BY <1>5, <1>6, PathOf DEF AtEnd, Peek
<1> QED  BY <1>1, <1>2, <1>4, <1>6

\* A flag cannot be read.
LEMMA FlagErrorKeeps == LineInv /\ FlagError => LineInv'
<1> SUFFICES ASSUME LineInv, FlagError PROVE LineInv'
  OBVIOUS
<1>1. outcome = "parsing" /\ phase = "flags" /\ IsFlag(Peek) /\ End("error")
      /\ \A f \in NamedFlags(Peek) : ~Readable(f)
  BY DEF FlagError
<1>2. ASSUME line # <<>>, LongHelp PROVE FALSE
  <2>1. command = <<>> /\ ~Peek.no /\ Peek.type = "long" /\ Peek.value = "help"
    BY <1>1, <1>2, LongHelpAt
  <2>2. HelpFlag \in Group.flags /\ HelpFlag.name = "help" /\ HelpFlag.kind = "bool"
    <3>1. app \in Applications
      BY DEF LineInv, Shape
    <3> QED  BY <2>1, <3>1, BuiltIs DEF Group, HelpFlag, Flag
  <2>3. HelpFlag \in NamedFlags(Peek)
    BY <2>1, <2>2 DEF NamedFlags
  <2>4. FlagText(HelpFlag) = "true" /\ ~TakesText(HelpFlag)
    BY <2>1, <2>2 DEF FlagText, TakesText
  <2>5. Readable(HelpFlag)
    BY <2>2, <2>4, KingpinAssumption DEF Readable, Accepts
  <2> QED  BY <1>1, <2>3, <2>5
<1>3. ASSUME line # <<>>, TextHelp, Built[<<>>].commands # <<>>, AllText, DefaultsFit PROVE FALSE
  BY <1>1, <1>3, TextHelpAt
<1> QED  BY <1>1, <1>2, <1>3, EndKeeps

\* What is said so far is read.
LEMMA FinishKeeps == LineInv /\ Finish => LineInv'
<1> SUFFICES ASSUME LineInv, Finish PROVE LineInv'
  OBVIOUS
<1>1. outcome = "parsing" /\ phase = "done"
      /\ End(CASE command = <<"help">> -> "helped"
               [] command # <<"help">> /\ ~AtEnd -> "error"
               [] command = <<>> /\ AtEnd /\ Group.commands # <<>> -> "usage"
               [] OTHER -> "parsed")
  BY DEF Finish
<1>2. <<"help">> # <<>>
  OBVIOUS
<1>3. CASE command = <<"help">>
  <2>1. End("helped")
    BY <1>1, <1>2, <1>3
  <2> QED  BY <1>1, <2>1, EndKeeps
<1>4. CASE command # <<"help">>
  <2>1. line # <<>> => ~LongHelp /\ ~(TextHelp /\ Built[<<>>].commands # <<>> /\ AllText /\ DefaultsFit)
    BY <1>1, <1>4, LongHelpAt, TextHelpAt
  <2>2. CASE ~AtEnd
    <3>1. End("error")
      BY <1>1, <1>4, <2>2
    <3> QED  BY <1>1, <2>1, <3>1, EndKeeps
  <2>3. CASE AtEnd /\ command = <<>> /\ Group.commands # <<>>
    <3>1. End("usage")
      BY <1>1, <1>4, <2>3
    <3> QED  BY <1>1, <2>1, <3>1, EndKeeps
  <2>4. CASE AtEnd /\ ~(command = <<>> /\ Group.commands # <<>>)
    <3>1. End("parsed")
      BY <1>1, <1>4, <2>4
    <3> QED  BY <1>1, <2>1, <2>4, <3>1, EndKeeps
  <2> QED  BY <2>2, <2>3, <2>4
<1> QED  BY <1>3, <1>4

\* No argument is given where a flag is next.
LEMMA PassArgKeeps == LineInv /\ PassArg => LineInv'
<1> SUFFICES ASSUME LineInv, PassArg PROVE LineInv'
  OBVIOUS
<1>1. outcome = "parsing" /\ phase = "args" /\ next <= Len(Group.args) /\ IsFlag(Peek)
  BY DEF PassArg
<1>2. CASE Group.args[next].kind \in Cumulative
  <2>1. End("error")
    BY <1>2 DEF PassArg
  <2>2. line # <<>> => ~LongHelp /\ ~(TextHelp /\ Built[<<>>].commands # <<>> /\ AllText /\ DefaultsFit)
    BY <1>1, LongHelpAt, TextHelpAt
  <2> QED  BY <1>1, <2>1, <2>2, EndKeeps
<1>3. CASE Group.args[next].kind \notin Cumulative
  <2>1. next' = next + 1
        /\ UNCHANGED <<app, line, outcome, tokens, first, command, phase, missing, absent, values, reading>>
    BY <1>3 DEF PassArg
  <2>2. Shape /\ FirstTokens /\ SoFar /\ Kept /\ Required
    BY DEF LineInv
  <2>3. Built' = Built /\ Slots' = Slots /\ Selected' = Selected /\ Group' = Group
        /\ (Refused' <=> Refused) /\ (DefaultsFit' <=> DefaultsFit) /\ \A p : AfterFlags(p)' = AfterFlags(p)
    BY <2>1, GroupsSame
  <2>4. (AtEnd' <=> AtEnd) /\ (Stuck' <=> Stuck) /\ Stuck
    BY <1>1, <2>1, <2>2, PlaceSame, PeekIs DEF Stuck
  <2>5. Shape'
    <3>1. next' \in Nat \ {0} /\ next' <= Len(Group'.args) + 1
      <4>1. next \in Nat /\ IsPath(Group.args)
        BY <2>2, BuiltIs DEF Shape, Group
      <4>2. Len(Group.args) \in Nat
        BY <4>1, PathOf
      <4> QED  BY <1>1, <2>1, <2>3, <4>1, <4>2
    <3> QED  BY <1>1, <2>1, <2>2, <2>3, <2>4, <3>1 DEF Shape
  <2>6. FirstTokens'
    BY <1>1, <2>1, <2>2, LineSame DEF FirstTokens
  <2>7. SoFar'
    BY <2>1, <2>2, SoFarStays DEF Shape
  <2>8. \A slot : Given(slot)' = Given(slot)
    BY <2>1 DEF Given
  <2>9. ASSUME NEW p \in DOMAIN Built, NEW f \in Built[p].flags PROVE FlagKept(p, f)'
    <3>1. FlagKept(p, f)
      BY <2>2 DEF Kept
    <3> QED  BY <1>1, <2>1, <2>3, <2>8, <3>1, FlagStays
  <2>10. ASSUME NEW p \in DOMAIN Built, NEW i \in DOMAIN Built[p].args PROVE ArgKept(p, i)'
    <3>1. ArgKept(p, i)
      BY <2>2 DEF Kept
    <3>2. CASE p # command \/ AfterFlags(p) # "args"
      BY <2>1, <2>8, <3>1, <3>2, ArgIdle
    <3>3. CASE p = command /\ AfterFlags(p) = "args"
      <4> DEFINE slot == ArgSlot(p, i)
                 kind == Built[p].args[i].kind
      <4>1. /\ kind \in Lists => IsPath(values[slot])
            /\ Holds(values[slot], kind, Said(slot, ""))
            /\ i > next \/ (i = next /\ kind \notin Cumulative) => Given(slot) = {}
            /\ i < next => kind \notin Cumulative /\ (Given(slot) # {} \/ Stuck)
        BY <1>1, <3>1, <3>3 DEF ArgKept
      <4>2. Holds(values[slot], kind, Said(slot, ""))'
        BY <2>1, <2>3, <2>8, <4>1, SaidSame
      <4>3. i \in Nat /\ next \in Nat
        BY <2>2, BuiltIs, PathOf DEF Shape
      <4>4. next' = next + 1 /\ Given(slot)' = Given(slot) /\ (i = next => kind \notin Cumulative)
        BY <1>3, <2>1, <2>8, <3>3 DEF Group
      <4>5. /\ i > next' \/ i = next' => Given(slot)' = {}
            /\ i < next' => kind \notin Cumulative
        <5>1. (i > next' \/ i = next' => i > next) /\ (i < next' => i < next \/ i = next)
          BY <4>3, <4>4
        <5> QED  BY <4>1, <4>4, <5>1
      <4> QED  BY <1>1, <2>1, <2>3, <2>4, <3>3, <4>1, <4>2, <4>4, <4>5 DEF ArgKept
    <3> QED  BY <3>2, <3>3
  <2>11. Kept'
    BY <2>3, <2>9, <2>10 DEF Kept
  <2>12. Required'
    <3>1. ASSUME NEW p \in Selected, NEW f \in Built[p].flags PROVE FlagRequired(p, f)'
      <4>1. FlagRequired(p, f)
        BY <2>2 DEF Required
      <4> QED  BY <1>1, <2>1, <2>8, <4>1, FlagStaysRequired
    <3>2. ASSUME NEW p \in Selected, NEW i \in DOMAIN Built[p].args PROVE ArgRequired(p, i)'
      BY <1>1, <2>1 DEF ArgRequired
    <3> QED  BY <2>3, <3>1, <3>2 DEF Required
  <2>13. Helping'
    <3>1. Helping
      BY DEF LineInv
    <3> QED  BY <2>1, <2>3, <3>1, LineSame DEF Helping
  <2> QED  BY <2>5, <2>6, <2>7, <2>11, <2>12, <2>13 DEF LineInv
<1> QED  BY <1>2, <1>3

\* What reading a token adds.
LEMMA ReadAdds ==
    ASSUME NEW slot, NEW text, NEW width, Read(slot, text, width), first \in Nat,
           DOMAIN reading \subseteq 1..(first - 1)
    PROVE  /\ first' = first + width /\ first \notin DOMAIN reading
           /\ DOMAIN reading' = DOMAIN reading \cup {first}
           /\ reading'[first].slot = slot /\ reading'[first].text = text
           /\ \A i \in DOMAIN reading : reading'[i] = reading[i]
           /\ Given(slot)' = Given(slot) \cup {first} /\ Given(slot) \subseteq 1..(first - 1)
           /\ \A s : s # slot => Given(s)' = Given(s)
<1> DEFINE r == [slot |-> slot, text |-> text]
<1>1. first' = first + width
      /\ reading' = [i \in DOMAIN reading \cup {first} |-> IF i = first THEN r ELSE reading[i]]
  BY DEF Read
<1>2. r.slot = slot /\ r.text = text
  OBVIOUS
<1> HIDE DEF r
<1>3. first \notin DOMAIN reading
  OBVIOUS
<1>4. /\ DOMAIN reading' = DOMAIN reading \cup {first} /\ reading'[first] = r
      /\ \A i \in DOMAIN reading : reading'[i] = reading[i]
  BY <1>1, <1>3
<1>5. Given(slot)' = Given(slot) \cup {first} /\ Given(slot) \subseteq 1..(first - 1)
  BY <1>2, <1>3, <1>4 DEF Given
<1>6. \A s : s # slot => Given(s)' = Given(s)
  BY <1>2, <1>3, <1>4 DEF Given
<1> QED  BY <1>1, <1>2, <1>3, <1>4, <1>5, <1>6

\* A token is read next, as a flag or as a text; or it was read with the flag before it.
LEMMA TokenReadNext ==
    ASSUME NEW i, i \in DOMAIN reading', ~TextAt(i - 1)', reading'[i].slot[2] \in Selected',
           IF IsFlagAt(i)'
           THEN \E g \in Built'[reading'[i].slot[2]].flags :
                  /\ reading'[i].slot[3] = g.name
                  /\ IsFlag(tokens'[i]) /\ tokens'[i].value \in {g.name, g.short}
                  /\ IF TakesText(g)
                     THEN /\ i + 1 \in DOMAIN tokens' /\ ~tokens'[i].no
                          /\ tokens'[i + 1] = Token("arg", FALSE, reading'[i].text)
                     ELSE reading'[i].text = IF tokens'[i].no THEN "false" ELSE "true"
           ELSE tokens'[i] = Token("arg", FALSE, reading'[i].text)
    PROVE  TokenRead(i)'
BY DEF TokenRead, IsFlag, TakesText, Token

\* The text after a flag is read with the flag.
LEMMA TokenSkipped ==
    ASSUME NEW i, NEW j, i - 1 = j, i \notin DOMAIN reading', TextAt(j)'
    PROVE  TokenRead(i)'
BY DEF TokenRead, TextAt, IsFlagAt

\* What was read so far is what was read before, and what a step read.
LEMMA SoFarNext ==
    ASSUME NEW j, j = first' - 1, ~TextAt(j)', \A i \in 1..j : TokenRead(i)'
    PROVE  SoFar'
BY DEF SoFar, TextAt, IsFlagAt

\* What was said of a slot.
LEMMA SaidIs ==
    ASSUME NEW slot, NEW default
    PROVE  /\ DOMAIN Said(slot, default) =
                Given(slot) \cup (IF default # "" THEN {Len(tokens) + 1} ELSE {})
           /\ \A i \in Given(slot) : Said(slot, default)[i] = reading[i].text
           /\ default # "" /\ Len(tokens) + 1 \notin Given(slot) =>
                Said(slot, default)[Len(tokens) + 1] = default
<1>1. {e \in {Len(tokens) + 1} : default # ""} = IF default # "" THEN {Len(tokens) + 1} ELSE {}
  OBVIOUS
<1> QED  BY <1>1 DEF Said

\* The same after a step, of what was read alone.
LEMMA SaidIsNext ==
    ASSUME NEW slot
    PROVE  /\ DOMAIN Said(slot, "")' = Given(slot)'
           /\ \A i \in Given(slot)' : Said(slot, "")'[i] = reading'[i].text
<1>1. {e \in {Len(tokens') + 1} : "" # ""} = {}
  OBVIOUS
<1> QED  BY <1>1 DEF Said

\* A value that is Set to a text just read holds what was said.
LEMMA SetRead ==
    ASSUME NEW slot, NEW text, NEW width, Read(slot, text, width), first \in Nat,
           DOMAIN reading \subseteq 1..(first - 1), NEW kind \in Kinds, NEW held,
           Holds(held, kind, Said(slot, "")), kind \in Lists => IsPath(held)
    PROVE  /\ Holds(Set(kind, held, text), kind, Said(slot, "")')
           /\ kind \in Lists => IsPath(Set(kind, held, text))
<1> DEFINE said == Said(slot, "")
           more == Said(slot, "")'
<1>1. DOMAIN said = Given(slot) /\ \A i \in Given(slot) : said[i] = reading[i].text
  BY SaidIs
<1>2. DOMAIN more = Given(slot)' /\ \A i \in Given(slot)' : more[i] = reading'[i].text
  BY SaidIsNext
<1>3. /\ Given(slot)' = Given(slot) \cup {first} /\ Given(slot) \subseteq 1..(first - 1)
      /\ reading'[first].text = text /\ \A i \in Given(slot) : reading'[i] = reading[i]
  BY ReadAdds DEF Given
<1>4. /\ DOMAIN said \subseteq 1..(first - 1) /\ DOMAIN more = DOMAIN said \cup {first}
      /\ \A i \in DOMAIN said : more[i] = said[i]
      /\ more[first] = text
  BY <1>1, <1>2, <1>3
<1>5. Holds(held, kind, said)
  OBVIOUS
<1> HIDE DEF said, more
<1>6. Holds(Set(kind, held, text), kind, more) /\ (kind \in Lists => IsPath(Set(kind, held, text)))
  BY <1>4, <1>5, SetHolds
<1> QED  BY <1>6 DEF more

\* A flag is read, with the text it takes.
LEMMA ParseFlagKeeps == LineInv /\ ParseFlag => LineInv'
<1> SUFFICES ASSUME LineInv, ParseFlag PROVE LineInv'
  OBVIOUS
<1>1. outcome = "parsing" /\ phase = "flags" /\ IsFlag(Peek)
      /\ UNCHANGED <<app, line, tokens, command, phase, next>>
  BY DEF ParseFlag
<1>2. PICK f \in NamedFlags(Peek) :
         /\ Readable(f)
         /\ missing' = missing \ {f} /\ absent' = absent \ {f}
         /\ values' = [values EXCEPT ![FlagSlot(command, f)] = Set(f.kind, @, FlagText(f))]
         /\ Read(FlagSlot(command, f), FlagText(f), IF TakesText(f) THEN 2 ELSE 1)
         /\ outcome' = IF f.exits THEN "helped" ELSE outcome
  BY DEF ParseFlag
<1>0. PICK at, slot, text : at = first /\ slot = FlagSlot(command, f) /\ text = FlagText(f)
  OBVIOUS
<1> DEFINE width == IF TakesText(f) THEN 2 ELSE 1
<1>3. Shape /\ FirstTokens /\ SoFar /\ Kept /\ Required
  BY DEF LineInv
<1>4. Built' = Built /\ Slots' = Slots /\ Selected' = Selected /\ Group' = Group
      /\ (Refused' <=> Refused) /\ (DefaultsFit' <=> DefaultsFit) /\ \A p : AfterFlags(p)' = AfterFlags(p)
  BY <1>1, GroupsSame
<1>5. /\ app \in Applications /\ ~Refused /\ command \in DOMAIN Built /\ Group = Built[command]
      /\ command \in Selected /\ Selected \subseteq DOMAIN Built
      /\ DOMAIN reading \subseteq 1..(first - 1) /\ DOMAIN values = Slots
  BY <1>1, <1>3, SelectedIs DEF Shape, Group
<1>6. /\ f \in Group.flags /\ f.kind \in Kinds
      /\ Peek.value \in {f.name, f.short} /\ (Peek.type = "long" => Peek.value = f.name)
      /\ \A g \in Group.flags : g.name = f.name => g = f
  BY <1>5, BuiltIs DEF NamedFlags
<1>7. /\ ~AtEnd /\ Peek = tokens[at] /\ at \in DOMAIN tokens /\ at \in Nat /\ at > 0
      /\ Len(tokens) \in Nat /\ DOMAIN tokens = 1..Len(tokens) /\ at <= Len(tokens)
  <2>1. /\ ~AtEnd /\ Peek = tokens[at] /\ at \in DOMAIN tokens /\ at \in Nat /\ at > 0
        /\ Len(tokens) \in Nat /\ DOMAIN tokens = 1..Len(tokens)
    BY <1>0, <1>1, <1>3, PeekIs
  <2> QED  BY <2>1
<1>8. TakesText(f) => /\ ~tokens[at].no /\ at + 1 \in DOMAIN tokens
                      /\ tokens[at + 1] = Token("arg", FALSE, text)
  <2>1. ASSUME TakesText(f) PROVE ~Peek.no /\ at < Len(tokens) /\ tokens[at + 1].type = "arg"
                                  /\ text = tokens[at + 1].value
    BY <1>0, <1>2, <2>1 DEF Readable, FlagText
  <2>2. ASSUME TakesText(f) PROVE at + 1 \in DOMAIN tokens
    BY <1>7, <2>1, <2>2
  <2>3. ASSUME TakesText(f) PROVE tokens[at + 1] = Token("arg", FALSE, tokens[at + 1].value)
    <3>1. IsToken(tokens[at + 1])
      BY <1>3, <2>2, <2>3 DEF Shape
    <3> QED  BY <2>1, <2>3, <3>1 DEF IsToken, IsFlag
  <2> QED  BY <1>7, <2>1, <2>2, <2>3
<1>9. ~TakesText(f) => text = IF tokens[at].no THEN "false" ELSE "true"
  BY <1>0, <1>7 DEF FlagText
<1>10. Read(slot, text, width)
  BY <1>0, <1>2
<1>11. slot[1] = "flag" /\ slot[2] = command /\ slot[3] = f.name
  BY <1>0 DEF FlagSlot
<1>12. /\ first' = at + width /\ at \notin DOMAIN reading /\ DOMAIN reading \subseteq 1..(at - 1)
       /\ DOMAIN reading' = DOMAIN reading \cup {at}
       /\ reading'[at].slot = slot /\ reading'[at].text = text
       /\ \A i \in DOMAIN reading : reading'[i] = reading[i]
       /\ Given(slot)' = Given(slot) \cup {at} /\ Given(slot) \subseteq 1..(at - 1)
       /\ \A s : s # slot => Given(s)' = Given(s)
  <2>1. first \in Nat /\ DOMAIN reading \subseteq 1..(first - 1)
    BY <1>0, <1>5, <1>7
  <2>2. /\ first' = first + width /\ first \notin DOMAIN reading
        /\ DOMAIN reading' = DOMAIN reading \cup {first}
        /\ reading'[first].slot = slot /\ reading'[first].text = text
        /\ \A i \in DOMAIN reading : reading'[i] = reading[i]
        /\ Given(slot)' = Given(slot) \cup {first} /\ Given(slot) \subseteq 1..(first - 1)
        /\ \A s : s # slot => Given(s)' = Given(s)
    BY <1>10, <2>1, ReadAdds
  <2> QED  BY <1>0, <2>1, <2>2
<1>13. width \in {1, 2} /\ (width = 2 <=> TakesText(f))
  OBVIOUS
<1> HIDE DEF width
<1>14. /\ slot \in Slots /\ DOMAIN values' = Slots
       /\ values'[slot] = Set(f.kind, values[slot], text)
       /\ \A s \in Slots : s # slot => values'[s] = values[s]
  <2>1. slot \in Slots
    BY <1>0, <1>5, <1>6 DEF Slots
  <2> QED  BY <1>0, <1>2, <1>5, <2>1
<1>15. Shape'
  <2>1. first' \in Nat \ {0} /\ first' <= Len(tokens) + 1 /\ DOMAIN reading' \subseteq 1..(first' - 1)
    <3>1. width = 2 => at + 1 <= Len(tokens)
      BY <1>7, <1>8, <1>13
    <3> QED  BY <1>5, <1>7, <1>12, <1>13, <3>1
  <2>2. missing' \subseteq absent' /\ absent' \subseteq Group.flags
    BY <1>2, <1>3 DEF Shape
  <2>3. outcome' \in {"helped", "parsing"}
    BY <1>1, <1>2
  <2> QED  BY <1>1, <1>3, <1>4, <1>5, <1>14, <2>1, <2>2, <2>3 DEF Shape, IsToken, IsFlag, Token
<1>16. FirstTokens'
  BY <1>1, <1>3, LineSame DEF FirstTokens
<1>17. SoFar'
  <2>1. ASSUME NEW j, j # at PROVE TextAt(j)' <=> TextAt(j)
    BY <1>1, <1>12, <2>1, TextAtStays
  <2>2. ~TextAt(at - 1) /\ ~TextAt(at - 1)'
    BY <1>0, <1>3, <1>7, <2>1 DEF SoFar
  <2>3. IsFlagAt(at)' /\ (TextAt(at)' <=> TakesText(f))
    <3>1. IsFlagAt(at)'
      BY <1>11, <1>12 DEF IsFlagAt
    <3>2. TextAt(at)' <=> \E g \in Built[command].flags : g.name = f.name /\ TakesText(g)
      BY <1>4, <1>11, <1>12, <3>1 DEF TextAt
    <3> QED  BY <1>5, <1>6, <3>1, <3>2
  <2>4. ASSUME NEW i \in 1..(at - 1) PROVE TokenRead(i)'
    <3>1. TokenRead(i) /\ i # at /\ i - 1 # at
      BY <1>0, <1>3, <1>7 DEF SoFar
    <3>2. TextAt(i - 1)' <=> TextAt(i - 1)
      BY <2>1, <3>1
    <3> QED  BY <1>1, <1>4, <1>12, <3>1, <3>2, TokenStays
  <2>5. TokenRead(at)'
    <3>1. /\ reading'[at].slot[2] \in Selected'
          /\ reading'[at].slot[3] = f.name /\ f \in Built'[reading'[at].slot[2]].flags
          /\ IsFlag(tokens'[at]) /\ tokens'[at].value \in {f.name, f.short}
      BY <1>1, <1>4, <1>5, <1>6, <1>7, <1>11, <1>12
    <3>2. IF TakesText(f)
          THEN /\ at + 1 \in DOMAIN tokens' /\ ~tokens'[at].no
               /\ tokens'[at + 1] = Token("arg", FALSE, reading'[at].text)
          ELSE reading'[at].text = IF tokens'[at].no THEN "false" ELSE "true"
      BY <1>1, <1>8, <1>9, <1>12
    <3>3. \E g \in Built'[reading'[at].slot[2]].flags :
            /\ reading'[at].slot[3] = g.name
            /\ IsFlag(tokens'[at]) /\ tokens'[at].value \in {g.name, g.short}
            /\ IF TakesText(g)
               THEN /\ at + 1 \in DOMAIN tokens' /\ ~tokens'[at].no
                    /\ tokens'[at + 1] = Token("arg", FALSE, reading'[at].text)
               ELSE reading'[at].text = IF tokens'[at].no THEN "false" ELSE "true"
      BY <3>1, <3>2
    <3>4. at \in DOMAIN reading' /\ ~TextAt(at - 1)'
      BY <1>12, <2>2
    <3> QED  BY <2>3, <3>1, <3>3, <3>4, TokenReadNext
  <2>6. ASSUME width = 2 PROVE TokenRead(at + 1)'
    <3>1. at + 1 \notin DOMAIN reading' /\ TextAt(at)' /\ (at + 1) - 1 = at
      BY <1>5, <1>7, <1>12, <1>13, <2>3, <2>6
    <3> QED  BY <3>1, TokenSkipped
  <2>7. PICK j : j = first' - 1
    OBVIOUS
  <2>8. ~TextAt(j)'
    <3>1. CASE width = 1
      <4>1. j = at
        BY <1>7, <1>12, <2>7, <3>1
      <4> QED  BY <1>13, <2>3, <3>1, <4>1
    <3>2. CASE width = 2
      <4>1. j = at + 1 /\ j \notin DOMAIN reading'
        BY <1>7, <1>12, <2>7, <3>2
      <4> QED  BY <4>1 DEF TextAt, IsFlagAt
    <3> QED  BY <1>13, <3>1, <3>2
  <2>9. \A i \in 1..j : i \in 1..(at - 1) \/ i = at \/ (i = at + 1 /\ width = 2)
    BY <1>7, <1>12, <1>13, <2>7
  <2>10. \A i \in 1..j : TokenRead(i)'
    BY <2>4, <2>5, <2>6, <2>9
  <2> QED  BY <2>7, <2>8, <2>10, SoFarNext
<1>18. ASSUME NEW p \in DOMAIN Built, NEW g \in Built[p].flags PROVE FlagKept(p, g)'
  <2>1. FlagKept(p, g)
    BY <1>3 DEF Kept
  <2>2. CASE p = command /\ g = f
    <3>1. /\ Holds(values[slot], f.kind, Said(slot, "")) /\ (f.kind \in Lists => IsPath(values[slot]))
      BY <1>0, <1>1, <1>5, <2>1, <2>2 DEF FlagKept
    <3>2. /\ Holds(values'[slot], f.kind, Said(slot, "")')
          /\ f.kind \in Lists => IsPath(values'[slot])
      <4>1. first \in Nat /\ DOMAIN reading \subseteq 1..(first - 1)
        BY <1>0, <1>5, <1>7
      <4>2. /\ Holds(Set(f.kind, values[slot], text), f.kind, Said(slot, "")')
            /\ f.kind \in Lists => IsPath(Set(f.kind, values[slot], text))
        BY <1>6, <1>10, <3>1, <4>1, SetRead
      <4> QED  BY <1>14, <4>2
    <3>3. Given(slot)' # {} /\ f \notin absent'
      BY <1>2, <1>12
    <3>4. Holds(values[slot], f.kind, Said(slot, ""))'
      BY <3>2 DEF Said
    <3> QED  BY <1>0, <1>1, <1>4, <1>5, <2>2, <3>2, <3>3, <3>4 DEF FlagKept
  <2>3. CASE ~(p = command /\ g = f)
    <3>1. FlagSlot(p, g) # slot /\ FlagSlot(p, g) \in Slots /\ (p = command => g # f)
      BY <1>5, <1>6, <2>3, <1>0, SlotsDiffer DEF Slots
    <3>2. /\ values'[FlagSlot(p, g)] = values[FlagSlot(p, g)]
          /\ Given(FlagSlot(p, g))' = Given(FlagSlot(p, g))
          /\ \A i \in Given(FlagSlot(p, g)) : reading'[i] = reading[i]
      BY <1>12, <1>14, <3>1 DEF Given
    <3>3. p = command => (g \in absent' <=> g \in absent)
      BY <1>2, <3>1
    <3> QED  BY <1>1, <1>4, <2>1, <3>2, <3>3, FlagStays
  <2> QED  BY <2>2, <2>3
<1>19. ASSUME NEW p \in DOMAIN Built, NEW i \in DOMAIN Built[p].args PROVE ArgKept(p, i)'
  <2>1. ArgSlot(p, i) # slot /\ ArgSlot(p, i) \in Slots /\ ArgKept(p, i)
    BY <1>0, <1>3, SlotsDiffer DEF Slots, Kept
  <2> QED  BY <1>1, <1>12, <1>14, <2>1, ArgIdle
<1>20. Kept'
  BY <1>4, <1>18, <1>19 DEF Kept
<1>21. Required'
  <2>1. ASSUME NEW p \in Selected, NEW g \in Built[p].flags PROVE FlagRequired(p, g)'
    <3>1. FlagRequired(p, g)
      BY <1>3 DEF Required
    <3>2. Given(FlagSlot(p, g)) # {} => Given(FlagSlot(p, g))' # {}
      BY <1>12
    <3>3. p = command /\ g \in missing => Given(FlagSlot(p, g))' # {} \/ g \in missing'
      BY <1>0, <1>2, <1>12
    <3> QED  BY <1>1, <3>1, <3>2, <3>3, FlagStaysRequired
  <2>2. ASSUME NEW p \in Selected, NEW i \in DOMAIN Built[p].args PROVE ArgRequired(p, i)'
    BY <1>1 DEF ArgRequired
  <2> QED  BY <1>4, <2>1, <2>2 DEF Required
<1>22. Helping'
  <2>1. ASSUME line # <<>>, LongHelp PROVE outcome' = "helped"
    <3>1. command = <<>> /\ Peek.type = "long" /\ Peek.value = "help"
      BY <1>1, <2>1, LongHelpAt
    <3>2. HelpFlag \in Group.flags /\ HelpFlag.name = "help" /\ HelpFlag.exits
      BY <1>5, <3>1, BuiltIs DEF Group, HelpFlag, Flag
    <3>3. f = HelpFlag
      BY <1>6, <3>1, <3>2
    <3> QED  BY <1>2, <3>2, <3>3
  <2>2. ASSUME line # <<>>, TextHelp, Built[<<>>].commands # <<>>, AllText, DefaultsFit PROVE FALSE
    BY <1>1, <2>2, TextHelpAt
  <2> QED  BY <1>1, <1>4, <2>1, <2>2, LineSame DEF Helping
<1> QED  BY <1>15, <1>16, <1>17, <1>20, <1>21, <1>22 DEF LineInv

\* An argument is read.
LEMMA ParseArgKeeps == LineInv /\ ParseArg => LineInv'
<1> SUFFICES ASSUME LineInv, ParseArg PROVE LineInv'
  OBVIOUS
<1>1. outcome = "parsing" /\ phase = "args" /\ next <= Len(Group.args) /\ Peek.type = "arg"
  BY DEF ParseArg
<1>2. CASE ~Accepts(Group.args[next].kind, Peek.value)
  <2>1. End("error")
    BY <1>2 DEF ParseArg
  <2>2. line # <<>> => ~LongHelp /\ ~(TextHelp /\ Built[<<>>].commands # <<>> /\ AllText /\ DefaultsFit)
    BY <1>1, LongHelpAt, TextHelpAt
  <2> QED  BY <1>1, <2>1, <2>2, EndKeeps
<1>3. CASE Accepts(Group.args[next].kind, Peek.value)
  <2>0. PICK at, slot, text, n, kind :
          at = first /\ slot = ArgSlot(command, next) /\ text = Peek.value /\ n = next
          /\ kind = Group.args[next].kind
    OBVIOUS
  <2>1. /\ values' = [values EXCEPT ![slot] = Set(kind, @, text)]
        /\ Read(slot, text, 1)
        /\ next' = IF kind \in Cumulative THEN n ELSE n + 1
        /\ UNCHANGED <<app, line, outcome, tokens, command, phase, missing, absent>>
    BY <1>3, <2>0 DEF ParseArg
  <2>2. Shape /\ FirstTokens /\ SoFar /\ Kept /\ Required
    BY DEF LineInv
  <2>3. Built' = Built /\ Slots' = Slots /\ Selected' = Selected /\ Group' = Group
        /\ (Refused' <=> Refused) /\ (DefaultsFit' <=> DefaultsFit) /\ \A p : AfterFlags(p)' = AfterFlags(p)
    BY <2>1, GroupsSame
  <2>4. /\ app \in Applications /\ ~Refused /\ command \in DOMAIN Built /\ Group = Built[command]
        /\ command \in Selected /\ Selected \subseteq DOMAIN Built /\ IsPath(Built[command].args)
        /\ DOMAIN values = Slots /\ AfterFlags(command) = "args" /\ next \in Nat /\ next > 0
    BY <1>1, <2>2, SelectedIs, BuiltIs DEF Shape, Group
  <2>5. /\ n \in Nat /\ n \in DOMAIN Built[command].args /\ n <= Len(Built[command].args)
        /\ Len(Built[command].args) \in Nat
        /\ DOMAIN Built[command].args = 1..Len(Built[command].args)
        /\ kind = Built[command].args[n].kind
    BY <1>1, <2>0, <2>4, PathOf
  <2>6. kind \in Kinds
    BY <2>4, <2>5, BuiltIs
  <2>7. /\ ~AtEnd /\ ~IsFlag(Peek) /\ at \in DOMAIN tokens /\ at \in Nat /\ at > 0
        /\ Len(tokens) \in Nat /\ DOMAIN tokens = 1..Len(tokens) /\ Peek = tokens[at]
        /\ Peek = Token("arg", FALSE, Peek.value)
    BY <1>1, <2>0, <2>2, PeekIs
  <2>8. tokens[at] = Token("arg", FALSE, text) /\ ~Stuck
    BY <2>0, <2>7 DEF Stuck
  <2>9. first \in Nat /\ DOMAIN reading \subseteq 1..(first - 1)
    BY <2>0, <2>2, <2>7 DEF Shape
  <2>10. /\ first' = at + 1 /\ at \notin DOMAIN reading /\ DOMAIN reading \subseteq 1..(at - 1)
         /\ DOMAIN reading' = DOMAIN reading \cup {at}
         /\ reading'[at].slot = slot /\ reading'[at].text = text
         /\ \A i \in DOMAIN reading : reading'[i] = reading[i]
         /\ Given(slot)' = Given(slot) \cup {at} /\ Given(slot) \subseteq 1..(at - 1)
         /\ \A s : s # slot => Given(s)' = Given(s)
    <3>1. /\ first' = first + 1 /\ first \notin DOMAIN reading
          /\ DOMAIN reading' = DOMAIN reading \cup {first}
          /\ reading'[first].slot = slot /\ reading'[first].text = text
          /\ \A i \in DOMAIN reading : reading'[i] = reading[i]
          /\ Given(slot)' = Given(slot) \cup {first} /\ Given(slot) \subseteq 1..(first - 1)
          /\ \A s : s # slot => Given(s)' = Given(s)
      BY <2>1, <2>9, ReadAdds
    <3> QED  BY <2>0, <2>9, <3>1
  <2>11. /\ slot \in Slots /\ DOMAIN values' = Slots
         /\ values'[slot] = Set(kind, values[slot], text)
         /\ \A s \in Slots : s # slot => values'[s] = values[s]
    <3>1. slot \in Slots
      BY <2>0, <2>4, <2>5 DEF Slots
    <3> QED  BY <2>1, <2>4, <3>1
  <2>12. slot[1] = "arg" /\ slot[2] = command
    BY <2>0 DEF ArgSlot
  <2>13. Shape'
    <3>1. first' \in Nat \ {0} /\ first' <= Len(tokens) + 1 /\ DOMAIN reading' \subseteq 1..(first' - 1)
      BY <2>7, <2>10
    <3>2. next' \in Nat \ {0} /\ next' <= Len(Group.args) + 1
      BY <2>0, <2>1, <2>4, <2>5
    <3>3. next' <= Len(IF phase' = "words" THEN line' ELSE Group'.args) + 1
      BY <1>1, <2>1, <2>3, <3>2
    <3> QED  BY <1>1, <2>1, <2>2, <2>3, <2>11, <3>1, <3>2, <3>3 DEF Shape, IsToken, IsFlag, Token
  <2>14. FirstTokens'
    BY <1>1, <2>1, <2>2, LineSame DEF FirstTokens
  <2>15. SoFar'
    <3>1. ASSUME NEW j, j # at PROVE TextAt(j)' <=> TextAt(j)
      BY <2>1, <2>10, <3>1, TextAtStays
    <3>2. ~TextAt(at - 1) /\ ~TextAt(at - 1)'
      BY <2>0, <2>2, <2>7, <3>1 DEF SoFar
    <3>3. ~IsFlagAt(at)' /\ ~TextAt(at)'
      BY <2>10, <2>12 DEF IsFlagAt, TextAt
    <3>4. ASSUME NEW i \in 1..(at - 1) PROVE TokenRead(i)'
      <4>1. TokenRead(i) /\ i # at /\ i - 1 # at
        BY <2>0, <2>2, <2>7 DEF SoFar
      <4>2. TextAt(i - 1)' <=> TextAt(i - 1)
        BY <3>1, <4>1
      <4> QED  BY <2>1, <2>3, <2>10, <4>1, <4>2, TokenStays
    <3>5. TokenRead(at)'
      <4>1. reading'[at].slot[2] \in Selected' /\ at \in DOMAIN reading'
        BY <2>3, <2>4, <2>10, <2>12
      <4>2. tokens'[at] = Token("arg", FALSE, reading'[at].text)
        BY <2>1, <2>8, <2>10
      <4> QED  BY <3>2, <3>3, <4>1, <4>2, TokenReadNext
    <3>6. at = first' - 1 /\ \A i \in 1..at : i \in 1..(at - 1) \/ i = at
      BY <2>7, <2>10
    <3> QED  BY <3>3, <3>4, <3>5, <3>6, SoFarNext
  <2>16. ASSUME NEW p \in DOMAIN Built, NEW f \in Built[p].flags PROVE FlagKept(p, f)'
    <3>1. FlagSlot(p, f) # slot /\ FlagSlot(p, f) \in Slots /\ FlagKept(p, f)
      BY <2>0, <2>2, SlotsDiffer DEF Slots, Kept
    <3>2. /\ values'[FlagSlot(p, f)] = values[FlagSlot(p, f)]
          /\ Given(FlagSlot(p, f))' = Given(FlagSlot(p, f))
          /\ \A i \in Given(FlagSlot(p, f)) : reading'[i] = reading[i]
      BY <2>10, <2>11, <3>1 DEF Given
    <3> QED  BY <1>1, <2>1, <2>3, <3>1, <3>2, FlagStays
  <2>17. ASSUME NEW p \in DOMAIN Built, NEW i \in DOMAIN Built[p].args PROVE ArgKept(p, i)'
    <3>1. ArgKept(p, i) /\ ArgSlot(p, i) \in Slots
      BY <2>2 DEF Kept, Slots
    <3>2. CASE p # command
      <4>1. ArgSlot(p, i) # slot
        BY <2>0, <3>2, SlotsDiffer
      <4> QED  BY <2>1, <2>10, <2>11, <3>1, <3>2, <4>1, ArgIdle
    <3>3. CASE p = command /\ i = n
      <4>1. /\ Holds(values[slot], kind, Said(slot, "")) /\ (kind \in Lists => IsPath(values[slot]))
        BY <1>1, <2>0, <2>4, <2>5, <3>1, <3>3 DEF ArgKept
      <4>2. /\ Holds(values'[slot], kind, Said(slot, "")')
            /\ kind \in Lists => IsPath(values'[slot])
        <5>1. /\ Holds(Set(kind, values[slot], text), kind, Said(slot, "")')
              /\ kind \in Lists => IsPath(Set(kind, values[slot], text))
          BY <2>1, <2>6, <2>9, <4>1, SetRead
        <5> QED  BY <2>11, <5>1
      <4>3. Holds(values[slot], kind, Said(slot, ""))'
        BY <4>2 DEF Said
      <4>4. /\ i > next' \/ (i = next' /\ kind \notin Cumulative) => Given(slot)' = {}
            /\ i < next' => kind \notin Cumulative /\ Given(slot)' # {}
        BY <2>1, <2>5, <2>10, <3>3
      <4> QED  BY <1>1, <2>0, <2>1, <2>3, <2>4, <2>5, <3>3, <4>2, <4>3, <4>4 DEF ArgKept
    <3>4. CASE p = command /\ i # n
      <4> DEFINE other == ArgSlot(p, i)
                 k == Built[p].args[i].kind
      <4>1. /\ k \in Lists => IsPath(values[other])
            /\ Holds(values[other], k, Said(other, ""))
            /\ i > n => Given(other) = {}
            /\ i < n => k \notin Cumulative /\ Given(other) # {}
        BY <1>1, <2>0, <2>4, <2>8, <3>1, <3>4 DEF ArgKept
      <4>2. other # slot
        BY <2>0, <3>4, SlotsDiffer
      <4>3. values'[other] = values[other] /\ Given(other)' = Given(other)
            /\ \A j \in Given(other) : reading'[j] = reading[j]
        BY <2>10, <2>11, <3>1, <4>2 DEF Given
      <4>4. Holds(values[other], k, Said(other, ""))'
        BY <2>1, <2>3, <4>1, <4>3, SaidSame
      <4>5. i \in Nat /\ n \in Nat /\ next' \in {n, n + 1}
        BY <2>1, <2>5, <3>4
      <4>6. (i > next' \/ i = next' => i > n) /\ (i < next' => i < n)
        BY <3>4, <4>5
      <4> QED  BY <1>1, <2>1, <2>3, <2>4, <3>4, <4>1, <4>3, <4>4, <4>6 DEF ArgKept
    <3> QED  BY <3>2, <3>3, <3>4
  <2>18. Kept'
    BY <2>3, <2>16, <2>17 DEF Kept
  <2>19. Required'
    <3>1. ASSUME NEW p \in Selected, NEW f \in Built[p].flags PROVE FlagRequired(p, f)'
      <4>1. FlagRequired(p, f)
        BY <2>2 DEF Required
      <4>2. Given(FlagSlot(p, f)) # {} => Given(FlagSlot(p, f))' # {}
        BY <2>10
      <4> QED  BY <1>1, <2>1, <4>1, <4>2, FlagStaysRequired
    <3>2. ASSUME NEW p \in Selected, NEW i \in DOMAIN Built[p].args PROVE ArgRequired(p, i)'
      BY <1>1, <2>1 DEF ArgRequired
    <3> QED  BY <2>3, <3>1, <3>2 DEF Required
  <2>20. Helping'
    <3>1. line # <<>> => ~LongHelp /\ ~(TextHelp /\ Built[<<>>].commands # <<>> /\ AllText /\ DefaultsFit)
      BY <1>1, LongHelpAt, TextHelpAt
    <3> QED  BY <2>1, <2>3, <3>1, LineSame DEF Helping
  <2> QED  BY <2>13, <2>14, <2>15, <2>18, <2>19, <2>20 DEF LineInv
<1> QED  BY <1>2, <1>3

\* What defaults set.
LEMMA DefaultsSet ==
    ASSUME NEW todo, NEW s \in DOMAIN values
    PROVE  /\ (\A t \in todo : t.slot = s => t.default = "") => WithDefaults(todo)[s] = values[s]
           /\ \A t \in todo :
                t.slot = s /\ t.default # "" /\ (\A u \in todo : u.slot = s => u = t) =>
                  WithDefaults(todo)[s] = Set(t.kind, values[s], t.default)
<1> DEFINE defaults == {t \in todo : t.slot = s /\ t.default # ""}
<1>1. WithDefaults(todo)[s] =
        IF defaults = {} THEN values[s]
        ELSE LET t == CHOOSE t \in defaults : TRUE IN Set(t.kind, values[s], t.default)
  BY DEF WithDefaults
<1>2. ASSUME \A t \in todo : t.slot = s => t.default = "" PROVE WithDefaults(todo)[s] = values[s]
  BY <1>1, <1>2
<1>3. ASSUME NEW t \in todo, t.slot = s, t.default # "", \A u \in todo : u.slot = s => u = t
      PROVE  WithDefaults(todo)[s] = Set(t.kind, values[s], t.default)
  <2>1. t \in defaults /\ \A u \in defaults : u = t
    BY <1>3
  <2> DEFINE c == CHOOSE u \in defaults : TRUE
  <2> HIDE DEF defaults
  <2>2. c = t
    BY <2>1
  <2>3. WithDefaults(todo)[s] = Set(c.kind, values[s], c.default)
    BY <1>1, <2>1
  <2> QED  BY <2>2, <2>3
<1> QED  BY <1>2, <1>3

\* The place of a default is after the tokens.
LEMMA AfterAll ==
    ASSUME NEW len \in Nat
    PROVE  len + 1 \in Nat /\ (len + 1) - 1 = len /\ len + 1 \notin 1..len
OBVIOUS

\* A value that is Set to its default holds it after what was said.
LEMMA DefaultHolds ==
    ASSUME NEW slot, NEW default, default # "", Len(tokens) \in Nat, Given(slot) \subseteq 1..Len(tokens),
           NEW kind \in Kinds, NEW held,
           Holds(held, kind, Said(slot, "")), kind \in Lists => IsPath(held)
    PROVE  /\ Holds(Set(kind, held, default), kind, Said(slot, default))
           /\ kind \in Lists => IsPath(Set(kind, held, default))
<1> DEFINE said == Said(slot, "")
           more == Said(slot, default)
           n == Len(tokens) + 1
<1>1. DOMAIN said = Given(slot) /\ \A i \in Given(slot) : said[i] = reading[i].text
  BY SaidIs
<1>2. n \notin Given(slot) /\ n \in Nat /\ Given(slot) \subseteq 1..(n - 1)
  <2>1. n \in Nat /\ n - 1 = Len(tokens) /\ n \notin 1..Len(tokens)
    BY AfterAll
  <2>2. 1..(n - 1) = 1..Len(tokens)
    BY <2>1
  <2> HIDE DEF n
  <2> QED  BY <2>1, <2>2
<1>3. DOMAIN more = Given(slot) \cup {n} /\ (\A i \in Given(slot) : more[i] = reading[i].text)
      /\ more[n] = default
  BY <1>2, SaidIs
<1>4. Holds(held, kind, said)
  OBVIOUS
<1> HIDE DEF said, more, n
<1>5. /\ DOMAIN said \subseteq 1..(n - 1) /\ DOMAIN more = DOMAIN said \cup {n}
      /\ \A i \in DOMAIN said : more[i] = said[i]
      /\ more[n] = default
  BY <1>1, <1>2, <1>3
<1>6. Holds(Set(kind, held, default), kind, more) /\ (kind \in Lists => IsPath(Set(kind, held, default)))
  BY <1>2, <1>4, <1>5, SetHolds
<1> QED  BY <1>6 DEF more

\* A group's turn is over for a flag, or an argument, that holds what was said and its default.
LEMMA FlagReadNext ==
    ASSUME NEW p, NEW f, NEW d, UNCHANGED <<tokens, reading>>, p \in Selected',
           d = IF Given(FlagSlot(p, f)) = {} THEN DefaultOf(p, f) ELSE "",
           Holds(values'[FlagSlot(p, f)], f.kind, Said(FlagSlot(p, f), d))
    PROVE  FlagAsRead(p, f)'
BY DEF FlagAsRead, Said, Given, DefaultOf

\* The same for an argument.
LEMMA ArgReadNext ==
    ASSUME NEW p \in DOMAIN Built, NEW i \in DOMAIN Built[p].args, NEW d,
           UNCHANGED <<app, tokens, reading>>, p \in Selected', AfterFlags(p) = "args",
           d = IF Given(ArgSlot(p, i)) = {} \/ Built[p].args[i].kind \in Cumulative
               THEN Built[p].args[i].default ELSE "",
           Holds(values'[ArgSlot(p, i)], Built[p].args[i].kind, Said(ArgSlot(p, i), d))
    PROVE  ArgAsRead(p, i)'
<1>1. Built' = Built /\ AfterFlags(p)' = AfterFlags(p)
  BY GroupsSame
<1> QED  BY <1>1 DEF ArgAsRead, Said, Given

\* All that was read is among the tokens.
LEMMA GivenWithin ==
    ASSUME Shape, NEW slot
    PROVE  Len(tokens) \in Nat /\ Given(slot) \subseteq 1..Len(tokens)
<1>1. Len(tokens) \in Nat /\ first \in Nat /\ first <= Len(tokens) + 1
  BY PeekIs
<1>2. DOMAIN reading \subseteq 1..(first - 1)
  BY DEF Shape
<1>3. 1..(first - 1) \subseteq 1..Len(tokens)
  BY <1>1
<1> QED  BY <1>1, <1>2, <1>3 DEF Given

\* The command help has its flag only and is not read further; a program with commands reads
\* one of them.
LEMMA HelpGroupIs ==
    ASSUME app \in Applications
    PROVE  /\ Built[<<>>].commands # <<>> =>
                /\ <<"help">> \in DOMAIN Built /\ Built[<<"help">>].flags = {HelpFlag}
           /\ AfterFlags(<<"help">>) = "done"
           /\ \A p : DefaultOf(p, HelpFlag) = ""
           /\ ~HelpFlag.required
<1>1. \A p : DefaultOf(p, HelpFlag) = ""
  BY DEF DefaultOf, HelpFlag, Flag
<1>2. ~HelpFlag.required
  BY DEF HelpFlag, Flag
<1>3. IsPath(<<"help">>) /\ Len(<<"help">>) = 1 /\ <<"help">>[1] = "help" /\ <<"help">> # <<>>
  BY One
<1>4. AfterFlags(<<"help">>) = "done"
  <2>1. Last(<<"help">>) = "help"
    BY <1>3 DEF Last
  <2> QED  BY <1>3, <2>1 DEF AfterFlags
<1>5. ASSUME Built[<<>>].commands # <<>>
      PROVE  <<"help">> \in DOMAIN Built /\ Built[<<"help">>].flags = {HelpFlag}
  <2> DEFINE helped == app[<<>>].commands # <<>>
  <2>1. <<>> \in DOMAIN app
    BY KingpinAssumption
  <2>2. helped
    <3>1. ASSUME ~helped PROVE Built[<<>>].commands = app[<<>>].commands
      BY <1>3, <2>1, <3>1 DEF Built
    <3> QED  BY <1>5, <3>1
  <2>3. <<"help">> \in DOMAIN Built
    BY <2>2 DEF Built
  <2>4. Built[<<"help">>].flags = HelpCommand.flags \cup {HelpFlag}
    BY <2>2, <2>3 DEF Built
  <2>5. HelpCommand.flags = {}
    BY DEF HelpCommand
  <2> QED  BY <2>3, <2>4, <2>5
<1> QED  BY <1>1, <1>2, <1>4, <1>5

\* A program with commands reads one of them after its flags.
LEMMA OwnGroupIs ==
    ASSUME app \in Applications, ~Refused, Built[<<>>].commands # <<>>
    PROVE  AfterFlags(<<>>) = "commands"
<1>1. <<>> \in DOMAIN Built /\ Initialised(<<>>)
  BY BuiltIs, Empty DEF Initialised
<1>2. Built[<<>>].args = <<>>
  BY <1>1 DEF Refused
<1> QED  BY <1>2 DEF AfterFlags

\* The flags are read: what is required is there, and the absent ones have their defaults.
LEMMA FlagsDoneKeeps == LineInv /\ FlagsDone => LineInv'
<1> SUFFICES ASSUME LineInv, FlagsDone PROVE LineInv'
  OBVIOUS
<1>1. outcome = "parsing" /\ phase = "flags" /\ ~IsFlag(Peek)
  BY DEF FlagsDone
<1>2. Shape /\ FirstTokens /\ SoFar /\ Kept /\ Required
  BY DEF LineInv
<1>3. /\ app \in Applications /\ ~Refused /\ command \in DOMAIN Built /\ Group = Built[command]
      /\ command \in Selected /\ Selected \subseteq DOMAIN Built
      /\ DOMAIN values = Slots /\ absent \subseteq Group.flags
  BY <1>1, <1>2, SelectedIs DEF Shape, Group
<1>4. line # <<>> => ~LongHelp
  BY <1>1, LongHelpAt
<1>5. CASE missing # {} \/ InvalidDefault(FlagDefaults)
  <2>1. End("error")
    BY <1>5 DEF FlagsDone
  <2>2. ASSUME line # <<>>, TextHelp, Built[<<>>].commands # <<>>, AllText, DefaultsFit PROVE FALSE
    <3>1. missing = {} /\ (command = <<>> \/ command = <<"help">>)
      BY <1>1, <2>2, TextHelpAt
    <3>2. PICK t \in FlagDefaults : t.default # "" /\ ~Accepts(t.kind, t.default)
      BY <1>5, <3>1 DEF InvalidDefault
    <3>3. PICK f \in absent : t = [slot |-> FlagSlot(command, f), kind |-> f.kind,
                                   default |-> DefaultOf(command, f)]
      BY <3>2 DEF FlagDefaults
    <3>4. f \in Built[command].flags /\ DefaultOf(command, f) # ""
          /\ ~Accepts(f.kind, DefaultOf(command, f))
      BY <1>3, <3>2, <3>3
    <3>5. CASE command = <<>>
      BY <2>2, <3>4, <3>5 DEF DefaultsFit
    <3>6. CASE command = <<"help">>
      <4>1. f = HelpFlag
        BY <1>3, <2>2, <3>4, <3>6, HelpGroupIs
      <4>2. DefaultOf(command, HelpFlag) = ""
        BY <1>3, HelpGroupIs
      <4> QED  BY <3>4, <4>1, <4>2
    <3> QED  BY <3>1, <3>5, <3>6
  <2> QED  BY <1>1, <1>4, <2>1, <2>2, EndKeeps
<1>6. CASE ~(missing # {} \/ InvalidDefault(FlagDefaults))
  <2>1. /\ values' = WithDefaults(FlagDefaults) /\ phase' = AfterFlags(command) /\ missing = {}
        /\ UNCHANGED <<app, line, outcome, tokens, first, command, missing, absent, next, reading>>
    BY <1>6 DEF FlagsDone
  <2>3. Built' = Built /\ Slots' = Slots /\ Selected' = Selected /\ Group' = Group
        /\ (Refused' <=> Refused) /\ (DefaultsFit' <=> DefaultsFit) /\ \A p : AfterFlags(p)' = AfterFlags(p)
    BY <2>1, GroupsSame
  <2>4. (AtEnd' <=> AtEnd) /\ (Stuck' <=> Stuck) /\ ~Stuck
    BY <1>1, <2>1, PlaceSame DEF Stuck
  <2>5. AfterFlags(command) \in {"commands", "args", "done"} /\ next = 1
    BY <1>1, <1>2 DEF AfterFlags, Shape
  <2>6. DOMAIN values' = Slots
    BY <1>3, <2>1 DEF WithDefaults
  <2>7. Shape'
    BY <1>1, <1>2, <2>1, <2>3, <2>4, <2>5, <2>6 DEF Shape, IsToken, IsFlag, Token
  <2>8. FirstTokens'
    BY <1>1, <1>2, <2>1, <2>5, LineSame DEF FirstTokens
  <2>9. SoFar'
    BY <1>2, <2>1, SoFarStays DEF Shape
  <2>10. \A slot : Given(slot)' = Given(slot)
    BY <2>1 DEF Given
  <2>11. ASSUME NEW p \in DOMAIN Built, NEW f \in Built[p].flags PROVE FlagKept(p, f)'
    <3> DEFINE slot == FlagSlot(p, f)
    <3>1. FlagKept(p, f) /\ slot \in DOMAIN values
      BY <1>2, <1>3 DEF Kept, Slots
    <3>2. \A t \in FlagDefaults : \E g \in absent : t = [slot |-> FlagSlot(command, g), kind |-> g.kind,
                                                         default |-> DefaultOf(command, g)]
      BY DEF FlagDefaults
    <3>3. CASE p # command
      <4>1. \A t \in FlagDefaults : t.slot # slot
        BY <3>2, <3>3, SlotsDiffer
      <4>2. values'[slot] = values[slot]
        BY <2>1, <3>1, <4>1, DefaultsSet
      <4> QED  BY <1>1, <2>1, <2>3, <2>5, <2>10, <3>1, <3>3, <4>2, FlagStays
    <3>4. CASE p = command
      <4> DEFINE d == IF Given(slot) = {} THEN DefaultOf(p, f) ELSE ""
      <4>1. /\ Holds(values[slot], f.kind, Said(slot, "")) /\ (Given(slot) = {} <=> f \in absent)
            /\ f.kind \in Lists => IsPath(values[slot])
        BY <1>1, <1>3, <3>1, <3>4 DEF FlagKept
      <4>2. ASSUME NEW t \in FlagDefaults, t.slot = slot
            PROVE  f \in absent /\ t.kind = f.kind /\ t.default = DefaultOf(p, f)
        <5>1. PICK g \in absent : t = [slot |-> FlagSlot(command, g), kind |-> g.kind,
                                       default |-> DefaultOf(command, g)]
          BY <3>2, <4>2
        <5>2. FlagSlot(command, g) = FlagSlot(command, f)
          BY <3>4, <4>2, <5>1
        <5>3. g.name = f.name
          BY <5>2, SlotsDiffer
        <5>4. g = f
          BY <1>3, <3>4, <5>3, BuiltIs
        <5> QED  BY <3>4, <5>1, <5>4
      <4>3. CASE d = ""
        <5>1. ASSUME NEW t \in FlagDefaults, t.slot = slot PROVE t.default = ""
          BY <4>1, <4>2, <4>3, <5>1
        <5>2. values'[slot] = values[slot]
          BY <2>1, <3>1, <5>1, DefaultsSet
        <5> QED  BY <4>1, <4>3, <5>2, <1>3, <2>1, <2>3, <2>5, <3>4, FlagReadNext DEF FlagKept
      <4>4. CASE d # ""
        <5>1. Given(slot) = {} /\ f \in absent /\ d = DefaultOf(p, f)
          BY <4>1, <4>4
        <5>2. PICK t : t = [slot |-> slot, kind |-> f.kind, default |-> d]
          OBVIOUS
        <5>3. t \in FlagDefaults /\ t.slot = slot /\ t.kind = f.kind /\ t.default = d
          BY <3>4, <5>1, <5>2 DEF FlagDefaults
        <5>4. ASSUME NEW u \in FlagDefaults, u.slot = slot PROVE u = t
          <6>1. PICK g \in absent : u = [slot |-> FlagSlot(command, g), kind |-> g.kind,
                                         default |-> DefaultOf(command, g)]
            BY <3>2, <5>4
          <6>2. u.kind = f.kind /\ u.default = d /\ u.slot = slot
            BY <4>2, <5>1, <5>4
          <6> QED  BY <5>2, <6>1, <6>2
        <5>5. values'[slot] = Set(f.kind, values[slot], d)
          <6> HIDE DEF slot, d
          <6>1. WithDefaults(FlagDefaults)[slot] = Set(t.kind, values[slot], t.default)
            BY <3>1, <4>4, <5>3, <5>4, DefaultsSet
          <6> QED  BY <2>1, <5>3, <6>1
        <5>6. f.kind \in Kinds /\ Len(tokens) \in Nat /\ Given(slot) \subseteq 1..Len(tokens)
          BY <1>2, <1>3, BuiltIs, GivenWithin
        <5>7. /\ Holds(Set(f.kind, values[slot], d), f.kind, Said(slot, d))
              /\ f.kind \in Lists => IsPath(Set(f.kind, values[slot], d))
          BY <4>1, <4>4, <5>6, DefaultHolds
        <5> QED  BY <1>3, <2>1, <2>3, <2>5, <3>4, <5>5, <5>7, FlagReadNext DEF FlagKept
      <4> QED  BY <4>3, <4>4
    <3> QED  BY <3>3, <3>4
  <2>12. ASSUME NEW p \in DOMAIN Built, NEW i \in DOMAIN Built[p].args PROVE ArgKept(p, i)'
    <3> DEFINE slot == ArgSlot(p, i)
    <3>1. ArgKept(p, i) /\ slot \in DOMAIN values
      BY <1>2, <1>3 DEF Kept, Slots
    <3>2. \A t \in FlagDefaults : t.slot # slot
      BY SlotsDiffer DEF FlagDefaults
    <3>3. values'[slot] = values[slot] /\ values[slot] = <<>> /\ Given(slot) = {}
      BY <1>1, <2>1, <3>1, <3>2, DefaultsSet DEF ArgKept
    <3>4. CASE p # command \/ AfterFlags(p) # "args"
      BY <1>1, <2>1, <2>10, <3>1, <3>3, <3>4, ArgIdle
    <3>5. CASE p = command /\ AfterFlags(p) = "args"
      <4> DEFINE kind == Built[p].args[i].kind
      <4>1. kind \in Kinds /\ i \in Nat /\ i >= 1
        BY <1>3, BuiltIs, PathOf
      <4>2. Holds(<<>>, kind, Said(slot, ""))
        BY <3>3, <4>1, NothingHeld, SaidIs
      <4>3. Holds(values[slot], kind, Said(slot, ""))'
        BY <2>1, <2>3, <2>10, <3>3, <4>2, SaidSame
      <4>4. ~(i < next') /\ next' = next
        BY <2>1, <2>5, <4>1
      <4> QED  BY <2>1, <2>3, <2>10, <3>3, <3>5, <4>3, <4>4, Empty DEF ArgKept
    <3> QED  BY <3>4, <3>5
  <2>13. Kept'
    BY <2>3, <2>11, <2>12 DEF Kept
  <2>14. Required'
    <3>1. ASSUME NEW p \in Selected, NEW f \in Built[p].flags PROVE FlagRequired(p, f)'
      <4>1. FlagRequired(p, f)
        BY <1>2 DEF Required
      <4> QED  BY <1>1, <2>1, <2>10, <4>1, FlagStaysRequired
    <3>2. ASSUME NEW p \in Selected, NEW i \in DOMAIN Built[p].args PROVE ArgRequired(p, i)'
      <4>1. p # command => AfterFlags(p) = "commands"
        BY <1>2 DEF Shape
      <4> QED  BY <2>1, <2>3, <2>5, <4>1 DEF ArgRequired
    <3> QED  BY <2>3, <3>1, <3>2 DEF Required
  <2>15. Helping'
    <3>1. ASSUME line # <<>>, TextHelp, Built[<<>>].commands # <<>>, AllText, DefaultsFit
          PROVE  \/ phase' = "commands" /\ first = 1 /\ command = <<>> /\ missing = {}
                 \/ phase' = "done" /\ command = <<"help">> /\ missing = {}
      <4>1. \/ first = 1 /\ command = <<>> /\ missing = {}
            \/ command = <<"help">> /\ missing = {}
        BY <1>1, <3>1 DEF LineInv, Helping
      <4>2. ASSUME command = <<>> PROVE AfterFlags(command) = "commands"
        BY <1>3, <3>1, <4>2, OwnGroupIs
      <4>3. ASSUME command = <<"help">> PROVE AfterFlags(command) = "done"
        BY <1>3, <3>1, <4>3, HelpGroupIs
      <4> QED  BY <2>1, <4>1, <4>2, <4>3
    <3> QED  BY <1>1, <1>4, <2>1, <2>3, <3>1, LineSame DEF Helping
  <2> QED  BY <2>7, <2>8, <2>9, <2>13, <2>14, <2>15 DEF LineInv
<1> QED  BY <1>5, <1>6

\* A command begins, or there is none to be read.
LEMMA ParseCommandKeeps == LineInv /\ ParseCommand => LineInv'
<1> SUFFICES ASSUME LineInv, ParseCommand PROVE LineInv'
  OBVIOUS
<1>1. outcome = "parsing" /\ phase = "commands"
  BY DEF ParseCommand
<1>2. Shape /\ FirstTokens /\ SoFar /\ Kept /\ Required
  BY DEF LineInv
<1>3. /\ app \in Applications /\ ~Refused /\ command \in DOMAIN Built /\ Group = Built[command]
      /\ command \in Selected /\ Selected \subseteq DOMAIN Built /\ IsPath(command)
      /\ DOMAIN values = Slots /\ AfterFlags(command) = "commands" /\ ~Stuck /\ next = 1
      /\ \A p \in Selected : AfterFlags(p) = "commands"
  BY <1>1, <1>2, SelectedIs DEF Shape, Group
<1>4. line # <<>> => ~LongHelp
  BY <1>1, LongHelpAt
<1>5. ASSUME line # <<>>, TextHelp, Built[<<>>].commands # <<>>, AllText, DefaultsFit
      PROVE  command = <<>> /\ ~AtEnd /\ Peek.value = "help"
  <2>1. command = <<>> /\ ~AtEnd /\ Peek = Token("arg", FALSE, "help")
    BY <1>1, <1>5, TextHelpAt
  <2> QED  BY <2>1 DEF Token
<1>6. CASE AtEnd
  <2>1. phase' = "done"
        /\ UNCHANGED <<app, line, outcome, tokens, first, command, missing, absent, next, values, reading>>
    BY <1>6 DEF ParseCommand
  <2>2. Built' = Built /\ Slots' = Slots /\ Selected' = Selected /\ Group' = Group
        /\ (Refused' <=> Refused) /\ \A p : AfterFlags(p)' = AfterFlags(p)
    BY <2>1, GroupsSame
  <2>3. Shape'
    BY <1>1, <1>2, <2>1, <2>2 DEF Shape, IsToken, IsFlag, Token
  <2>4. FirstTokens'
    BY <1>1, <1>2, <2>1, LineSame DEF FirstTokens
  <2>5. SoFar'
    BY <1>2, <2>1, SoFarStays DEF Shape
  <2>6. \A slot : Given(slot)' = Given(slot)
    BY <2>1 DEF Given
  <2>7. ASSUME NEW p \in DOMAIN Built, NEW f \in Built[p].flags PROVE FlagKept(p, f)'
    <3>1. FlagKept(p, f)
      BY <1>2 DEF Kept
    <3> QED  BY <1>1, <2>1, <2>2, <2>6, <3>1, FlagStays
  <2>8. ASSUME NEW p \in DOMAIN Built, NEW i \in DOMAIN Built[p].args PROVE ArgKept(p, i)'
    <3>1. ArgKept(p, i) /\ (p = command => AfterFlags(p) # "args")
      BY <1>2, <1>3 DEF Kept
    <3> QED  BY <2>1, <2>6, <3>1, ArgIdle
  <2>9. Kept'
    BY <2>2, <2>7, <2>8 DEF Kept
  <2>10. Required'
    <3>1. ASSUME NEW p \in Selected, NEW f \in Built[p].flags PROVE FlagRequired(p, f)'
      <4>1. FlagRequired(p, f)
        BY <1>2 DEF Required
      <4> QED  BY <1>1, <2>1, <2>6, <4>1, FlagStaysRequired
    <3>2. ASSUME NEW p \in Selected, NEW i \in DOMAIN Built[p].args PROVE ArgRequired(p, i)'
      BY <1>3, <2>2 DEF ArgRequired
    <3> QED  BY <2>2, <3>1, <3>2 DEF Required
  <2>11. Helping'
    <3>1. DefaultsFit' <=> DefaultsFit
      BY <2>1, GroupsSame
    <3> QED  BY <1>4, <1>5, <1>6, <2>1, <2>2, <3>1, LineSame DEF Helping
  <2> QED  BY <2>3, <2>4, <2>5, <2>9, <2>10, <2>11 DEF LineInv
<1>7. CASE ~AtEnd /\ ~\E i \in DOMAIN Group.commands : Group.commands[i] = Peek.value
  <2>1. End("error")
    BY <1>7 DEF ParseCommand
  <2>2. ASSUME line # <<>>, TextHelp, Built[<<>>].commands # <<>>, AllText, DefaultsFit PROVE FALSE
    <3>1. command = <<>> /\ Peek.value = "help"
      BY <1>5, <2>2
    <3> QED  BY <1>3, <1>7, <2>2, <3>1, BuiltIs
  <2> QED  BY <1>1, <1>4, <2>1, <2>2, EndKeeps
<1>8. CASE ~AtEnd /\ \E i \in DOMAIN Group.commands : Group.commands[i] = Peek.value
  <2>0. PICK at, text, new, slot :
          at = first /\ text = Peek.value /\ new = Append(command, text) /\ slot = <<"command", command>>
    OBVIOUS
  <2>1. /\ command' = new /\ phase' = "flags" /\ absent' = Built[new].flags
        /\ missing' = {f \in Built[new].flags : ~FALSE /\ f.required /\ DefaultOf(new, f) = ""}
        /\ Read(slot, text, 1)
        /\ UNCHANGED <<app, line, outcome, tokens, next, values>>
    BY <1>8, <2>0 DEF ParseCommand, Enter
  <2>2. new \in DOMAIN Built
    BY <1>3, <1>8, <2>0, BuiltIs
  <2>3. Built' = Built /\ Slots' = Slots /\ (Refused' <=> Refused) /\ (DefaultsFit' <=> DefaultsFit)
        /\ \A p : AfterFlags(p)' = AfterFlags(p)
    BY <2>1, GroupsSame
  <2>4. Group' = Built[new]
    BY <2>1, <2>3 DEF Group
  <2>5. Selected' = Selected \cup {new} /\ new \notin Selected
    <3>1. ASSUME NEW p \in DOMAIN Built
          PROVE  IsPrefix(p, new) <=> IsPrefix(p, command) \/ p = new
      BY <1>3, <2>0, BuiltIs, PrefixGrows
    <3>2. ~IsPrefix(new, command)
      BY <1>3, <2>0, <2>2, BuiltIs, PrefixGrows
    <3>3. Selected' = {p \in DOMAIN Built : IsPrefix(p, new)}
      BY <2>1, <2>3 DEF Selected
    <3> QED  BY <2>2, <3>1, <3>2, <3>3 DEF Selected
  <2>6. /\ ~IsFlag(Peek) /\ at \in DOMAIN tokens /\ at \in Nat /\ at > 0
        /\ Len(tokens) \in Nat /\ DOMAIN tokens = 1..Len(tokens) /\ Peek = tokens[at]
        /\ Peek = Token("arg", FALSE, Peek.value)
    BY <1>2, <1>3, <1>8, <2>0, PeekIs DEF Stuck
  <2>7. tokens[at] = Token("arg", FALSE, text)
    BY <2>0, <2>6
  <2>8. first \in Nat /\ DOMAIN reading \subseteq 1..(first - 1)
    BY <1>2, <2>0, <2>6 DEF Shape
  <2>9. /\ first' = at + 1 /\ at \notin DOMAIN reading /\ DOMAIN reading \subseteq 1..(at - 1)
        /\ DOMAIN reading' = DOMAIN reading \cup {at}
        /\ reading'[at].slot = slot /\ reading'[at].text = text
        /\ \A i \in DOMAIN reading : reading'[i] = reading[i]
        /\ \A s : s # slot => Given(s)' = Given(s)
    <3>1. /\ first' = first + 1 /\ first \notin DOMAIN reading
          /\ DOMAIN reading' = DOMAIN reading \cup {first}
          /\ reading'[first].slot = slot /\ reading'[first].text = text
          /\ \A i \in DOMAIN reading : reading'[i] = reading[i]
          /\ \A s : s # slot => Given(s)' = Given(s)
      BY <2>1, <2>8, ReadAdds
    <3> QED  BY <2>0, <2>8, <3>1
  <2>10. slot[1] = "command" /\ slot[2] = command
    BY <2>0
  <2>11. Shape'
    <3>1. first' \in Nat \ {0} /\ first' <= Len(tokens) + 1 /\ DOMAIN reading' \subseteq 1..(first' - 1)
      BY <2>6, <2>9
    <3>2. next' <= Len(Group'.args) + 1 /\ next' = 1
      <4>1. Len(Built[new].args) \in Nat
        BY <1>3, <2>2, BuiltIs, PathOf
      <4>2. next' = 1
        BY <1>3, <2>1
      <4>3. 1 <= Len(Built[new].args) + 1
        BY <4>1
      <4>4. Group'.args = Built[new].args
        BY <2>4
      <4> QED  BY <4>2, <4>3, <4>4
    <3>3. missing' \subseteq absent' /\ absent' \subseteq Group'.flags
      BY <2>1, <2>4
    <3>4. \A p \in Selected' : p # command' => AfterFlags(p)' = "commands"
      BY <1>3, <2>1, <2>3, <2>5
    <3> QED  BY <1>1, <1>2, <2>1, <2>2, <2>3, <3>1, <3>2, <3>3, <3>4 DEF Shape, IsToken, IsFlag, Token
  <2>12. FirstTokens'
    BY <1>1, <1>2, <2>1, LineSame DEF FirstTokens
  <2>13. SoFar'
    <3>1. ASSUME NEW j, j # at PROVE TextAt(j)' <=> TextAt(j)
      BY <2>1, <2>9, <3>1, TextAtStays
    <3>2. ~TextAt(at - 1) /\ ~TextAt(at - 1)'
      BY <1>2, <2>0, <2>6, <3>1 DEF SoFar
    <3>3. ~IsFlagAt(at)' /\ ~TextAt(at)'
      BY <2>9, <2>10 DEF IsFlagAt, TextAt
    <3>4. ASSUME NEW i \in 1..(at - 1) PROVE TokenRead(i)'
      <4>1. TokenRead(i) /\ i # at /\ i - 1 # at
        BY <1>2, <2>0, <2>6 DEF SoFar
      <4>2. TextAt(i - 1)' <=> TextAt(i - 1)
        BY <3>1, <4>1
      <4> QED  BY <2>1, <2>5, <2>9, <4>1, <4>2, TokenStays
    <3>5. TokenRead(at)'
      <4>1. reading'[at].slot[2] \in Selected' /\ at \in DOMAIN reading'
        BY <1>3, <2>5, <2>9, <2>10
      <4>2. tokens'[at] = Token("arg", FALSE, reading'[at].text)
        BY <2>1, <2>7, <2>9
      <4> QED  BY <3>2, <3>3, <4>1, <4>2, TokenReadNext
    <3>6. at = first' - 1 /\ \A i \in 1..at : i \in 1..(at - 1) \/ i = at
      BY <2>6, <2>9
    <3> QED  BY <3>3, <3>4, <3>5, <3>6, SoFarNext
  <2>14. ASSUME NEW p \in DOMAIN Built, NEW f \in Built[p].flags PROVE FlagKept(p, f)'
    <3> DEFINE s == FlagSlot(p, f)
    <3>1. FlagKept(p, f) /\ s # slot
      BY <1>2, <2>0, SlotsDiffer DEF Kept
    <3>2. /\ values'[s] = values[s] /\ Given(s)' = Given(s)
          /\ \A i \in Given(s) : reading'[i] = reading[i]
      BY <2>1, <2>9, <3>1 DEF Given
    <3>3. CASE p = new
      <4>1. values[s] = <<>> /\ Given(s) = {}
        BY <2>5, <3>1, <3>3 DEF FlagKept
      <4>2. f.kind \in Kinds /\ f \in absent'
        BY <1>3, <2>1, <3>3, BuiltIs
      <4>3. Holds(<<>>, f.kind, Said(s, "")')
        BY <3>2, <4>1, <4>2, SaidIsNext, NothingHeld
      <4>4. Holds(values[s], f.kind, Said(s, ""))'
        BY <3>2, <4>1, <4>3 DEF Said
      <4> QED  BY <2>1, <2>5, <3>2, <3>3, <4>1, <4>2, <4>4, Empty DEF FlagKept
    <3>4. CASE p # new /\ p \in Selected
      BY <1>1, <2>1, <2>5, <3>1, <3>2, <3>4, FlagStays
    <3>5. CASE p # new /\ p \notin Selected
      BY <2>5, <3>1, <3>2, <3>5, FlagIdle
    <3> QED  BY <3>3, <3>4, <3>5
  <2>15. ASSUME NEW p \in DOMAIN Built, NEW i \in DOMAIN Built[p].args PROVE ArgKept(p, i)'
    <3>1. ArgKept(p, i) /\ ArgSlot(p, i) # slot
      BY <1>2, <2>0, SlotsDiffer DEF Kept
    <3> QED  BY <1>1, <2>1, <2>9, <3>1, ArgIdle
  <2>16. Kept'
    BY <2>3, <2>14, <2>15 DEF Kept
  <2>17. Required'
    <3>1. ASSUME NEW p \in Selected, NEW f \in Built[p].flags PROVE FlagRequired(p, f)'
      <4>1. FlagRequired(p, f)
        BY <1>2 DEF Required
      <4>2. Given(FlagSlot(p, f))' = Given(FlagSlot(p, f))
        BY <2>0, <2>9, SlotsDiffer
      <4> QED  BY <1>1, <2>1, <4>1, <4>2, FlagStaysRequired
    <3>2. ASSUME NEW f \in Built[new].flags PROVE FlagRequired(new, f)'
      BY <2>1 DEF FlagRequired, DefaultOf
    <3>3. ASSUME NEW p, NEW i PROVE ArgRequired(p, i)'
      BY <2>1 DEF ArgRequired
    <3> QED  BY <2>3, <2>5, <3>1, <3>2, <3>3 DEF Required
  <2>18. Helping'
    <3>1. ASSUME line # <<>>, TextHelp, Built[<<>>].commands # <<>>, AllText, DefaultsFit
          PROVE  command' = <<"help">> /\ missing' = {}
      <4>1. new = <<"help">>
        BY <1>5, <2>0, <3>1, HelpPath
      <4>2. Built[new].flags = {HelpFlag} /\ ~HelpFlag.required
        BY <1>3, <3>1, <4>1, HelpGroupIs
      <4> QED  BY <2>1, <4>1, <4>2
    <3> QED  BY <1>1, <1>4, <2>1, <2>3, <3>1, LineSame DEF Helping
  <2> QED  BY <2>11, <2>12, <2>13, <2>16, <2>17, <2>18 DEF LineInv
<1> QED  BY <1>6, <1>7, <1>8

\* The arguments are read: what is required is there, and the rest have their defaults.
LEMMA ArgsDoneKeeps == LineInv /\ ArgsDone => LineInv'
<1> SUFFICES ASSUME LineInv, ArgsDone PROVE LineInv'
  OBVIOUS
<1>1. outcome = "parsing" /\ phase = "args"
  BY DEF ArgsDone
<1>2. Shape /\ FirstTokens /\ SoFar /\ Kept /\ Required
  BY DEF LineInv
<1>3. line # <<>> => ~LongHelp /\ ~(TextHelp /\ Built[<<>>].commands # <<>> /\ AllText /\ DefaultsFit)
  BY <1>1, LongHelpAt, TextHelpAt
<1> DEFINE Missed == next <= Len(Group.args) /\ Group.args[next].required
                     /\ Given(ArgSlot(command, next)) = {}
<1>4. CASE Missed \/ InvalidDefault(ArgDefaults)
  <2>1. End("error")
    BY <1>4 DEF ArgsDone
  <2> QED  BY <1>1, <1>3, <2>1, EndKeeps
<1>5. CASE ~(Missed \/ InvalidDefault(ArgDefaults))
  <2>1. /\ values' = WithDefaults(ArgDefaults) /\ phase' = "done"
        /\ UNCHANGED <<app, line, outcome, tokens, first, command, missing, absent, next, reading>>
    BY <1>5 DEF ArgsDone
  <2>2. /\ app \in Applications /\ ~Refused /\ command \in DOMAIN Built /\ Group = Built[command]
        /\ command \in Selected /\ Selected \subseteq DOMAIN Built /\ IsPath(Built[command].args)
        /\ DOMAIN values = Slots /\ AfterFlags(command) = "args" /\ next \in Nat /\ next > 0
        /\ \A p \in Selected : p # command => AfterFlags(p) = "commands"
    BY <1>1, <1>2, SelectedIs, BuiltIs DEF Shape, Group
  <2>3. Built' = Built /\ Slots' = Slots /\ Selected' = Selected /\ Group' = Group
        /\ (Refused' <=> Refused) /\ (DefaultsFit' <=> DefaultsFit) /\ \A p : AfterFlags(p)' = AfterFlags(p)
    BY <2>1, GroupsSame
  <2>4. (AtEnd' <=> AtEnd) /\ (Stuck' <=> Stuck)
    BY <2>1, PlaceSame
  <2>5. Len(Built[command].args) \in Nat /\ DOMAIN Built[command].args = 1..Len(Built[command].args)
    BY <2>2, PathOf
  <2>6. Shape'
    <3>1. DOMAIN values' = Slots
      BY <2>1, <2>2 DEF WithDefaults
    <3> QED  BY <1>1, <1>2, <2>1, <2>3, <2>4, <3>1 DEF Shape, IsToken, IsFlag, Token
  <2>7. FirstTokens'
    BY <1>1, <1>2, <2>1, LineSame DEF FirstTokens
  <2>8. SoFar'
    BY <1>2, <2>1, SoFarStays DEF Shape
  <2>9. \A slot : Given(slot)' = Given(slot)
    BY <2>1 DEF Given
  <2>10. \A t \in ArgDefaults : \E j \in next..Len(Built[command].args) :
           t = [slot |-> ArgSlot(command, j), kind |-> Built[command].args[j].kind,
                default |-> Built[command].args[j].default]
    BY <2>2 DEF ArgDefaults
  <2>11. ASSUME NEW p \in DOMAIN Built, NEW f \in Built[p].flags PROVE FlagKept(p, f)'
    <3> DEFINE slot == FlagSlot(p, f)
    <3>1. FlagKept(p, f) /\ slot \in DOMAIN values
      BY <1>2, <2>2 DEF Kept, Slots
    <3>2. \A t \in ArgDefaults : t.slot # slot
      BY <2>10, SlotsDiffer
    <3>3. values'[slot] = values[slot]
      BY <2>1, <3>1, <3>2, DefaultsSet
    <3> QED  BY <1>1, <2>1, <2>3, <2>9, <3>1, <3>3, FlagStays
  <2>12. ASSUME NEW i \in DOMAIN Built[command].args
         PROVE  LET slot == ArgSlot(command, i)
                    kind == Built[command].args[i].kind
                IN  /\ Holds(values[slot], kind, Said(slot, "")) /\ (kind \in Lists => IsPath(values[slot]))
                    /\ i > next \/ (i = next /\ kind \notin Cumulative) => Given(slot) = {}
                    /\ i < next => kind \notin Cumulative /\ (Given(slot) # {} \/ Stuck)
    <3>1. ArgKept(command, i)
      BY <1>2, <2>2 DEF Kept
    <3> QED  BY <1>1, <2>2, <3>1 DEF ArgKept
  <2>13. ASSUME NEW p \in DOMAIN Built, NEW i \in DOMAIN Built[p].args PROVE ArgKept(p, i)'
    <3> DEFINE slot == ArgSlot(p, i)
               kind == Built[p].args[i].kind
               default == Built[p].args[i].default
    <3>1. ArgKept(p, i) /\ slot \in DOMAIN values
      BY <1>2, <2>2 DEF Kept, Slots
    <3>2. CASE p # command
      <4>1. \A t \in ArgDefaults : t.slot # slot
        BY <2>10, <3>2, SlotsDiffer
      <4>2. values'[slot] = values[slot]
        BY <2>1, <3>1, <4>1, DefaultsSet
      <4> QED  BY <2>1, <2>9, <3>1, <3>2, <4>2, ArgIdle
    <3>3. CASE p = command
      <4>1. /\ Holds(values[slot], kind, Said(slot, "")) /\ (kind \in Lists => IsPath(values[slot]))
            /\ i > next \/ (i = next /\ kind \notin Cumulative) => Given(slot) = {}
            /\ i < next => kind \notin Cumulative /\ (Given(slot) # {} \/ Stuck)
        BY <2>12, <3>3
      <4>2. i \in Nat /\ i >= 1 /\ i <= Len(Built[command].args) /\ next \in Nat
        BY <2>2, <2>5, <3>3
      <4>3. ASSUME NEW t \in ArgDefaults, t.slot = slot
            PROVE  i >= next /\ t = [slot |-> slot, kind |-> kind, default |-> default]
        <5>1. PICK j \in next..Len(Built[command].args) :
                t = [slot |-> ArgSlot(command, j), kind |-> Built[command].args[j].kind,
                     default |-> Built[command].args[j].default]
          BY <2>10, <4>3
        <5>2. ArgSlot(command, j) = ArgSlot(command, i)
          BY <3>3, <4>3, <5>1
        <5>3. j = i
          BY <5>2, SlotsDiffer
        <5>4. i >= next
          BY <2>2, <2>5, <5>1, <5>3
        <5> QED  BY <3>3, <5>1, <5>3, <5>4
      <4>4. CASE i < next \/ default = ""
        <5>1. ASSUME NEW t \in ArgDefaults, t.slot = slot PROVE t.default = ""
          <6>1. i >= next /\ t = [slot |-> slot, kind |-> kind, default |-> default]
            BY <4>3, <5>1
          <6>2. t.default = default
            BY <6>1
          <6>3. ~(i < next)
            BY <4>2, <6>1
          <6> QED  BY <4>4, <6>2, <6>3
        <5>2. values'[slot] = values[slot]
          BY <2>1, <3>1, <5>1, DefaultsSet
        <5>3. ASSUME ~Stuck PROVE ArgAsRead(p, i)'
          <6> DEFINE d == IF Given(slot) = {} \/ kind \in Cumulative THEN default ELSE ""
          <6>1. d = ""
            BY <4>1, <4>4, <5>3
          <6>2. Holds(values'[slot], kind, Said(slot, d))
            BY <4>1, <5>2, <6>1
          <6>3. p \in Selected' /\ AfterFlags(p) = "args"
            BY <2>2, <2>3, <3>3
          <6> QED  BY <2>1, <6>2, <6>3, ArgReadNext
        <5> QED  BY <2>1, <2>2, <2>3, <2>4, <3>3, <4>1, <5>2, <5>3 DEF ArgKept
      <4>5. CASE ~(i < next) /\ default # ""
        <5>1. PICK t : t = [slot |-> slot, kind |-> kind, default |-> default]
          OBVIOUS
        <5>2. i \in next..Len(Built[command].args)
          <6>1. ~(i < next) /\ Len(Built[command].args) \in Nat
            BY <2>5, <4>5
          <6> QED  BY <4>2, <6>1
        <5>3. t \in ArgDefaults /\ t.slot = slot /\ t.kind = kind /\ t.default = default
          BY <2>2, <3>3, <5>1, <5>2 DEF ArgDefaults
        <5>4. \A u \in ArgDefaults : u.slot = slot => u = t
          BY <4>3, <5>1
        <5>5. values'[slot] = Set(kind, values[slot], default)
          <6> HIDE DEF slot, kind, default
          <6>1. WithDefaults(ArgDefaults)[slot] = Set(t.kind, values[slot], t.default)
            BY <3>1, <4>5, <5>3, <5>4, DefaultsSet
          <6> QED  BY <2>1, <5>3, <6>1
        <5>6. kind \in Kinds /\ Len(tokens) \in Nat /\ Given(slot) \subseteq 1..Len(tokens)
          BY <1>2, <2>2, BuiltIs, GivenWithin
        <5>7. /\ Holds(Set(kind, values[slot], default), kind, Said(slot, default))
              /\ kind \in Lists => IsPath(Set(kind, values[slot], default))
          BY <4>1, <4>5, <5>6, DefaultHolds
        <5>8. ArgAsRead(p, i)'
          <6> DEFINE d == IF Given(slot) = {} \/ kind \in Cumulative THEN default ELSE ""
          <6>1. d = default
            <7>1. ~(i < next)
              BY <4>5
            <7>2. i > next \/ i = next
              BY <4>2, <7>1
            <7> QED  BY <4>1, <7>2
          <6>2. Holds(values'[slot], kind, Said(slot, d))
            BY <5>5, <5>7, <6>1
          <6>3. p \in Selected' /\ AfterFlags(p) = "args"
            BY <2>2, <2>3, <3>3
          <6> QED  BY <2>1, <6>2, <6>3, ArgReadNext
        <5> QED  BY <2>1, <2>2, <2>3, <2>4, <3>3, <5>5, <5>7, <5>8 DEF ArgKept
      <4> QED  BY <4>4, <4>5
    <3> QED  BY <3>2, <3>3
  <2>14. Kept'
    BY <2>3, <2>11, <2>13 DEF Kept
  <2>15. Required'
    <3>1. ASSUME NEW p \in Selected, NEW f \in Built[p].flags PROVE FlagRequired(p, f)'
      <4>1. FlagRequired(p, f)
        BY <1>2 DEF Required
      <4> QED  BY <1>1, <2>1, <2>9, <4>1, FlagStaysRequired
    <3>2. ASSUME NEW i \in DOMAIN Built[command].args, Built[command].args[i].required,
                 ~ArgsRefused(Built[command].args)
          PROVE  Given(ArgSlot(command, i)) # {} \/ Stuck
      <4>1. i \in Nat /\ i >= 1 /\ i <= Len(Built[command].args)
        BY <2>5
      <4>2. CASE i < next
        BY <2>12, <4>2
      <4>3. CASE i = next
        BY <1>5, <2>2, <3>2, <4>1, <4>3
      <4>4. CASE i > next
        <5>1. next \in DOMAIN Built[command].args /\ next < i /\ next # Len(Built[command].args)
          BY <2>2, <2>5, <4>1, <4>4
        <5>2. Built[command].args[next].required /\ Built[command].args[next].kind \notin Cumulative
          BY <3>2, <5>1 DEF ArgsRefused
        <5>3. Given(ArgSlot(command, next)) # {}
          BY <1>5, <2>2, <2>5, <5>1, <5>2
        <5>4. Given(ArgSlot(command, next)) = {}
          BY <2>12, <5>1, <5>2
        <5> QED  BY <5>3, <5>4
      <4> QED  BY <2>2, <4>1, <4>2, <4>3, <4>4
    <3>3. ASSUME NEW p \in Selected, NEW i \in DOMAIN Built[p].args PROVE ArgRequired(p, i)'
      <4>1. CASE p = command
        BY <2>3, <2>4, <2>9, <3>2, <4>1 DEF ArgRequired
      <4>2. CASE p # command
        BY <2>2, <2>3, <4>2 DEF ArgRequired
      <4> QED  BY <4>1, <4>2
    <3> QED  BY <2>3, <3>1, <3>3 DEF Required
  <2>16. Helping'
    BY <1>3, <2>1, <2>3, LineSame DEF Helping
  <2> QED  BY <2>6, <2>7, <2>8, <2>14, <2>15, <2>16 DEF LineInv
<1> QED  BY <1>4, <1>5

\* Every step keeps the invariant.
LEMMA LineStep == LineInv /\ [CommandNext]_commandVars => LineInv'
<1> SUFFICES ASSUME LineInv, [CommandNext]_commandVars PROVE LineInv'
  OBVIOUS
<1>1. CASE CommandNext
  BY <1>1, ParseLineKeeps, TokenizeKeeps, ParseGroupKeeps, ParseFlagKeeps, FlagErrorKeeps,
     FlagsDoneKeeps, ParseCommandKeeps, ParseArgKeeps, PassArgKeeps, ArgsDoneKeeps, FinishKeeps
     DEF CommandNext
<1>2. CASE UNCHANGED commandVars
  <2>1. UNCHANGED <<app, line, outcome, tokens, first, command, phase, missing, absent, next, values, reading>>
    BY <1>2 DEF commandVars
  <2>2. Shape /\ FirstTokens /\ SoFar /\ Kept /\ Required /\ Helping
    BY DEF LineInv
  <2>3. Built' = Built /\ Slots' = Slots /\ Selected' = Selected /\ Group' = Group
        /\ (Refused' <=> Refused) /\ (DefaultsFit' <=> DefaultsFit) /\ \A p : AfterFlags(p)' = AfterFlags(p)
    BY <2>1, GroupsSame
  <2>4. (AtEnd' <=> AtEnd) /\ (Stuck' <=> Stuck) /\ (HelpFirst' <=> HelpFirst)
    BY <2>1, PlaceSame
  <2>5. \A slot : Given(slot)' = Given(slot)
    BY <2>1 DEF Given
  <2>6. Shape'
    BY <2>1, <2>2, <2>3, <2>4 DEF Shape, IsToken, IsFlag, Token
  <2>7. FirstTokens'
    BY <2>1, <2>2, LineSame DEF FirstTokens
  <2>8. SoFar'
    BY <2>1, <2>2, SoFarStays DEF Shape
  <2>9. ASSUME NEW p \in DOMAIN Built, NEW f \in Built[p].flags PROVE FlagKept(p, f)'
    <3>1. FlagKept(p, f)
      BY <2>2 DEF Kept
    <3>2. CASE phase = "words"
      BY <2>1, <2>5, <3>1, <3>2, FlagIdle
    <3>3. CASE phase # "words"
      BY <2>1, <2>3, <2>5, <3>1, <3>3, FlagStays
    <3> QED  BY <3>2, <3>3
  <2>10. ASSUME NEW p \in DOMAIN Built, NEW i \in DOMAIN Built[p].args PROVE ArgKept(p, i)'
    BY <2>1, <2>2, ArgStays DEF Kept
  <2>11. Kept'
    BY <2>3, <2>9, <2>10 DEF Kept
  <2>12. Required'
    <3>1. ASSUME NEW p \in Selected, NEW f \in Built[p].flags PROVE FlagRequired(p, f)'
      <4>1. FlagRequired(p, f)
        BY <2>2 DEF Required
      <4> QED  BY <2>1, <2>4, <2>5, <4>1 DEF FlagRequired, DefaultOf
    <3>2. ASSUME NEW p \in Selected, NEW i \in DOMAIN Built[p].args PROVE ArgRequired(p, i)'
      <4>1. ArgRequired(p, i)
        BY <2>2 DEF Required
      <4> QED  BY <2>1, <2>3, <2>4, <2>5, <4>1 DEF ArgRequired
    <3> QED  BY <2>3, <3>1, <3>2 DEF Required
  <2>13. Helping'
    BY <2>1, <2>2, <2>3, LineSame DEF Helping
  <2> QED  BY <2>6, <2>7, <2>8, <2>11, <2>12, <2>13 DEF LineInv
<1> QED  BY <1>1, <1>2

\* A line that is parsed was read to its end.
LEMMA LineIsRead == LineInv => CommandLineRead
<1> SUFFICES ASSUME LineInv PROVE CommandLineRead
  OBVIOUS
<1>1. Shape /\ FirstTokens /\ SoFar /\ Kept /\ Required /\ Helping
  BY DEF LineInv
<1>2. ASSUME outcome = "parsed"
      PROVE  phase = "done" /\ AtEnd /\ ~Stuck
  BY <1>1, <1>2 DEF Shape, Stuck
<1>3. EveryTokenRead
  <2>1. ASSUME outcome = "parsed", NEW i \in DOMAIN tokens PROVE TokenRead(i)
    <3>1. first = Len(tokens) + 1 /\ Len(tokens) \in Nat /\ DOMAIN tokens = 1..Len(tokens)
      BY <1>1, <1>2, <2>1, PeekIs
    <3>2. i \in 1..(first - 1)
      BY <3>1
    <3> QED  BY <1>1, <3>2 DEF SoFar
  <2> QED  BY <2>1 DEF EveryTokenRead
<1>4. ASSUME outcome = "parsed", NEW p \in DOMAIN Built
      PROVE  /\ \A f \in Built[p].flags : FlagAsRead(p, f)
             /\ \A i \in DOMAIN Built[p].args : ArgAsRead(p, i)
  <2>1. ASSUME NEW f \in Built[p].flags PROVE FlagAsRead(p, f)
    <3>1. FlagKept(p, f) /\ phase = "done"
      BY <1>1, <1>2, <1>4 DEF Kept
    <3>2. CASE p \notin Selected
      BY <3>1, <3>2 DEF FlagKept, FlagAsRead
    <3>3. CASE p \in Selected
      BY <3>1, <3>3 DEF FlagKept
    <3> QED  BY <3>2, <3>3
  <2>2. ASSUME NEW i \in DOMAIN Built[p].args PROVE ArgAsRead(p, i)
    <3>1. ArgKept(p, i) /\ phase = "done" /\ ~Stuck
      BY <1>1, <1>2, <1>4 DEF Kept
    <3>2. p \in Selected /\ p # command => AfterFlags(p) = "commands"
      BY <1>1 DEF Shape
    <3>3. CASE p # command \/ AfterFlags(p) # "args"
      BY <3>1, <3>2, <3>3 DEF ArgKept, ArgAsRead
    <3>4. CASE p = command /\ AfterFlags(p) = "args"
      BY <3>1, <3>4 DEF ArgKept
    <3> QED  BY <3>3, <3>4
  <2> QED  BY <2>1, <2>2
<1>5. ValuesAsRead
  BY <1>4 DEF ValuesAsRead
<1>6. RequiredGiven
  <2>1. ASSUME outcome = "parsed", NEW p \in Selected, NEW f \in Built[p].flags,
               f.required, DefaultOf(p, f) = "", ~(p = <<>> /\ HelpFirst)
        PROVE  Given(FlagSlot(p, f)) # {}
    <3>1. FlagRequired(p, f)
      BY <1>1 DEF Required
    <3> QED  BY <1>2, <2>1, <3>1 DEF FlagRequired
  <2>2. ASSUME outcome = "parsed", NEW p \in Selected, NEW i \in DOMAIN Built[p].args,
               Built[p].args[i].required, AfterFlags(p) = "args", ~ArgsRefused(Built[p].args)
        PROVE  Given(ArgSlot(p, i)) # {}
    <3>1. ArgRequired(p, i)
      BY <1>1 DEF Required
    <3> QED  BY <1>2, <2>2, <3>1 DEF ArgRequired
  <2> QED  BY <2>1, <2>2 DEF RequiredGiven
<1>7. HelpAlways
  <2>1. ASSUME outcome \in {"error", "usage", "parsed"}, line # <<>>
        PROVE  ~LongHelp /\ ~(TextHelp /\ Built[<<>>].commands # <<>> /\ AllText /\ DefaultsFit)
    <3>1. phase # "words" /\ outcome \notin {"starting", "refused", "helped", "parsing"}
      BY <1>1, <2>1 DEF Shape
    <3> QED  BY <1>1, <2>1, <3>1 DEF Helping
  <2> QED  BY <2>1 DEF HelpAlways, LongHelp, TextHelp, AllText, DefaultsFit
<1> QED  BY <1>3, <1>5, <1>6, <1>7 DEF CommandLineRead

\* Its variables are of their types.
LEMMA LineTypes == LineInv => CommandTypeOK
<1> SUFFICES ASSUME LineInv PROVE CommandTypeOK
  OBVIOUS
<1>1. Shape
  BY DEF LineInv
<1>2. first \in 1..(Len(tokens) + 1)
  BY <1>1, PeekIs
<1>3. next \in 1..(Len(IF phase = "words" THEN line ELSE Group.args) + 1)
  <2> DEFINE len == Len(IF phase = "words" THEN line ELSE Group.args)
  <2>1. len \in Nat
    <3>1. Len(line) \in Nat
      <4>1. line \in Seq(Words)
        BY <1>1, KingpinAssumption DEF Shape
      <4> QED  BY <4>1, LenProperties
    <3>2. Len(Group.args) \in Nat
      BY <1>1, BuiltIs, PathOf DEF Shape, Group
    <3> QED  BY <3>1, <3>2
  <2>2. next \in Nat /\ next # 0 /\ next <= len + 1
    BY <1>1 DEF Shape
  <2> HIDE DEF len
  <2>3. next \in 1..(len + 1)
    BY <2>1, <2>2
  <2> QED  BY <2>3 DEF len
<1> QED  BY <1>1, <1>2, <1>3 DEF Shape, CommandTypeOK

\* What holds of a command line at every step: which tokens were read, as what, and what the
\* flags and arguments hold of it.
THEOREM LineInvariance == CommandSpec => []LineInv
BY LineStarts, LineStep, PTL DEF CommandSpec

\* Whatever the application and the command line, the parser stays within the application's
\* groups, the line's tokens and the group's flags and arguments.
THEOREM LineKeepsTypes == CommandSpec => []CommandTypeOK
BY LineInvariance, LineTypes, PTL

\* Whatever the application and the command line, every word of a line that is parsed is read
\* once as what it says, values and defaults end up where they belong, and what is required is
\* there or help is shown.
THEOREM CommandLinesAreRead == CommandSpec => []CommandLineRead
BY LineInvariance, LineIsRead, PTL
-----------------------------------------------------------------------------
\* What keeps the tree whole while it is made.  N is a set of elements to which the documents
\* and the children of each element belong.
Elements(N) ==
    \A node \in N : {"name", "children"} \subseteq DOMAIN node /\ node.children \in Seq(N)

IsElement(N, node) == node.children \in Seq(N \cup {Plain("console")})

Opened ==
    /\ result.logger = "none" => done = 0
    /\ making # <<>> => result.logger = "parsing" /\ making[1] = Root

\* Each constructor that has begun was called by the one before it.
Called(p, k) == p[k] = Receiver(p[k - 1].node.children[p[k].at], p[k - 1].format, p[k].at)

Chain(N) ==
    \A k \in 1..Len(making) : IsElement(N, making[k].node) /\ (k # 1 => Called(making, k))

\* How many receivers inside it the k-th constructor has made, and where they stand.
MadeIn(k) == IF k = Len(making) THEN done ELSE making[k + 1].at - 1

Standing(tree, p, i) == Used(Inner(p, i)) => Inner(p, i) \in tree

Behind == \A k \in 1..Len(making) : \A i \in 1..MadeIn(k) :
            Standing(result.tree, SubSeq(making, 1, k), i)

\* A receiver in the tree has those inside it.
Whole(tree, p) ==
    Last(p).node.name \in Nesting =>
      \A i \in DOMAIN Last(p).node.children : Standing(tree, p, i)

AllWhole == \A p \in result.tree : Last(p).node.name \in DOMAIN Element /\ Whole(result.tree, p)

RootStands == result.logger \in {"parsing", "nil", "made"} /\ making = <<>> => <<Root>> \in result.tree

TreeInv(N) == ConfigInv /\ Opened /\ Chain(N) /\ Behind /\ AllWhole /\ RootStands

\* While the document is the same, so are the receivers it has.
LEMMA DocumentSame ==
    ASSUME document' = document
    PROVE  /\ Root' = Root
           /\ \A p, k : Called(p, k)' <=> Called(p, k)
           /\ \A t, p, i : Standing(t, p, i)' <=> Standing(t, p, i)
           /\ \A t, p : Whole(t, p)' <=> Whole(t, p)
<1>1. \A n, f, i : Receiver(n, f, i)' = Receiver(n, f, i)
  BY DEF Receiver, getCurrentFormat, Named
<1>2. \A p, i : Inner(p, i)' = Inner(p, i)
  BY <1>1 DEF Inner
<1>3. \A t, p, i : Standing(t, p, i)' <=> Standing(t, p, i)
  BY <1>2 DEF Standing
<1>4. Root' = Root
  <2>1. Root' = Receiver(Outputs(document), Default, 1)'
    BY DEF Root
  <2>2. Receiver(Outputs(document), Default, 1)' = Receiver(Outputs(document), Default, 1)
    BY DEF Receiver, getCurrentFormat, Named
  <2> QED  BY <2>1, <2>2 DEF Root
<1>5. \A p, k : Called(p, k)' <=> Called(p, k)
  BY <1>1 DEF Called
<1>6. \A t, p : Whole(t, p)' <=> Whole(t, p)
  BY <1>3 DEF Whole
<1> QED  BY <1>3, <1>4, <1>5, <1>6

\* A larger tree has what a smaller one has.
LEMMA WholeInLarger ==
    ASSUME NEW s, NEW t, s \subseteq t
    PROVE  /\ \A p, i : Standing(s, p, i) => Standing(t, p, i)
           /\ \A p : Whole(s, p) => Whole(t, p)
<1>1. \A p, i : Standing(s, p, i) => Standing(t, p, i)
  BY DEF Standing
<1> QED  BY <1>1 DEF Whole

\* Paths that agree up to a place have the same part up to there.
LEMMA SamePart ==
    ASSUME NEW p, NEW q, IsPath(p), IsPath(q), NEW k \in Nat, k <= Len(p), k <= Len(q),
           \A i \in 1..k : p[i] = q[i]
    PROVE  SubSeq(p, 1, k) = SubSeq(q, 1, k)
<1>1. Len(p) \in Nat /\ Len(q) \in Nat
  BY PathOf
<1>2. k \in 0..Len(p) /\ k \in 0..Len(q)
  BY <1>1
<1>3. /\ IsPath(SubSeq(p, 1, k)) /\ Len(SubSeq(p, 1, k)) = k
      /\ \A i \in 1..k : SubSeq(p, 1, k)[i] = p[i]
  BY <1>2, PathPart
<1>4. /\ IsPath(SubSeq(q, 1, k)) /\ Len(SubSeq(q, 1, k)) = k
      /\ \A i \in 1..k : SubSeq(q, 1, k)[i] = q[i]
  BY <1>2, PathPart
<1> DEFINE a == SubSeq(p, 1, k)  b == SubSeq(q, 1, k)
<1> HIDE DEF a, b
<1>5. IsPath(a) /\ IsPath(b) /\ Len(a) = Len(b) /\ \A i \in 1..Len(a) : a[i] = b[i]
  BY <1>3, <1>4 DEF a, b
<1>6. a = b
  BY <1>5, PathEqual
<1> QED  BY <1>6 DEF a, b

\* All of a path is the path.
LEMMA WholePart == ASSUME NEW p, IsPath(p) PROVE SubSeq(p, 1, Len(p)) = p
<1>1. PICK S : p \in Seq(S)
  BY DEF IsPath
<1> QED  BY <1>1, SubSeqFull

\* Elements of the documents have sequences of elements for children, and so has the outputs.
LEMMA RootIsElement ==
    ASSUME NEW N, Elements(N), document \in N
    PROVE  IsElement(N, Root.node)
<1> DEFINE E == N \cup {Plain("console")}
<1>1. Root.node = Outputs(document)
  BY DEF Root, Receiver
<1>2. \A s \in Seq(N) : s \in Seq(E)
  <2>1. N \subseteq E
    OBVIOUS
  <2> HIDE DEF E
  <2> QED  BY <2>1, LenProperties, SeqDef
<1>3. CASE HasChild(document, "outputs")
  <2>1. Child(document, "outputs") \in N
    <3>1. Child(document, "outputs") = document.children[CHOOSE i \in DOMAIN document.children :
                                         document.children[i].name = "outputs"]
      BY <1>3 DEF Child
    <3>2. \E i \in DOMAIN document.children : document.children[i].name = "outputs"
      BY <1>3 DEF HasChild
    <3>3. document.children \in Seq(N)
      BY DEF Elements
    <3>4. \A i \in DOMAIN document.children : document.children[i] \in N
      BY <3>3
    <3> QED  BY <3>1, <3>2, <3>4
  <2>2. Outputs(document).children = Child(document, "outputs").children
    BY <1>3, <2>1 DEF Outputs, Elements
  <2>3. Child(document, "outputs").children \in Seq(N)
    BY <2>1 DEF Elements
  <2> QED  BY <1>1, <1>2, <2>2, <2>3 DEF IsElement
<1>4. CASE ~HasChild(document, "outputs")
  <2>1. Outputs(document).children = <<Plain("console")>>
    BY <1>4 DEF Outputs, Plain
  <2>2. <<Plain("console")>> \in Seq(E)
    <3>1. Plain("console") \in E
      OBVIOUS
    <3> HIDE DEF E
    <3> QED  BY <3>1
  <2> QED  BY <1>1, <2>1, <2>2 DEF IsElement
<1> QED  BY <1>3, <1>4

\* So has every child of an element.
LEMMA ChildIsElement ==
    ASSUME NEW N, Elements(N), NEW node, IsElement(N, node), NEW i \in DOMAIN node.children
    PROVE  IsElement(N, node.children[i])
<1> DEFINE E == N \cup {Plain("console")}
<1>1. node.children[i] \in E
  <2> HIDE DEF E
  <2>1. node.children \in Seq(E)
    BY DEF IsElement, E
  <2> QED  BY <2>1
<1>2. \A s \in Seq(N) : s \in Seq(E)
  <2>1. N \subseteq E
    OBVIOUS
  <2> HIDE DEF E
  <2> QED  BY <2>1, LenProperties, SeqDef
<1>3. CASE node.children[i] \in N
  BY <1>2, <1>3 DEF Elements, IsElement
<1>4. CASE node.children[i] = Plain("console")
  <2>1. Plain("console").children = <<>>
    BY DEF Plain
  <2>2. <<>> \in Seq(E)
    BY EmptySeq
  <2> QED  BY <1>4, <2>1, <2>2 DEF IsElement
<1> QED  BY <1>1, <1>3, <1>4

\* In the beginning nothing is being made.
LEMMA TreeStarts == ASSUME NEW N PROVE ConfigInit => TreeInv(N)
<1> SUFFICES ASSUME ConfigInit
             PROVE  TreeInv(N)
  OBVIOUS
<1>1. making = <<>> /\ done = 0 /\ result.logger = "none" /\ result.tree = {}
  BY DEF ConfigInit, NoResult
<1>2. Len(making) = 0
  BY <1>1
<1>3. ConfigInv
  BY ConfigStarts
<1>4. \A k \in 1..Len(making) : FALSE
  BY <1>2
<1> QED  BY <1>1, <1>3, <1>4 DEF TreeInv, Opened, Chain, Behind, AllWhole, RootStands

\* A step that changes nothing but the logger keeps the tree.
LEMMA TreeSame ==
    ASSUME NEW N, TreeInv(N), ConfigInv', document' = document, making' = making, done' = done,
           result'.tree = result.tree, making # <<>> => result'.logger = result.logger,
           result'.logger \in {"parsing", "nil", "made"} =>
             result.logger \in {"parsing", "nil", "made"},
           result'.logger = "none" => result.logger = "none"
    PROVE  TreeInv(N)'
<1>1. Opened'
  BY DocumentSame DEF TreeInv, Opened
<1>2. Chain(N)'
  <2>1. \A k \in 1..Len(making) : IsElement(N, making[k].node) /\ (k # 1 => Called(making, k))
    BY DEF TreeInv, Chain
  <2>2. \A k \in 1..Len(making') : IsElement(N, making'[k].node) /\ (k # 1 => Called(making', k))
    BY <2>1
  <2>3. \A k : Called(making, k)' <=> Called(making', k)
    BY DEF Called, Receiver, getCurrentFormat, Named
  <2> QED  BY <2>2, <2>3 DEF Chain, IsElement
<1>3. Behind'
  <2>1. \A k \in 1..Len(making) : \A i \in 1..MadeIn(k) :
          Standing(result.tree, SubSeq(making, 1, k), i)
    BY DEF TreeInv, Behind
  <2>2. \A k : MadeIn(k)' = MadeIn(k)
    BY DEF MadeIn
  <2>3. \A k, i : Standing(result.tree, SubSeq(making, 1, k), i)'
                    <=> Standing(result.tree, SubSeq(making, 1, k), i)
    BY DEF Standing, Inner, Receiver, getCurrentFormat, Named
  <2> QED  BY <2>1, <2>2, <2>3 DEF Behind
<1>4. AllWhole'
  <2>1. \A p : Whole(result.tree, p)' <=> Whole(result.tree, p)
    BY DEF Whole, Standing, Inner, Receiver, getCurrentFormat, Named
  <2> QED  BY <2>1 DEF TreeInv, AllWhole
<1>5. RootStands'
  BY DocumentSame DEF TreeInv, RootStands
<1> QED  BY <1>1, <1>2, <1>3, <1>4, <1>5 DEF TreeInv

\* After an error there is nothing.
LEMMA TreeFails ==
    ASSUME NEW N, TreeInv(N), ConfigInv', Fail
    PROVE  TreeInv(N)'
<1>1. making' = <<>> /\ result'.tree = {} /\ result'.logger = "error"
  BY DEF TreeInv, ConfigInv, Fail
<1>2. \A k \in 1..Len(making') : FALSE
  BY <1>1
<1> QED  BY <1>1, <1>2 DEF TreeInv, Opened, Chain, Behind, AllWhole, RootStands

\* The outputs begin.
LEMMA TreeParses ==
    ASSUME NEW N, Elements(N), Documents \subseteq N, TreeInv(N), ConfigInv', Parse
    PROVE  TreeInv(N)'
<1>1. /\ document' = document /\ done' = done /\ result.tree = {} /\ result.logger = "none"
      /\ ConfigInv /\ document \in N
  BY DEF TreeInv, ConfigInv, Parse, NoResult
<1>2. making = <<>>
  BY <1>1 DEF TreeInv, Opened
<1>3. CASE RootFits(document) /\ Fits(document, Root.node)
  <2>1. result' = [result EXCEPT !.logger = "parsing"] /\ making' = <<Root>>
    BY <1>3 DEF Parse
  <2>2. result'.logger = "parsing" /\ result'.tree = {}
    BY <1>1, <2>1 DEF ConfigInv
  <2>3. Len(making') = 1 /\ making'[1] = Root /\ making' # <<>> /\ Root' = Root
    BY <1>1, <2>1, DocumentSame
  <2>4. Opened'
    BY <2>2, <2>3 DEF Opened
  <2>5. Chain(N)'
    <3>1. \A k \in 1..Len(making') : k = 1
      BY <2>3
    <3> QED  BY <1>1, <2>3, <3>1, RootIsElement DEF Chain, IsElement
  <2>6. Behind'
    <3>1. done = 0
      BY <1>1 DEF TreeInv, Opened
    <3> QED  BY <1>1, <2>3, <3>1 DEF Behind, MadeIn
  <2> QED  BY <2>2, <2>3, <2>4, <2>5, <2>6 DEF TreeInv, AllWhole, RootStands
<1>4. CASE ~(RootFits(document) /\ Fits(document, Root.node))
  <2>1. result' = [result EXCEPT !.logger = "error"] /\ making' = making
    BY <1>4 DEF Parse
  <2>2. result'.logger = "error" /\ result'.tree = result.tree
    BY <1>1, <2>1 DEF ConfigInv
  <2> QED  BY <1>1, <1>2, <2>1, <2>2, TreeSame
<1> QED  BY <1>3, <1>4

\* A receiver begins, or is made at once inside the one that has begun.
LEMMA TreeConstructs ==
    ASSUME NEW N, Elements(N), TreeInv(N), ConfigInv', Construct
    PROVE  TreeInv(N)'
<1> DEFINE path == Inner(making, done + 1)
           node == Last(path).node
           n == Len(making)
<1>1. /\ document' = document /\ done \in Nat /\ ConfigInv
      /\ {"logger", "tree"} \subseteq DOMAIN result
      /\ making # <<>> /\ Grown(making) /\ Last(making).node.name \in Nesting
      /\ done + 1 \in DOMAIN Last(making).node.children
  BY DEF TreeInv, ConfigInv, Construct, HasNext, this
<1>2. /\ Grown(path) /\ Len(path) = n + 1 /\ n \in Nat \ {0}
      /\ \A k \in 1..n : path[k] = making[k]
      /\ path[n + 1] = Receiver(Last(making).node.children[done + 1], Last(making).format, done + 1)
      /\ Last(path) = path[n + 1] /\ Last(making) = making[n]
  <2>1. done + 1 \in Nat
    BY <1>1
  <2> QED  BY <1>1, <2>1, InnerGrown DEF Last
<1>3. /\ result.logger = "parsing" /\ making[1] = Root /\ IsPath(making) /\ IsPath(path)
      /\ SubSeq(making, 1, n) = making
  BY <1>1, <1>2, WholePart DEF TreeInv, Opened, Grown
<1>4. /\ \A k \in 1..n : IsElement(N, making[k].node) /\ (k # 1 => Called(making, k))
      /\ \A k \in 1..n : \A i \in 1..MadeIn(k) : Standing(result.tree, SubSeq(making, 1, k), i)
      /\ \A p \in result.tree : Last(p).node.name \in DOMAIN Element /\ Whole(result.tree, p)
  BY DEF TreeInv, Chain, Behind, AllWhole
<1> HIDE DEF path
<1>5. CASE ~Fits(document, node) \/ Refuses(node)
  <2>1. Fail
    BY <1>5 DEF Construct, path
  <2> QED  BY <2>1, TreeFails
<1>6. CASE ~(~Fits(document, node) \/ Refuses(node)) /\ node.name \in Nesting
  <2>1. making' = path /\ done' = 0 /\ result' = result
    BY <1>6 DEF Construct, path
  <2>2. Opened'
    <3>1. making'[1] = Root /\ Root' = Root
      BY <1>1, <1>2, <1>3, <2>1, DocumentSame
    <3> QED  BY <1>3, <2>1, <3>1 DEF Opened
  <2>3. Chain(N)'
    <3>1. \A k \in 1..n : IsElement(N, path[k].node) /\ (k # 1 => Called(path, k))
      BY <1>2, <1>4 DEF Called
    <3>2. IsElement(N, path[n + 1].node)
      <4>1. IsElement(N, Last(making).node)
        BY <1>2, <1>4
      <4>2. path[n + 1].node = Last(making).node.children[done + 1]
        BY <1>2 DEF Receiver
      <4> QED  BY <1>1, <4>1, <4>2, ChildIsElement
    <3>3. Called(path, n + 1)
      <4>1. path[n + 1].at = done + 1 /\ path[(n + 1) - 1] = Last(making)
        BY <1>2 DEF Receiver
      <4> QED  BY <1>2, <4>1 DEF Called
    <3>4. \A k \in 1..Len(path) : k \in 1..n \/ k = n + 1
      BY <1>2
    <3>5. \A k \in 1..Len(path) : IsElement(N, path[k].node) /\ (k # 1 => Called(path, k))
      BY <3>1, <3>2, <3>3, <3>4
    <3>6. \A k : Called(making, k)' <=> Called(path, k)
      BY <1>1, <2>1 DEF Called, Receiver, getCurrentFormat, Named
    <3> QED  BY <2>1, <3>5, <3>6 DEF Chain, IsElement
  <2>4. Behind'
    <3> SUFFICES ASSUME NEW k \in 1..Len(path), NEW i \in 1..(MadeIn(k)')
                 PROVE  Standing(result.tree, SubSeq(path, 1, k), i)
      <4>1. \A k, i : Standing(result.tree, SubSeq(making, 1, k), i)'
                        <=> Standing(result.tree, SubSeq(path, 1, k), i)
        BY <1>1, <2>1 DEF Standing, Inner, Receiver, getCurrentFormat, Named
      <4> QED  BY <2>1, <4>1 DEF Behind
    <3>1. MadeIn(k)' = IF k = Len(path) THEN 0 ELSE path[k + 1].at - 1
      BY <2>1 DEF MadeIn
    <3>2. k \in 1..n
      BY <1>2, <3>1
    <3>3. MadeIn(k)' = MadeIn(k)
      <4>1. CASE k = n
        <5>1. path[n + 1].at = done + 1 /\ done + 1 - 1 = done
          BY <1>1, <1>2 DEF Receiver
        <5>2. k # Len(path) /\ path[k + 1].at - 1 = done
          BY <1>1, <1>2, <4>1, <5>1
        <5>3. MadeIn(k) = done
          BY <4>1 DEF MadeIn
        <5> QED  BY <3>1, <5>2, <5>3
      <4>2. CASE k # n
        <5>1. k + 1 \in 1..n
          BY <1>2, <3>2, <4>2
        <5> QED  BY <1>2, <3>1, <4>2, <5>1 DEF MadeIn
      <4> QED  BY <4>1, <4>2
    <3>4. SubSeq(path, 1, k) = SubSeq(making, 1, k)
      <4>1. k \in Nat /\ k <= Len(path) /\ k <= Len(making) /\ \A j \in 1..k : path[j] = making[j]
        BY <1>2, <3>2
      <4> QED  BY <1>3, <4>1, SamePart
    <3>5. i \in 1..MadeIn(k)
      BY <3>3
    <3> QED  BY <1>4, <3>2, <3>4, <3>5
  <2>5. AllWhole'
    <3>1. \A p : Whole(result.tree, p)' <=> Whole(result.tree, p)
      BY <1>1, <2>1 DEF Whole, Standing, Inner, Receiver, getCurrentFormat, Named
    <3> QED  BY <1>4, <2>1, <3>1 DEF AllWhole
  <2>6. RootStands'
    BY <1>2, <2>1, PathOf DEF RootStands, Grown
  <2> QED  BY <2>2, <2>3, <2>4, <2>5, <2>6 DEF TreeInv
<1>7. CASE ~(~Fits(document, node) \/ Refuses(node)) /\ node.name \notin Nesting
  <2>1. making' = making /\ done' = done + 1 /\ Made(path)
    BY <1>7 DEF Construct, path
  <2>2. /\ result'.logger = result.logger
        /\ result'.tree = IF Used(path) THEN result.tree \cup {path} ELSE result.tree
    BY <1>1, <2>1 DEF Made
  <2>3. result.tree \subseteq result'.tree /\ (Used(path) => path \in result'.tree)
    BY <2>2
  <2>4. Opened'
    BY <1>1, <1>3, <2>1, <2>2, DocumentSame DEF Opened
  <2>5. Chain(N)'
    <3>1. \A k : Called(making, k)' <=> Called(making, k)
      BY <1>1, <2>1 DEF Called, Receiver, getCurrentFormat, Named
    <3> QED  BY <1>4, <2>1, <3>1 DEF Chain, IsElement
  <2>6. Behind'
    <3> SUFFICES ASSUME NEW k \in 1..n, NEW i \in 1..(MadeIn(k)')
                 PROVE  Standing(result'.tree, SubSeq(making, 1, k), i)
      <4>1. \A k, i : Standing(result.tree, SubSeq(making, 1, k), i)'
                        <=> Standing(result'.tree, SubSeq(making, 1, k), i)
        BY <1>1, <2>1 DEF Standing, Inner, Receiver, getCurrentFormat, Named
      <4> QED  BY <2>1, <4>1 DEF Behind
    <3>1. i \in 1..MadeIn(k) \/ (k = n /\ i = done + 1)
      <4>1. CASE k = n
        BY <1>1, <2>1, <4>1 DEF MadeIn
      <4>2. CASE k # n
        BY <2>1, <4>2 DEF MadeIn
      <4> QED  BY <4>1, <4>2
    <3>2. CASE i \in 1..MadeIn(k)
      BY <1>4, <2>3, <3>2, WholeInLarger
    <3>3. CASE k = n /\ i = done + 1
      BY <1>3, <2>3, <3>3 DEF Standing, path
    <3> QED  BY <3>1, <3>2, <3>3
  <2>7. AllWhole'
    <3>1. \A p : Whole(result.tree, p)' <=> Whole(result'.tree, p)
      BY <1>1 DEF Whole, Standing, Inner, Receiver, getCurrentFormat, Named
    <3>2. Last(path).node.name \in DOMAIN Element
      BY <1>7 DEF Fits
    <3>3. Whole(result'.tree, path)
      BY <1>7 DEF Whole
    <3>4. \A p \in result.tree : Last(p).node.name \in DOMAIN Element /\ Whole(result'.tree, p)
      BY <1>4, <2>3, WholeInLarger
    <3>5. \A p \in result'.tree : p \in result.tree \/ p = path
      BY <2>2
    <3> QED  BY <3>1, <3>2, <3>3, <3>4, <3>5 DEF AllWhole
  <2>8. RootStands'
    BY <1>1, <2>1 DEF RootStands
  <2> QED  BY <2>4, <2>5, <2>6, <2>7, <2>8 DEF TreeInv
<1> QED  BY <1>5, <1>6, <1>7

\* A receiver with others inside it is made, and takes its place inside the one before it.
LEMMA TreeJoins ==
    ASSUME NEW N, TreeInv(N), ConfigInv', Join
    PROVE  TreeInv(N)'
<1> DEFINE n == Len(making)
           outer == Front(making)
<1>1. /\ document' = document /\ done \in Nat /\ ConfigInv
      /\ {"logger", "tree"} \subseteq DOMAIN result
      /\ making # <<>> /\ Grown(making) /\ Last(making).node.name \in Nesting
      /\ done + 1 \notin DOMAIN Last(making).node.children
  BY DEF TreeInv, ConfigInv, Join, HasNext, this
<1>2. /\ result.logger = "parsing" /\ making[1] = Root /\ IsPath(making)
      /\ n \in Nat \ {0} /\ Last(making) = making[n]
      /\ SubSeq(making, 1, n) = making
  BY <1>1, WholePart, PathOf DEF TreeInv, Opened, Grown, Last
<1>3. /\ \A k \in 1..n : IsElement(N, making[k].node) /\ (k # 1 => Called(making, k))
      /\ \A k \in 1..n : \A i \in 1..MadeIn(k) : Standing(result.tree, SubSeq(making, 1, k), i)
      /\ \A p \in result.tree : Last(p).node.name \in DOMAIN Element /\ Whole(result.tree, p)
  BY DEF TreeInv, Chain, Behind, AllWhole
<1>4. /\ IsPath(outer) /\ Len(outer) = n - 1 /\ \A k \in 1..(n - 1) : outer[k] = making[k]
  BY <1>1, <1>2, PathFront
<1> HIDE DEF outer
<1>5. CASE this.node.name = "buffered" /\ ~Buffered(this.node, this.format)
  <2>1. Fail
    BY <1>5 DEF Join
  <2> QED  BY <2>1, TreeFails
<1>6. CASE ~(this.node.name = "buffered" /\ ~Buffered(this.node, this.format))
  <2>1. making' = outer /\ done' = making[n].at /\ Made(making)
    BY <1>2, <1>6 DEF Join, this, outer
  <2>2. /\ result'.logger = result.logger
        /\ result'.tree = IF Used(making) THEN result.tree \cup {making} ELSE result.tree
    BY <1>1, <2>1 DEF Made
  <2>3. result.tree \subseteq result'.tree /\ (Used(making) => making \in result'.tree)
    BY <2>2
  <2>4. Opened'
    <3>1. making' # <<>> => making'[1] = Root
      <4>1. outer # <<>> => 1 \in 1..(n - 1)
        BY <1>2, <1>4, PathOf
      <4> QED  BY <1>2, <1>4, <2>1, <4>1
    <3> QED  BY <1>1, <1>2, <2>2, <3>1, DocumentSame DEF Opened
  <2>5. Chain(N)'
    <3>1. \A k \in 1..Len(outer) : k \in 1..n /\ outer[k] = making[k]
                                  /\ (k # 1 => outer[k - 1] = making[k - 1])
      BY <1>2, <1>4
    <3>2. \A k \in 1..Len(outer) : IsElement(N, outer[k].node) /\ (k # 1 => Called(outer, k))
      BY <1>3, <3>1 DEF Called
    <3>3. \A k : Called(making, k)' <=> Called(outer, k)
      BY <1>1, <2>1 DEF Called, Receiver, getCurrentFormat, Named
    <3> QED  BY <2>1, <3>2, <3>3 DEF Chain, IsElement
  <2>6. Behind'
    <3> SUFFICES ASSUME NEW k \in 1..(n - 1), NEW i \in 1..(MadeIn(k)')
                 PROVE  Standing(result'.tree, SubSeq(outer, 1, k), i)
      <4>1. \A k, i : Standing(result.tree, SubSeq(making, 1, k), i)'
                        <=> Standing(result'.tree, SubSeq(outer, 1, k), i)
        BY <1>1, <2>1 DEF Standing, Inner, Receiver, getCurrentFormat, Named
      <4> QED  BY <1>4, <2>1, <4>1 DEF Behind
    <3>1. SubSeq(outer, 1, k) = SubSeq(making, 1, k)
      <4>1. k \in Nat /\ k <= Len(outer) /\ k <= n /\ \A j \in 1..k : outer[j] = making[j]
        BY <1>2, <1>4
      <4> QED  BY <1>2, <1>4, <4>1, SamePart
    <3>2. MadeIn(k) = making[k + 1].at - 1 /\ k \in 1..n /\ k + 1 \in 1..n
      <4>1. k # n /\ k \in 1..n /\ k + 1 \in 1..n
        <5> HIDE DEF n
        <5> QED  BY <1>2
      <4> QED  BY <4>1 DEF MadeIn
    <3>3. MadeIn(k)' = IF k = n - 1 THEN making[n].at ELSE outer[k + 1].at - 1
      BY <1>4, <2>1 DEF MadeIn
    <3>4. making[n].at \in Nat
      BY <1>1, <1>2 DEF Grown, Grows
    <3>5. i \in 1..MadeIn(k) \/ (k = n - 1 /\ i = making[n].at)
      <4>1. CASE k = n - 1
        <5>1. k + 1 = n
          BY <1>2, <4>1
        <5>2. MadeIn(k) = making[n].at - 1 /\ MadeIn(k)' = making[n].at
          BY <3>2, <3>3, <4>1, <5>1
        <5> QED  BY <3>4, <4>1, <5>2
      <4>2. CASE k # n - 1
        <5>1. k + 1 \in 1..(n - 1)
          <6> HIDE DEF n
          <6> QED  BY <1>2, <4>2
        <5> QED  BY <1>4, <3>2, <3>3, <4>2, <5>1
      <4> QED  BY <4>1, <4>2
    <3>6. CASE i \in 1..MadeIn(k)
      BY <1>3, <2>3, <3>1, <3>2, <3>6, WholeInLarger
    <3>7. CASE k = n - 1 /\ i = making[n].at
      <4>1. n # 1 /\ n - 1 \in 1..n
        BY <1>2, <3>7
      <4>2. Inner(outer, i) = making
        <5>1. SubSeq(outer, 1, n - 1) = outer
          BY <1>4, WholePart
        <5>2. outer # <<>> /\ Last(outer) = making[n - 1]
          BY <1>2, <1>4, <4>1, PathOf DEF Last
        <5>3. Inner(outer, i) = Append(outer, making[n])
          BY <1>2, <1>3, <3>7, <4>1, <5>2 DEF Called, Inner
        <5> DEFINE q == Append(outer, making[n])
        <5>4. /\ IsPath(q) /\ Len(q) = n - 1 + 1 /\ q[n - 1 + 1] = making[n]
              /\ \A j \in 1..(n - 1) : q[j] = outer[j]
          BY <1>4, PathAppend
        <5> HIDE DEF q
        <5>5. Len(q) = n /\ \A j \in 1..n : q[j] = making[j]
          <6>1. \A j \in 1..n : j = n \/ j \in 1..(n - 1)
            <7> HIDE DEF n
            <7> QED  BY <1>2
          <6>2. n - 1 + 1 = n
            BY <1>2
          <6> QED  BY <1>4, <5>4, <6>1, <6>2
        <5>6. q = making
          BY <1>2, <5>4, <5>5, PathEqual
        <5> QED  BY <5>3, <5>6 DEF q
      <4>3. SubSeq(outer, 1, k) = outer
        BY <1>4, <3>7, WholePart
      <4> QED  BY <2>3, <4>2, <4>3 DEF Standing
    <3> QED  BY <3>5, <3>6, <3>7
  <2>7. AllWhole'
    <3>1. \A p : Whole(result.tree, p)' <=> Whole(result'.tree, p)
      BY <1>1 DEF Whole, Standing, Inner, Receiver, getCurrentFormat, Named
    <3>2. Last(making).node.name \in DOMAIN Element
      BY <1>1 DEF Nesting, Element
    <3>3. Whole(result'.tree, making)
      <4> DEFINE children == Last(making).node.children
      <4>1. IsElement(N, Last(making).node)
        BY <1>2, <1>3
      <4>2. Len(children) \in Nat /\ DOMAIN children = 1..Len(children)
        BY <4>1, LenProperties DEF IsElement
      <4>3. DOMAIN children \subseteq 1..done
        <5>1. done + 1 \notin 1..Len(children)
          BY <1>1, <4>2
        <5> HIDE DEF children
        <5>2. Len(children) <= done
          BY <1>1, <4>2, <5>1
        <5> QED  BY <1>1, <4>2, <5>2
      <4>4. MadeIn(n) = done /\ n \in 1..n
        BY <1>2 DEF MadeIn
      <4>5. \A i \in DOMAIN children : Standing(result.tree, making, i)
        BY <1>2, <1>3, <4>3, <4>4
      <4>6. Whole(result.tree, making)
        BY <4>5 DEF Whole
      <4> QED  BY <2>3, <4>6, WholeInLarger
    <3>4. \A p \in result.tree : Last(p).node.name \in DOMAIN Element /\ Whole(result'.tree, p)
      BY <1>3, <2>3, WholeInLarger
    <3>5. \A p \in result'.tree : p \in result.tree \/ p = making
      BY <2>2
    <3> QED  BY <3>1, <3>2, <3>3, <3>4, <3>5 DEF AllWhole
  <2>8. RootStands'
    <3> SUFFICES ASSUME making' = <<>>
                 PROVE  <<Root>> \in result'.tree
      BY <1>1, DocumentSame DEF RootStands
    <3>1. n = 1
      <4>1. Len(outer) = 0
        BY <1>4, <2>1, PathOf
      <4> HIDE DEF n
      <4> QED  BY <1>2, <1>4, <4>1
    <3>2. making = <<Root>>
      <4>1. /\ IsPath(<<Root>>) /\ <<Root>>[1] = Root /\ Len(<<Root>>) = 1
        BY RootGrown DEF Grown
      <4>2. \A k \in 1..Len(making) : k = 1
        BY <3>1
      <4> DEFINE q == <<Root>>
      <4> HIDE DEF q
      <4>3. making = q
        BY <1>2, <3>1, <4>1, <4>2, PathEqual DEF q
      <4> QED  BY <4>3 DEF q
    <3>3. Used(making)
      BY <3>1 DEF Used
    <3> QED  BY <2>3, <3>2, <3>3
  <2> QED  BY <2>4, <2>5, <2>6, <2>7, <2>8 DEF TreeInv
<1> QED  BY <1>5, <1>6

\* TreeInv is inductive.
LEMMA TreeStep ==
    ASSUME NEW N, Elements(N), Documents \subseteq N, TreeInv(N), [ConfigNext]_configVars
    PROVE  TreeInv(N)'
<1>1. ConfigInv'
  BY ConfigStep DEF TreeInv
<1>2. CASE Parse
  BY <1>1, <1>2, TreeParses
<1>3. CASE Construct
  BY <1>1, <1>3, TreeConstructs
<1>4. CASE Join
  BY <1>1, <1>4, TreeJoins
<1>5. CASE Complete
  <2>1. Logger(document) \in {"error", "made", "nil"}
    BY DEF Logger
  <2>2. /\ result'.logger = Logger(document) /\ result'.tree = result.tree
        /\ document' = document /\ making' = making /\ done' = done /\ making = <<>>
        /\ result.logger = "parsing"
    BY <1>5 DEF TreeInv, ConfigInv, Complete
  <2> QED  BY <1>1, <2>1, <2>2, TreeSame
<1>6. CASE UNCHANGED configVars
  BY <1>1, <1>6, TreeSame DEF configVars
<1> QED  BY <1>2, <1>3, <1>4, <1>5, <1>6 DEF ConfigNext

\* What the tree of a logger is.
LEMMA TreeTyped == ASSUME NEW N PROVE TreeInv(N) => ConfigTypeOK
<1> SUFFICES ASSUME TreeInv(N)
             PROVE  ConfigTypeOK
  OBVIOUS
<1>1. ConfigInv
  BY DEF TreeInv
<1>2. \A p \in result.tree : p # <<>> /\ Last(p).node.name \in DOMAIN Element
  BY <1>1 DEF TreeInv, ConfigInv, AllWhole, InTree, Grown
<1>3. \A k \in DOMAIN making : making[k].node.name \in Nesting
  <2>1. CASE making = <<>>
    <3>1. DOMAIN making = {}
      BY <2>1
    <3> QED  BY <3>1
  <2>2. CASE making # <<>>
    <3> DEFINE n == Len(making)
    <3>1. Grown(making) /\ Last(making).node.name \in Nesting
      BY <1>1, <2>2 DEF ConfigInv
    <3>2. n \in Nat \ {0} /\ DOMAIN making = 1..n /\ Last(making) = making[n]
      BY <3>1, PathOf DEF Grown, Last
    <3> SUFFICES ASSUME NEW k \in 1..n
                 PROVE  making[k].node.name \in Nesting
      BY <3>2
    <3>3. CASE k = n
      BY <3>1, <3>2, <3>3
    <3>4. CASE k # n
      <4>1. k + 1 \in 1..n /\ k + 1 # 1 /\ (k + 1) - 1 = k
        <5> HIDE DEF n
        <5> QED  BY <3>2, <3>4
      <4>2. Grows(making, k + 1)
        BY <3>1, <4>1 DEF Grown
      <4> QED  BY <4>1, <4>2 DEF Grows
    <3> QED  BY <3>3, <3>4
  <2> QED  BY <2>1, <2>2
<1>4. TreeWhole
  <2> SUFFICES ASSUME Accepted
               PROVE  TreeWhole
    BY DEF TreeWhole
  <2>1. making = <<>>
    BY <1>1 DEF Accepted, ConfigInv
  <2>2. <<Root>> \in result.tree
    BY <2>1 DEF Accepted, TreeInv, RootStands
  <2> QED  BY <2>2 DEF TreeInv, AllWhole, Whole, Standing, TreeWhole
<1> QED  BY <1>1, <1>2, <1>3, <1>4 DEF ConfigTypeOK, ConfigInv

\* In documents of any depth, whose elements have sequences of elements for children, the tree
\* of a logger is whole: it has the outputs, and with a receiver all those inside it, but for
\* what a buffered writer has no use for (createInnerReceivers).  A receiver counts as made after
\* those inside it.
THEOREM TreesAreWhole ==
    ASSUME NEW N, Elements(N), Documents \subseteq N
    PROVE  ConfigSpec => []ConfigTypeOK
<1>1. ConfigInit => TreeInv(N)
  BY TreeStarts
<1>2. TreeInv(N) /\ [ConfigNext]_configVars => TreeInv(N)'
  BY TreeStep
<1>3. TreeInv(N) => ConfigTypeOK
  BY TreeTyped
<1> QED  BY <1>1, <1>2, <1>3, PTL DEF ConfigSpec
=============================================================================
