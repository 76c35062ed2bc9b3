-------------------------- MODULE RollingFileProofs --------------------------
(***************************************************************************)
(* What becomes of the messages in rolling files, for any number of rolls, *)
(* sizes of files, intervals, failures and crashes.  A Write that rolls    *)
(* goes through states in which a roll has two names or none and an        *)
(* archive is in memory only; the invariant says where each message is in  *)
(* them.                                                                   *)
(***************************************************************************)
EXTENDS RollingFile, FiniteSetTheorems, SequenceTheorems, TLAPS

Name == 0..(MaxWrites + MaxClock)

Rising(s) == \A i, j \in DOMAIN s : i < j => s[i] < s[j]

\* The messages that have got where they will be.
Past == IF step = "idle" THEN message ELSE message - 1

Rolls == {"history", "rename", "trim", "removeArchive", "read", "zip", "remove"}

\* A function, as far as anybody can see.
IsFiles(f) == f = [x \in DOMAIN f |-> f[x]]

Disks ==
    /\ disk \in [DOMAIN disk -> Seq(Nat)] /\ DOMAIN disk \subseteq Name
    /\ IsFiles(archive) /\ DOMAIN archive \subseteq Name
    /\ IsFiles(files) /\ DOMAIN files \subseteq Name

Memory ==
    /\ clock \in Nat \ {0} /\ (clock = 1 \/ clock <= MaxClock)
    /\ currentFile \in {"nil", "open", "closed"}
    /\ fileName \in Nat /\ currentFileSize \in Nat
    /\ step \in Rolls \cup {"idle", "create", "check", "append"}
    /\ history \in Seq(Nat)
    /\ message \in 0..MaxWrites

Types == Disks /\ Memory

\* What is in the files, or was ever stored, is no later than that.
Known ==
    /\ \A f \in DOMAIN disk : \A k \in ToSet(disk[f]) : k <= Past
    /\ stored \subseteq 1..Past

\* Nothing is read before the current file, and a file is open only where it is written.
IsCurrent == fileName \in DOMAIN disk /\ \A f \in DOMAIN disk : Order(f) <= Order(fileName)

Place ==
    /\ step # "idle" => message # 0
    /\ step \in Rolls => currentFile = "closed" /\ rolling
    /\ step = "create" => currentFile # "open"
    /\ step = "check" => ~rolling
    /\ currentFile = "open" => IsCurrent
    /\ step \in {"history", "rename"} => IsCurrent
    /\ step = "rename" => ~ByDate
    /\ ~ByDate => fileName = 0

\* How far names have got: by date to the clock, by size to the number of Writes, since
\* one Write makes one roll at most.
MayRoll == step \in {"check", "history", "rename"} \/ (step = "create" /\ ~rolling)

Named ==
    \A f \in DOMAIN disk :
      IF ByDate THEN f \in 1..clock
      ELSE f <= message /\ (MayRoll => f < message)

\* The history of a roll is all there is on the disk.
Listed ==
    /\ step \in Rolls \ {"history"} => Rising(history) /\ (~ByDate => 0 \notin ToSet(history))
    /\ step = "rename" =>
         /\ history # <<>> /\ Last(history) <= message /\ Last(history) \notin DOMAIN disk
         /\ ToSet(history) = (DOMAIN disk \ {0}) \cup {Last(history)}
    /\ step \in Rolls \ {"history", "rename"} => ToSet(history) = DOMAIN disk

\* What is known of the archive and of what is to go into it while rolls are removed.
Zipping ==
    /\ step = "removeArchive" => files = archive
    /\ step \in {"removeArchive", "read", "zip", "remove"} => maxRolls # 0
    /\ step \in {"removeArchive", "read", "zip"} => toDelete # <<>>
    /\ step = "zip" => ToSet(toDelete) \subseteq DOMAIN files
    /\ step = "remove" /\ Archives => ToSet(toDelete) \subseteq DOMAIN archive
    /\ ~Archives => archive = <<>> /\ step \notin {"removeArchive", "read", "zip"}

\* Files of an archive agree with the disk, and are older than something there.
Agrees(fs) ==
    \A f \in DOMAIN fs :
      /\ f \in DOMAIN disk => fs[f] = disk[f]
      /\ ~ByDate => f # 0
      /\ \E g \in DOMAIN disk : f < g

InZip ==
    /\ Agrees(archive)
    /\ step \in {"removeArchive", "read", "zip"} => Agrees(files)

Zipped == Zipping /\ InZip

Bounded ==
    rolling /\ maxRolls > 0 =>
      /\ step = "create" => Cardinality(DOMAIN disk) <= maxRolls
      /\ step = "append" => Cardinality(DOMAIN disk) <= maxRolls + 1

Inv ==
    /\ Types /\ Known /\ Place /\ Named /\ Listed /\ Zipped /\ Bounded
    /\ ReadsInOrder /\ NothingLost /\ OldestGoFirst
-----------------------------------------------------------------------------
\* The sorted names of a set of files are its names, each once and rising.
LEMMA Sorted ==
    ASSUME NEW fs \in SUBSET Nat, IsFiniteSet(fs)
    PROVE  /\ sortFileTailsAsc(fs) \in Seq(fs)
           /\ Len(sortFileTailsAsc(fs)) = Cardinality(fs)
           /\ Rising(sortFileTailsAsc(fs))
           /\ ToSet(sortFileTailsAsc(fs)) = fs
<1> DEFINE n == Cardinality(fs)
           Less(f) == {g \in fs : g < f}
           Rank(f) == Cardinality(Less(f))
           R == [f \in fs |-> Rank(f)]
           s == sortFileTailsAsc(fs)
<1>1. n \in Nat /\ n = Cardinality(fs)
  BY FS_CardinalityType
<1>0. \A f \in fs : f \in Nat
  OBVIOUS
<1> HIDE DEF n
<1>2. \A f \in fs : IsFiniteSet(Less(f)) /\ Rank(f) \in 0..(n - 1)
  <2> SUFFICES ASSUME NEW f \in fs PROVE IsFiniteSet(Less(f)) /\ Rank(f) \in 0..(n - 1)
    OBVIOUS
  <2>1. IsFiniteSet(fs \ {f}) /\ Cardinality(fs \ {f}) = n - 1
    BY <1>1, FS_RemoveElement
  <2>2. Less(f) \in SUBSET (fs \ {f})
    OBVIOUS
  <2>3. IsFiniteSet(Less(f)) /\ Rank(f) <= n - 1
    BY <2>1, <2>2, FS_Subset
  <2>4. Rank(f) \in Nat
    BY <2>3, FS_CardinalityType
  <2> QED  BY <1>1, <2>3, <2>4
<1>3. \A f, g \in fs : f < g => Rank(f) < Rank(g)
  <2> SUFFICES ASSUME NEW f \in fs, NEW g \in fs, f < g PROVE Rank(f) < Rank(g)
    OBVIOUS
  <2>1. f \notin Less(f)
    OBVIOUS
  <2>2. IsFiniteSet(Less(f) \cup {f}) /\ Cardinality(Less(f) \cup {f}) = Rank(f) + 1
    BY <1>2, <2>1, FS_AddElement
  <2>3. Less(f) \cup {f} \subseteq Less(g)
    <3>1. \A x \in fs : x < f => x < g
      BY <1>0
    <3> QED  BY <3>1
  <2>4. Rank(f) + 1 <= Rank(g)
    BY <1>2, <2>2, <2>3, FS_Subset
  <2> QED  BY <1>2, <2>4
<1>4. \A f, g \in fs : Rank(f) = Rank(g) => f = g
  <2> SUFFICES ASSUME NEW f \in fs, NEW g \in fs, f # g PROVE Rank(f) # Rank(g)
    OBVIOUS
  <2>1. f < g \/ g < f
    BY <1>0
  <2>2. Rank(f) \in 0..(n - 1) /\ Rank(g) \in 0..(n - 1) /\ (Rank(f) < Rank(g) \/ Rank(g) < Rank(f))
    BY <1>2, <1>3, <2>1
  <2> HIDE DEF Rank
  <2> QED  BY <2>2, <1>1
<1>5. R \in Injection(fs, 0..(n - 1))
  BY <1>2, <1>4 DEF Injection, IsInjective
<1>6. IsFiniteSet(0..(n - 1)) /\ Cardinality(0..(n - 1)) = n
  <2>1. 0 \in Int /\ n - 1 \in Int /\ (0 > n - 1 => n = 0)
    BY <1>1
  <2>2. (n - 1) - 0 + 1 = n
    BY <1>1
  <2> QED  BY <2>1, <2>2, FS_Interval
<1>61. R \in Injection(fs, 0..(n - 1)) /\ Cardinality(fs) = Cardinality(0..(n - 1))
  BY <1>1, <1>5, <1>6
<1> HIDE DEF R
<1>7. R \in Surjection(fs, 0..(n - 1))
  BY <1>6, <1>61, FS_Injection
<1>8. \A i \in 1..n : \E f \in fs : Rank(f) = i - 1
  <2> SUFFICES ASSUME NEW i \in 1..n PROVE \E f \in fs : Rank(f) = i - 1
    OBVIOUS
  <2>1. i - 1 \in 0..(n - 1)
    BY <1>1
  <2>2. \E f \in fs : R[f] = i - 1
    BY <1>7, <2>1 DEF Surjection
  <2> QED  BY <2>2 DEF R
<1>81. s = [i \in 1..n |-> CHOOSE f \in fs : Rank(f) = i - 1]
  BY DEF sortFileTailsAsc, n
<1> HIDE DEF s, Rank
<1>9. \A i \in 1..n : s[i] \in fs /\ Rank(s[i]) = i - 1
  BY <1>8, <1>81
<1>10. s \in [1..n -> fs] /\ DOMAIN s = 1..n
  BY <1>9, <1>81
<1>11. s \in Seq(fs) /\ Len(s) = n
  BY <1>1, <1>10
<1>12. Rising(s)
  <2> SUFFICES ASSUME NEW i \in 1..n, NEW j \in 1..n, i < j PROVE s[i] < s[j]
    BY <1>10 DEF Rising
  <2>0. s[i] \in fs /\ s[j] \in fs /\ Rank(s[i]) = i - 1 /\ Rank(s[j]) = j - 1
    BY <1>9
  <2>1. s[i] \in Nat /\ s[j] \in Nat
    BY <1>0, <2>0
  <2>3. i - 1 < j - 1 /\ i - 1 \in Int /\ j - 1 \in Int
    BY <1>1
  <2>2. ~(s[j] < s[i]) /\ s[i] # s[j]
    <3>1. ~(j - 1 < i - 1) /\ i - 1 # j - 1
      BY <2>3
    <3>2. s[j] < s[i] => Rank(s[j]) < Rank(s[i])
      BY <1>3, <2>0
    <3> QED  BY <2>0, <3>1, <3>2
  <2> QED  BY <2>1, <2>2
<1>13. \A f \in fs : f \in ToSet(s)
  <2> SUFFICES ASSUME NEW f \in fs PROVE \E i \in DOMAIN s : s[i] = f
    BY DEF ToSet
  <2>0. Rank(f) \in 0..(n - 1)
    BY <1>2
  <2>1. Rank(f) + 1 \in 1..n /\ (Rank(f) + 1) - 1 = Rank(f)
    BY <1>1, <2>0
  <2>2. s[Rank(f) + 1] \in fs /\ Rank(s[Rank(f) + 1]) = Rank(f)
    BY <1>9, <2>1
  <2> QED  BY <1>4, <1>10, <2>1, <2>2
<1>14. ToSet(s) = fs
  BY <1>9, <1>10, <1>13 DEF ToSet
<1> QED  BY <1>1, <1>11, <1>12, <1>14 DEF s

\* The rolls to delete of a history.
OldestOf(h) ==
    IF maxRolls = 0 \/ Len(h) <= maxRolls THEN <<>> ELSE SubSeq(h, 1, Len(h) - maxRolls)

\* They are its first, and it keeps its last maxRolls.
LEMMA Oldest ==
    ASSUME RollingAssumption, NEW h \in Seq(Nat)
    PROVE  /\ OldestOf(h) # <<>> <=> maxRolls # 0 /\ Len(h) > maxRolls
           /\ OldestOf(h) = <<>> => ToSet(OldestOf(h)) = {}
           /\ maxRolls # 0 => ToSet(OldestOf(h)) = {h[i] : i \in 1..(Len(h) - maxRolls)}
           /\ OldestOf(h) # <<>> => Head(OldestOf(h)) = h[1]
<1>1. Len(h) \in Nat /\ maxRolls \in Nat /\ \A i \in 1..Len(h) : h[i] \in Nat
  BY LenProperties, ElementOfSeq DEF RollingAssumption
<1>2. CASE maxRolls = 0 \/ Len(h) <= maxRolls
  BY <1>1, <1>2 DEF OldestOf, ToSet
<1>3. CASE ~(maxRolls = 0 \/ Len(h) <= maxRolls)
  <2> DEFINE k == Len(h) - maxRolls
             o == SubSeq(h, 1, k)
  <2>1. k \in Nat \ {0} /\ k <= Len(h)
    BY <1>1, <1>3
  <2>2. /\ o \in Seq(Nat) /\ Len(o) = k
        /\ \A i \in 1..k : o[i] = h[i]
    <3>1. \A i \in 1..k : h[i] \in Nat
      BY <1>1, <2>1
    <3> HIDE DEF k
    <3> QED  BY <2>1, <3>1, SubSeqProperties
  <2>3. DOMAIN o = 1..k
    BY <2>2, LenProperties
  <2> HIDE DEF o
  <2>4. o # <<>> /\ Head(o) = h[1]
    BY <2>1, <2>2, <2>3
  <2>5. ToSet(o) = {h[i] : i \in 1..k}
    BY <2>2, <2>3 DEF ToSet
  <2> QED  BY <1>1, <1>3, <2>4, <2>5 DEF OldestOf, o
<1> QED  BY <1>2, <1>3

\* Where the first of a rising history is removed, the rest rises and is all but it.
LEMMA RestOf ==
    ASSUME RollingAssumption, NEW h \in Seq(Nat), Rising(h), OldestOf(h) # <<>>
    PROVE  /\ Tail(h) \in Seq(Nat) /\ Rising(Tail(h))
           /\ ToSet(Tail(h)) = ToSet(h) \ {h[1]}
           /\ \A f \in ToSet(Tail(h)) : h[1] < f
           /\ ToSet(OldestOf(Tail(h))) \subseteq ToSet(OldestOf(h))
           /\ Tail(h) # <<>> /\ h[1] \in ToSet(h) /\ h[1] \in ToSet(OldestOf(h))
           /\ h[1] \in Nat
<1> DEFINE t == Tail(h)
<1>1. h # <<>> /\ Len(h) \in Nat /\ Len(h) > maxRolls /\ maxRolls \in Nat \ {0}
  BY Oldest, LenProperties, EmptySeq DEF RollingAssumption
<1>2. /\ t \in Seq(Nat) /\ Len(t) = Len(h) - 1
      /\ \A i \in 1..Len(t) : t[i] = h[i + 1]
  BY <1>1, HeadTailProperties
<1>3. DOMAIN h = 1..Len(h) /\ DOMAIN t = 1..Len(t) /\ \A i \in 1..Len(h) : h[i] \in Nat
  BY <1>2, LenProperties, ElementOfSeq
<1> HIDE DEF t
<1>4. Rising(t)
  <2> SUFFICES ASSUME NEW i \in 1..Len(t), NEW j \in 1..Len(t), i < j PROVE t[i] < t[j]
    BY <1>3 DEF Rising
  <2>1. i + 1 \in DOMAIN h /\ j + 1 \in DOMAIN h /\ i + 1 < j + 1
    BY <1>1, <1>2, <1>3
  <2> QED  BY <1>2, <2>1 DEF Rising
<1>5. \A i \in 2..Len(h) : h[1] < h[i]
  BY <1>1, <1>3 DEF Rising
<1>6. ToSet(t) = {h[i] : i \in 2..Len(h)}
  <2>1. \A i \in 1..Len(t) : t[i] = h[i + 1] /\ i + 1 \in 2..Len(h)
    BY <1>1, <1>2
  <2>2. \A i \in 2..Len(h) : i - 1 \in 1..Len(t) /\ t[i - 1] = h[i]
    <3> SUFFICES ASSUME NEW i \in 2..Len(h) PROVE i - 1 \in 1..Len(t) /\ t[i - 1] = h[i]
      OBVIOUS
    <3>1. i - 1 \in 1..Len(t) /\ (i - 1) + 1 = i
      BY <1>1, <1>2
    <3> QED  BY <1>2, <3>1
  <2> QED  BY <1>3, <2>1, <2>2 DEF ToSet
<1>7. ToSet(h) = {h[i] : i \in 2..Len(h)} \cup {h[1]}
  <2>1. 1..Len(h) = {1} \cup 2..Len(h)
    BY <1>1
  <2> QED  BY <1>3, <2>1 DEF ToSet
<1>8. ToSet(t) = ToSet(h) \ {h[1]} /\ \A f \in ToSet(t) : h[1] < f
  BY <1>3, <1>5, <1>6, <1>7
<1>9. ToSet(OldestOf(t)) \subseteq ToSet(OldestOf(h))
  <2>1. /\ ToSet(OldestOf(t)) = {t[i] : i \in 1..(Len(t) - maxRolls)}
        /\ ToSet(OldestOf(h)) = {h[i] : i \in 1..(Len(h) - maxRolls)}
    BY <1>1, <1>2, Oldest
  <2>2. \A i \in 1..(Len(t) - maxRolls) : t[i] = h[i + 1] /\ i + 1 \in 1..(Len(h) - maxRolls)
    <3> SUFFICES ASSUME NEW i \in 1..(Len(t) - maxRolls)
                 PROVE  t[i] = h[i + 1] /\ i + 1 \in 1..(Len(h) - maxRolls)
      OBVIOUS
    <3>1. i \in 1..Len(t) /\ i + 1 \in 1..(Len(h) - maxRolls)
      BY <1>1, <1>2
    <3> QED  BY <1>2, <3>1
  <2> QED  BY <2>1, <2>2
<1>10. h[1] \in ToSet(OldestOf(h))
  BY <1>1, Oldest
<1>11. t # <<>>
  BY <1>1, <1>2
<1> QED  BY <1>2, <1>3, <1>1, <1>4, <1>7, <1>8, <1>9, <1>10, <1>11 DEF t
-----------------------------------------------------------------------------
\* The bounds are natural numbers.
LEMMA Bounds ==
    ASSUME RollingAssumption
    PROVE  /\ MaxWrites \in Nat /\ MaxFailures \in Nat /\ MaxCrashes \in Nat /\ MaxClock \in Nat
           /\ maxRolls \in Nat /\ maxFileSize \in Nat \ {0} /\ Interval \in Nat \ {0}
           /\ ByDate \in BOOLEAN /\ Archives \in BOOLEAN
BY DEF RollingAssumption

\* No files are files.
LEMMA NoFiles == IsFiles(<<>>) /\ DOMAIN <<>> = {}
BY DEF IsFiles

\* It holds at the start.
LEMMA InvInit == ASSUME RollingAssumption, Init PROVE Inv
<1>1. /\ DOMAIN <<>> = {} /\ <<>> \in Seq(Nat) /\ <<>> = [f \in {} |-> <<>>[f]]
      /\ <<>> \in [{} -> Seq(Nat)]
  OBVIOUS
<1>2. Types
  <2>1. disk \in [DOMAIN disk -> Seq(Nat)] /\ DOMAIN disk \subseteq Name
    BY <1>1 DEF Init
  <2>2. /\ IsFiles(archive) /\ DOMAIN archive \subseteq Name
        /\ IsFiles(files) /\ DOMAIN files \subseteq Name
    BY <1>1 DEF Init, IsFiles
  <2>3. history \in Seq(Nat) /\ message \in 0..MaxWrites
    BY <1>1, Bounds DEF Init
  <2>4. /\ clock = 1 /\ currentFile = "nil" /\ fileName = 0 /\ currentFileSize = 0
        /\ step = "idle"
    BY DEF Init
  <2> QED
    <3>1. Disks
      BY <2>1, <2>2 DEF Disks
    <3>2. Memory
      BY <2>3, <2>4 DEF Memory, Rolls
    <3> QED  BY <3>1, <3>2 DEF Types
<1>3. Known /\ Named
  <2>1. DOMAIN disk = {} /\ stored = {}
    BY <1>1 DEF Init
  <2> QED  BY <2>1 DEF Known, Named
<1>31. Place /\ Listed
  BY DEF Init, Place, Listed, Rolls
<1>4. Zipped /\ Bounded
  BY <1>1 DEF Init, Zipped, Zipping, InZip, Agrees, Bounded
<1>5. ReadsInOrder /\ NothingLost /\ OldestGoFirst
  BY <1>1 DEF Init, ReadsInOrder, NothingLost, OldestGoFirst
<1> QED  BY <1>2, <1>3, <1>31, <1>4, <1>5 DEF Inv

\* A file is made, or made anew though it is there.
Empties == CreateBlind \/ (Create /\ CurrentName \notin DOMAIN disk)

\* What the four steps that change the disk make of it.  A file that is made is empty.
LEMMA EmptiesDoes ==
    ASSUME Empties, Types
    PROVE  /\ DOMAIN disk' = DOMAIN disk \cup {CurrentName}
           /\ disk'[CurrentName] = <<>>
           /\ \A g \in DOMAIN disk \ {CurrentName} : disk'[g] = disk[g]
           /\ IsFiles(disk')
           /\ archive' = archive /\ files' = files /\ message' = message /\ clock' = clock
           /\ rolling' = rolling /\ history' = history /\ stored' = stored
           /\ step = "create" /\ step' = IF rolling THEN "append" ELSE "check"
           /\ fileName' = CurrentName /\ currentFile' = "open" /\ currentFileSize' = 0
<1>1. CASE CreateBlind
  BY <1>1 DEF CreateBlind, Types, Disks, IsFiles, Goto
<1>2. CASE Create /\ CurrentName \notin DOMAIN disk
  BY <1>2 DEF Create, With, IsFiles, boundVars, Goto
<1> QED  BY <1>1, <1>2 DEF Empties

\* The current file becomes the newest roll.
LEMMA RenameDoes ==
    ASSUME Rename, fileName \in DOMAIN disk, Last(history) \notin DOMAIN disk
    PROVE  /\ DOMAIN disk' = (DOMAIN disk \ {fileName}) \cup {Last(history)}
           /\ disk'[Last(history)] = disk[fileName]
           /\ \A g \in DOMAIN disk \ {fileName} : disk'[g] = disk[g]
           /\ IsFiles(disk')
BY DEF Rename, With, Without, Restrict, IsFiles

\* The first roll to delete goes.
LEMMA RemoveRollDoes ==
    ASSUME RemoveRoll, toDelete # <<>>
    PROVE  /\ DOMAIN disk' = DOMAIN disk \ {Head(toDelete)}
           /\ \A g \in DOMAIN disk' : disk'[g] = disk[g]
           /\ IsFiles(disk')
BY DEF RemoveRoll, Without, Restrict, IsFiles

\* The message is put at the end of the current file.
LEMMA AppendMessageDoes ==
    ASSUME AppendMessage, Types, fileName \in DOMAIN disk
    PROVE  /\ DOMAIN disk' = DOMAIN disk
           /\ disk'[fileName] = Append(disk[fileName], message)
           /\ \A g \in DOMAIN disk \ {fileName} : disk'[g] = disk[g]
           /\ IsFiles(disk')
BY DEF AppendMessage, Types, Disks, IsFiles

\* A sequence that rises, and what is put after it.
LEMMA RisingAppend ==
    ASSUME NEW s \in Seq(Nat), NEW x \in Nat
    PROVE  /\ Append(s, x) \in Seq(Nat) /\ Append(s, x) # <<>>
           /\ Last(Append(s, x)) = x
           /\ ToSet(Append(s, x)) = ToSet(s) \cup {x}
           /\ Len(Append(s, x)) = Len(s) + 1
           /\ Rising(s) /\ (\A f \in ToSet(s) : f < x) => Rising(Append(s, x))
<1> DEFINE a == Append(s, x)
<1>1. /\ a \in Seq(Nat) /\ a # <<>> /\ Len(a) = Len(s) + 1
      /\ \A i \in 1..Len(s) : a[i] = s[i]
      /\ a[Len(s) + 1] = x
  BY AppendProperties
<1>2. Len(s) \in Nat /\ DOMAIN s = 1..Len(s) /\ DOMAIN a = 1..(Len(s) + 1)
  BY <1>1, LenProperties
<1> HIDE DEF a
<1>3. Last(a) = x
  BY <1>1 DEF Last
<1>4. 1..(Len(s) + 1) = 1..Len(s) \cup {Len(s) + 1}
  BY <1>2
<1>5. ToSet(a) = ToSet(s) \cup {x}
  BY <1>1, <1>2, <1>4 DEF ToSet
<1>6. ASSUME Rising(s), \A f \in ToSet(s) : f < x
      PROVE  Rising(a)
  <2> SUFFICES ASSUME NEW i \in 1..(Len(s) + 1), NEW j \in 1..(Len(s) + 1), i < j
               PROVE  a[i] < a[j]
    BY <1>2 DEF Rising
  <2>1. i \in 1..Len(s) /\ a[i] = s[i]
    BY <1>1, <1>2
  <2>2. CASE j \in 1..Len(s)
    BY <1>1, <1>2, <1>6, <2>1, <2>2 DEF Rising
  <2>3. CASE j = Len(s) + 1
    BY <1>1, <1>2, <1>6, <2>1, <2>3 DEF ToSet
  <2> QED  BY <1>4, <2>2, <2>3
<1> QED  BY <1>1, <1>3, <1>5, <1>6 DEF a

\* Its last element is its greatest.
LEMMA RisingLast ==
    ASSUME NEW s \in Seq(Nat), Rising(s), s # <<>>
    PROVE  /\ Last(s) \in ToSet(s) /\ Last(s) \in Nat /\ ToSet(s) \subseteq Nat
           /\ \A f \in ToSet(s) : f <= Last(s)
<1>1. Len(s) \in Nat \ {0} /\ DOMAIN s = 1..Len(s) /\ \A i \in 1..Len(s) : s[i] \in Nat
  BY LenProperties, EmptySeq, ElementOfSeq
<1>2. \A i \in 1..Len(s) : i < Len(s) => s[i] < s[Len(s)]
  BY <1>1 DEF Rising
<1>4. Len(s) \in Int
  BY <1>1
<1>3. \A i \in 1..Len(s) : s[i] <= s[Len(s)]
  <2> SUFFICES ASSUME NEW i \in 1..Len(s) PROVE s[i] <= s[Len(s)]
    OBVIOUS
  <2>1. CASE i = Len(s)
    BY <1>1, <2>1
  <2>2. CASE i < Len(s)
    BY <1>1, <1>2, <2>2
  <2>3. i = Len(s) \/ i < Len(s)
    BY <1>4
  <2> QED  BY <2>1, <2>2, <2>3
<1> QED  BY <1>1, <1>3 DEF Last, ToSet

\* It has as many elements as members.
LEMMA RisingSize ==
    ASSUME NEW s \in Seq(Nat), Rising(s)
    PROVE  IsFiniteSet(ToSet(s)) /\ Cardinality(ToSet(s)) = Len(s)
<1>1. Len(s) \in Nat /\ s \in [1..Len(s) -> Nat] /\ DOMAIN s = 1..Len(s)
  BY LenProperties
<1>2. \A i, j \in 1..Len(s) : i # j => s[i] # s[j]
  <2> SUFFICES ASSUME NEW i \in 1..Len(s), NEW j \in 1..Len(s), i # j PROVE s[i] # s[j]
    OBVIOUS
  <2>1. (i < j \/ j < i) /\ s[i] \in Nat /\ s[j] \in Nat
    BY <1>1
  <2>2. s[i] < s[j] \/ s[j] < s[i]
    BY <1>1, <2>1 DEF Rising
  <2> QED  BY <2>1, <2>2
<1>3. s \in Bijection(1..Len(s), ToSet(s))
  <2>1. s \in [1..Len(s) -> ToSet(s)]
    BY <1>1 DEF ToSet
  <2>2. \A t \in ToSet(s) : \E i \in 1..Len(s) : s[i] = t
    BY <1>1 DEF ToSet
  <2>3. s \in Injection(1..Len(s), ToSet(s))
    BY <1>2, <2>1 DEF Injection, IsInjective
  <2>4. s \in Surjection(1..Len(s), ToSet(s))
    BY <2>1, <2>2 DEF Surjection
  <2> QED  BY <2>3, <2>4 DEF Bijection
<1>4. IsFiniteSet(1..Len(s)) /\ Cardinality(1..Len(s)) = Len(s)
  <2>1. 1 \in Int /\ Len(s) \in Int /\ Len(s) - 1 + 1 = Len(s) /\ (1 > Len(s) => Len(s) = 0)
    BY <1>1
  <2> QED  BY <2>1, FS_Interval
<1>5. ExistsBijection(1..Len(s), ToSet(s))
  BY <1>3 DEF ExistsBijection
<1> QED  BY <1>4, <1>5, FS_Bijection

\* Only so many names are in use.
LEMMA FewNames ==
    ASSUME RollingAssumption, NEW S \in SUBSET Name
    PROVE  IsFiniteSet(S) /\ Cardinality(S) \in Nat /\ S \in SUBSET Nat
<1>1. MaxWrites + MaxClock \in Nat
  BY Bounds
<1>2. IsFiniteSet(Name)
  BY <1>1, FS_Interval DEF Name
<1>3. IsFiniteSet(S)
  BY <1>2, FS_Subset
<1>4. Cardinality(S) \in Nat
  BY <1>3, FS_CardinalityType
<1>5. S \in SUBSET Nat
  BY <1>1 DEF Name
<1> QED  BY <1>3, <1>4, <1>5

\* The name a roll gets, and the history that ends with it.
LEMMA HistoryDoes ==
    ASSUME RollingAssumption, Inv, History
    PROVE  /\ history' \in Seq(Nat) /\ Rising(history') /\ history' # <<>>
           /\ ToSet(history') = (DOMAIN disk \ {fileName}) \cup {Last(history')}
           /\ ByDate => Last(history') = fileName
           /\ ~ByDate => /\ Last(history') \notin DOMAIN disk /\ Last(history') <= message
                         /\ 0 \notin ToSet(history')
<1> DEFINE rolls == {f \in DOMAIN disk : f # fileName /\ (ByDate \/ f # 0)}
           s == getSortedLogHistory
<1>1. step = "history" /\ IsCurrent /\ (~ByDate => fileName = 0) /\ message \in Nat \ {0}
  BY Bounds DEF History, Inv, Place, Types, Memory
<1>2. rolls = DOMAIN disk \ {fileName}
  BY <1>1
<1>3. DOMAIN disk \subseteq Name /\ DOMAIN disk \in SUBSET Nat /\ fileName \in Nat
  BY FewNames DEF Inv, Types, Disks, Memory
<1>4. s = sortFileTailsAsc(rolls)
  BY DEF getSortedLogHistory, getDirFilePaths, isFileTailValid
<1>5. rolls \in SUBSET Nat /\ rolls \in SUBSET Name
  BY <1>3
<1>6. IsFiniteSet(rolls)
  BY <1>5, FewNames
<1> HIDE DEF s, rolls
<1>7. s \in Seq(rolls) /\ Rising(s) /\ ToSet(s) = rolls
  BY <1>4, <1>5, <1>6, Sorted
<1>8. s \in Seq(Nat)
  BY <1>5, <1>7, SeqMonotonic
<1>9. history' = Append(s, newHistoryName)
  BY DEF History, s
<1>10. /\ newHistoryName \in Nat /\ \A f \in ToSet(s) : f < newHistoryName
       /\ ByDate => newHistoryName = fileName
       /\ ~ByDate => newHistoryName \notin DOMAIN disk /\ newHistoryName <= message
                     /\ newHistoryName # 0
  <2>1. CASE ByDate
    <3>1. newHistoryName = fileName
      BY <2>1 DEF newHistoryName
    <3>2. \A f \in DOMAIN disk : f <= fileName
      BY <1>1, <2>1 DEF IsCurrent, Order
    <3> QED  BY <1>2, <1>3, <1>7, <2>1, <3>1, <3>2
  <2>2. CASE ~ByDate /\ s = <<>>
    <3>1. newHistoryName = 1
      BY <2>2 DEF newHistoryName, s
    <3>2. ToSet(s) = {}
      BY <2>2 DEF ToSet
    <3> QED  BY <1>1, <1>2, <1>7, <2>2, <3>1, <3>2
  <2>3. CASE ~ByDate /\ s # <<>>
    <3>1. newHistoryName = Last(s) + 1
      BY <2>3 DEF newHistoryName, s
    <3>2. Last(s) \in rolls /\ Last(s) \in Nat /\ \A f \in rolls : f <= Last(s)
      BY <1>7, <1>8, <2>3, RisingLast
    <3>3. \A f \in DOMAIN disk : f < message
      BY <1>1, <2>3 DEF Inv, Named, MayRoll
    <3>4. \A f \in rolls : f < Last(s) + 1
      BY <1>5, <3>2
    <3>5. Last(s) + 1 \notin DOMAIN disk
      BY <1>1, <1>2, <1>3, <2>3, <3>2, <3>4
    <3>6. Last(s) + 1 <= message
      BY <1>1, <1>2, <3>2, <3>3
    <3> QED  BY <1>7, <2>3, <3>1, <3>2, <3>4, <3>5, <3>6
  <2> QED  BY <2>1, <2>2, <2>3
<1> HIDE DEF newHistoryName
<1>11. /\ history' \in Seq(Nat) /\ history' # <<>> /\ Last(history') = newHistoryName
       /\ ToSet(history') = ToSet(s) \cup {newHistoryName}
       /\ Rising(history')
  BY <1>7, <1>8, <1>9, <1>10, RisingAppend
<1> QED  BY <1>1, <1>2, <1>7, <1>10, <1>11
-----------------------------------------------------------------------------
\* Next, with the steps in which no file changes together.
Still ==
    \/ (Create /\ CurrentName \in DOMAIN disk)
    \/ Write \/ CreateFails \/ OpenFails \/ Check \/ CheckFails \/ History \/ Trim \/ TrimBlind
    \/ RemoveArchive \/ ReadRolls \/ CreateZip \/ RollFails \/ AppendFails \/ Close \/ Crash
    \/ Tick

\* In the other steps no file changes.
LEMMA StillKeepsDisk == ASSUME Still PROVE disk' = disk
BY DEF Still, Create, Write, CreateFails, OpenFails, Check, CheckFails, History, Trim, TrimBlind,
   RemoveArchive, ReadRolls, CreateZip, RollFails, AppendFails, Close, Crash, Tick, diskVars

\* There are no other steps than these.
LEMMA NextIs ==
    ASSUME Next
    PROVE  Still \/ Empties \/ Rename \/ RemoveRoll \/ AppendMessage
BY DEF Next, Still, Empties

\* Nothing of the invariant looks at how often something failed.
LEMMA MemoryStep == ASSUME RollingAssumption, Inv, Next PROVE Memory'
<1> USE DEF Memory, Goto, Fail, memoryVars, diskVars, boundVars
<1>1. Memory /\ Types /\ Disks
  BY DEF Inv, Types
<1>2. message < MaxWrites => message + 1 \in 0..MaxWrites
  BY <1>1, Bounds
<1>3. CASE Write
  BY <1>1, <1>2, <1>3 DEF Write, Rolls
<1>4. CASE Create \/ CreateBlind \/ CreateFails \/ OpenFails
  <2>1. CurrentName \in Nat
    BY <1>1 DEF CurrentName
  <2>2. \A f \in DOMAIN disk : Len(disk[f]) \in Nat
    BY <1>1, LenProperties DEF Disks
  <2> QED  BY <1>1, <1>4, <2>1, <2>2 DEF Create, CreateBlind, CreateFails, OpenFails, Rolls
<1>5. CASE Check \/ CheckFails
  BY <1>1, <1>5 DEF Check, CheckFails, Rolls
<1>6. CASE History
  <2>1. history' \in Seq(Nat)
    BY <1>6, HistoryDoes
  <2> QED  BY <1>1, <1>6, <2>1 DEF History, Rolls
<1>7. CASE Rename \/ Trim \/ TrimBlind \/ RemoveArchive \/ ReadRolls \/ CreateZip
  BY <1>1, <1>7 DEF Rename, Trim, TrimBlind, RemoveArchive, ReadRolls, CreateZip, Rolls
<1>8. CASE RemoveRoll
  <2>1. toDelete # <<>> => history # <<>>
    BY <1>1, Oldest, EmptySeq, Bounds DEF toDelete, OldestOf
  <2>2. toDelete # <<>> => Tail(history) \in Seq(Nat)
    BY <1>1, <2>1, HeadTailProperties
  <2> QED  BY <1>1, <1>8, <2>2 DEF RemoveRoll, Rolls
<1>9. CASE RollFails
  BY <1>1, <1>9 DEF RollFails, Rolls
<1>10. CASE AppendMessage \/ AppendFails
  BY <1>1, <1>10 DEF AppendMessage, AppendFails, Rolls
<1>11. CASE Close
  BY <1>1, <1>11 DEF Close, Rolls
<1>12. CASE Crash
  <2>1. <<>> \in Seq(Nat)
    OBVIOUS
  <2> QED  BY <1>1, <1>12, <2>1 DEF Crash, Rolls
<1>13. CASE Tick
  BY <1>1, <1>13, Bounds DEF Tick, Rolls
<1> QED  BY <1>3, <1>4, <1>5, <1>6, <1>7, <1>8, <1>9, <1>10, <1>11, <1>12, <1>13 DEF Next

\* Where the rolls to delete are.
LEMMA ToDelete ==
    ASSUME RollingAssumption, Inv
    PROVE  /\ toDelete = OldestOf(history) /\ history \in Seq(Nat)
           /\ step \in Rolls \ {"history", "rename"} =>
                /\ Rising(history) /\ ToSet(history) = DOMAIN disk
                /\ ToSet(toDelete) \subseteq DOMAIN disk
<1>1. toDelete = OldestOf(history) /\ history \in Seq(Nat)
  BY DEF toDelete, OldestOf, Inv, Types, Memory
<1>2. ASSUME step \in Rolls \ {"history", "rename"}
      PROVE  /\ Rising(history) /\ ToSet(history) = DOMAIN disk
             /\ ToSet(toDelete) \subseteq DOMAIN disk
  <2>1. Rising(history) /\ ToSet(history) = DOMAIN disk
    BY <1>2 DEF Inv, Listed, Rolls
  <2>2. CASE maxRolls = 0
    BY <1>1, <2>1, <2>2, Oldest
  <2>3. CASE maxRolls # 0
    <3>1. ToSet(toDelete) = {history[i] : i \in 1..(Len(history) - maxRolls)}
      BY <1>1, <2>3, Oldest
    <3>2. Len(history) \in Nat /\ DOMAIN history = 1..Len(history) /\ maxRolls \in Nat
      BY <1>1, LenProperties, Bounds
    <3>3. 1..(Len(history) - maxRolls) \subseteq DOMAIN history
      BY <3>2
    <3> QED  BY <2>1, <3>1, <3>3 DEF ToSet
  <2> QED  BY <2>1, <2>2, <2>3
<1> QED  BY <1>1, <1>2

\* What a step makes of the files is files again.
LEMMA DisksStep == ASSUME RollingAssumption, Inv, Next PROVE Disks'
<1> USE DEF diskVars, memoryVars
<1>1. Disks /\ Memory /\ Place
  BY DEF Inv, Types
<1>2. CASE Empties
  <2>1. CurrentName \in Name
    <3>1. message \in Nat /\ 1 <= message /\ message <= MaxWrites
      BY <1>1, <1>2, EmptiesDoes, Bounds DEF Inv, Place, Memory
    <3> QED  BY <1>1, <3>1, Bounds DEF CurrentName, Memory, Name
  <2>2. <<>> \in Seq(Nat)
    OBVIOUS
  <2>3. archive' = archive /\ files' = files
    BY <1>2, EmptiesDoes DEF Inv
  <2>4. disk' \in [DOMAIN disk' -> Seq(Nat)] /\ DOMAIN disk' \subseteq Name
    BY <1>1, <1>2, <2>1, <2>2, EmptiesDoes DEF Disks, IsFiles, Inv
  <2> QED  BY <1>1, <2>3, <2>4 DEF Disks
<1>3. CASE Rename
  <2>1. /\ step = "rename" /\ fileName \in DOMAIN disk /\ Last(history) \notin DOMAIN disk
        /\ Last(history) \in Name
    <3>1. /\ step = "rename" /\ fileName \in DOMAIN disk /\ Last(history) \notin DOMAIN disk
          /\ history # <<>> /\ Last(history) <= message /\ Rising(history)
      BY <1>3 DEF Rename, Inv, Place, IsCurrent, Listed, Rolls
    <3>2. Last(history) \in Nat
      BY <1>1, <3>1, RisingLast DEF Memory
    <3> QED  BY <1>1, <3>1, <3>2, Bounds DEF Memory, Name
  <2>2. archive' = archive /\ files' = files
    BY <1>3 DEF Rename
  <2>3. disk' \in [DOMAIN disk' -> Seq(Nat)] /\ DOMAIN disk' \subseteq Name
    BY <1>1, <1>3, <2>1, RenameDoes DEF Disks, IsFiles
  <2> QED  BY <1>1, <2>2, <2>3 DEF Disks
<1>4. CASE RemoveRoll
  <2>1. archive' = archive /\ files' = files
    BY <1>4 DEF RemoveRoll
  <2>2. CASE toDelete = <<>>
    BY <1>1, <1>4, <2>1, <2>2 DEF RemoveRoll, Disks
  <2>3. CASE toDelete # <<>>
    <3>1. disk' \in [DOMAIN disk' -> Seq(Nat)] /\ DOMAIN disk' \subseteq Name
      BY <1>1, <1>4, <2>3, RemoveRollDoes DEF Disks, IsFiles
    <3> QED  BY <1>1, <2>1, <3>1 DEF Disks
  <2> QED  BY <2>2, <2>3
<1>5. CASE AppendMessage
  <2>1. fileName \in DOMAIN disk /\ message \in Nat
    BY <1>1, <1>5, Bounds DEF AppendMessage, Place, IsCurrent, Memory
  <2>2. Append(disk[fileName], message) \in Seq(Nat)
    BY <1>1, <2>1 DEF Disks
  <2>3. archive' = archive /\ files' = files
    BY <1>5 DEF AppendMessage
  <2>4. disk' \in [DOMAIN disk' -> Seq(Nat)] /\ DOMAIN disk' \subseteq Name
    BY <1>1, <1>5, <2>1, <2>2, AppendMessageDoes DEF Disks, IsFiles, Inv
  <2> QED  BY <1>1, <2>3, <2>4 DEF Disks
<1>6. CASE Still
  <2>1. disk' = disk
    BY <1>6, StillKeepsDisk
  <2>2. IsFiles(<<>>) /\ DOMAIN <<>> \subseteq Name
    BY NoFiles
  <2>3. CASE ReadRolls
    <3>1. ToSet(toDelete) \subseteq DOMAIN disk
      BY <2>3, ToDelete DEF ReadRolls, Rolls
    <3>2. IsFiles(files') /\ DOMAIN files' = DOMAIN files \cup ToSet(toDelete)
      BY <2>3 DEF ReadRolls, IsFiles
    <3> QED  BY <1>1, <2>1, <2>3, <3>1, <3>2 DEF ReadRolls, Disks
  <2>4. CASE ~ReadRolls
    <3>1. archive' \in {archive, files, <<>>} /\ files' \in {archive, files, <<>>}
      BY <1>6, <2>4 DEF Still, Create, Write, CreateFails, OpenFails, Check, CheckFails, History,
         Trim, TrimBlind, RemoveArchive, CreateZip, RollFails, BreakOff, AppendFails, Close, Crash,
         Tick
    <3> QED  BY <1>1, <2>1, <2>2, <3>1 DEF Disks
  <2> QED  BY <2>3, <2>4
<1> QED  BY <1>2, <1>3, <1>4, <1>5, <1>6, NextIs

\* The messages that have got where they will be do not become fewer.
LEMMA PastGrows ==
    ASSUME RollingAssumption, Inv, Next
    PROVE  /\ Past \in Int /\ Past' \in Int /\ Past <= Past' /\ Past <= message
           /\ AppendMessage => Past = message - 1 /\ Past' = message
<1> USE DEF Goto, Fail
<1>1. message \in Nat /\ message' \in Nat /\ (step # "idle" => message # 0)
  BY MemoryStep, Bounds DEF Inv, Types, Memory, Place
<1>2. CASE Write
  BY <1>1, <1>2 DEF Write, Past, AppendMessage
<1>3. CASE ~Write
  <2>1. message' = message /\ (step = "idle" => step' = "idle")
    BY <1>3 DEF Next, Create, CreateBlind, CreateFails, OpenFails, Check, CheckFails, History,
       Rename, Trim, TrimBlind, RemoveArchive, ReadRolls, CreateZip, RemoveRoll, RollFails, AppendMessage, AppendFails,
       Close, Crash, Tick
  <2>2. AppendMessage => step = "append" /\ step' = "idle"
    BY DEF AppendMessage
  <2> QED  BY <1>1, <2>1, <2>2 DEF Past
<1> QED  BY <1>2, <1>3

\* No file holds a message that has not been written.
LEMMA KnownStep == ASSUME RollingAssumption, Inv, Next PROVE Known'
<1> USE DEF Goto
<1>0. Known /\ Disks /\ Memory
  BY DEF Inv, Types
<1>1. \A f \in DOMAIN disk : ToSet(disk[f]) \subseteq Nat
  <2> SUFFICES ASSUME NEW f \in DOMAIN disk PROVE ToSet(disk[f]) \subseteq Nat
    OBVIOUS
  <2>1. disk[f] \in Seq(Nat)
    BY <1>0 DEF Disks
  <2> QED  BY <2>1, LenProperties, ElementOfSeq DEF ToSet
<1>2. \A f \in DOMAIN disk : \A k \in ToSet(disk[f]) : k <= Past'
  BY <1>0, <1>1, PastGrows DEF Known
<1>3. stored \subseteq 1..Past'
  BY <1>0, PastGrows DEF Known
<1>4. CASE AppendMessage
  <2>1. fileName \in DOMAIN disk /\ message \in Nat /\ Past' = message /\ message # 0
    BY <1>0, <1>4, Bounds, PastGrows DEF AppendMessage, Inv, Place, IsCurrent, Memory
  <2>2. ToSet(disk'[fileName]) = ToSet(disk[fileName]) \cup {message}
    <3>1. disk[fileName] \in Seq(Nat)
      BY <1>0, <2>1 DEF Disks
    <3>2. disk'[fileName] = Append(disk[fileName], message)
      BY <1>4, <2>1, AppendMessageDoes DEF Inv
    <3> QED  BY <2>1, <3>1, <3>2, RisingAppend
  <2>3. \A f \in DOMAIN disk' : \A k \in ToSet(disk'[f]) : k <= Past'
    <3>1. /\ DOMAIN disk' = DOMAIN disk
          /\ \A g \in DOMAIN disk \ {fileName} : disk'[g] = disk[g]
      BY <1>4, <2>1, AppendMessageDoes DEF Inv
    <3> QED  BY <1>2, <2>1, <2>2, <3>1
  <2>4. stored' \subseteq 1..Past'
    <3>1. stored' = stored \cup {message}
      BY <1>4 DEF AppendMessage
    <3>2. message \in 1..Past'
      BY <2>1
    <3> QED  BY <1>3, <3>1, <3>2
  <2> QED  BY <2>3, <2>4 DEF Known
<1>5. CASE ~AppendMessage
  <2>1. stored' = stored
    BY <1>5 DEF Next, Write, Create, CreateBlind, CreateFails, OpenFails, Check, CheckFails, History,
       Rename, Trim, TrimBlind, RemoveArchive, ReadRolls, CreateZip, RemoveRoll, RollFails, AppendFails, Close,
       Crash, Tick, Fail
  <2>2. \A f \in DOMAIN disk' : \A k \in ToSet(disk'[f]) : k <= Past'
    <3>1. CASE Still
      BY <1>2, <3>1, StillKeepsDisk
    <3>2. CASE Empties
      <4>1. ToSet(<<>>) = {}
        BY DEF ToSet
      <4> QED  BY <1>2, <3>2, <4>1, EmptiesDoes DEF Inv
    <3>3. CASE Rename
      <4>1. fileName \in DOMAIN disk /\ Last(history) \notin DOMAIN disk
        BY <3>3 DEF Rename, Inv, Place, IsCurrent, Listed
      <4> QED  BY <1>2, <3>3, <4>1, RenameDoes
    <3>4. CASE RemoveRoll /\ toDelete = <<>>
      BY <1>2, <3>4 DEF RemoveRoll
    <3>5. CASE RemoveRoll /\ toDelete # <<>>
      BY <1>2, <3>5, RemoveRollDoes
    <3> QED  BY <1>5, <3>1, <3>2, <3>3, <3>4, <3>5, NextIs
  <2> QED  BY <1>3, <2>1, <2>2 DEF Known
<1> QED  BY <1>4, <1>5

\* Which file is current, and which steps come with one open.
LEMMA PlaceStep == ASSUME RollingAssumption, Inv, Next PROVE Place'
<1> USE DEF Goto, Fail, memoryVars, diskVars, boundVars
<1>0. Place /\ Disks /\ Memory
  BY DEF Inv, Types
<1>1. /\ step' # "idle" => message' # 0
      /\ step' \in Rolls => currentFile' = "closed" /\ rolling'
      /\ step' = "create" => currentFile' # "open"
      /\ step' = "check" => ~rolling'
      /\ step' = "rename" => ~ByDate
      /\ ~ByDate => fileName' = 0
  <2>1. CASE Write \/ Create \/ CreateBlind \/ CreateFails \/ OpenFails \/ Check \/ CheckFails
    BY <1>0, <2>1 DEF Place, Write, Create, CreateBlind, CreateFails, OpenFails, Check, CheckFails,
       Rolls, CurrentName, Memory
  <2>2. CASE History \/ Rename \/ Trim \/ TrimBlind \/ RemoveArchive \/ ReadRolls \/ CreateZip
             \/ RemoveRoll
    BY <1>0, <2>2 DEF Place, History, Rename, Trim, TrimBlind, RemoveArchive, ReadRolls, CreateZip,
       RemoveRoll, Rolls, Memory
  <2>3. CASE RollFails \/ AppendMessage \/ AppendFails \/ Close \/ Crash \/ Tick
    BY <1>0, <2>3 DEF Place, RollFails, AppendMessage, AppendFails, Close, Crash, Tick, Rolls,
       Memory
  <2> QED  BY <2>1, <2>2, <2>3 DEF Next
<1>2. \A f \in DOMAIN disk : Order(f) <= Order(CurrentName)
  <2>1. CASE ByDate
    BY <2>1 DEF Inv, Named, Order, CurrentName
  <2>2. CASE ~ByDate
    <3>1. \A f \in DOMAIN disk : f <= message /\ f \in Nat
      BY <2>2, FewNames DEF Inv, Named, Types, Disks
    <3>2. message <= MaxWrites /\ message \in Nat /\ MaxWrites \in Nat
      BY <1>0, Bounds DEF Memory
    <3>3. Order(CurrentName) = MaxWrites + 1
      BY <2>2 DEF Order, CurrentName
    <3>4. \A f \in DOMAIN disk : Order(f) \in {f, MaxWrites + 1}
      BY DEF Order
    <3> QED  BY <3>1, <3>2, <3>3, <3>4
  <2> QED  BY <2>1, <2>2
<1>3. currentFile' = "open" \/ step' \in {"history", "rename"} => IsCurrent'
  <2>1. CASE Empties
    <3>1. DOMAIN disk' = DOMAIN disk \cup {CurrentName} /\ fileName' = CurrentName
      BY <2>1, EmptiesDoes DEF Inv
    <3>2. Order(CurrentName) <= Order(CurrentName)
      BY <1>0, Bounds DEF Order, CurrentName, Memory
    <3> QED  BY <1>2, <3>1, <3>2 DEF IsCurrent, Order
  <2>2. CASE Rename \/ RemoveRoll
    <3>1. currentFile' = "closed" /\ step' \notin {"history", "rename"}
      BY <1>0, <2>2 DEF Rename, RemoveRoll, Place, Rolls
    <3> QED  BY <3>1
  <2>3. CASE AppendMessage
    <3>1. IsCurrent /\ fileName' = fileName
      BY <1>0, <2>3 DEF Place, AppendMessage
    <3>2. DOMAIN disk' = DOMAIN disk
      BY <2>3, <3>1, AppendMessageDoes DEF IsCurrent, Inv
    <3> QED  BY <3>1, <3>2 DEF IsCurrent, Order
  <2>4. CASE Still
    <3>1. disk' = disk
      BY <2>4, StillKeepsDisk
    <3>2. CASE fileName' = CurrentName /\ CurrentName \in DOMAIN disk
      BY <1>2, <3>1, <3>2 DEF IsCurrent, Order
    <3>3. CASE ~(fileName' = CurrentName /\ CurrentName \in DOMAIN disk)
      <4>1. /\ currentFile' = "open" => fileName' = fileName /\ currentFile = "open"
            /\ step' \in {"history", "rename"} =>
                 fileName' = fileName /\ (step \in {"history", "rename"} \/ currentFile = "open")
        BY <1>0, <2>4, <3>3 DEF Still, Create, Write, CreateFails, OpenFails, Check, CheckFails,
           History, Trim, TrimBlind, RemoveArchive, ReadRolls, CreateZip, RollFails, AppendFails,
           Close, Crash, Tick, Place
      <4> QED  BY <1>0, <3>1, <4>1 DEF Place, IsCurrent, Order
    <3> QED  BY <3>2, <3>3
  <2> QED  BY <2>1, <2>2, <2>3, <2>4, NextIs
<1> QED  BY <1>1, <1>3 DEF Place

\* A step that may be followed by a roll in this Write comes after none, or begins it.
LEMMA MayRollStays ==
    ASSUME RollingAssumption, Inv, Next, MayRoll'
    PROVE  Write \/ (MayRoll /\ message' = message)
<1> USE DEF Goto, Fail, memoryVars, MayRoll
<1>0. Place
  BY DEF Inv
<1>1. CASE Write
  BY <1>1
<1>2. CASE Create \/ CreateBlind \/ CreateFails \/ OpenFails \/ Check \/ CheckFails
  BY <1>2 DEF Create, CreateBlind, CreateFails, OpenFails, Check, CheckFails
<1>3. CASE History \/ Rename \/ Trim \/ TrimBlind \/ RemoveArchive \/ ReadRolls \/ CreateZip
           \/ RemoveRoll
  BY <1>0, <1>3 DEF Place, Rolls, History, Rename, Trim, TrimBlind, RemoveArchive, ReadRolls,
     CreateZip, RemoveRoll
<1>4. CASE RollFails \/ AppendMessage \/ AppendFails \/ Close \/ Crash \/ Tick
  BY <1>4 DEF RollFails, AppendMessage, AppendFails, Close, Crash, Tick
<1> QED  BY <1>1, <1>2, <1>3, <1>4 DEF Next

\* A name is used only after its time: the clock's, or the number of a Write that rolls.
LEMMA NamedStep == ASSUME RollingAssumption, Inv, Next PROVE Named'
<1>0. Named /\ Disks /\ Memory /\ Memory' /\ Place
  BY MemoryStep DEF Inv, Types
<1>1. clock <= clock' /\ message <= message'
  <2>1. clock' \in {clock, clock + 1} /\ message' \in {message, message + 1}
    BY DEF Next, Fail, Write, Create, CreateBlind, CreateFails, OpenFails, Check, CheckFails,
       History, Rename, Trim, TrimBlind, RemoveArchive, ReadRolls, CreateZip, RemoveRoll, RollFails, AppendMessage,
       AppendFails, Close, Crash, Tick
  <2>2. clock \in Nat /\ message \in Nat
    BY <1>0, Bounds DEF Memory
  <2> QED  BY <2>1, <2>2
<1>2. DOMAIN disk \subseteq Nat /\ message \in Nat /\ message' \in Nat
      /\ clock \in Nat \ {0} /\ clock' \in Nat
  <2>1. DOMAIN disk \in SUBSET Nat
    BY <1>0, FewNames DEF Disks
  <2>2. message \in Nat /\ clock \in Nat \ {0}
    BY <1>0, Bounds DEF Memory
  <2>3. message' \in Nat /\ clock' \in Nat
    BY <1>0, Bounds DEF Memory
  <2> QED  BY <2>1, <2>2, <2>3
<1>3. \A f \in DOMAIN disk : IF ByDate THEN f \in 1..clock'
                             ELSE f <= message' /\ (MayRoll' => f < message')
  <2> SUFFICES ASSUME NEW f \in DOMAIN disk
               PROVE  IF ByDate THEN f \in 1..clock'
                      ELSE f <= message' /\ (MayRoll' => f < message')
    OBVIOUS
  <2>1. CASE ByDate
    BY <1>0, <1>1, <1>2, <2>1 DEF Named
  <2>2. CASE ~ByDate
    <3>1. f <= message /\ (MayRoll => f < message)
      BY <1>0, <2>2 DEF Named
    <3>2. Write => message' = message + 1
      BY DEF Write
    <3>3. MayRoll' => f < message'
      BY <1>2, <3>1, <3>2, MayRollStays
    <3> QED  BY <1>1, <1>2, <2>2, <3>1, <3>3
  <2> QED  BY <2>1, <2>2
<1> USE DEF Goto
<1>4. CASE Empties
  <2>1. DOMAIN disk' \subseteq DOMAIN disk \cup {CurrentName}
    BY <1>4, EmptiesDoes DEF Inv
  <2>2. IF ByDate THEN CurrentName \in 1..clock' ELSE CurrentName = 0 /\ 0 < message'
    <3>1. clock' = clock /\ message' = message /\ message # 0
      BY <1>0, <1>4, EmptiesDoes DEF Inv, Place
    <3> QED  BY <1>2, <3>1 DEF CurrentName
  <2> QED  BY <1>2, <1>3, <2>1, <2>2 DEF Named
<1>5. CASE Rename
  <2>1. /\ step = "rename" /\ ~ByDate /\ fileName \in DOMAIN disk /\ Last(history) \notin DOMAIN disk
        /\ Last(history) <= message
    BY <1>5 DEF Rename, Inv, Place, IsCurrent, Listed
  <2>2. DOMAIN disk' \subseteq DOMAIN disk \cup {Last(history)}
    BY <1>5, <2>1, RenameDoes
  <2>3. ~MayRoll' /\ message' = message
    BY <1>5 DEF Rename, MayRoll
  <2> QED  BY <1>3, <2>1, <2>2, <2>3 DEF Named
<1>6. CASE RemoveRoll
  <2>1. DOMAIN disk' \subseteq DOMAIN disk
    BY <1>6, RemoveRollDoes DEF RemoveRoll
  <2> QED  BY <1>3, <2>1 DEF Named
<1>7. CASE AppendMessage
  <2>1. DOMAIN disk' = DOMAIN disk
    BY <1>0, <1>7, AppendMessageDoes DEF AppendMessage, Place, IsCurrent, Inv
  <2> QED  BY <1>3, <2>1 DEF Named
<1>8. CASE Still
  BY <1>3, <1>8, StillKeepsDisk DEF Named
<1> QED  BY <1>4, <1>5, <1>6, <1>7, <1>8, NextIs

\* From the listing of the rolls to the last removal the history is what is on the disk.
LEMMA ListedStep == ASSUME RollingAssumption, Inv, Next PROVE Listed'
<1> USE DEF Goto, Fail, memoryVars, diskVars
<1>0. Listed /\ Place /\ Disks /\ Memory
  BY DEF Inv, Types
<1>1. CASE History
  <2>1. /\ history' # <<>> /\ Rising(history')
        /\ ToSet(history') = (DOMAIN disk \ {fileName}) \cup {Last(history')}
        /\ ByDate => Last(history') = fileName
        /\ ~ByDate => /\ Last(history') \notin DOMAIN disk /\ Last(history') <= message
                      /\ 0 \notin ToSet(history')
    BY <1>1, HistoryDoes
  <2>2. /\ disk' = disk /\ message' = message /\ step' = IF ByDate THEN "trim" ELSE "rename"
        /\ fileName \in DOMAIN disk /\ (~ByDate => fileName = 0)
    BY <1>0, <1>1 DEF History, Place, IsCurrent
  <2>3. CASE ByDate
    <3>1. ToSet(history') = DOMAIN disk'
      BY <2>1, <2>2, <2>3
    <3> QED  BY <2>1, <2>2, <2>3, <3>1 DEF Listed
  <2>4. CASE ~ByDate
    <3>1. ToSet(history') = (DOMAIN disk' \ {0}) \cup {Last(history')}
      BY <2>1, <2>2, <2>4
    <3>2. step' = "rename" /\ Last(history') \notin DOMAIN disk' /\ Last(history') <= message'
      BY <2>1, <2>2, <2>4
    <3> QED  BY <2>1, <2>4, <3>1, <3>2 DEF Listed, Rolls
  <2> QED  BY <2>3, <2>4
<1>2. CASE Rename
  <2>1. /\ step = "rename" /\ ~ByDate /\ fileName = 0 /\ fileName \in DOMAIN disk
        /\ Last(history) \notin DOMAIN disk /\ Rising(history) /\ 0 \notin ToSet(history)
        /\ ToSet(history) = (DOMAIN disk \ {0}) \cup {Last(history)}
    BY <1>0, <1>2 DEF Rename, Place, IsCurrent, Listed, Rolls
  <2>2. DOMAIN disk' = ToSet(history)
    BY <1>2, <2>1, RenameDoes
  <2>3. history' = history /\ step' = "trim"
    BY <1>2 DEF Rename
  <2> QED  BY <2>1, <2>2, <2>3 DEF Listed
<1>3. CASE RemoveRoll
  <2>1. /\ step = "remove" /\ toDelete = OldestOf(history) /\ history \in Seq(Nat)
        /\ Rising(history) /\ ToSet(history) = DOMAIN disk /\ (~ByDate => 0 \notin ToSet(history))
    BY <1>0, <1>3, ToDelete DEF RemoveRoll, Rolls, Listed
  <2>2. CASE toDelete = <<>>
    BY <1>3, <2>2 DEF RemoveRoll, Listed, Rolls
  <2>3. CASE toDelete # <<>>
    <3>1. /\ Rising(Tail(history)) /\ ToSet(Tail(history)) = ToSet(history) \ {history[1]}
          /\ Head(toDelete) = history[1]
      BY <2>1, <2>3, RestOf, Oldest
    <3>2. DOMAIN disk' = DOMAIN disk \ {history[1]} /\ history' = Tail(history) /\ step' = "remove"
      BY <1>3, <2>1, <2>3, <3>1, RemoveRollDoes DEF RemoveRoll
    <3> QED  BY <2>1, <3>1, <3>2 DEF Listed
  <2> QED  BY <2>2, <2>3
<1>4. CASE Empties \/ AppendMessage
  BY <1>4, EmptiesDoes DEF AppendMessage, Listed, Rolls, Inv
<1>5. CASE Still /\ ~History
  <2>1. disk' = disk
    BY <1>5, StillKeepsDisk
  <2>2. CASE step' \in Rolls \ {"history"}
    <3>1. /\ step' # "rename" => step \in Rolls \ {"history", "rename"}
          /\ step' = "rename" => step = "rename"
          /\ history' = history /\ message' = message
      BY <1>0, <1>5, <2>2 DEF Still, Create, Write, CreateFails, OpenFails, Check, CheckFails, Trim,
         TrimBlind, RemoveArchive, ReadRolls, CreateZip, RollFails, AppendFails, Close, Crash, Tick, Rolls
    <3> QED  BY <1>0, <2>1, <3>1 DEF Listed, Rolls
  <2>3. CASE step' \notin Rolls \ {"history"}
    BY <2>3 DEF Listed, Rolls
  <2> QED  BY <2>2, <2>3
<1> QED  BY <1>1, <1>2, <1>3, <1>4, <1>5, NextIs

\* A roll makes room for the new file before it is made.
LEMMA BoundedStep == ASSUME RollingAssumption, Inv, Next PROVE Bounded'
<1> USE DEF Goto, Fail, memoryVars, diskVars
<1>0. Bounded /\ Listed /\ Place /\ Disks /\ Memory /\ maxRolls \in Nat
  BY Bounds DEF Inv, Types
<1>1. IsFiniteSet(DOMAIN disk) /\ Cardinality(DOMAIN disk) \in Nat
  BY <1>0, FewNames DEF Disks
<1>2. ASSUME step \in Rolls \ {"history", "rename"}, toDelete = <<>>, maxRolls > 0
      PROVE  Cardinality(DOMAIN disk) <= maxRolls
  <2>1. /\ toDelete = OldestOf(history) /\ history \in Seq(Nat) /\ Rising(history)
        /\ ToSet(history) = DOMAIN disk
    BY <1>2, ToDelete
  <2>2. Cardinality(DOMAIN disk) = Len(history) /\ Len(history) \in Nat
    BY <2>1, RisingSize, LenProperties
  <2>3. ~(Len(history) > maxRolls)
    BY <1>0, <1>2, <2>1, Oldest
  <2> QED  BY <1>0, <2>2, <2>3
<1>3. CASE Trim \/ TrimBlind \/ RemoveRoll
  <2>1. step' = "create" => toDelete = <<>> /\ disk' = disk
    BY <1>3 DEF Trim, TrimBlind, RemoveRoll
  <2>2. step' # "append" /\ step \in Rolls \ {"history", "rename"}
    BY <1>3 DEF Trim, TrimBlind, RemoveRoll, Rolls
  <2> QED  BY <1>2, <2>1, <2>2 DEF Bounded
<1>4. CASE Empties
  <2>1. step = "create" /\ rolling' = rolling /\ (rolling => step' = "append")
    BY <1>4, EmptiesDoes DEF Inv
  <2>2. CASE rolling /\ maxRolls > 0
    <3>1. Cardinality(DOMAIN disk) <= maxRolls
      BY <1>0, <2>1, <2>2 DEF Bounded
    <3>2. DOMAIN disk' = DOMAIN disk \cup {CurrentName}
      BY <1>4, EmptiesDoes DEF Inv
    <3>3. Cardinality(DOMAIN disk \cup {CurrentName})
            \in {Cardinality(DOMAIN disk), Cardinality(DOMAIN disk) + 1}
      BY <1>1, FS_AddElement
    <3>4. Cardinality(DOMAIN disk') <= maxRolls + 1
      BY <1>0, <1>1, <3>1, <3>2, <3>3
    <3> QED  BY <2>1, <2>2, <3>4 DEF Bounded
  <2>3. CASE ~(rolling /\ maxRolls > 0)
    BY <2>1, <2>3 DEF Bounded
  <2> QED  BY <2>2, <2>3
<1>5. CASE Rename \/ AppendMessage
  BY <1>5 DEF Rename, AppendMessage, Bounded
<1>6. CASE Still /\ ~Trim /\ ~TrimBlind
  <2>1. disk' = disk
    BY <1>6, StillKeepsDisk
  <2>2. CASE rolling' /\ step' = "create"
    <3>1. rolling /\ step = "create"
      BY <1>0, <1>6, <2>2 DEF Still, Create, Write, CreateFails, OpenFails, Check, CheckFails, History,
         RemoveArchive, ReadRolls, CreateZip, RollFails, AppendFails, Close, Crash, Tick
    <3> QED  BY <1>0, <2>1, <2>2, <3>1 DEF Bounded
  <2>3. CASE rolling' /\ step' = "append"
    <3>1. rolling /\ step \in {"create", "append"}
      BY <1>0, <1>6, <2>3 DEF Still, Create, Write, CreateFails, OpenFails, Check, CheckFails, History,
         RemoveArchive, ReadRolls, CreateZip, RollFails, AppendFails, Close, Crash, Tick, Place
    <3> QED  BY <1>0, <1>1, <2>1, <2>3, <3>1 DEF Bounded
  <2>4. CASE ~rolling' \/ step' \notin {"create", "append"}
    BY <2>4 DEF Bounded
  <2> QED  BY <2>2, <2>3, <2>4
<1> QED  BY <1>3, <1>4, <1>5, <1>6, NextIs

\* The archive's part of what is known step by step.
LEMMA ZippingStep == ASSUME RollingAssumption, Inv, Next PROVE Zipping'
<1> USE DEF Goto, Fail, memoryVars, diskVars
<1>0. Zipping /\ Place /\ Disks /\ Memory /\ maxRolls \in Nat
  BY Bounds DEF Inv, Types, Zipped
<1>1. CASE Trim
  <2>1. toDelete # <<>> => maxRolls # 0
    BY DEF toDelete
  <2>2. toDelete' = toDelete
    BY <1>1 DEF Trim, toDelete
  <2>3. step = "trim" /\ archive' = archive
    BY <1>1 DEF Trim
  <2>4. /\ step' \in {"create", "remove", "idle", "read", "removeArchive"}
        /\ step' \in {"remove", "read", "removeArchive"} => toDelete # <<>>
        /\ step' = "remove" => ~Archives
        /\ step' \in {"read", "removeArchive"} => Archives
        /\ step' = "removeArchive" => files' = archive
    BY <1>1 DEF Trim
  <2> QED  BY <1>0, <2>1, <2>2, <2>3, <2>4 DEF Zipping
<1>2. CASE RemoveArchive
  BY <1>0, <1>2 DEF RemoveArchive, Zipping, toDelete
<1>3. CASE ReadRolls
  <2>1. toDelete' = toDelete /\ ToSet(toDelete') = ToSet(toDelete)
    BY <1>3 DEF ReadRolls, toDelete
  <2>2. ToSet(toDelete) \subseteq DOMAIN files'
    BY <1>3 DEF ReadRolls
  <2>3. step = "read" /\ step' = "zip" /\ archive' = archive
    BY <1>3 DEF ReadRolls
  <2> QED  BY <1>0, <2>1, <2>2, <2>3 DEF Zipping
<1>4. CASE CreateZip
  <2>1. toDelete' = toDelete /\ ToSet(toDelete') = ToSet(toDelete)
    BY <1>4 DEF CreateZip, toDelete
  <2> QED  BY <1>0, <1>4, <2>1 DEF CreateZip, Zipping
<1>5. CASE RemoveRoll
  <2>1. CASE toDelete = <<>>
    BY <1>0, <1>5, <2>1 DEF RemoveRoll, Zipping
  <2>2. CASE toDelete # <<>>
    <3>1. /\ step = "remove" /\ step' = "remove" /\ archive' = archive
          /\ history' = Tail(history)
      BY <1>5, <2>2 DEF RemoveRoll
    <3>2. ToSet(OldestOf(Tail(history))) \subseteq ToSet(toDelete)
      BY <2>2, <3>1, ToDelete, RestOf DEF Rolls
    <3>3. toDelete' = OldestOf(Tail(history))
      BY <3>1 DEF toDelete, OldestOf
    <3>4. ToSet(toDelete') \subseteq ToSet(toDelete)
      BY <3>2, <3>3
    <3> QED  BY <1>0, <3>1, <3>4 DEF Zipping
  <2> QED  BY <2>1, <2>2
<1>6. CASE RollFails \/ Crash
  <2>1. step' = "idle" /\ archive' \in {archive, <<>>}
    BY <1>6 DEF RollFails, Crash, BreakOff
  <2> QED  BY <1>0, <2>1 DEF Zipping
<1>7. CASE Create \/ CreateBlind \/ Rename \/ AppendMessage \/ Write \/ CreateFails \/ OpenFails
           \/ Check \/ CheckFails \/ History \/ AppendFails \/ Close
  <2>1. /\ step' \notin {"removeArchive", "read", "zip", "remove"}
        /\ archive' = archive
    BY <1>0, <1>7 DEF Create, CreateBlind, Rename, AppendMessage, Write, CreateFails, OpenFails,
       Check, CheckFails, History, AppendFails, Close
  <2> QED  BY <1>0, <2>1 DEF Zipping
<1>8. CASE Tick
  BY <1>0, <1>8 DEF Tick, Zipping, toDelete
<1>9. CASE TrimBlind
  <2>1. toDelete # <<>> => maxRolls # 0
    BY DEF toDelete
  <2>2. toDelete' = toDelete
    BY <1>9 DEF TrimBlind, toDelete
  <2>3. toDelete # <<>> /\ Archives /\ step' = "read"
    BY <1>9 DEF TrimBlind
  <2> QED  BY <2>1, <2>2, <2>3 DEF Zipping
<1> QED  BY <1>1, <1>2, <1>3, <1>4, <1>5, <1>6, <1>7, <1>8, <1>9 DEF Next

\* The newest roll is not among those to delete, and greater than they are.
LEMMA NewestStays ==
    ASSUME RollingAssumption, Inv, step \in Rolls \ {"history", "rename"}, toDelete # <<>>
    PROVE  /\ Last(history) \in DOMAIN disk
           /\ \A f \in ToSet(toDelete) : f < Last(history)
           /\ Head(toDelete) = history[1] /\ history[1] \in ToSet(toDelete)
           /\ \A f \in DOMAIN disk : f # history[1] => history[1] < f
<1>1. /\ toDelete = OldestOf(history) /\ history \in Seq(Nat) /\ Rising(history)
      /\ ToSet(history) = DOMAIN disk
  BY ToDelete
<1>2. history # <<>> /\ Len(history) > maxRolls /\ maxRolls \in Nat \ {0} /\ Len(history) \in Nat
  BY <1>1, Oldest, LenProperties, EmptySeq, Bounds
<1>3. Last(history) \in DOMAIN disk
  BY <1>1, <1>2, RisingLast
<1>4. ToSet(toDelete) = {history[i] : i \in 1..(Len(history) - maxRolls)}
  BY <1>1, <1>2, Oldest
<1>5. \A i \in 1..(Len(history) - maxRolls) : history[i] < history[Len(history)]
  <2> SUFFICES ASSUME NEW i \in 1..(Len(history) - maxRolls) PROVE history[i] < history[Len(history)]
    OBVIOUS
  <2>1. i \in 1..Len(history) /\ Len(history) \in 1..Len(history) /\ i < Len(history)
    BY <1>2
  <2> QED  BY <1>1, <2>1, LenProperties DEF Rising
<1>6. \A f \in ToSet(toDelete) : f < Last(history)
  BY <1>4, <1>5 DEF Last
<1>7. Head(toDelete) = history[1] /\ history[1] \in ToSet(toDelete)
  BY <1>1, Oldest, RestOf
<1>8. \A f \in DOMAIN disk : f # history[1] => history[1] < f
  BY <1>1, RestOf
<1> QED  BY <1>3, <1>6, <1>7, <1>8

\* What an archive holds goes on agreeing with the disk when a file is made, the current one
\* becomes a roll, the oldest goes or a message is written.
LEMMA AgreesStep ==
    ASSUME RollingAssumption, Inv, Empties \/ Rename \/ RemoveRoll \/ AppendMessage,
           NEW fs, Agrees(fs), DOMAIN fs \subseteq Nat
    PROVE  /\ \A f \in DOMAIN fs :
                /\ f \in DOMAIN disk' => fs[f] = disk'[f]
                /\ \E g \in DOMAIN disk' : f < g
<1> USE DEF Goto, Fail, memoryVars, diskVars
<1>0. Place /\ Disks /\ Memory /\ Listed
  BY DEF Inv, Types
<1>01. /\ \A f \in DOMAIN disk : f \in Nat
       /\ \A f \in DOMAIN fs : f \in Nat
  BY <1>0, FewNames DEF Disks
<1>4. CASE Empties
  <2>1. /\ DOMAIN disk' = DOMAIN disk \cup {CurrentName}
        /\ \A g \in DOMAIN disk \ {CurrentName} : disk'[g] = disk[g]
    BY <1>4, EmptiesDoes DEF Inv
  <2>2. CurrentName \notin DOMAIN fs
    <3>1. CASE ByDate
      <4>1. \A g \in DOMAIN disk : g <= CurrentName
        BY <3>1, <1>0 DEF Inv, Named, CurrentName, Memory
      <4>2. CurrentName \in Nat
        BY <1>0, <3>1 DEF CurrentName, Memory
      <4> QED  BY <1>01, <4>1, <4>2 DEF Agrees
    <3>2. CASE ~ByDate
      BY <3>2 DEF Agrees, CurrentName
    <3> QED  BY <3>1, <3>2
  <2> QED  BY <2>1, <2>2 DEF Agrees
<1>5. CASE Rename
  <2>1. /\ step = "rename" /\ fileName = 0 /\ fileName \in DOMAIN disk /\ history # <<>>
        /\ Last(history) \notin DOMAIN disk /\ Rising(history) /\ ~ByDate
        /\ ToSet(history) = (DOMAIN disk \ {0}) \cup {Last(history)}
    BY <1>0, <1>5 DEF Rename, Place, IsCurrent, Listed, Rolls
  <2>2. /\ DOMAIN disk' = (DOMAIN disk \ {0}) \cup {Last(history)}
        /\ \A g \in DOMAIN disk \ {0} : disk'[g] = disk[g]
    BY <1>5, <2>1, RenameDoes
  <2>3. Last(history) \in Nat /\ \A g \in DOMAIN disk \ {0} : g < Last(history)
    <3>1. Last(history) \in Nat /\ \A g \in ToSet(history) : g <= Last(history)
      BY <1>0, <2>1, RisingLast DEF Memory
    <3>2. \A g \in DOMAIN disk \ {0} : g <= Last(history) /\ g # Last(history)
      BY <2>1, <3>1
    <3> QED  BY <1>01, <3>1, <3>2
  <2>4. \A f \in DOMAIN fs : f # 0 /\ f # Last(history) /\ \E g \in DOMAIN disk \ {0} : f < g
    <3> SUFFICES ASSUME NEW f \in DOMAIN fs
                 PROVE  f # 0 /\ f # Last(history) /\ \E g \in DOMAIN disk \ {0} : f < g
      OBVIOUS
    <3>1. PICK g \in DOMAIN disk : f < g
      BY <1>0 DEF Agrees
    <3>2. f # 0 /\ g # 0
      BY <1>0, <1>01, <2>1, <3>1 DEF Agrees
    <3> QED  BY <1>01, <2>3, <3>1, <3>2
  <2> QED  BY <1>0, <1>5, <2>2, <2>4 DEF Agrees
<1>6. CASE RemoveRoll
  <2>1. CASE toDelete = <<>>
    BY <1>0, <1>6, <2>1 DEF RemoveRoll, Agrees
  <2>2. CASE toDelete # <<>>
    <3>1. /\ Last(history) \in DOMAIN disk /\ history[1] < Last(history)
          /\ Head(toDelete) = history[1]
          /\ \A f \in DOMAIN disk : f # history[1] => history[1] < f
      BY <1>6, <2>2, NewestStays DEF RemoveRoll, Rolls
    <3>2. /\ DOMAIN disk' = DOMAIN disk \ {history[1]}
          /\ \A g \in DOMAIN disk' : disk'[g] = disk[g]
      BY <1>6, <2>2, <3>1, RemoveRollDoes
    <3>3. \A f \in DOMAIN fs : \E g \in DOMAIN disk' : f < g
      <4> SUFFICES ASSUME NEW f \in DOMAIN fs PROVE \E g \in DOMAIN disk' : f < g
        OBVIOUS
      <4>1. PICK g \in DOMAIN disk : f < g
        BY <1>0 DEF Agrees
      <4>2. CASE g # history[1]
        BY <3>2, <4>1, <4>2
      <4>3. CASE g = history[1]
        <5>1. Last(history) \in DOMAIN disk' /\ f < Last(history)
          BY <1>01, <3>1, <3>2, <4>1, <4>3
        <5> QED  BY <5>1
      <4> QED  BY <4>2, <4>3
    <3> QED  BY <1>0, <1>6, <3>2, <3>3 DEF Agrees
  <2> QED  BY <2>1, <2>2
<1>7. CASE AppendMessage
  <2>1. IsCurrent /\ (~ByDate => fileName = 0) /\ fileName \in Nat
    BY <1>0, <1>7 DEF AppendMessage, Place, Memory
  <2>2. DOMAIN disk' = DOMAIN disk /\ \A g \in DOMAIN disk \ {fileName} : disk'[g] = disk[g]
    BY <1>7, <2>1, AppendMessageDoes DEF IsCurrent, Inv
  <2>3. fileName \notin DOMAIN fs
    <3>1. CASE ByDate
      <4>1. \A g \in DOMAIN disk : g <= fileName
        BY <2>1, <3>1 DEF IsCurrent, Order
      <4> QED  BY <1>0, <1>01, <2>1, <4>1 DEF Agrees
    <3>2. CASE ~ByDate
      BY <1>0, <2>1, <3>2 DEF Agrees
    <3> QED  BY <3>1, <3>2
  <2> QED  BY <1>0, <1>7, <2>2, <2>3 DEF Agrees
<1> QED  BY <1>4, <1>5, <1>6, <1>7

\* The archive agrees with the disk, and is older than something there, in every step.
LEMMA InZipStep == ASSUME RollingAssumption, Inv, Next PROVE InZip'
<1> USE DEF Goto, Fail, memoryVars, diskVars
<1>0. InZip /\ Zipping /\ Place /\ Disks /\ Memory /\ Listed
  BY DEF Inv, Types, Zipped
<1>01. DOMAIN archive \subseteq Nat /\ DOMAIN files \subseteq Nat /\ DOMAIN <<>> = {}
  <2>1. DOMAIN archive \in SUBSET Nat
    BY <1>0, FewNames DEF Disks
  <2>2. DOMAIN files \in SUBSET Nat
    BY <1>0, FewNames DEF Disks
  <2> QED  BY <2>1, <2>2
<1>1. CASE ReadRolls
  <2>1. /\ disk' = disk /\ archive' = archive /\ step = "read"
        /\ DOMAIN files' = DOMAIN files \cup ToSet(toDelete)
        /\ \A f \in ToSet(toDelete) : files'[f] = disk[f]
        /\ \A f \in DOMAIN files \ ToSet(toDelete) : files'[f] = files[f]
    BY <1>1 DEF ReadRolls
  <2>2. toDelete # <<>> /\ Agrees(archive) /\ Agrees(files)
    BY <1>0, <2>1 DEF Zipping, InZip
  <2>3. /\ Last(history) \in DOMAIN disk /\ \A f \in ToSet(toDelete) : f < Last(history)
        /\ ToSet(toDelete) \subseteq DOMAIN disk /\ (~ByDate => 0 \notin DOMAIN disk)
    BY <1>0, <2>1, <2>2, NewestStays, ToDelete DEF Rolls, Listed
  <2>4. ASSUME NEW f \in DOMAIN files'
        PROVE  /\ f \in DOMAIN disk => files'[f] = disk[f]
               /\ ~ByDate => f # 0
               /\ \E g \in DOMAIN disk : f < g
    <3>1. CASE f \in ToSet(toDelete)
      BY <2>1, <2>3, <3>1
    <3>2. CASE f \in DOMAIN files \ ToSet(toDelete)
      BY <2>1, <2>2, <3>2 DEF Agrees
    <3> QED  BY <2>1, <3>1, <3>2
  <2> QED  BY <2>1, <2>2, <2>4 DEF InZip, Agrees
<1>2. CASE Still /\ ~ReadRolls
  <2>1. disk' = disk
    BY <1>2, StillKeepsDisk
  <2>2. /\ archive' \in {archive, <<>>} \/ (archive' = files /\ step = "zip")
        /\ step' \in {"removeArchive", "read", "zip"} =>
             files' \in {archive, <<>>} \/ (files' = files /\ step \in {"removeArchive", "read", "zip"})
    BY <1>0, <1>2 DEF Still, Create, Write, CreateFails, OpenFails, Check, CheckFails, History,
       Trim, TrimBlind, RemoveArchive, CreateZip, RollFails, BreakOff, AppendFails, Close, Crash,
       Tick
  <2>3. Agrees(<<>>) /\ Agrees(archive) /\ (step \in {"removeArchive", "read", "zip"} => Agrees(files))
    BY <1>0, <1>01 DEF InZip, Agrees
  <2>4. Agrees(archive)'
    BY <2>1, <2>2, <2>3 DEF Agrees
  <2>5. step' \in {"removeArchive", "read", "zip"} => Agrees(files)'
    BY <2>1, <2>2, <2>3 DEF Agrees
  <2> QED  BY <2>4, <2>5 DEF InZip
<1>3. CASE Empties \/ Rename \/ RemoveRoll \/ AppendMessage
  <2>1. archive' = archive /\ step' \notin {"removeArchive", "read", "zip"}
    BY <1>3, EmptiesDoes DEF Rename, RemoveRoll, AppendMessage, Inv
  <2>2. Agrees(archive)
    BY <1>0 DEF InZip
  <2>3. \A f \in DOMAIN archive :
          /\ f \in DOMAIN disk' => archive[f] = disk'[f]
          /\ \E g \in DOMAIN disk' : f < g
    BY <1>01, <1>3, <2>2, AgreesStep
  <2> QED  BY <2>1, <2>2, <2>3 DEF InZip, Agrees
<1> QED  BY <1>1, <1>2, <1>3, NextIs DEF ReadRolls

\* Messages stay in their order whatever is renamed, removed and written.
LEMMA ReadsInOrderStep == ASSUME RollingAssumption, Inv, Next PROVE ReadsInOrder'
<1> USE DEF memoryVars, diskVars
<1>0. /\ Disks /\ Memory /\ Place /\ Known /\ Named
      /\ message \in Nat /\ MaxWrites \in Nat /\ message <= MaxWrites
      /\ \A f \in DOMAIN disk : f \in Nat /\ disk[f] \in Seq(Nat)
  <2>1. Disks /\ Memory /\ Place /\ Known /\ Named /\ MaxWrites \in Nat
    BY Bounds DEF Inv, Types
  <2>2. message \in Nat /\ message <= MaxWrites
    BY <2>1 DEF Memory
  <2>3. \A f \in DOMAIN disk : f \in Nat
    BY <2>1, FewNames DEF Disks
  <2>4. \A f \in DOMAIN disk : disk[f] \in Seq(Nat)
    BY <2>1 DEF Disks
  <2> QED  BY <2>1, <2>2, <2>3, <2>4
<1>1. /\ \A f \in DOMAIN disk : Rising(disk[f])
      /\ \A f, g \in DOMAIN disk : Order(f) < Order(g) =>
           \A i \in ToSet(disk[f]), j \in ToSet(disk[g]) : i < j
  BY DEF Inv, ReadsInOrder, Rising
<1>2. ASSUME \A f \in DOMAIN disk' : Rising(disk'[f]),
             \A f, g \in DOMAIN disk' : Order(f) < Order(g) =>
               \A i \in ToSet(disk'[f]), j \in ToSet(disk'[g]) : i < j
      PROVE  ReadsInOrder'
  BY <1>2 DEF ReadsInOrder, Rising, Order
<1>3. ASSUME DOMAIN disk' \subseteq DOMAIN disk, \A f \in DOMAIN disk' : disk'[f] = disk[f]
      PROVE  ReadsInOrder'
  BY <1>1, <1>2, <1>3
<1>4. CASE Still
  <2>1. disk' = disk
    BY <1>4, StillKeepsDisk
  <2> QED  BY <1>3, <2>1
<1>5. CASE Empties
  <2>1. /\ DOMAIN disk' = DOMAIN disk \cup {CurrentName} /\ disk'[CurrentName] = <<>>
        /\ \A g \in DOMAIN disk \ {CurrentName} : disk'[g] = disk[g]
    BY <1>5, EmptiesDoes DEF Inv
  <2>2. ToSet(<<>>) = {} /\ Rising(<<>>)
    BY DEF ToSet, Rising
  <2>3. \A f \in DOMAIN disk' : Rising(disk'[f])
    BY <1>1, <2>1, <2>2
  <2>4. \A f, g \in DOMAIN disk' : Order(f) < Order(g) =>
          \A i \in ToSet(disk'[f]), j \in ToSet(disk'[g]) : i < j
    BY <1>1, <2>1, <2>2
  <2> QED  BY <1>2, <2>3, <2>4
<1>6. CASE Rename
  <2>1. /\ step = "rename" /\ fileName = 0 /\ fileName \in DOMAIN disk /\ history # <<>>
        /\ Last(history) \notin DOMAIN disk /\ Rising(history) /\ ~ByDate
        /\ 0 \notin ToSet(history) /\ Last(history) <= message
        /\ ToSet(history) = (DOMAIN disk \ {0}) \cup {Last(history)}
    BY <1>0, <1>6 DEF Rename, Inv, Place, IsCurrent, Listed, Rolls
  <2>2. /\ DOMAIN disk' = (DOMAIN disk \ {0}) \cup {Last(history)}
        /\ disk'[Last(history)] = disk[0]
        /\ \A g \in DOMAIN disk \ {0} : disk'[g] = disk[g]
    BY <1>6, <2>1, RenameDoes
  <2>3. /\ Last(history) \in Nat /\ Last(history) # 0
        /\ \A g \in DOMAIN disk \ {0} : g < Last(history)
    <3>1. Last(history) \in Nat /\ \A g \in ToSet(history) : g <= Last(history)
      BY <1>0, <2>1, RisingLast DEF Memory
    <3>2. \A g \in DOMAIN disk \ {0} : g <= Last(history) /\ g # Last(history)
      BY <2>1, <3>1
    <3> QED  BY <1>0, <2>1, <3>1, <3>2
  <2> DEFINE old(f) == IF f = Last(history) THEN 0 ELSE f
  <2>4. \A f \in DOMAIN disk' : old(f) \in DOMAIN disk /\ disk'[f] = disk[old(f)]
    BY <2>1, <2>2
  <2>5. \A f, g \in DOMAIN disk' : Order(f) < Order(g) => Order(old(f)) < Order(old(g))
    <3> SUFFICES ASSUME NEW f \in DOMAIN disk', NEW g \in DOMAIN disk', Order(f) < Order(g)
                 PROVE  Order(old(f)) < Order(old(g))
      OBVIOUS
    <3>1. Order(f) = f /\ Order(g) = g /\ f \in Nat /\ g \in Nat
      BY <1>0, <2>2, <2>3 DEF Order
    <3>2. f # Last(history)
      BY <2>2, <2>3, <3>1
    <3>3. f \in DOMAIN disk \ {0} /\ old(f) = f
      BY <2>2, <3>2
    <3>4. CASE g = Last(history)
      <4>1. Order(old(g)) = MaxWrites + 1
        BY <2>1, <3>4 DEF Order
      <4>2. f < Last(history)
        BY <2>3, <3>3
      <4> QED  BY <1>0, <2>1, <2>3, <3>1, <3>3, <4>1, <4>2
    <3>5. CASE g # Last(history)
      BY <3>1, <3>3, <3>5
    <3> QED  BY <3>4, <3>5
  <2> HIDE DEF old
  <2>6. \A f \in DOMAIN disk' : Rising(disk'[f])
    BY <1>1, <2>4
  <2>7. \A f, g \in DOMAIN disk' : Order(f) < Order(g) =>
          \A i \in ToSet(disk'[f]), j \in ToSet(disk'[g]) : i < j
    BY <1>1, <2>4, <2>5
  <2> QED  BY <1>2, <2>6, <2>7
<1>7. CASE RemoveRoll
  <2>1. CASE toDelete = <<>>
    BY <1>3, <1>7, <2>1 DEF RemoveRoll
  <2>2. CASE toDelete # <<>>
    BY <1>3, <1>7, <2>2, RemoveRollDoes
  <2> QED  BY <2>1, <2>2
<1>8. CASE AppendMessage
  <2>1. IsCurrent /\ message # 0 /\ Past = message - 1 /\ fileName \in Nat
    BY <1>0, <1>8, PastGrows DEF AppendMessage, Place, Memory
  <2>2. /\ DOMAIN disk' = DOMAIN disk
        /\ disk'[fileName] = Append(disk[fileName], message)
        /\ \A g \in DOMAIN disk \ {fileName} : disk'[g] = disk[g]
    BY <1>8, <2>1, AppendMessageDoes DEF IsCurrent, Inv
  <2>3. \A f \in DOMAIN disk : \A k \in ToSet(disk[f]) : k \in Nat /\ k < message
    <3> SUFFICES ASSUME NEW f \in DOMAIN disk, NEW k \in ToSet(disk[f])
                 PROVE  k \in Nat /\ k < message
      OBVIOUS
    <3>1. k \in Nat
      BY <1>0, LenProperties, ElementOfSeq DEF ToSet
    <3>2. k <= message - 1
      BY <1>0, <2>1 DEF Known
    <3> QED  BY <1>0, <3>1, <3>2
  <2>4. /\ Rising(disk'[fileName])
        /\ ToSet(disk'[fileName]) = ToSet(disk[fileName]) \cup {message}
    BY <1>0, <1>1, <2>1, <2>2, <2>3, RisingAppend DEF IsCurrent
  <2>5. \A f \in DOMAIN disk' : Rising(disk'[f])
    BY <1>1, <2>2, <2>4
  <2>6. \A f, g \in DOMAIN disk' : Order(f) < Order(g) =>
          \A i \in ToSet(disk'[f]), j \in ToSet(disk'[g]) : i < j
    <3> SUFFICES ASSUME NEW f \in DOMAIN disk, NEW g \in DOMAIN disk, Order(f) < Order(g)
                 PROVE  \A i \in ToSet(disk'[f]), j \in ToSet(disk'[g]) : i < j
      BY <2>2
    <3>1. Order(f) \in Nat /\ Order(g) \in Nat /\ Order(fileName) \in Nat
      BY <1>0, <2>1 DEF Order
    <3>2. Order(g) <= Order(fileName)
      BY <2>1 DEF IsCurrent
    <3>3. f # fileName
      BY <3>1, <3>2
    <3>4. ToSet(disk'[f]) = ToSet(disk[f]) /\ ToSet(disk'[g]) \subseteq ToSet(disk[g]) \cup {message}
      BY <2>2, <2>4, <3>3
    <3> QED  BY <1>1, <2>3, <3>4
  <2> QED  BY <1>2, <2>5, <2>6
<1> QED  BY <1>4, <1>5, <1>6, <1>7, <1>8, NextIs
-----------------------------------------------------------------------------
\* What is in the archive, or about to be.
zip == IF Replacing THEN files ELSE archive

\* Where a message is that is not lost.
LEMMA HeldIs ==
    /\ \A k : k \in Messages <=> \E f \in DOMAIN disk : k \in ToSet(disk[f])
    /\ \A k : k \in Messages' <=> \E f \in DOMAIN disk' : k \in ToSet(disk'[f])
    /\ \A k : k \in Archived <=> \E f \in DOMAIN zip : k \in ToSet(zip[f])
    /\ \A k : k \in Archived' <=> \E f \in DOMAIN zip' : k \in ToSet(zip'[f])
<1>1. /\ \A k : k \in Messages <=> \E f \in DOMAIN disk : k \in ToSet(disk[f])
      /\ \A k : k \in Messages' <=> \E f \in DOMAIN disk' : k \in ToSet(disk'[f])
  BY DEF Messages, MessagesIn
<1>2. /\ Archived = UNION {ToSet(zip[f]) : f \in DOMAIN zip}
      /\ Archived' = UNION {ToSet(zip'[f]) : f \in DOMAIN zip'}
  BY DEF Archived, MessagesIn, zip
<1> QED  BY <1>1, <1>2

\* The messages on the disk are those there were, and the one that is written; beside
\* those of a roll that is removed only the ones counted as lost go.
LEMMA MessagesStep ==
    ASSUME RollingAssumption, Inv, Next
    PROVE  /\ AppendMessage => Messages' = Messages \cup {message} /\ stored' = stored \cup {message}
           /\ ~AppendMessage => Messages' \subseteq Messages /\ stored' = stored
           /\ ~RemoveRoll => Messages \subseteq Messages' \cup lost'
           /\ RemoveRoll /\ toDelete = <<>> => Messages' = Messages
           /\ RemoveRoll /\ toDelete # <<>> =>
                \A k \in Messages \ Messages' : k \in ToSet(disk[history[1]])
<1> USE DEF memoryVars, diskVars
<1>0. Disks /\ Memory /\ Place
  BY DEF Inv, Types
<1>1. ~AppendMessage => stored' = stored
  BY DEF Next, Write, Create, CreateBlind, CreateFails, OpenFails, Check, CheckFails, History,
     Rename, Trim, TrimBlind, RemoveArchive, ReadRolls, CreateZip, RemoveRoll, RollFails,
     AppendFails, Close, Crash, Tick, Fail
<1>2. CASE AppendMessage
  <2>1. step = "append" /\ ~RemoveRoll /\ fileName \in DOMAIN disk /\ message \in Nat
        /\ stored' = stored \cup {message}
    BY <1>0, <1>2, Bounds DEF AppendMessage, RemoveRoll, Place, IsCurrent, Memory
  <2>2. /\ DOMAIN disk' = DOMAIN disk /\ disk'[fileName] = Append(disk[fileName], message)
        /\ \A g \in DOMAIN disk \ {fileName} : disk'[g] = disk[g]
    BY <1>2, <2>1, AppendMessageDoes DEF Inv
  <2>3. ToSet(disk'[fileName]) = ToSet(disk[fileName]) \cup {message}
    <3>1. disk[fileName] \in Seq(Nat)
      BY <1>0, <2>1 DEF Disks
    <3> QED  BY <2>1, <2>2, <3>1, RisingAppend
  <2>4. \A k : k \in Messages' <=> k \in Messages \/ k = message
    BY <2>1, <2>2, <2>3, HeldIs
  <2> QED  BY <1>2, <2>1, <2>4
<1>3. CASE RemoveRoll
  <2>1. ~AppendMessage
    BY <1>3 DEF AppendMessage, RemoveRoll
  <2>2. CASE toDelete = <<>>
    <3>1. disk' = disk
      BY <1>3, <2>2 DEF RemoveRoll
    <3>2. Messages' = Messages
      BY <3>1 DEF Messages
    <3> QED  BY <1>1, <1>3, <2>1, <2>2, <3>2
  <2>3. CASE toDelete # <<>>
    <3>1. Head(toDelete) = history[1]
      BY <1>3, <2>3, NewestStays DEF RemoveRoll, Rolls
    <3>2. DOMAIN disk' = DOMAIN disk \ {history[1]} /\ \A g \in DOMAIN disk' : disk'[g] = disk[g]
      BY <1>3, <2>3, <3>1, RemoveRollDoes
    <3>3. \A k \in Messages \ Messages' : k \in ToSet(disk[history[1]])
      BY <3>2, HeldIs
    <3>4. Messages' \subseteq Messages
      BY <3>2, HeldIs
    <3> QED  BY <1>1, <1>3, <2>1, <2>3, <3>3, <3>4
  <2> QED  BY <2>2, <2>3
<1>4. CASE ~AppendMessage /\ ~RemoveRoll
  <2>1. CASE Still
    BY <1>1, <1>4, <2>1, StillKeepsDisk DEF Messages
  <2>2. CASE Empties
    <3>1. /\ DOMAIN disk' = DOMAIN disk \cup {CurrentName} /\ disk'[CurrentName] = <<>>
          /\ \A g \in DOMAIN disk \ {CurrentName} : disk'[g] = disk[g]
      BY <2>2, EmptiesDoes DEF Inv
    <3>2. ToSet(<<>>) = {}
      BY DEF ToSet
    <3>3. Messages' \subseteq Messages
      BY <3>1, <3>2, HeldIs
    <3>4. CurrentName \in DOMAIN disk => ToSet(disk[CurrentName]) \subseteq lost'
      BY <2>2 DEF Empties, CreateBlind
    <3>5. Messages \subseteq Messages' \cup lost'
      <4> SUFFICES ASSUME NEW f \in DOMAIN disk, NEW k \in ToSet(disk[f])
                   PROVE  k \in Messages' \cup lost'
        BY HeldIs
      <4>1. CASE f = CurrentName
        BY <3>4, <4>1
      <4>2. CASE f # CurrentName
        BY <3>1, <4>2, HeldIs
      <4> QED  BY <4>1, <4>2
    <3> QED  BY <1>1, <1>4, <3>3, <3>5
  <2>3. CASE Rename
    <3>1. /\ fileName \in DOMAIN disk /\ Last(history) \notin DOMAIN disk
      BY <2>3 DEF Rename, Inv, Place, IsCurrent, Listed, Rolls
    <3>2. /\ DOMAIN disk' = (DOMAIN disk \ {fileName}) \cup {Last(history)}
          /\ disk'[Last(history)] = disk[fileName]
          /\ \A g \in DOMAIN disk \ {fileName} : disk'[g] = disk[g]
      BY <2>3, <3>1, RenameDoes
    <3>3. Messages \subseteq Messages'
      <4> SUFFICES ASSUME NEW f \in DOMAIN disk, NEW k \in ToSet(disk[f]) PROVE k \in Messages'
        BY HeldIs
      <4>1. CASE f = fileName
        BY <3>2, <4>1, HeldIs
      <4>2. CASE f # fileName
        BY <3>2, <4>2, HeldIs
      <4> QED  BY <4>1, <4>2
    <3>4. Messages' \subseteq Messages
      <4> SUFFICES ASSUME NEW f \in DOMAIN disk', NEW k \in ToSet(disk'[f]) PROVE k \in Messages
        BY HeldIs
      <4>1. CASE f = Last(history)
        BY <3>1, <3>2, <4>1, HeldIs
      <4>2. CASE f # Last(history)
        BY <3>2, <4>2, HeldIs
      <4> QED  BY <4>1, <4>2
    <3> QED  BY <1>1, <1>4, <3>3, <3>4
  <2> QED  BY <1>4, <2>1, <2>2, <2>3, NextIs
<1> QED  BY <1>2, <1>3, <1>4

\* No message leaves the archive, or what is to become of it, unless it is on the disk or
\* counted as lost, and what is lost stays so.
LEMMA ArchivedStep ==
    ASSUME RollingAssumption, Inv, Next
    PROVE  /\ lost \subseteq lost'
           /\ Archived \subseteq Archived' \cup Messages' \cup lost'
           /\ RemoveRoll => Archived' = Archived
<1> USE DEF Goto, Fail, memoryVars, diskVars
<1>0. Disks /\ Place /\ Zipping /\ InZip
  BY DEF Inv, Types, Zipped
<1>1. CASE RollFails \/ Crash
  <2>1. disk' = disk /\ step' = "idle" /\ ~RemoveRoll /\ BreakOff
    BY <1>1 DEF RollFails, Crash, RemoveRoll
  <2>2. Messages' = Messages
    BY <2>1 DEF Messages
  <2>3. zip' = archive'
    BY <2>1 DEF zip, Replacing
  <2>4. CASE archive' = archive /\ lost' = lost \cup (IF Replacing THEN Archived \ Messages ELSE {})
    <3>1. CASE Replacing
      BY <2>1, <2>2, <2>4, <3>1
    <3>2. CASE ~Replacing
      <4>1. zip' = zip
        BY <2>3, <2>4, <3>2 DEF zip
      <4> QED  BY <2>1, <2>4, <3>2, <4>1, HeldIs
    <3> QED  BY <3>1, <3>2
  <2>5. CASE lost' = lost \cup (Archived \ Messages)
    BY <2>1, <2>2, <2>5
  <2> QED  BY <2>1, <2>4, <2>5 DEF BreakOff
<1>2. CASE CreateZip
  <2>1. /\ step = "zip" /\ disk' = disk /\ archive' = files /\ step' = "remove" /\ ~RemoveRoll
        /\ lost' = lost \cup (IF Replacing THEN {} ELSE Archived \ Messages)
    BY <1>2 DEF CreateZip, RemoveRoll
  <2>2. Messages' = Messages
    BY <2>1 DEF Messages
  <2>3. CASE Replacing
    <3>1. zip' = zip
      BY <2>1, <2>3 DEF zip, Replacing
    <3> QED  BY <2>1, <2>3, <3>1, HeldIs
  <2>4. CASE ~Replacing
    BY <2>1, <2>2, <2>4
  <2> QED  BY <2>3, <2>4
<1>3. CASE ReadRolls
  <2>1. /\ step = "read" /\ step' = "zip" /\ archive' = archive /\ lost' = lost /\ ~RemoveRoll
        /\ DOMAIN files' = DOMAIN files \cup ToSet(toDelete)
        /\ \A f \in ToSet(toDelete) : files'[f] = disk[f]
        /\ \A f \in DOMAIN files \ ToSet(toDelete) : files'[f] = files[f]
    BY <1>3 DEF ReadRolls, RemoveRoll
  <2>2. ToSet(toDelete) \subseteq DOMAIN disk
    BY <2>1, ToDelete DEF Rolls
  <2>3. \A f \in DOMAIN files : f \in DOMAIN files' /\ files'[f] = files[f]
    BY <1>0, <2>1, <2>2 DEF InZip, Agrees
  <2>4. IF Replacing THEN zip = files /\ zip' = files' ELSE zip = archive /\ zip' = archive
    BY <2>1 DEF zip, Replacing
  <2>5. \A k : k \in Archived => k \in Archived'
    BY <2>3, <2>4, HeldIs
  <2> QED  BY <2>1, <2>5
<1>4. CASE Create \/ CreateBlind \/ Rename \/ RemoveRoll \/ AppendMessage \/ Write
           \/ CreateFails \/ OpenFails \/ Check \/ CheckFails \/ History \/ AppendFails \/ Close
  <2>1. /\ step \notin {"read", "zip"} /\ step' \notin {"read", "zip"} /\ archive' = archive
        /\ lost \subseteq lost'
    BY <1>0, <1>4 DEF Create, CreateBlind, Rename, RemoveRoll, AppendMessage, Write, CreateFails,
       OpenFails, Check, CheckFails, History, AppendFails, Close, Place
  <2>2. zip' = zip
    BY <2>1 DEF zip, Replacing
  <2>3. Archived' = Archived
    BY <2>2 DEF Archived, zip
  <2> QED  BY <2>1, <2>3
<1>5. CASE Trim \/ TrimBlind \/ RemoveArchive
  <2>1. /\ step \notin {"read", "zip"} /\ step' # "zip" /\ lost' = lost /\ ~RemoveRoll
        /\ \/ archive' = archive /\ (archive = <<>> => files' = <<>> \/ step' # "read")
           \/ archive' = <<>> /\ files' = archive /\ step' = "read"
    BY <1>0, <1>5 DEF Trim, TrimBlind, RemoveArchive, RemoveRoll, Zipping
  <2>2. zip' = zip
    BY <2>1 DEF zip, Replacing
  <2>3. Archived' = Archived
    BY <2>2 DEF Archived, zip
  <2> QED  BY <2>1, <2>3
<1>6. CASE Tick
  <2>1. zip' = zip /\ lost' = lost
    BY <1>6 DEF Tick, zip, Replacing
  <2>2. Archived' = Archived
    BY <2>1 DEF Archived, zip
  <2> QED  BY <2>1, <2>2
<1> QED  BY <1>1, <1>2, <1>3, <1>4, <1>5, <1>6 DEF Next

\* Before a roll is removed it is in the archive, if there is to be one.
LEMMA NothingLostStep == ASSUME RollingAssumption, Inv, Next PROVE NothingLost'
<1> SUFFICES ASSUME Archives \/ maxRolls = 0
             PROVE  \A k \in stored' : k \in Messages' \cup Archived' \cup lost'
  BY DEF NothingLost
<1>1. /\ lost \subseteq lost' /\ Archived \subseteq Archived' \cup Messages' \cup lost'
      /\ RemoveRoll => Archived' = Archived
  BY ArchivedStep
<1>2. \A k \in stored : k \in Messages \cup Archived \cup lost
  BY DEF Inv, NothingLost
<1>3. CASE AppendMessage
  <2>1. Messages' = Messages \cup {message} /\ stored' = stored \cup {message}
    BY <1>3, MessagesStep
  <2> QED  BY <1>1, <1>2, <2>1
<1>4. CASE RemoveRoll /\ toDelete # <<>>
  <2>1. ~AppendMessage /\ step = "remove"
    BY <1>4 DEF RemoveRoll, AppendMessage
  <2>2. Archives /\ ToSet(toDelete) \subseteq DOMAIN archive /\ zip = archive
    <3>1. Archives
      BY <2>1 DEF Inv, Zipped, Zipping
    <3> QED  BY <2>1, <3>1 DEF Inv, Zipped, Zipping, zip, Replacing
  <2>3. history[1] \in ToSet(toDelete) /\ ToSet(toDelete) \subseteq DOMAIN disk
    BY <1>4, <2>1, NewestStays, ToDelete DEF Rolls
  <2>4. zip[history[1]] = disk[history[1]] /\ history[1] \in DOMAIN zip
    BY <2>2, <2>3 DEF Inv, Zipped, InZip, Agrees
  <2>5. \A k \in Messages \ Messages' : k \in Archived
    BY <1>4, <2>4, MessagesStep, HeldIs
  <2>6. stored' = stored
    BY <2>1, MessagesStep
  <2> QED  BY <1>1, <1>2, <1>4, <2>5, <2>6
<1>5. CASE ~AppendMessage /\ ~(RemoveRoll /\ toDelete # <<>>)
  <2>1. stored' = stored /\ Messages \subseteq Messages' \cup lost'
    BY <1>5, MessagesStep
  <2> QED  BY <1>1, <1>2, <2>1
<1> QED  BY <1>3, <1>4, <1>5

\* No step but the removal of a roll makes the files fewer.
LEMMA FilesStay ==
    ASSUME RollingAssumption, Inv, Next
    PROVE  /\ Cardinality(DOMAIN disk) \in Nat /\ Cardinality(DOMAIN disk') \in Nat
           /\ ~RemoveRoll => Cardinality(DOMAIN disk') >= Cardinality(DOMAIN disk)
           /\ RemoveRoll /\ toDelete # <<>> => Cardinality(DOMAIN disk') >= maxRolls
<1>1. DOMAIN disk \in SUBSET Name /\ DOMAIN disk' \in SUBSET Name /\ maxRolls \in Nat
  BY DisksStep, Bounds DEF Inv, Types, Disks
<1>2. /\ IsFiniteSet(DOMAIN disk) /\ Cardinality(DOMAIN disk) \in Nat
      /\ IsFiniteSet(DOMAIN disk') /\ Cardinality(DOMAIN disk') \in Nat
  BY <1>1, FewNames
<1>3. ASSUME DOMAIN disk' = DOMAIN disk
      PROVE  Cardinality(DOMAIN disk') >= Cardinality(DOMAIN disk)
  BY <1>2, <1>3
<1>4. CASE Still
  <2>1. disk' = disk
    BY <1>4, StillKeepsDisk
  <2>2. Cardinality(DOMAIN disk') >= Cardinality(DOMAIN disk)
    BY <1>3, <2>1
  <2>3. RemoveRoll /\ toDelete # <<>> => disk' # disk
    <3> SUFFICES ASSUME RemoveRoll, toDelete # <<>> PROVE disk' # disk
      OBVIOUS
    <3>1. Head(toDelete) \in DOMAIN disk
      BY NewestStays, ToDelete DEF RemoveRoll, Rolls
    <3> QED  BY <3>1, RemoveRollDoes
  <2> QED  BY <1>2, <2>1, <2>2, <2>3
<1>5. CASE Empties
  <2>1. DOMAIN disk' = DOMAIN disk \cup {CurrentName} /\ step = "create"
    BY <1>5, EmptiesDoes DEF Inv
  <2>2. DOMAIN disk \subseteq DOMAIN disk'
    BY <2>1
  <2>3. Cardinality(DOMAIN disk') >= Cardinality(DOMAIN disk)
    BY <1>2, <2>2, FS_Subset
  <2> QED  BY <1>2, <2>1, <2>3 DEF RemoveRoll
<1>6. CASE Rename
  <2>1. fileName \in DOMAIN disk /\ Last(history) \notin DOMAIN disk
    BY <1>6 DEF Rename, Inv, Place, IsCurrent, Listed, Rolls
  <2>2. DOMAIN disk' = (DOMAIN disk \ {fileName}) \cup {Last(history)}
    BY <1>6, <2>1, RenameDoes
  <2>3. /\ IsFiniteSet(DOMAIN disk \ {fileName})
        /\ Cardinality(DOMAIN disk \ {fileName}) = Cardinality(DOMAIN disk) - 1
    BY <1>2, <2>1, FS_RemoveElement
  <2>4. Last(history) \notin DOMAIN disk \ {fileName}
    BY <2>1
  <2>5. Cardinality(DOMAIN disk') = Cardinality(DOMAIN disk \ {fileName}) + 1
    BY <2>2, <2>3, <2>4, FS_AddElement
  <2> QED  BY <1>2, <1>6, <2>3, <2>5 DEF Rename, RemoveRoll
<1>7. CASE RemoveRoll
  <2> SUFFICES ASSUME toDelete # <<>> PROVE Cardinality(DOMAIN disk') >= maxRolls
    BY <1>2, <1>7
  <2>1. /\ history \in Seq(Nat) /\ Rising(history) /\ ToSet(history) = DOMAIN disk
        /\ toDelete = OldestOf(history) /\ Head(toDelete) = history[1]
        /\ history[1] \in DOMAIN disk
    BY <1>7, ToDelete, NewestStays DEF RemoveRoll, Rolls
  <2>2. Cardinality(DOMAIN disk) = Len(history) /\ Len(history) > maxRolls
    BY <2>1, RisingSize, Oldest
  <2>3. DOMAIN disk' = DOMAIN disk \ {history[1]}
    BY <1>7, <2>1, RemoveRollDoes
  <2>4. Cardinality(DOMAIN disk') = Cardinality(DOMAIN disk) - 1
    BY <1>2, <2>1, <2>3, FS_RemoveElement
  <2> QED  BY <1>1, <1>2, <2>2, <2>4
<1>8. CASE AppendMessage
  <2>1. fileName \in DOMAIN disk
    BY <1>8 DEF AppendMessage, Inv, Place, IsCurrent
  <2>2. DOMAIN disk' = DOMAIN disk
    BY <1>8, <2>1, AppendMessageDoes DEF Inv
  <2> QED  BY <1>2, <1>3, <1>8, <2>2 DEF AppendMessage, RemoveRoll
<1> QED  BY <1>4, <1>5, <1>6, <1>7, <1>8, NextIs

\* The roll that is removed holds the oldest messages on the disk.
LEMMA OldestStep == ASSUME RollingAssumption, Inv, Next PROVE OldestGoFirst'
<1> SUFFICES ASSUME NEW k \in stored', k \notin Messages', k \notin Archived', k \notin lost'
             PROVE  /\ ~Archives
                    /\ \A j \in Messages' : k < j
                    /\ Cardinality(DOMAIN disk') >= maxRolls
  BY DEF OldestGoFirst
<1>0. ~Archives
  BY NothingLostStep DEF NothingLost
<1>1. k \notin lost /\ k \notin Archived /\ maxRolls \in Nat
  BY ArchivedStep, Bounds
<1>2. k \in stored
  BY MessagesStep
<1>3. k \in Messages \/ /\ \A j \in Messages : k < j
                        /\ Cardinality(DOMAIN disk) >= maxRolls
  BY <1>1, <1>2 DEF Inv, OldestGoFirst
<1>4. CASE RemoveRoll /\ toDelete # <<>>
  <2>0. Cardinality(DOMAIN disk') >= maxRolls
    BY <1>4, FilesStay
  <2>1. step = "remove" /\ Messages' \subseteq Messages
    BY <1>4, MessagesStep DEF RemoveRoll, AppendMessage
  <2>2. CASE k \notin Messages
    BY <1>0, <1>3, <2>0, <2>1, <2>2
  <2>3. CASE k \in Messages
    <3>1. k \in ToSet(disk[history[1]])
      BY <1>4, <2>3, MessagesStep
    <3>2. /\ history[1] \in DOMAIN disk /\ Head(toDelete) = history[1]
          /\ \A f \in DOMAIN disk : f # history[1] => history[1] < f
      BY <1>4, <2>1, NewestStays, ToDelete DEF Rolls
    <3>3. DOMAIN disk' = DOMAIN disk \ {history[1]} /\ \A g \in DOMAIN disk' : disk'[g] = disk[g]
      BY <1>4, <3>2, RemoveRollDoes
    <3>4. ~ByDate => 0 \notin DOMAIN disk
      BY <2>1, ToDelete DEF Inv, Listed, Rolls
    <3>5. \A f \in DOMAIN disk : Order(f) = f
      BY <3>4 DEF Order
    <3>6. \A j \in Messages' : k < j
      <4> SUFFICES ASSUME NEW g \in DOMAIN disk', NEW j \in ToSet(disk'[g]) PROVE k < j
        BY HeldIs
      <4>1. g \in DOMAIN disk /\ Order(history[1]) < Order(g) /\ j \in ToSet(disk[g])
        BY <3>2, <3>3, <3>5
      <4> QED  BY <3>1, <3>2, <4>1 DEF Inv, ReadsInOrder
    <3> QED  BY <1>0, <2>0, <3>6
  <2> QED  BY <2>2, <2>3
<1>5. CASE ~(RemoveRoll /\ toDelete # <<>>)
  <2>1. k \notin Messages
    BY <1>5, MessagesStep
  <2>2. /\ \A j \in Messages : k < j
        /\ Cardinality(DOMAIN disk) >= maxRolls
    BY <1>3, <2>1
  <2>3. Cardinality(DOMAIN disk') >= maxRolls
    <3>1. CASE RemoveRoll
      <4>1. disk' = disk
        BY <1>5, <3>1 DEF RemoveRoll
      <4> QED  BY <2>2, <4>1
    <3>2. CASE ~RemoveRoll
      BY <1>1, <2>2, <3>2, FilesStay
    <3> QED  BY <3>1, <3>2
  <2>4. \A j \in Messages' : k < j
    <3>1. CASE AppendMessage
      <4>1. Messages' = Messages \cup {message}
        BY <3>1, MessagesStep
      <4>2. k \in 1..Past /\ Past = message - 1 /\ message \in Nat
        BY <1>2, <3>1, PastGrows, Bounds DEF Inv, Known, Types, Memory
      <4>3. k < message
        BY <4>2
      <4> QED  BY <2>2, <4>1, <4>3
    <3>2. CASE ~AppendMessage
      BY <2>2, <3>2, MessagesStep
    <3> QED  BY <3>1, <3>2
  <2> QED  BY <1>0, <2>3, <2>4
<1> QED  BY <1>4, <1>5
-----------------------------------------------------------------------------
\* Every step keeps the invariant.
LEMMA InvStep == ASSUME RollingAssumption, Inv, [Next]_vars PROVE Inv'
<1>1. CASE Next
  <2>1. Types' /\ Known' /\ Place' /\ Named' /\ Listed' /\ Bounded'
    BY <1>1, MemoryStep, DisksStep, KnownStep, PlaceStep, NamedStep, ListedStep, BoundedStep
    DEF Types
  <2>2. Zipped'
    BY <1>1, ZippingStep, InZipStep DEF Zipped
  <2>3. ReadsInOrder' /\ NothingLost' /\ OldestGoFirst'
    BY <1>1, ReadsInOrderStep, NothingLostStep, OldestStep
  <2> QED  BY <2>1, <2>2, <2>3 DEF Inv
<1>2. CASE UNCHANGED vars
  <2> USE <1>2 DEF vars, diskVars, memoryVars, boundVars
  <2>1. Types' /\ Known'
    BY DEF Inv, Types, Disks, Memory, Known, Past, IsFiles
  <2>2. Place' /\ Named'
    BY DEF Inv, Place, Named, IsCurrent, Order, MayRoll
  <2>3. Listed' /\ Bounded'
    BY DEF Inv, Listed, Bounded, Rising
  <2>4. Zipped'
    BY DEF Inv, Zipped, Zipping, InZip, Agrees, toDelete
  <2>5. ReadsInOrder'
    BY DEF Inv, ReadsInOrder, Order
  <2>6. NothingLost' /\ OldestGoFirst'
    BY DEF Inv, NothingLost, OldestGoFirst, Messages, Archived, MessagesIn, Replacing
  <2> QED  BY <2>1, <2>2, <2>3, <2>4, <2>5, <2>6 DEF Inv
<1> QED  BY <1>1, <1>2

\* It holds always, for rolls by size and by date, with an archive and without.
LEMMA RollingInvariant == RollingAssumption => (Spec => []Inv)
<1> SUFFICES ASSUME RollingAssumption PROVE Spec => []Inv
  OBVIOUS
<1>1. Init => Inv
  BY InvInit
<1>2. Inv /\ [Next]_vars => Inv'
  BY InvStep
<1> QED  BY <1>1, <1>2, PTL DEF Spec

\* Files and the archive have names only the clock and the number of Writes give, and the
\* file the writer holds open is on the disk, also where Lstat fails before or after.
THEOREM FilesTypeOK == RollingAssumption => (Spec => []TypeOK)
<1> SUFFICES ASSUME RollingAssumption PROVE Spec => []TypeOK
  OBVIOUS
<1>1. Inv => TypeOK
  BY DEF Inv, Types, Disks, Memory, Place, IsCurrent, TypeOK, Name, Rolls
<1> QED  BY <1>1, RollingInvariant, PTL

\* The files of a rolling writer read in the order of their names, the current one last,
\* give the messages in the order they were written, each once: whatever calls of the file
\* system fail, Lstat's too, and wherever in a roll the process dies.
THEOREM FilesReadInOrder == RollingAssumption => (Spec => []ReadsInOrder)
<1> SUFFICES ASSUME RollingAssumption PROVE Spec => []ReadsInOrder
  OBVIOUS
<1>1. Inv => ReadsInOrder
  BY DEF Inv
<1> QED  BY <1>1, RollingInvariant, PTL

\* With an archive, or no bound on the rolls, a message whose Write returned no error is in
\* a file or in the archive, unless it was in a file or an archive on which Lstat failed, or
\* something failed between the removal of its archive and the making of the new one.
THEOREM NoMessageLost == RollingAssumption => (Spec => []NothingLost)
<1> SUFFICES ASSUME RollingAssumption PROVE Spec => []NothingLost
  OBVIOUS
<1>1. Inv => NothingLost
  BY DEF Inv
<1> QED  BY <1>1, RollingInvariant, PTL

\* Without an archive the messages that go, but for those of a file on which Lstat failed,
\* are older than every one that stays, and as many files as rolls are wanted stay.
THEOREM OldestMessagesGoFirst == RollingAssumption => (Spec => []OldestGoFirst)
<1> SUFFICES ASSUME RollingAssumption PROVE Spec => []OldestGoFirst
  OBVIOUS
<1>1. Inv => OldestGoFirst
  BY DEF Inv
<1> QED  BY <1>1, RollingInvariant, PTL

\* A Write that has rolled leaves no more than maxRolls rolls beside the current file, also
\* where earlier Writes failed to remove theirs.
THEOREM RollsStayBounded == RollingAssumption => (Spec => []RollsBounded)
<1> SUFFICES ASSUME RollingAssumption PROVE Spec => []RollsBounded
  OBVIOUS
<1>1. Inv => RollsBounded
  BY DEF Inv, Bounded, RollsBounded
<1> QED  BY <1>1, RollingInvariant, PTL

\* All of this together, for every bound on the size and the number of rolls, by size and by
\* date, with an archive and without.
THEOREM RollsKeepOrder == RollingAssumption => (Spec => []RollsInOrder)
<1> SUFFICES ASSUME RollingAssumption PROVE Spec => []RollsInOrder
  OBVIOUS
<1>1. ReadsInOrder /\ NothingLost /\ OldestGoFirst /\ RollsBounded => RollsInOrder
  BY DEF RollsInOrder
<1> QED  BY <1>1, FilesReadInOrder, NoMessageLost, OldestMessagesGoFirst, RollsStayBounded, PTL
=============================================================================
