----------------------------- MODULE LogWriters -----------------------------
(***************************************************************************)
(* seelog's writers with a state: a buffered writer, or none, in front of  *)
(* a file writer or a connection writer.  One goroutine writes (the        *)
(* logger's consumer), one flushes and closes (a user of the logger), and  *)
(* a buffered writer's ticker flushes.  Messages are 1, 2, ...; all but    *)
(* the big ones are of size one.                                           *)
(***************************************************************************)
EXTENDS Integers, Sequences, FiniteSets, Functions

CONSTANTS
    Inner,           \* "file" or "conn"
    Buffered,        \* is there a buffered writer?
    BufferSize,
    Ticks,           \* is its flush period not 0?
    ReconnectOnMsg,  \* of a connection writer
    Closes,          \* does the user close the writer some time?
    MaxMessages,     \* bound: messages
    MaxFaults        \* bound: failures of the disk or the network

WritersAssumption ==
    /\ Inner \in {"file", "conn"}
    /\ Buffered \in BOOLEAN /\ Ticks \in BOOLEAN /\ ReconnectOnMsg \in BOOLEAN
    /\ Closes \in BOOLEAN
    /\ BufferSize \in Nat \ {0} /\ MaxMessages \in Nat /\ MaxFaults \in Nat

VARIABLES
    innerWriter, \* what the inner writer's field holds: "nil", an "open" or "closed"
                 \* file or connection, or a "nilFile" that is not nil
    recconect,   \* of a connection writer, so spelled
    buffer,
    bufErr,      \* bufio.Writer's error, which stays
    bufferMutex, \* who holds it, "nobody" otherwise
    phase,       \* what its holder does next
    big,         \* is the message at hand bigger than the buffer?
    n,           \* the last message given to Write
    accepted,    \* messages whose Write returned no error
    delivered,   \* what is in the file or has gone over the connection
    closedOnce, faults

innerVars == <<innerWriter, recconect, delivered, faults>>
vars == <<innerVars, buffer, bufErr, bufferMutex, phase, big, n, accepted, closedOnce>>

Init ==
    /\ innerWriter = "nil"
    /\ recconect = FALSE
    /\ buffer = <<>>
    /\ bufErr = FALSE
    /\ bufferMutex = "nobody"
    /\ phase = "none"
    /\ big = FALSE
    /\ n = 0
    /\ accepted = {}
    /\ delivered = <<>>
    /\ closedOnce = FALSE
    /\ faults = 0
-----------------------------------------------------------------------------
Deliver(msgs) == delivered' = delivered \o msgs /\ UNCHANGED faults

Fault == faults < MaxFaults /\ faults' = faults + 1 /\ UNCHANGED delivered

\* fileWriter.Write: the file is made on the first call.
FileWrite(msgs) ==
    /\ innerWriter \in {"nil", "open"}
    /\ innerWriter' = "open"
    /\ Deliver(msgs)
    /\ UNCHANGED recconect

\* os.OpenFile's nil pointer is assigned to an interface, which is not nil then.
FileFails ==
    /\ \/ innerWriter = "nil" /\ Fault /\ innerWriter' \in {"nil", "nilFile", "open"}
       \/ innerWriter = "open" /\ Fault /\ UNCHANGED innerWriter
       \/ innerWriter = "nilFile" /\ UNCHANGED <<innerWriter, delivered, faults>>
    /\ UNCHANGED recconect

neddedConnectOnMsg == recconect \/ innerWriter = "nil" \/ ReconnectOnMsg

AfterWrite == IF ReconnectOnMsg THEN "closed" ELSE "open"

\* connWriter.Write: connects first where that is needed.
ConnWrite(msgs) ==
    /\ neddedConnectOnMsg \/ innerWriter = "open"
    /\ innerWriter' = AfterWrite
    /\ recconect' = FALSE
    /\ Deliver(msgs)

\* The connection breaks: no write on it will succeed any more.
ConnFails ==
    \/ /\ neddedConnectOnMsg /\ Fault
       /\ \/ innerWriter' = "nil" /\ recconect' = FALSE
          \/ innerWriter' = "closed" /\ recconect' = TRUE
    \/ /\ ~neddedConnectOnMsg
       /\ \/ innerWriter = "open" /\ Fault
          \/ innerWriter = "closed" /\ UNCHANGED <<delivered, faults>>
       /\ innerWriter' = "closed" /\ recconect' = TRUE

InnerWrite(msgs) == IF Inner = "file" THEN FileWrite(msgs) ELSE ConnWrite(msgs)
InnerFails == IF Inner = "file" THEN FileFails ELSE ConnFails
-----------------------------------------------------------------------------
Release == bufferMutex' = "nobody" /\ phase' = "none"

\* Wrong on purpose, to see TypeOK fail: a full buffer is not flushed.
WriteAboveSize(isBig) ==
    /\ bufferMutex = "nobody" /\ n < MaxMessages
    /\ n' = n + 1
    /\ big' = isBig
    /\ bufferMutex' = "writer"
    /\ phase' = IF ~Buffered THEN "chunk" ELSE IF isBig THEN "flush" ELSE "append"
    /\ UNCHANGED <<innerVars, buffer, bufErr, accepted, closedOnce>>

\* Wrong on purpose, to see InOrder fail: a big message overtakes the buffer.
WriteBigFirst(isBig) ==
    /\ bufferMutex = "nobody" /\ n < MaxMessages
    /\ n' = n + 1
    /\ big' = isBig
    /\ bufferMutex' = "writer"
    /\ phase' = IF ~Buffered \/ isBig THEN "chunk"
                ELSE IF Len(buffer) = BufferSize THEN "flush" ELSE "append"
    /\ UNCHANGED <<innerVars, buffer, bufErr, accepted, closedOnce>>

\* bufferedWriter.Write, or the inner writer's where there is no buffer.
Write(isBig) ==
    /\ bufferMutex = "nobody" /\ n < MaxMessages
    /\ n' = n + 1
    /\ big' = isBig
    /\ bufferMutex' = "writer"
    /\ phase' = IF ~Buffered THEN "chunk"
                ELSE IF isBig \/ Len(buffer) = BufferSize THEN "flush" ELSE "append"
    /\ UNCHANGED <<innerVars, buffer, bufErr, accepted, closedOnce>>

\* Wrong on purpose, to see FlushedInTime fail: the ticker leaves a buffer with room.
FlushFullOnly(by) ==
    /\ Buffered /\ bufferMutex = "nobody"
    /\ by = "ticker" => Ticks /\ Len(buffer) = BufferSize
    /\ bufferMutex' = by
    /\ phase' = "flush"
    /\ UNCHANGED <<innerVars, buffer, bufErr, big, n, accepted, closedOnce>>

\* Flush, and flushBuffer of the ticker.
Flush(by) ==
    /\ Buffered /\ bufferMutex = "nobody"
    /\ by = "ticker" => Ticks
    /\ bufferMutex' = by
    /\ phase' = "flush"
    /\ UNCHANGED <<innerVars, buffer, bufErr, big, n, accepted, closedOnce>>

\* bufio's Flush fails, at once if it has ever failed before.
FlushInnerFails ==
    /\ phase = "flush"
    /\ bufErr \/ buffer # <<>>
    /\ IF bufErr THEN UNCHANGED innerVars ELSE InnerFails
    /\ bufErr' = TRUE
    /\ Release
    /\ UNCHANGED <<buffer, big, n, accepted, closedOnce>>

FlushInner ==
    /\ phase = "flush" /\ ~bufErr
    /\ IF buffer = <<>> THEN UNCHANGED innerVars ELSE InnerWrite(buffer)
    /\ buffer' = <<>>
    /\ IF bufferMutex = "writer"
       THEN phase' = (IF big THEN "chunk" ELSE "append") /\ UNCHANGED bufferMutex
       ELSE Release
    /\ UNCHANGED <<bufErr, big, n, accepted, closedOnce>>

\* buffer.Write's error is not looked at.
AppendToBuffer ==
    /\ phase = "append"
    /\ buffer' = IF bufErr THEN buffer ELSE Append(buffer, n)
    /\ accepted' = accepted \cup {n}
    /\ Release
    /\ UNCHANGED <<innerVars, bufErr, big, n, closedOnce>>

\* writeBigChunk, and a write without a buffer.
Chunk ==
    /\ phase = "chunk"
    /\ \/ InnerWrite(<<n>>) /\ accepted' = accepted \cup {n}
       \/ InnerFails /\ UNCHANGED accepted
    /\ Release
    /\ UNCHANGED <<buffer, bufErr, big, n, closedOnce>>

\* Close takes no mutex, flushes nothing and does not stop the ticker.
Close ==
    /\ Closes /\ ~closedOnce
    /\ closedOnce' = TRUE
    /\ innerWriter' = IF Inner = "file" THEN (IF innerWriter = "open" THEN "nil" ELSE innerWriter)
                      ELSE (IF innerWriter = "open" THEN "closed" ELSE innerWriter)
    /\ UNCHANGED <<recconect, delivered, faults, buffer, bufErr, bufferMutex, phase, big, n,
                   accepted>>

Work == FlushInner \/ FlushInnerFails \/ AppendToBuffer \/ Chunk

Next ==
    \/ \E isBig \in BOOLEAN : Write(isBig)
    \/ \E by \in {"user", "ticker"} : Flush(by)
    \/ Work \/ Close

Spec == Init /\ [][Next]_vars

\* Whoever holds the mutex goes on, and the ticker ticks; MaxFaults ends the failures.
Fairness == WF_vars(Work) /\ SF_vars(Flush("ticker"))
FairSpec == Spec /\ Fairness
-----------------------------------------------------------------------------
TypeOK ==
    /\ innerWriter \in {"nil", "open", "closed", "nilFile"}
    /\ buffer \in Seq(1..MaxMessages) /\ Len(buffer) <= BufferSize
    /\ bufferMutex \in {"nobody", "writer", "user", "ticker"}
    /\ phase \in {"none", "flush", "append", "chunk"}
    /\ accepted \subseteq 1..n

\* Buffered messages, messages too big for the buffer and flushes by three goroutines:
\* what arrives arrives once and in the order of the log.
InOrder == \A i, j \in DOMAIN delivered : i < j => delivered[i] < delivered[j]

\* As long as no flush has failed, a message whose Write returned no error is in the
\* buffer or has arrived, whether or not the writer was closed meanwhile.
HeldOrDelivered == ~bufErr => accepted \subseteq Range(delivered) \cup Range(buffer)

Refused == (1..n \ accepted) \ (IF phase = "none" THEN {} ELSE {n})

\* A connection that broke, or was closed, is made again: each failure costs one message,
\* the one whose write shows it.
LossBounded == Cardinality(Refused) <= faults + (IF closedOnce THEN 1 ELSE 0)

\* What a writer accepted arrives in order or is in its buffer; without a buffer a broken
\* connection costs the messages that show it.
Accounted == InOrder /\ HeldOrDelivered /\ (Inner = "conn" /\ ~Buffered => LossBounded)

\* Ticks empty the buffer again and again until a flush fails: with HeldOrDelivered,
\* whatever was accepted arrives without a further message or flush.
FlushedInTime == []<>(bufErr \/ buffer = <<>>)
=============================================================================
