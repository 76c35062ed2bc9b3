------------------------------ MODULE LogOutput ------------------------------
(***************************************************************************)
(* What seelog does with a message once its logger has it: the dispatchers *)
(* of LogDispatch and behind them two writers of LogWriters and three      *)
(* rolling files of RollingFile, whatever their options.  They share no    *)
(* state, so that one of them moves in each behaviour: part says which.    *)
(***************************************************************************)
EXTENDS LogDispatch

CONSTANTS
    FileOptions, ConnOptions,                     \* records of the constants of LogWriters,
    ZippedOptions, UnlimitedOptions, DatedOptions \* and of those of RollingFile

VARIABLES
    part,
    \* LogWriters
    innerWriter, recconect, buffer, bufErr, bufferMutex, phase, big, n, accepted, delivered,
    closedOnce, faults,
    \* RollingFile
    disk, archive, damaged, clock, currentFile, fileName, currentFileSize, step, history,
    files, rolling, message, stored, lost, failures, crashes

writerVars == <<innerWriter, recconect, buffer, bufErr, bufferMutex, phase, big, n, accepted,
                delivered, closedOnce, faults>>
rollingVars == <<disk, archive, damaged, clock, currentFile, fileName, currentFileSize, step,
                 history, files, rolling, message, stored, lost, failures, crashes>>
outputVars == <<part, vars, writerVars, rollingVars>>

W == INSTANCE LogWriters WITH
       Inner <- FileOptions.Inner, Buffered <- FileOptions.Buffered,
       BufferSize <- FileOptions.BufferSize, Ticks <- FileOptions.Ticks,
       ReconnectOnMsg <- FileOptions.ReconnectOnMsg, Closes <- FileOptions.Closes,
       MaxMessages <- FileOptions.MaxMessages, MaxFaults <- FileOptions.MaxFaults

Conn == INSTANCE LogWriters WITH
          Inner <- ConnOptions.Inner, Buffered <- ConnOptions.Buffered,
          BufferSize <- ConnOptions.BufferSize, Ticks <- ConnOptions.Ticks,
          ReconnectOnMsg <- ConnOptions.ReconnectOnMsg, Closes <- ConnOptions.Closes,
          MaxMessages <- ConnOptions.MaxMessages, MaxFaults <- ConnOptions.MaxFaults

Zipped == INSTANCE RollingFile WITH
            ByDate <- ZippedOptions.ByDate, Archives <- ZippedOptions.Archives,
            maxRolls <- ZippedOptions.maxRolls, maxFileSize <- ZippedOptions.maxFileSize,
            Interval <- ZippedOptions.Interval, MaxWrites <- ZippedOptions.MaxWrites,
            MaxFailures <- ZippedOptions.MaxFailures, MaxCrashes <- ZippedOptions.MaxCrashes,
            MaxClock <- ZippedOptions.MaxClock

Unlimited == INSTANCE RollingFile WITH
               ByDate <- UnlimitedOptions.ByDate, Archives <- UnlimitedOptions.Archives,
               maxRolls <- UnlimitedOptions.maxRolls, maxFileSize <- UnlimitedOptions.maxFileSize,
               Interval <- UnlimitedOptions.Interval, MaxWrites <- UnlimitedOptions.MaxWrites,
               MaxFailures <- UnlimitedOptions.MaxFailures,
               MaxCrashes <- UnlimitedOptions.MaxCrashes, MaxClock <- UnlimitedOptions.MaxClock

Dated == INSTANCE RollingFile WITH
           ByDate <- DatedOptions.ByDate, Archives <- DatedOptions.Archives,
           maxRolls <- DatedOptions.maxRolls, maxFileSize <- DatedOptions.maxFileSize,
           Interval <- DatedOptions.Interval, MaxWrites <- DatedOptions.MaxWrites,
           MaxFailures <- DatedOptions.MaxFailures, MaxCrashes <- DatedOptions.MaxCrashes,
           MaxClock <- DatedOptions.MaxClock

OutputAssumption ==
    /\ DispatchAssumption
    /\ W!WritersAssumption /\ Conn!WritersAssumption
    /\ Zipped!RollingAssumption /\ Unlimited!RollingAssumption /\ Dated!RollingAssumption

OutputInit ==
    /\ part \in {"dispatch", "file", "conn", "zipped", "unlimited", "dated"}
    /\ Init /\ W!Init /\ Zipped!Init

OutputNext ==
    /\ UNCHANGED part
    /\ \/ part = "dispatch" /\ Next /\ UNCHANGED <<writerVars, rollingVars>>
       \/ part = "file" /\ W!Next /\ UNCHANGED <<vars, rollingVars>>
       \/ part = "conn" /\ Conn!Next /\ UNCHANGED <<vars, rollingVars>>
       \/ part = "zipped" /\ Zipped!Next /\ UNCHANGED <<vars, writerVars>>
       \/ part = "unlimited" /\ Unlimited!Next /\ UNCHANGED <<vars, writerVars>>
       \/ part = "dated" /\ Dated!Next /\ UNCHANGED <<vars, writerVars>>

\* Fairness is the buffered writer's; the other parts have no liveness property.
OutputSpec == OutputInit /\ [][OutputNext]_outputVars /\ (part = "file" => W!Fairness)
-----------------------------------------------------------------------------
\* Each variable stays in its type, whichever part moves.
OutputTypeOK ==
    /\ TypeOK
    /\ IF part = "conn" THEN Conn!TypeOK ELSE W!TypeOK
    /\ CASE part = "zipped" -> Zipped!TypeOK
         [] part = "dated" -> Dated!TypeOK
         [] OTHER -> Unlimited!TypeOK

\* The properties of LogDispatch go by their own names; those of the other parts, see the
\* modules.

\* What a writer accepted arrives in order or is in its buffer; a broken connection costs
\* the messages that show it.
Accounted == IF part = "conn" THEN Conn!Accounted ELSE W!Accounted

\* A buffer empties by itself.
FlushedInTime == part = "file" => W!FlushedInTime

\* Whatever fails or dies in the middle of a roll, the files give the log's messages in its
\* order, no more than maxRolls rolls stay, and no message goes but the oldest and those of
\* a file or an archive that Lstat did not see or that was in memory only.
RollsInOrder ==
    CASE part = "zipped" -> Zipped!RollsInOrder
      [] part = "dated" -> Dated!RollsInOrder
      [] OTHER -> Unlimited!RollsInOrder
=============================================================================
