---------------------------- MODULE MCLogOutput ----------------------------
(***************************************************************************)
(* Small instances for TLC of the parts of LogOutput.                      *)
(***************************************************************************)
EXTENDS LogOutput, TLC

CONSTANTS split, errors, critical, file, mail, pager, custom, inHandler, inMain, unknown

\* A split over a file, a filter that holds another filter, and a custom receiver.
MCReceivers == split :> <<errors, file, custom>> @@ errors :> <<critical, mail>>
                 @@ critical :> <<pager>>

MCAllowList == split :> 0..5 @@ errors :> {4, 5} @@ critical :> {2, 5}

MCExceptions == << [contexts |-> {inHandler}, levels |-> {2, 3}],
                   [contexts |-> {inHandler, inMain}, levels |-> {4, 5}] >>

\* A file behind a buffer, closed some time, and a connection without one.
MCFile == [Inner |-> "file", Buffered |-> TRUE, BufferSize |-> 2, Ticks |-> TRUE,
           ReconnectOnMsg |-> FALSE, Closes |-> TRUE, MaxMessages |-> 4, MaxFaults |-> 2]

MCConn == [Inner |-> "conn", Buffered |-> FALSE, BufferSize |-> 2, Ticks |-> FALSE,
           ReconnectOnMsg |-> FALSE, Closes |-> TRUE, MaxMessages |-> 5, MaxFaults |-> 2]

\* By size with an archive, by size with any number of rolls, by date without an archive.
MCZipped == [ByDate |-> FALSE, Archives |-> TRUE, maxRolls |-> 1, maxFileSize |-> 2,
             Interval |-> 1, MaxWrites |-> 8, MaxFailures |-> 2, MaxCrashes |-> 2, MaxClock |-> 1]

MCUnlimited == [ByDate |-> FALSE, Archives |-> FALSE, maxRolls |-> 0, maxFileSize |-> 2,
                Interval |-> 1, MaxWrites |-> 7, MaxFailures |-> 2, MaxCrashes |-> 1, MaxClock |-> 1]

MCDated == [ByDate |-> TRUE, Archives |-> FALSE, maxRolls |-> 2, maxFileSize |-> 2,
            Interval |-> 1, MaxWrites |-> 5, MaxFailures |-> 2, MaxCrashes |-> 1, MaxClock |-> 5]

ASSUME OutputAssumption
=============================================================================
