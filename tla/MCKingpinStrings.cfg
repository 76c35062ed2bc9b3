CONSTANTS
    Applications <- MCApplications
    CommandLines <- MCCommandLines
    Valid <- MCValid
    Key <- MCKey
SPECIFICATION CommandSpec
CHECK_DEADLOCK FALSE
INVARIANTS FlagsPassToStrings
