CONSTANTS
    maxSessionNameLen = 32
    shortIDLen = 6
    MaxLen = 30
    Char <- MCChar
    InvalidChar <- MCInvalidChar
    Dash <- MCDash
    Underscore <- MCUnderscore
    Containers <- MCContainers
    \* Two letters tell a name from another one.
    Slash = "/"
    Colon = ":"
    Letter = {"x", "y"}
    MaxValueLen = 6
    MaxSubpathLen = 4
    MaxFormat = 6
    MaxPattern = 6
    MaxString = 6
    Documents <- MCDocuments
    Number <- MCNumber
    NormalForm <- MCNormalForm
    WellFormed = {"%Msg", "%Date %Msg"}
    Predefined = {"std:fast", "std:json"}
    Receivers = {"pager", "refusing"}
    Refusing = {"refusing"}
    Applications <- MCAllApplications
    CommandLines <- MCCommandLines
    Valid <- MCValid
    Key <- MCKey
SPECIFICATION TextsSpec
CHECK_DEADLOCK FALSE
INVARIANTS TextsTypeOK NameFits NameIsFull NamesShareFairly NamesServed NearestFormat SilentOnlyIfOff FormatTakenApart MatchesAsMeant CommandLineRead
