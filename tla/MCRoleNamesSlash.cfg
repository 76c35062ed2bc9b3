CONSTANTS
    x = x y = y
    Slash = Slash Colon = Colon
    Letter = {x, y}
    MaxValueLen = 5
    MaxSubpathLen = 3
SPECIFICATION RoleSpec
INVARIANTS
    SlashAndRestIgnored
CHECK_DEADLOCK FALSE
