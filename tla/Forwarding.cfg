SPECIFICATION ForwardingSpec
CHECK_DEADLOCK FALSE
CONSTANTS
    Characters = {"/", "a", "b"}
    Slash = "/"
    Paths <- MCPaths
    PathPrefixes <- MCPrefixes
    MaxRoutes = 2
    IdCharacters = {"-", "0", "c", "d", "e", "f"}
    Dash = "-"
    Zero = "0"
    HexWidth = 2
    RequestIds <- MCRequestIds
    ClientTraces <- MCClientTraces
    RandomTraces <- MCRandomTraces
    MaxHops = 3
INVARIANTS
    MostSpecificWins
    UpstreamPathIsPath
    TraceContinues
    
