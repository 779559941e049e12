SPECIFICATION Spec
CONSTANTS
    Token <- Words
    Name <- Names
    Tree <- Trees
    BuildConfig <- Builds
    ServerConfig <- Servers
    publicDir <- Root
    DotNames <- Dots
    wellKnown = ".well-known"
    builtIn <- Html
    Extension <- Spelling
    Encoding <- Escapes
INVARIANTS
    TypeOK
    ListsWhatIsWanted
    ServedIffSpelledAlike
    FriendlyUrls
CHECK_DEADLOCK FALSE
