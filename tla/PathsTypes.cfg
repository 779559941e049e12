SPECIFICATION Spec
CONSTANTS
    Token <- Words
    Name <- Names
    Tree <- Trees
    BuildConfig <- CustomType
    ServerConfig <- Servers
    publicDir <- Root
    DotNames <- Dots
    wellKnown = ".well-known"
    builtIn <- Html
    Extension <- Spelling
    Encoding <- Escapes
INVARIANTS
    CustomTypesFirst
CHECK_DEADLOCK FALSE
