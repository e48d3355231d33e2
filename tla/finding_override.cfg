SPECIFICATION Spec
CONSTANTS
    Verbs = {"GET", "HEAD", "CONNECT", "PATCH"}
    Texts <- SmallTexts
    Paths <- AllPaths
    Uris <- SmallUris
    Callbacks = {f, g}
    MaxRoutes = 2
PROPERTY RoutesCanBeOverridden
