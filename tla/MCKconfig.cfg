SPECIFICATION Spec
CONSTANTS
    Languages <- Langs
    Texts <- Answers
    Packages <- PackageNames
    Configs <- Found
    Releases <- Steps
    NoFile = NoFile
    MaxRuns = 3
    MaxKills = 1
INVARIANTS
    TypeOK
    Solved
    Reproduces
PROPERTIES
    AutoFresh
    Ends
