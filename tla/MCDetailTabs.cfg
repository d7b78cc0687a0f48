SPECIFICATION Spec
CONSTANTS
    s1 = s1
    r1 = r1
    Resources <- MCResources
    Secrets <- MCSecrets
    NIL = nil
    MaxVersion = 2
    MaxRequest = 2
    MaxGeneration = 2
CHECK_DEADLOCK FALSE
INVARIANTS
    DetailTypeOK
    LoadingIsCarried
    AnswersAreFresh
    EntriesMatchSource
PROPERTY
    EditsSurvive
