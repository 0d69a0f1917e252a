SPECIFICATION Spec
CONSTANTS
    JsonTexts <- MCJsonTexts
    JsonValues <- MCJsonValues
    JsonMembers <- MCJsonMembers
    UrlStrings <- MCUrlStrings
    JsonStrings <- MCStrings
    HttpRequests <- MCHttpRequests
    MessageLengths <- MCMessageLengths
    CommandLines <- MCCommandLines
    Defined <- MCDefined
    Definition <- MCDefinition
    Numbers = {"1", "8080"}
    ConfigFiles <- MCConfigFiles
INVARIANTS TypeOK JsonRoundTrip TextsRestored HttpPartsFound ArgumentsResolved FramesRead
PROPERTY JsonReturns
CHECK_DEADLOCK FALSE
