CONSTANTS
    IntMax = 99
    DecimalPlaces = 2
    LongMax = 9999
    ExponentMax = 3
    K <- MCK
    ProtocolVersion <- MCVersion
    Texts <- MCUriTexts
    LengthCount = 8
    FileScheme <- MCFile
    MetaModels <- MCMetaModels
    Messages <- MCMessages
    Batches <- MCBatches
    Scalars <- MCScalars
    Depth = 2
    Inputs <- MCInputs
    ForeignMessages <- MCForeignMessages
    ForeignResults <- MCForeignResults
SPECIFICATION WireSpec
INVARIANTS
    ParserTypeOK
    ParsedAsGrammar
    PointersStable
    SentIsReceived
    ForwardedUnchanged
    DefinedBeforeUse
PROPERTIES
    ParsingProgresses
    ImplementsUri
