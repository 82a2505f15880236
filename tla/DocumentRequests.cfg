SPECIFICATION Spec
CONSTANTS
    Strings <- MCStrings
    Scalars <- MCScalars
    StringValue <- MCStringValue
    Spelling <- MCSpelling
    Canonical <- MCCanonical
    Numeral <- MCNumeral
    RefKey <- MCRefKey
    Fragment <- MCFragment
    WithColon <- MCWithColon
    WithSeparator <- MCWithSeparator
    Urls <- MCUrls
    HexDigits <- MCHexDigits
    JunkWidths <- MCJunkWidths
    Options <- MCOptions
    Texts <- MCTexts
INVARIANT FormatKeepsTokens
INVARIANT Settles
INVARIANT SortKeepsMeaning
INVARIANT IndentPreserved
INVARIANT WritesTheSymbols
INVARIANT ErrorsReported
INVARIANT LossIsWarned
INVARIANT PathsLead
INVARIANT DefinitionsFound
INVARIANT CompletionFits
INVARIANT ColorsKept
PROPERTY SymbolsAnswered
