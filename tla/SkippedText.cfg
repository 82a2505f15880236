SPECIFICATION Spec
CONSTANTS
    Strings <- MCStrings
    Scalars <- MCScalars
    StringValue <- MCStringValue
    Spelling <- MCSpelling
    Canonical <- MCCanonical
    Numeral <- MCNumeral
    RefKey <- MCRefKey
    Fragment <- MCFragment
    WithColon <- MCWithColon
    WithSeparator <- MCWithSeparator
    Urls <- MCUrls
    HexDigits <- MCHexDigits
    JunkWidths <- Wide
    Options <- MCOptions
    Texts <- SkippedTexts
INVARIANT ErrorsDescribed
