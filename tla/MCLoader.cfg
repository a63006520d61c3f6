\* Two pages of two rows for three cells; look-ups at any time.
CONSTANTS
    ARRAY_COUNT = 3
    MaxRows = 4
    Pages = 2
    PageRows = 2
    WholeMin = 1
    WholeMax = 1
    Keys <- MCKeys
    RowTexts <- MCRowTexts
    PhoneTexts <- MCPhoneTexts
SPECIFICATION LoaderFairSpec
INVARIANTS
    LoaderTypeOK
    OwnPlace
    SettledLookup
    LoadedPlaceFound
PROPERTY
    LoaderEnds
