\* Is a position that is not found forwarded as it came?
CONSTANTS
    ARRAY_COUNT = 3
    MaxRows = 4
    Pages = 2
    PageRows = 2
    WholeMin = 1
    WholeMax = 1
    Keys <- MCKeys
    RowTexts <- MCRowTexts
    PhoneTexts <- MCPhoneTexts
SPECIFICATION LoaderSpec
INVARIANT NotFoundOriginal
