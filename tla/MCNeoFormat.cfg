SPECIFICATION Spec
CONSTANTS
    FORMATS <- MCFormats
    CAPS = {0, 1, 4}
    STARS <- MCStars
    NUMBERS <- MCNumbers
    STRINGS <- MCStrings
    INT_BITS = 8
    LL_BITS = 10
    PTR_DIGITS = 2
INVARIANTS PrintsC99 TruncatesC99
CHECK_DEADLOCK FALSE
