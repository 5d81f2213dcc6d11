SPECIFICATION FairSpec
CONSTANTS
    fallback = fallback
    shifted = shifted
    atOrigin = atOrigin
    overlapping = overlapping
    none = none
    Layout <- MCLayout
    ValidLayout <- MCValidLayout
    Normal <- MCNormal
    NoLayout = none
    MaxDepth = 1
PROPERTY FallbackRestoresKept
