SPECIFICATION Spec
INVARIANT OfferIsForTheFile
CONSTANTS
    Files = {f, g}
    MaxClicks = 2
    MaxCalls = 1
