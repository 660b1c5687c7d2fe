SPECIFICATION Spec
CONSTANTS
    ImageFile <- MCImageFile
    MediaFile <- MCMediaFile
INVARIANTS
    PlanKeepsItsPromise
    OfferIsHonest
CHECK_DEADLOCK FALSE
