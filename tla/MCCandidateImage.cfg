SPECIFICATION Spec
CONSTANTS
    Capacity = 2
    PackPages = 2
    PageBytes = 2
    NodeBytes = 0
    Values = {7}
    Scenarios <- MCScenarios
INVARIANTS
    OverlayIsFile
    ResolvesToPublished
    ReaderAgrees
    ImageStored
