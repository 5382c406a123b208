CONSTANTS
    MaxUrbs <- MCMaxUrbs
    DrvDevs <- MCDrvDevs
    Binding <- MCBinding
    LocalIds <- MCLocalIds
    Shapes = {"fit", "outBig"}
SPECIFICATION Spec
INVARIANT TypeOK
INVARIANT SingleCopy
INVARIANT FramesInSubmitOrder
INVARIANT CancelledNeverRun
PROPERTY FitFetched
PROPERTY ForwardedAnswered
