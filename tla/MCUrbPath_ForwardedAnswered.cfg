CONSTANTS
    MaxUrbs <- MCMaxUrbs
    DrvDevs <- MCDrvDevs
    Binding <- MCBinding
    LocalIds <- MCLocalIds
    Shapes = {"fit", "inBig"}
SPECIFICATION Spec
PROPERTY ForwardedAnswered
