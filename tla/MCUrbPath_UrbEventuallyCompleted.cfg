CONSTANTS
    MaxUrbs <- MCMaxUrbs
    DrvDevs <- MCDrvDevs
    Binding <- MCBinding
    LocalIds <- MCLocalIds
    Shapes = {"fit"}
SPECIFICATION Spec
PROPERTY UrbEventuallyCompleted
