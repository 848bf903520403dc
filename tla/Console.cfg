SPECIFICATION ConsoleSpec
CONSTANTS
    VGA_WIDTH = 2
    VGA_HEIGHT = 3
    Byte = 3
    IrqTU = {shell, security}
    BarTU = {shell}
    kernel_main = kernel_main
INVARIANTS
    CursorInContent
PROPERTIES
    BarRowReserved
