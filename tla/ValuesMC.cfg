CONSTANTS
    ByteBits = 1
    Programs <- MCPrograms
SPECIFICATION Spec
PROPERTIES ProductsExact InstructionsAgree StoresKeepNumbers
