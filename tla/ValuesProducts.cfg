CONSTANTS
    ByteBits = 1
    Programs <- MCPrograms
SPECIFICATION Spec

PROPERTY SignedProductsExact
