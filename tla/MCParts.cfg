CONSTANTS
    Bufs = {b1, b2, b3}
    Clients = {c1, c2}
    Pictures = {p1, p2}
    Lengths = {1, 2}
    MPlane = FALSE
SPECIFICATION Spec
SYMMETRY Symmetry
INVARIANTS
    TypeOK
    PictureStays
    LengthIsPictures
