\* Spellings of one word: two clients, three requests, one resolution.
SPECIFICATION Spec
CONSTANTS
    c1 = c1
    c2 = c2
    Words = {"figma"}
    Blank = "blank"
    Clients = {c1, c2}
    Resolvers = {"run"}
    MaxRequests = 3
    None = None
SYMMETRY MCSymmetry
INVARIANTS
    TypeOK
    OneRowPerKey
    CreationsAreAudited
    ResolutionWasTrue
CHECK_DEADLOCK FALSE
