CONSTANTS
    one = one
    two = two
    Tasks = {one, two}
    Slots = 1
    Mixes <- MCMixes
SPECIFICATION FairSpec
INVARIANTS
    TypeOK
    ChildrenAreOwned
    AnswersAreHonest
PROPERTIES
    RequestsAreAnswered
