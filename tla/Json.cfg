SPECIFICATION ParserSpec
CONSTANTS
    Label = {a, b}
    NoLabel = NoLabel
    MaxToks = 5
    Guides <- MCGuides
SYMMETRY LabelSymmetry
INVARIANTS
    TokensAreTree
    NextSkipsSubtree
    LookupsFind
PROPERTIES
    ImplementsNesting
