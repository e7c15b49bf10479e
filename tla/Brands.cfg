SPECIFICATION Spec
CONSTANTS
    pars = pars
    parsOdd = parsOdd
    arvan = arvan
    kPars = kPars
    kArvan = kArvan
    d1 = d1
    d2 = d2
    d3 = d3
    r1 = r1
    r2 = r2
    Names = {pars, parsOdd, arvan}
    Keys = {kPars, kArvan}
    NameKey <- MCNameKey
    Odd = {parsOdd}
    Domains = {d1, d2, d3}
    Runs = {r1, r2}
    MinRank = 1
    MaxRank = 2
    MaxBrands = 3
SYMMETRY Symmetry
INVARIANTS
    Attributable
    LinksSound
PROPERTIES
    MentionsFollow
    LinksFollow
