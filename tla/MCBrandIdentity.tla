-------------------------- MODULE MCBrandIdentity --------------------------
\* Instances of BrandIdentity for TLC: three names, two of which have the same key,
\* and the database cannot find one of these.
EXTENDS BrandIdentity, TLC

CONSTANTS pars, parsOdd, arvan, kPars, kArvan, d1, d2, d3, r1, r2

MCNameKey == pars :> kPars @@ parsOdd :> kPars @@ arvan :> kArvan

Symmetry == Permutations(Domains) \cup Permutations(Runs)

=============================================================================
