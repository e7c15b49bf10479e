------------------------- MODULE BrandIdentityProofs -------------------------
(***************************************************************************)
(* Types, unambiguous identities and sound links of BrandIdentity, and     *)
(* what a merge does to mentions and links, for any number of names,       *)
(* domains, runs and brands.                                               *)
(***************************************************************************)
EXTENDS BrandIdentity, FiniteSetTheorems, WellFoundedInduction, TLAPS

(***************************************************************************)
(* Types                                                                   *)
(***************************************************************************)
LEMMA OpenTx ==
    ASSUME TypeOK, tx.open
    PROVE  tx \in [open : {TRUE}, run : Runs, brands : SUBSET Brand, links : SUBSET RunBrand]
<1>1. tx # NoTx
    BY DEF NoTx
<1> QED
    BY <1>1 DEF TypeOK

LEMMA LinkTypes ==
    ASSUME TypeOK, tx.open, NEW i \in Nat, NEW k \in Ranks, Link(i, k)
    PROVE  links' \subseteq RunBrand
<1>1. tx.run \in Runs
    BY OpenTx
<1> QED
    BY <1>1 DEF TypeOK, Link, RunBrand

\* What stands for a mention are ids of brands and of aliases.
LEMMA CandidatesAreIds ==
    ASSUME TypeOK, NEW n \in Names, NEW d \in Domains
    PROVE  Candidates(n, d) \subseteq Nat
<1>1. ByName(n) \subseteq Nat
    BY DEF TypeOK, ByName, Ids, Brand, NameAlias
<1>2. ByDomain(d) \subseteq Nat
    BY DEF TypeOK, ByDomain, Ids, Brand, DomainAlias
<1> QED
    BY <1>1, <1>2 DEF Candidates

LEMMA TakenTypes ==
    ASSUME TypeOK, NEW c \in brands, NEW S \in SUBSET brands
    PROVE  TakenKeys(c, S) \subseteq Keys /\ TakenDomains(c, S) \subseteq Domains
BY BrandAssumption DEF TypeOK, TakenKeys, TakenDomains, Key, Brand, NameAlias, DomainAlias

LEMMA TypesStep == TypeOK /\ [Next]_vars => TypeOK'
<1> SUFFICES ASSUME TypeOK, [Next]_vars PROVE TypeOK'
    OBVIOUS
<1>1. ASSUME NEW r \in Runs, Begin(r) PROVE TypeOK'
    BY <1>1 DEF TypeOK, Begin, NoTx
<1>2. ASSUME NEW n \in Names, NEW d \in Domains, NEW k \in Ranks, Mention(n, d, k)
      PROVE  TypeOK'
    <2>1. links' \subseteq RunBrand
        BY <1>2, LinkTypes, CandidatesAreIds DEF Mention, TypeOK
    <2>2. brands' \subseteq Brand /\ next' \in Nat
        BY <1>2 DEF Mention, TypeOK, Brand
    <2> QED
        BY <1>2, <2>1, <2>2 DEF Mention, TypeOK
<1>3. ASSUME Commit \/ Rollback PROVE TypeOK'
    BY <1>3, OpenTx DEF TypeOK, Commit, Rollback
<1>4. ASSUME NEW c \in brands, NEW S \in SUBSET brands, Merge(c, S) PROVE TypeOK'
    <2>1. c.id \in Nat
        BY DEF TypeOK, Brand
    <2>2. names' \subseteq NameAlias /\ domains' \subseteq DomainAlias
        <3>1. \A k \in TakenKeys(c, S) : [key |-> k, brand |-> c.id] \in NameAlias
            BY <2>1, TakenTypes DEF NameAlias
        <3>2. \A d \in TakenDomains(c, S) : [domain |-> d, brand |-> c.id] \in DomainAlias
            BY <2>1, TakenTypes DEF DomainAlias
        <3>3. names \subseteq NameAlias /\ domains \subseteq DomainAlias
            BY DEF TypeOK
        <3> QED
            BY <1>4, <3>1, <3>2, <3>3 DEF Merge
    <2>3. links' \subseteq RunBrand
        BY <1>4, <2>1 DEF Merge, TypeOK, RunBrand
    <2> QED
        BY <1>4, <2>2, <2>3 DEF Merge, TypeOK
<1>5. CASE UNCHANGED vars
    BY <1>5 DEF vars, TypeOK
<1> QED
    BY <1>1, <1>2, <1>3, <1>4, <1>5 DEF Next

\* Type correctness of the brand tables and of the transaction (TypeOK).
THEOREM BrandTypes == Spec => []TypeOK
<1>1. Init => TypeOK
    BY DEF Init, TypeOK, NoTx
<1> QED
    BY <1>1, TypesStep, PTL DEF Spec

(***************************************************************************)
(* Who owns a name or a domain                                             *)
(***************************************************************************)
\* Ids are given once, and aliases belong to brands, also after a rollback.
IdsUnique ==
    /\ \A a, b \in brands : a.id = b.id => a = b
    /\ \A b \in brands : b.id < next
AliasesOwned ==
    /\ \A a \in names : a.brand \in Ids(brands)
    /\ \A a \in domains : a.brand \in Ids(brands)

\* A domain has one brand or alias, or both of the same brand.
DomainsApart ==
    /\ \A a, b \in brands : a.domain = b.domain => a = b
    /\ \A a, b \in domains : a.domain = b.domain => a = b
    /\ \A a \in domains, b \in brands : a.domain = b.domain => a.brand = b.id

\* So has a name, except for the brands whose names the database cannot find: several
\* may have the same key, but not beside an alias of another brand.
NamesApart ==
    /\ \A a, b \in brands : a.name \notin Odd /\ b.name \notin Odd /\ Key(a) = Key(b) => a = b
    /\ \A a, b \in names : a.key = b.key => a = b
    /\ \A a \in names, b \in brands : a.key = Key(b) => a.brand = b.id

\* What a rollback restores is part of what there is, and the aliases' brands are in it.
Restorable ==
    tx.open =>
        /\ tx.brands \subseteq brands
        /\ \A a \in names : a.brand \in Ids(tx.brands)
        /\ \A a \in domains : a.brand \in Ids(tx.brands)
        /\ \A l \in tx.links : l.brand \in Ids(tx.brands)
        /\ \A l, m \in tx.links : l.run = m.run /\ l.brand = m.brand => l = m

Inv == TypeOK /\ IdsUnique /\ AliasesOwned /\ DomainsApart /\ NamesApart /\ LinksSound /\ Restorable

\* The brands whose stored name the database finds.
Stored(n) == Ids({b \in brands : b.name \notin Odd /\ Key(b) = NameKey[n]})
Aliased(n) == {a.brand : a \in {x \in names : x.key = NameKey[n]}}

\* There is at most one stored brand of a name, so it is the first.
LEMMA ByNameAll ==
    ASSUME TypeOK, NamesApart, NEW n \in Names
    PROVE  ByName(n) = Aliased(n) \cup Stored(n)
<1>1. \A i, j \in Stored(n) : i = j
    BY DEF NamesApart, Stored, Ids
<1>2. Stored(n) \subseteq Nat
    BY DEF TypeOK, Stored, Ids, Brand
<1>3. {i \in Stored(n) : \A j \in Stored(n) : i <= j} = Stored(n)
    BY <1>1, <1>2
<1> QED
    BY <1>3 DEF ByName, Aliased, Stored

LEMMA OneOwner ==
    ASSUME TypeOK, DomainsApart, NamesApart
    PROVE  Attributable
<1>1. ASSUME NEW n \in Names, NEW i \in ByName(n), NEW j \in ByName(n) PROVE i = j
    BY <1>1, ByNameAll DEF NamesApart, Aliased, Stored, Ids
<1>2. ASSUME NEW d \in Domains, NEW i \in ByDomain(d), NEW j \in ByDomain(d) PROVE i = j
    BY <1>2 DEF DomainsApart, ByDomain, Ids
<1> QED
    BY <1>1, <1>2 DEF Attributable

\* Then the domain decides if it is known, and the name otherwise.
LEMMA CandidatesOf ==
    ASSUME Attributable, NEW n \in Names, NEW d \in Domains
    PROVE  Candidates(n, d) = IF ByDomain(d) = {} THEN ByName(n) ELSE ByDomain(d)
<1>1. CASE Cardinality(ByDomain(d) \cap ByName(n)) = 1
    <2>1. ByDomain(d) \cap ByName(n) # {}
        BY <1>1, FS_EmptySet
    <2>2. ByDomain(d) \cap ByName(n) = ByDomain(d)
        BY <2>1 DEF Attributable
    <2> QED
        BY <2>2 DEF Candidates
<1>2. CASE Cardinality(ByDomain(d) \cap ByName(n)) # 1
    BY <1>2 DEF Candidates
<1> QED
    BY <1>1, <1>2

(***************************************************************************)
(* The invariant                                                           *)
(***************************************************************************)
\* A new brand meets no alias and no brand the database finds under its name or domain.
LEMMA NewIsFree ==
    ASSUME Inv, NEW n \in Names, NEW d \in Domains, Candidates(n, d) = {}
    PROVE  /\ \A b \in brands : b.domain # d
           /\ \A a \in domains : a.domain # d
           /\ \A b \in brands : b.name \notin Odd => Key(b) # NameKey[n]
           /\ \A a \in names : a.key # NameKey[n]
<1>1. ByDomain(d) = {} /\ ByName(n) = {}
    BY OneOwner, CandidatesOf DEF Inv
<1>2. Aliased(n) = {} /\ Stored(n) = {}
    BY <1>1, ByNameAll DEF Inv
<1> QED
    BY <1>1, <1>2 DEF ByDomain, Aliased, Stored, Ids

\* A link to a brand that exists, and one per brand.
LEMMA LinkSound ==
    ASSUME TypeOK, LinksSound, tx.open, NEW i \in Nat, NEW k \in Ranks, Link(i, k),
           brands \subseteq brands', i \in Ids(brands')
    PROVE  LinksSound'
<1> DEFINE mine == {l \in links : l.run = tx.run /\ l.brand = i}
           new == [run |-> tx.run, brand |-> i, rank |-> k]
<1>1. links' = links \/ links' = (links \ mine) \cup {new}
    BY DEF Link
<1>2. \A l \in links : l.brand \in Ids(brands')
    BY DEF LinksSound, Ids
<1>3. CASE links' = (links \ mine) \cup {new}
    <2>1. new.run = tx.run /\ new.brand = i
        OBVIOUS
    <2>2. \A l \in links' : l.brand \in Ids(brands')
        BY <1>2, <1>3, <2>1
    <2>3. ASSUME NEW l \in links', NEW m \in links', l.run = m.run, l.brand = m.brand
          PROVE  l = m
        <3> HIDE DEF new
        <3>1. \A x \in links \ mine : ~(x.run = tx.run /\ x.brand = i)
            OBVIOUS
        <3> HIDE DEF mine
        <3> QED
            BY <1>3, <2>1, <2>3, <3>1 DEF LinksSound
    <2> QED
        BY <2>2, <2>3 DEF LinksSound
<1>4. CASE links' = links
    BY <1>2, <1>4 DEF LinksSound
<1> QED
    BY <1>1, <1>3, <1>4

LEMMA BeginStep == ASSUME Inv, NEW r \in Runs, Begin(r) PROVE Inv'
<1>1. TypeOK'
    BY TypesStep DEF Next, Inv
<1>2. IdsUnique' /\ AliasesOwned' /\ DomainsApart' /\ NamesApart'
    BY DEF Begin, Inv, IdsUnique, AliasesOwned, DomainsApart, NamesApart, Key
<1>3. LinksSound'
    BY DEF Begin, Inv, LinksSound
<1>4. Restorable'
    BY DEF Begin, Inv, LinksSound, Restorable, AliasesOwned
<1> QED
    BY <1>1, <1>2, <1>3, <1>4 DEF Inv

LEMMA MentionStep ==
    ASSUME Inv, NEW n \in Names, NEW d \in Domains, NEW k \in Ranks, Mention(n, d, k)
    PROVE  Inv'
<1>1. TypeOK'
    BY TypesStep DEF Next, Inv
<1>2. CASE \E i \in Candidates(n, d) : Link(i, k) /\ UNCHANGED <<brands, next>>
    <2>1. PICK i \in Candidates(n, d) : Link(i, k) /\ UNCHANGED <<brands, next>>
        BY <1>2
    <2>2. i \in Ids(brands)
        <3>1. i \in ByDomain(d) \/ i \in ByName(n)
            BY OneOwner, CandidatesOf DEF Inv
        <3>2. i \in ByDomain(d) => i \in Ids(brands)
            BY DEF Inv, AliasesOwned, ByDomain, Ids
        <3>3. i \in ByName(n) => i \in Ids(brands)
            BY DEF Inv, AliasesOwned, ByName, Ids
        <3> QED
            BY <3>1, <3>2, <3>3
    <2>3. LinksSound'
        BY <2>1, <2>2, LinkSound, CandidatesAreIds DEF Mention, Inv
    <2>4. IdsUnique' /\ AliasesOwned' /\ DomainsApart' /\ NamesApart' /\ Restorable'
        BY <2>1 DEF Mention, Inv, IdsUnique, AliasesOwned, DomainsApart, NamesApart, Key, Restorable
    <2> QED
        BY <1>1, <2>3, <2>4 DEF Inv
<1>3. CASE /\ Candidates(n, d) = {}
           /\ brands' = brands \cup {[id |-> next, name |-> n, domain |-> d]}
           /\ next' = next + 1
           /\ Link(next, k)
    <2> DEFINE new == [id |-> next, name |-> n, domain |-> d]
    <2>1. /\ \A b \in brands : b.domain # d
          /\ \A a \in domains : a.domain # d
          /\ \A b \in brands : b.name \notin Odd => Key(b) # NameKey[n]
          /\ \A a \in names : a.key # NameKey[n]
        BY <1>3, NewIsFree
    <2>2. /\ new.id = next /\ new.domain = d /\ new.name = n /\ Key(new) = NameKey[n]
          /\ brands' = brands \cup {new}
        BY <1>3 DEF Key
    <2>3. next \in Nat /\ \A b \in brands : b.id \in Nat
        BY DEF Inv, TypeOK, Brand
    <2> HIDE DEF new
    <2>4. IdsUnique'
        BY <1>3, <2>2, <2>3 DEF Inv, IdsUnique
    <2>5. AliasesOwned' /\ Restorable'
        BY <2>2 DEF Mention, Inv, AliasesOwned, Restorable, Ids
    <2>6. DomainsApart'
        BY <2>1, <2>2 DEF Mention, Inv, DomainsApart
    <2>7. NamesApart'
        BY <2>1, <2>2 DEF Mention, Inv, NamesApart, Key
    <2>8. LinksSound'
        <3>1. next \in Ids(brands')
            BY <2>2 DEF Ids
        <3> QED
            BY <1>3, <2>2, <2>3, <3>1, LinkSound DEF Mention, Inv
    <2> QED
        BY <1>1, <2>4, <2>5, <2>6, <2>7, <2>8 DEF Inv
<1> QED
    BY <1>2, <1>3 DEF Mention

LEMMA EndStep == ASSUME Inv, Commit \/ Rollback PROVE Inv'
<1>1. TypeOK'
    BY TypesStep DEF Next, Inv
<1>2. ~tx'.open /\ brands' \subseteq brands /\ UNCHANGED <<names, domains, next>>
    BY DEF Commit, Rollback, Inv, Restorable, NoTx
<1>3. IdsUnique' /\ DomainsApart'
    BY <1>2 DEF Inv, IdsUnique, DomainsApart
<1>4. NamesApart'
    BY <1>2 DEF Inv, NamesApart, Key
<1>5. AliasesOwned' /\ LinksSound'
    BY DEF Commit, Rollback, Inv, Restorable, AliasesOwned, LinksSound, Ids
<1> QED
    BY <1>1, <1>2, <1>3, <1>4, <1>5 DEF Inv, Restorable

(***************************************************************************)
(* Merges                                                                  *)
(***************************************************************************)
\* What passes to the canonical brand belongs to nobody outside of the merge.
LEMMA TakenIsFree ==
    ASSUME Inv, NEW c \in brands, NEW S \in SUBSET brands, Merge(c, S)
    PROVE  /\ \A k \in TakenKeys(c, S) :
                 /\ \A b \in brands' : Key(b) # k
                 /\ \A a \in names : a.key = k => a.brand \in Ids(S \cup {c})
           /\ \A d \in TakenDomains(c, S) :
                 /\ \A b \in brands' : b.domain # d
                 /\ \A a \in domains : a.domain = d => a.brand \in Ids(S \cup {c})
<1>1. ~Conflict(c, S) /\ brands' = brands \ S
    BY DEF Merge
<1>2. ASSUME NEW k \in TakenKeys(c, S)
      PROVE  /\ \A b \in brands' : Key(b) # k
             /\ \A a \in names : a.key = k => a.brand \in Ids(S \cup {c})
    <2>1. k # Key(c)
        BY DEF TakenKeys
    <2>2. \A b \in brands \ (S \cup {c}) : Key(b) # k
        BY <1>1 DEF Conflict
    <2>3. \A a \in names : a.key = k => a.brand \in Ids(S \cup {c})
        BY <1>1 DEF Conflict
    <2> QED
        BY <1>1, <2>1, <2>2, <2>3
<1>3. ASSUME NEW d \in TakenDomains(c, S)
      PROVE  /\ \A b \in brands' : b.domain # d
             /\ \A a \in domains : a.domain = d => a.brand \in Ids(S \cup {c})
    <2>1. d # c.domain
        BY DEF TakenDomains
    <2>2. \A b \in brands \ (S \cup {c}) : b.domain # d
        BY <1>1 DEF Conflict
    <2>3. \A a \in domains : a.domain = d => a.brand \in Ids(S \cup {c})
        BY <1>1 DEF Conflict
    <2> QED
        BY <1>1, <2>1, <2>2, <2>3
<1> QED
    BY <1>2, <1>3

\* Ids tell the merged brands from the others.
LEMMA MergedIds ==
    ASSUME Inv, NEW S \in SUBSET brands, NEW b \in brands
    PROVE  b.id \in Ids(S) <=> b \in S
BY DEF Inv, IdsUnique, Ids

\* Of the links of a run to the brands of a merge there is a best one.
Smaller == {p \in Nat \X Nat : p[1] < p[2]}

LEMMA SmallerWellFounded == IsWellFoundedOn(Smaller, Nat)
<1>1. OpToRel(<, Nat) = Smaller
    BY DEF OpToRel, Smaller
<1> QED
    BY <1>1, NatLessThanWellFounded

LEMMA LeastNatural ==
    ASSUME NEW T \in SUBSET Nat, T # {}
    PROVE  \E x \in T : \A y \in T : x <= y
<1>1. PICK x \in T : \A y \in T : <<y, x>> \notin Smaller
    BY SmallerWellFounded, WFMin
<1>2. ASSUME NEW y \in T PROVE x <= y
    <2>1. <<y, x>> \in Nat \X Nat => ~(y < x)
        BY <1>1 DEF Smaller
    <2> QED
        BY <2>1
<1> QED
    BY <1>2

LEMMA BestExists ==
    ASSUME NEW L \in SUBSET RunBrand, NEW c, NEW l \in L
    PROVE  \E m \in L : m.run = l.run /\ m.rank <= l.rank /\ Best(L, c, m)
<1> DEFINE T == {m.rank - MinRank : m \in {x \in L : x.run = l.run}}
<1>1. MinRank \in Int /\ \A m \in L : m.rank \in Int /\ m.rank - MinRank \in Nat
    BY BrandAssumption DEF RunBrand, Ranks
<1>2. T \in SUBSET Nat /\ T # {}
    BY <1>1
<1>3. PICK x \in T : \A y \in T : x <= y
    BY <1>2, LeastNatural
<1>4. PICK m \in L : m.run = l.run /\ x = m.rank - MinRank
    OBVIOUS
<1>5. ASSUME NEW y \in L, y.run = l.run PROVE m.rank <= y.rank
    <2>1. y.rank - MinRank \in T
        BY <1>5
    <2>2. m.rank - MinRank <= y.rank - MinRank
        BY <1>3, <1>4, <2>1
    <2> QED
        BY <1>1, <2>2
<1> QED
    BY <1>4, <1>5 DEF Best

LEMMA MergeStep ==
    ASSUME Inv, NEW c \in brands, NEW S \in SUBSET brands, Merge(c, S)
    PROVE  Inv'
<1>1. TypeOK'
    BY TypesStep DEF Next, Inv
<1>2. /\ brands' = brands \ S /\ c \in brands' /\ next' = next /\ tx' = tx /\ ~tx.open
      /\ c.id \in Ids(brands')
    BY DEF Merge, Ids
<1>3. \A a : a.brand \in Ids(brands) /\ a.brand \notin Ids(S) => a.brand \in Ids(brands')
    BY <1>2 DEF Ids
<1>4. IdsUnique' /\ Restorable'
    BY <1>2 DEF Inv, IdsUnique, Restorable
<1> DEFINE newName(k) == [key |-> k, brand |-> c.id]
           newDomain(d) == [domain |-> d, brand |-> c.id]
<1>5. \A k : newName(k).key = k /\ newName(k).brand = c.id
    OBVIOUS
<1>6. \A d : newDomain(d).domain = d /\ newDomain(d).brand = c.id
    OBVIOUS
<1>7. /\ names' = {a \in names : a.brand \notin Ids(S)} \cup {newName(k) : k \in TakenKeys(c, S)}
      /\ domains' = {a \in domains : a.brand \notin Ids(S)}
                        \cup {newDomain(d) : d \in TakenDomains(c, S)}
    BY DEF Merge
<1> HIDE DEF newName, newDomain
<1>8. AliasesOwned'
    BY <1>2, <1>3, <1>5, <1>6, <1>7 DEF Inv, AliasesOwned
<1>9. \A a : a.brand \in Ids(S \cup {c}) /\ a.brand \notin Ids(S) => a.brand = c.id
    BY DEF Ids
<1>10. DomainsApart'
    <2>1. ASSUME NEW a \in domains', NEW b \in domains', a.domain = b.domain PROVE a = b
        <3>1. \/ a.brand = c.id /\ b.brand = c.id
              \/ a \in domains /\ b \in domains
            BY <1>6, <1>7, <1>9, <2>1, TakenIsFree
        <3>2. a \in DomainAlias /\ b \in DomainAlias
            BY <1>1 DEF TypeOK
        <3> QED
            BY <2>1, <3>1, <3>2 DEF Inv, DomainsApart, DomainAlias
    <2>2. ASSUME NEW a \in domains', NEW b \in brands', a.domain = b.domain PROVE a.brand = b.id
        <3>1. CASE a \in domains
            BY <1>2, <2>2, <3>1 DEF Inv, DomainsApart
        <3>2. ASSUME NEW d \in TakenDomains(c, S), a = newDomain(d) PROVE a.brand = b.id
            BY <1>6, <2>2, <3>2, TakenIsFree
        <3> QED
            BY <1>7, <3>1, <3>2
    <2> QED
        BY <1>2, <2>1, <2>2 DEF Inv, DomainsApart
<1>11. NamesApart'
    <2>1. ASSUME NEW a \in names', NEW b \in names', a.key = b.key PROVE a = b
        <3>1. \/ a.brand = c.id /\ b.brand = c.id
              \/ a \in names /\ b \in names
            BY <1>5, <1>7, <1>9, <2>1, TakenIsFree
        <3>2. a \in NameAlias /\ b \in NameAlias
            BY <1>1 DEF TypeOK
        <3> QED
            BY <2>1, <3>1, <3>2 DEF Inv, NamesApart, NameAlias
    <2>2. ASSUME NEW a \in names', NEW b \in brands', a.key = Key(b) PROVE a.brand = b.id
        <3>1. CASE a \in names
            BY <1>2, <2>2, <3>1 DEF Inv, NamesApart
        <3>2. ASSUME NEW k \in TakenKeys(c, S), a = newName(k) PROVE a.brand = b.id
            <4>1. Key(b) # k
                BY TakenIsFree
            <4>2. a.key = k
                BY <1>5, <3>2
            <4> QED
                BY <2>2, <4>1, <4>2
        <3> QED
            BY <1>7, <3>1, <3>2
    <2> QED
        BY <1>2, <2>1, <2>2 DEF Inv, NamesApart, Key
<1>12. LinksSound'
    <2> DEFINE L == {l \in links : l.brand \in Ids(S \cup {c})}
               moved(l) == [l EXCEPT !.brand = c.id]
    <2>1. links' = (links \ L) \cup {moved(l) : l \in {m \in L : Best(L, c, m)}}
        BY DEF Merge
    <2>2. ASSUME NEW l \in links PROVE /\ moved(l).run = l.run /\ moved(l).rank = l.rank
                                       /\ moved(l).brand = c.id
        BY DEF Inv, TypeOK, RunBrand
    <2>3. ASSUME NEW l \in L, NEW m \in L, Best(L, c, l), Best(L, c, m), l.run = m.run
          PROVE  moved(l) = moved(m)
        <3>1. l.rank = m.rank
            <4>1. l.rank \in Int /\ m.rank \in Int
                BY BrandAssumption DEF Inv, TypeOK, RunBrand, Ranks
            <4>2. l.rank <= m.rank /\ m.rank <= l.rank
                BY <2>3 DEF Best
            <4> QED
                BY <4>1, <4>2
        <3> QED
            BY <2>3, <3>1 DEF Inv, TypeOK, RunBrand
    <2>4. \A l \in links \ L : l.brand # c.id /\ l.brand \in Ids(brands')
        BY <1>2 DEF Inv, LinksSound, Ids
    <2> HIDE DEF moved, L
    <2>5. L \subseteq links
        BY DEF L
    <2>6. ASSUME NEW l \in links' PROVE l.brand \in Ids(brands')
        BY <1>2, <2>1, <2>2, <2>4, <2>5
    <2>7. ASSUME NEW l \in links', NEW m \in links', l.run = m.run, l.brand = m.brand
          PROVE  l = m
        <3>1. CASE l \in links \ L /\ m \in links \ L
            BY <2>7, <3>1 DEF Inv, LinksSound
        <3>2. ASSUME NEW x \in L, Best(L, c, x), l = moved(x) PROVE l = m
            <4>1. m \notin links \ L
                BY <2>2, <2>4, <2>5, <2>7, <3>2
            <4>2. PICK y \in L : Best(L, c, y) /\ m = moved(y)
                BY <2>1, <4>1
            <4>3. x.run = y.run
                BY <2>2, <2>5, <2>7, <3>2, <4>2
            <4> QED
                BY <2>3, <3>2, <4>2, <4>3
        <3>3. ASSUME NEW x \in L, Best(L, c, x), m = moved(x) PROVE l = m
            <4>1. l \notin links \ L
                BY <2>2, <2>4, <2>5, <2>7, <3>3
            <4> QED
                BY <2>1, <3>2, <4>1
        <3> QED
            BY <2>1, <3>1, <3>2, <3>3
    <2> QED
        BY <2>6, <2>7 DEF LinksSound
<1> QED
    BY <1>1, <1>4, <1>8, <1>10, <1>11, <1>12 DEF Inv

LEMMA InvStep == Inv /\ [Next]_vars => Inv'
<1> SUFFICES ASSUME Inv, [Next]_vars PROVE Inv'
    OBVIOUS
<1>1. CASE UNCHANGED vars
    <2>1. TypeOK' /\ IdsUnique' /\ AliasesOwned' /\ DomainsApart' /\ LinksSound'
        BY <1>1 DEF vars, Inv, TypeOK, IdsUnique, AliasesOwned, DomainsApart, LinksSound
    <2>2. NamesApart' /\ Restorable'
        BY <1>1 DEF vars, Inv, NamesApart, Key, Restorable
    <2> QED
        BY <2>1, <2>2 DEF Inv
<1> QED
    BY <1>1, BeginStep, MentionStep, EndStep, MergeStep DEF Next

LEMMA InvHolds == Spec => []Inv
<1>1. Init => Inv
    BY DEF Init, Inv, TypeOK, NoTx, IdsUnique, AliasesOwned, DomainsApart, NamesApart,
           LinksSound, Restorable
<1> QED
    BY <1>1, InvStep, PTL DEF Spec

\* No name and no domain ever has two owners (Attributable): the database's lookups find
\* one row and every mention stands for one brand.
THEOREM AttributableHolds == Spec => []Attributable
<1>1. Inv => Attributable
    BY OneOwner DEF Inv
<1> QED
    BY <1>1, InvHolds, PTL

\* Links are unique and their brands exist, through merges and rollbacks (LinksSound).
THEOREM LinksSoundHolds == Spec => []LinksSound
<1>1. Inv => LinksSound
    BY DEF Inv
<1> QED
    BY <1>1, InvHolds, PTL

(***************************************************************************)
(* What follows a merge                                                    *)
(***************************************************************************)
\* Outside of a persist brands, names and domains change in merges only.
LEMMA OnlyMerges ==
    ASSUME [Next]_vars, ~tx.open
    PROVE  \/ UNCHANGED <<brands, names, domains>>
           \/ \E c \in brands, S \in SUBSET brands : Merge(c, S)
BY DEF Next, Begin, Mention, Commit, Rollback, vars

LEMMA MergeGone ==
    ASSUME NEW c \in brands, NEW S \in SUBSET brands, Merge(c, S)
    PROVE  Gone = S /\ c \in brands' /\ brands' = brands \ S
BY DEF Merge, Gone

\* The links of a merge: every link is followed by one, every link follows one.
LEMMA MergeLinks ==
    ASSUME Inv, NEW c \in brands, NEW S \in SUBSET brands, Merge(c, S)
    PROVE  /\ \A l \in links : \E m \in links' :
                 /\ m.run = l.run /\ m.rank <= l.rank
                 /\ m.brand = (IF l.brand \in Ids(S) THEN c.id ELSE l.brand)
           /\ \A m \in links' : \E l \in links :
                 /\ l.run = m.run /\ l.rank = m.rank
                 /\ l.brand = m.brand \/ (m.brand = c.id /\ l.brand \in Ids(S))
<1> DEFINE L == {l \in links : l.brand \in Ids(S \cup {c})}
           moved(l) == [l EXCEPT !.brand = c.id]
<1>1. links' = (links \ L) \cup {moved(l) : l \in {m \in L : Best(L, c, m)}}
    BY DEF Merge
<1>2. ASSUME NEW l \in links PROVE /\ moved(l).run = l.run /\ moved(l).rank = l.rank
                                   /\ moved(l).brand = c.id
    BY DEF Inv, TypeOK, RunBrand
<1>3. \A l \in L : l.brand = c.id \/ l.brand \in Ids(S)
    BY DEF Ids
<1>4. \A l \in links \ L : l.brand \notin Ids(S)
    BY DEF Ids
<1>5. \A l \in L : l.brand \notin Ids(S) => l.brand = c.id
    BY <1>3
<1>6. L \subseteq links /\ L \in SUBSET RunBrand
    BY DEF Inv, TypeOK
<1> HIDE DEF L, moved
<1>7. ASSUME NEW l \in links
      PROVE  \E m \in links' : /\ m.run = l.run /\ m.rank <= l.rank
                               /\ m.brand = (IF l.brand \in Ids(S) THEN c.id ELSE l.brand)
    <2>1. CASE l \notin L
        <3>1. l \in links' /\ l.brand \notin Ids(S)
            BY <1>1, <1>4, <2>1
        <3>2. l.rank <= l.rank
            BY BrandAssumption DEF Inv, TypeOK, RunBrand, Ranks
        <3> QED
            BY <3>1, <3>2
    <2>2. CASE l \in L
        <3>1. PICK m \in L : m.run = l.run /\ m.rank <= l.rank /\ Best(L, c, m)
            BY <1>6, <2>2, BestExists
        <3>2. moved(m) \in links'
            BY <1>1, <3>1
        <3>3. /\ moved(m).run = l.run /\ moved(m).rank <= l.rank /\ moved(m).brand = c.id
            BY <1>2, <1>6, <3>1
        <3> QED
            BY <1>5, <2>2, <3>2, <3>3
    <2> QED
        BY <2>1, <2>2
<1>8. ASSUME NEW m \in links'
      PROVE  \E l \in links : /\ l.run = m.run /\ l.rank = m.rank
                              /\ l.brand = m.brand \/ (m.brand = c.id /\ l.brand \in Ids(S))
    <2>1. CASE m \in links
        BY <2>1
    <2>2. ASSUME NEW l \in L, m = moved(l)
          PROVE  \E x \in links : /\ x.run = m.run /\ x.rank = m.rank
                                  /\ x.brand = m.brand \/ (m.brand = c.id /\ x.brand \in Ids(S))
        BY <1>2, <1>3, <1>6, <2>2
    <2> QED
        BY <1>1, <2>1, <2>2
<1> QED
    BY <1>7, <1>8

\* A merge loses no run and worsens no rank (LinksFollow).
THEOREM LinksFollowHolds == Spec => LinksFollow
<1> DEFINE A == Gone # {} /\ ~tx.open =>
                    \E c \in brands' :
                        /\ \A l \in links : \E m \in links' :
                              /\ m.run = l.run /\ m.rank <= l.rank
                              /\ m.brand = (IF l.brand \in Ids(Gone) THEN c.id ELSE l.brand)
                        /\ \A m \in links' : \E l \in links :
                              /\ l.run = m.run /\ l.rank = m.rank
                              /\ l.brand = m.brand \/ (m.brand = c.id /\ l.brand \in Ids(Gone))
<1>1. Inv /\ [Next]_vars => A
    <2> SUFFICES ASSUME Inv, [Next]_vars, Gone # {}, ~tx.open
                 PROVE  \E c \in brands' :
                            /\ \A l \in links : \E m \in links' :
                                  /\ m.run = l.run /\ m.rank <= l.rank
                                  /\ m.brand = (IF l.brand \in Ids(Gone) THEN c.id ELSE l.brand)
                            /\ \A m \in links' : \E l \in links :
                                  /\ l.run = m.run /\ l.rank = m.rank
                                  /\ l.brand = m.brand
                                        \/ (m.brand = c.id /\ l.brand \in Ids(Gone))
        OBVIOUS
    <2>1. PICK c \in brands, S \in SUBSET brands : Merge(c, S)
        BY OnlyMerges DEF Gone
    <2> QED
        BY <2>1, MergeGone, MergeLinks
<1> QED
    BY <1>1, InvHolds, PTL DEF Spec, LinksFollow

\* A domain that nobody has is not given to anybody, one of another brand stays, and
\* one of a merged brand passes to the canonical.
LEMMA MergeDomains ==
    ASSUME Inv, Attributable', NEW c \in brands, NEW S \in SUBSET brands, Merge(c, S),
           NEW d \in Domains
    PROVE  /\ ByDomain(d) = {} => ByDomain(d)' = {}
           /\ \A b \in brands : ByDomain(d) = {b.id} =>
                 ByDomain(d)' = (IF b \in S THEN {c.id} ELSE {b.id})
<1>1. /\ brands' = brands \ S
      /\ domains' = {a \in domains : a.brand \notin Ids(S)}
                        \cup {[domain |-> x, brand |-> c.id] : x \in TakenDomains(c, S)}
    BY DEF Merge
<1>2. \A i, j \in ByDomain(d)' : i = j
    BY DEF Attributable
<1>3. ASSUME ByDomain(d) = {} PROVE ByDomain(d)' = {}
    <2>1. /\ \A b \in brands : b.domain # d
          /\ \A a \in domains : a.domain # d
        BY <1>3 DEF ByDomain, Ids
    <2>2. d \notin TakenDomains(c, S)
        BY <2>1 DEF TakenDomains
    <2> QED
        BY <1>1, <2>1, <2>2 DEF ByDomain, Ids
<1>4. ASSUME NEW b \in brands, ByDomain(d) = {b.id}, b \notin S PROVE b.id \in ByDomain(d)'
    <2>1. CASE \E a \in domains : a.domain = d /\ a.brand = b.id
        BY <1>1, <1>4, <2>1, MergedIds DEF ByDomain
    <2>2. CASE \E x \in brands : x.domain = d /\ x.id = b.id
        BY <1>1, <1>4, <2>2 DEF ByDomain, Ids, Inv, IdsUnique
    <2> QED
        BY <1>4, <2>1, <2>2 DEF ByDomain, Ids
<1>5. ASSUME NEW b \in brands, ByDomain(d) = {b.id}, b \in S PROVE c.id \in ByDomain(d)'
    <2>1. d = c.domain \/ d \in TakenDomains(c, S)
        <3>1. CASE \E a \in domains : a.domain = d /\ a.brand = b.id
            BY <1>5, <3>1, MergedIds DEF TakenDomains
        <3>2. CASE \E x \in brands : x.domain = d /\ x.id = b.id
            BY <1>5, <3>2 DEF TakenDomains, Inv, IdsUnique
        <3> QED
            BY <1>5, <3>1, <3>2 DEF ByDomain, Ids
    <2>2. CASE d = c.domain
        <3>1. c \in brands' /\ c.domain = d
            BY <2>2, MergeGone
        <3> QED
            BY <3>1 DEF ByDomain, Ids
    <2>3. CASE d \in TakenDomains(c, S)
        <3> DEFINE new == [domain |-> d, brand |-> c.id]
        <3>1. new \in domains' /\ new.domain = d /\ new.brand = c.id
            BY <1>1, <2>3
        <3> QED
            BY <3>1 DEF ByDomain
    <2> QED
        BY <2>1, <2>2, <2>3
<1> QED
    BY <1>2, <1>3, <1>4, <1>5

\* The same for names, unless the database cannot find the name of the canonical.
LEMMA MergeNames ==
    ASSUME Inv, Attributable', NEW c \in brands, NEW S \in SUBSET brands, Merge(c, S),
           NEW n \in Names
    PROVE  /\ \A b \in brands \ S : ByName(n) = {b.id} => ByName(n)' = {b.id}
           /\ \A b \in S : ByName(n) = {b.id} =>
                 \/ ByName(n)' = {c.id}
                 \/ c.name \in Odd /\ Key(c) = NameKey[n]
<1>1. /\ brands' = brands \ S /\ c \in brands'
      /\ names' = {a \in names : a.brand \notin Ids(S)}
                      \cup {[key |-> k, brand |-> c.id] : k \in TakenKeys(c, S)}
    BY DEF Merge
<1>2. \A i, j \in ByName(n)' : i = j
    BY DEF Attributable
<1>3. /\ \A a \in names : a.key = NameKey[n] => a.brand \in ByName(n)
      /\ \A b \in brands : b.name \notin Odd /\ Key(b) = NameKey[n] => b.id \in ByName(n)
      /\ \A i \in ByName(n) : \/ \E a \in names : a.key = NameKey[n] /\ a.brand = i
                              \/ \E b \in brands : /\ b.name \notin Odd /\ Key(b) = NameKey[n]
                                                   /\ b.id = i
    BY ByNameAll DEF Inv, Aliased, Stored, Ids
<1>4. /\ \A a \in names' : a.key = NameKey[n] => a.brand \in ByName(n)'
      /\ \A b \in brands' : b.name \notin Odd /\ Key(b) = NameKey[n] => b.id \in ByName(n)'
    <2>1. TypeOK' /\ NamesApart'
        BY MergeStep DEF Inv
    <2>2. ASSUME NEW b \in brands', b.name \notin Odd, Key(b) = NameKey[n]
          PROVE  b.id \in ByName(n)'
        <3> DEFINE stored == Ids({x \in brands' : x.name \notin Odd /\ Key(x) = NameKey[n]})
        <3>1. b.id \in stored /\ b.id \in Nat
            BY <2>1, <2>2 DEF Ids, TypeOK, Brand
        <3>2. \A j \in stored : b.id <= j
            BY <2>1, <2>2, <3>1 DEF NamesApart, Ids, Key
        <3> QED
            BY <3>1, <3>2 DEF ByName, Key, Ids
    <2> QED
        BY <2>2 DEF ByName
<1>5. ASSUME NEW b \in brands \ S, ByName(n) = {b.id} PROVE b.id \in ByName(n)'
    <2>1. CASE \E a \in names : a.key = NameKey[n] /\ a.brand = b.id
        BY <1>1, <1>4, <2>1, MergedIds
    <2>2. CASE \E x \in brands : x.name \notin Odd /\ Key(x) = NameKey[n] /\ x.id = b.id
        BY <1>1, <1>4, <2>2 DEF Inv, IdsUnique
    <2> QED
        BY <1>3, <1>5, <2>1, <2>2
<1>6. ASSUME NEW b \in S, ByName(n) = {b.id}
      PROVE  c.id \in ByName(n)' \/ (c.name \in Odd /\ Key(c) = NameKey[n])
    <2>1. NameKey[n] = Key(c) \/ NameKey[n] \in TakenKeys(c, S)
        <3>1. CASE \E a \in names : a.key = NameKey[n] /\ a.brand = b.id
            BY <1>6, <3>1, MergedIds DEF TakenKeys
        <3>2. CASE \E x \in brands : x.name \notin Odd /\ Key(x) = NameKey[n] /\ x.id = b.id
            BY <1>6, <3>2 DEF TakenKeys, Inv, IdsUnique
        <3> QED
            BY <1>3, <1>6, <3>1, <3>2
    <2>2. CASE NameKey[n] = Key(c)
        BY <1>1, <1>4, <2>2
    <2>3. CASE NameKey[n] \in TakenKeys(c, S)
        <3> DEFINE new == [key |-> NameKey[n], brand |-> c.id]
        <3>1. new \in names' /\ new.key = NameKey[n] /\ new.brand = c.id
            BY <1>1, <2>3
        <3> QED
            BY <1>4, <3>1
    <2> QED
        BY <2>1, <2>2, <2>3
<1> QED
    BY <1>2, <1>5, <1>6

\* Mentions follow merges (MentionsFollow): the heir of every merged brand is the
\* canonical one.
THEOREM MentionsFollowHolds == Spec => MentionsFollow
<1> DEFINE Follows(heir) ==
               \A n \in Names, d \in Domains, b \in brands :
                   Candidates(n, d) = {b.id} =>
                       \/ b \notin Gone /\ Candidates(n, d)' = {b.id}
                       \/ b \in Gone /\ Candidates(n, d)' = {heir[b].id}
                       \/ /\ b \in Gone /\ ByDomain(d) = {}
                          /\ heir[b].name \in Odd /\ Key(heir[b]) = NameKey[n]
           A == ~tx.open => \E heir \in [Gone -> brands'] : Follows(heir)
           Decided == \A n \in Names, d \in Domains :
                         Candidates(n, d) = IF ByDomain(d) = {} THEN ByName(n) ELSE ByDomain(d)
<1>1. Inv => Decided
    BY OneOwner, CandidatesOf DEF Inv
<1>2. ASSUME Inv, Decided, Decided', Attributable', [Next]_vars PROVE A
    <2> SUFFICES ASSUME ~tx.open PROVE \E heir \in [Gone -> brands'] : Follows(heir)
        OBVIOUS
    <2>1. CASE UNCHANGED <<brands, names, domains>>
        <3>1. Gone = {}
            BY <2>1 DEF Gone
        <3>2. \A n \in Names, d \in Domains : Candidates(n, d)' = Candidates(n, d)
            BY <2>1 DEF Candidates, ByName, ByDomain, Ids, Key
        <3>3. [x \in Gone |-> x] \in [Gone -> brands'] /\ Follows([x \in Gone |-> x])
            BY <3>1, <3>2
        <3> QED
            BY <3>3
    <2>2. ASSUME NEW c \in brands, NEW S \in SUBSET brands, Merge(c, S)
          PROVE  \E heir \in [Gone -> brands'] : Follows(heir)
        <3> DEFINE heir == [x \in Gone |-> c]
        <3>1. Gone = S /\ heir \in [Gone -> brands'] /\ \A b \in S : heir[b] = c
            BY <2>2, MergeGone
        <3>2. ASSUME NEW n \in Names, NEW d \in Domains, NEW b \in brands, Candidates(n, d) = {b.id}
              PROVE  \/ b \notin S /\ Candidates(n, d)' = {b.id}
                     \/ b \in S /\ Candidates(n, d)' = {c.id}
                     \/ /\ b \in S /\ ByDomain(d) = {}
                        /\ c.name \in Odd /\ Key(c) = NameKey[n]
            <4>1. Candidates(n, d)' = IF ByDomain(d)' = {} THEN ByName(n)' ELSE ByDomain(d)'
                BY <1>2
            <4>2. CASE ByDomain(d) = {}
                <5>1. ByName(n) = {b.id} /\ ByDomain(d)' = {}
                    BY <1>2, <2>2, <3>2, <4>2, MergeDomains
                <5> QED
                    BY <1>2, <2>2, <4>1, <4>2, <5>1, MergeNames
            <4>3. CASE ByDomain(d) # {}
                <5>1. ByDomain(d) = {b.id}
                    BY <1>2, <3>2, <4>3
                <5> QED
                    BY <1>2, <2>2, <4>1, <5>1, MergeDomains
            <4> QED
                BY <4>2, <4>3
        <3> HIDE DEF heir
        <3>3. Follows(heir)
            <4> SUFFICES ASSUME NEW n \in Names, NEW d \in Domains, NEW b \in brands,
                                Candidates(n, d) = {b.id}
                         PROVE  \/ b \notin Gone /\ Candidates(n, d)' = {b.id}
                                \/ b \in Gone /\ Candidates(n, d)' = {heir[b].id}
                                \/ /\ b \in Gone /\ ByDomain(d) = {}
                                   /\ heir[b].name \in Odd /\ Key(heir[b]) = NameKey[n]
                OBVIOUS
            <4>1. CASE b \in S
                <5>1. b \in Gone /\ heir[b] = c
                    BY <3>1, <4>1
                <5> QED
                    BY <3>2, <4>1, <5>1
            <4>2. CASE b \notin S
                BY <3>1, <3>2, <4>2
            <4> QED
                BY <4>1, <4>2
        <3> HIDE DEF Follows
        <3> QED
            BY <3>1, <3>3
    <2> QED
        BY <1>2, <2>1, <2>2, OnlyMerges
<1> QED
    BY <1>1, <1>2, InvHolds, AttributableHolds, PTL DEF Spec, MentionsFollow

==============================================================================
