---------------------------- MODULE BrandIdentity ----------------------------
(***************************************************************************)
(* Which brand a name and a domain found in an answer stand for, and how   *)
(* that survives an administrator's merges.  An advisory lock serialises   *)
(* everything that writes brands: the persist of an answer's brands, one   *)
(* mention after the other in one transaction, and a merge.                *)
(***************************************************************************)
EXTENDS Integers, FiniteSets

CONSTANTS
    Names, Keys, NameKey, \* normalize_brand_name
    Odd,      \* names the database normalizes differently: no key finds them
    Domains,  \* domains up to case
    Runs,
    MinRank, MaxRank, \* the numbers of the column
    MaxBrands \* bound: brands ever created

ASSUME BrandAssumption ==
    /\ NameKey \in [Names -> Keys] /\ Odd \subseteq Names
    /\ MinRank \in Int /\ MaxRank \in Int /\ MaxBrands \in Nat

VARIABLES
    brands,  \* the table of brands
    names,   \* name aliases: key and brand
    domains, \* domain aliases: domain and brand
    links,   \* run_brands: the best rank of each brand in each run
    next,    \* the next id
    tx       \* the persist under way, with what a rollback restores

vars == <<brands, names, domains, links, next, tx>>

Ranks == MinRank .. MaxRank

Brand == [id : Nat, name : Names, domain : Domains]
NameAlias == [key : Keys, brand : Nat]
DomainAlias == [domain : Domains, brand : Nat]
RunBrand == [run : Runs, brand : Nat, rank : Ranks]
NoTx == [open |-> FALSE]

Init ==
    /\ brands = {} /\ names = {} /\ domains = {} /\ links = {}
    /\ next = 1
    /\ tx = NoTx

Ids(B) == {b.id : b \in B}
Key(b) == NameKey[b.name]

(***************************************************************************)
(* Identity                                                                *)
(***************************************************************************)
\* The alias of the name, and the first brand whose stored name has its key.
ByName(n) ==
    LET stored == Ids({b \in brands : b.name \notin Odd /\ Key(b) = NameKey[n]})
    IN  {a.brand : a \in {x \in names : x.key = NameKey[n]}}
            \cup {i \in stored : \A j \in stored : i <= j}

ByDomain(d) ==
    {a.brand : a \in {x \in domains : x.domain = d}}
        \cup Ids({b \in brands : b.domain = d})

\* Mutant of Candidates: the name is not asked.
CandidatesByDomain(n, d) == ByDomain(d)

\* What a mention may stand for: nothing means a new brand, several mean that it is
\* ambiguous.  The domain is the stronger signal, the name settles what it leaves open.
Candidates(n, d) ==
    IF ByDomain(d) = {} THEN ByName(n)
    ELSE IF Cardinality(ByDomain(d) \cap ByName(n)) = 1 THEN ByDomain(d) \cap ByName(n)
    ELSE ByDomain(d)

(***************************************************************************)
(* Persist                                                                 *)
(***************************************************************************)
\* The links of an earlier extraction of the run are replaced.
Begin(r) ==
    /\ ~tx.open
    /\ tx' = [open |-> TRUE, run |-> r, brands |-> brands, links |-> links]
    /\ links' = {l \in links : l.run # r}
    /\ UNCHANGED <<brands, names, domains, next>>

\* The brand has rank k in the run, unless it has a better one.
Link(i, k) ==
    LET mine == {l \in links : l.run = tx.run /\ l.brand = i} IN
    links' = IF \E l \in mine : l.rank <= k THEN links
             ELSE (links \ mine) \cup {[run |-> tx.run, brand |-> i, rank |-> k]}

\* An ambiguous mention, or one without a domain, is skipped.
Mention(n, d, k) ==
    /\ tx.open
    /\ \/ /\ \E i \in Candidates(n, d) : Candidates(n, d) = {i} /\ Link(i, k)
          /\ UNCHANGED <<brands, next>>
       \/ /\ Candidates(n, d) = {}
          /\ next <= MaxBrands
          /\ brands' = brands \cup {[id |-> next, name |-> n, domain |-> d]}
          /\ next' = next + 1
          /\ Link(next, k)
    /\ UNCHANGED <<names, domains, tx>>

Commit ==
    /\ tx.open
    /\ tx' = NoTx
    /\ UNCHANGED <<brands, names, domains, links, next>>

\* The savepoint is rolled back; ids are not given back.
Rollback ==
    /\ tx.open
    /\ tx' = NoTx
    /\ brands' = tx.brands
    /\ links' = tx.links
    /\ UNCHANGED <<names, domains, next>>

(***************************************************************************)
(* Merge of the brands in S into c                                         *)
(***************************************************************************)
\* What passes from the sources to c.
TakenKeys(c, S) ==
    ({Key(b) : b \in S} \cup {a.key : a \in {x \in names : x.brand \in Ids(S)}}) \ {Key(c)}

\* Mutant of TakenDomains: the aliases of the sources are forgotten.
TakenDomainsOfBrands(c, S) == {b.domain : b \in S} \ {c.domain}

TakenDomains(c, S) ==
    ({b.domain : b \in S} \cup {a.domain : a \in {x \in domains : x.brand \in Ids(S)}})
        \ {c.domain}

\* A name or domain of an involved brand belongs to another one.
Conflict(c, S) ==
    LET involved == S \cup {c}
        outside == brands \ involved
        keys == TakenKeys(c, S) \cup ({a.key : a \in {x \in names : x.brand = c.id}} \ {Key(c)})
        doms == TakenDomains(c, S)
                    \cup ({a.domain : a \in {x \in domains : x.brand = c.id}} \ {c.domain})
    IN  \/ \E k \in keys : \/ \E b \in outside : Key(b) = k
                           \/ \E a \in names : a.key = k /\ a.brand \notin Ids(involved)
        \/ \E d \in doms : \/ \E b \in outside : b.domain = d
                           \/ \E a \in domains : a.domain = d /\ a.brand \notin Ids(involved)

\* Mutant of Best: the link of c is kept, whatever its rank.
BestOfCanonical(L, c, l) ==
    \A m \in L : m.run = l.run => IF m.brand = c.id THEN m = l ELSE m.rank >= l.rank

\* Mutant of Best: the best link of its brand in the run.
BestOfBrand(L, c, l) == \A m \in L : m.run = l.run /\ m.brand = l.brand => l.rank <= m.rank

\* The best link of its run.
Best(L, c, l) == \A m \in L : m.run = l.run => l.rank <= m.rank

Merge(c, S) ==
    /\ ~tx.open
    /\ S # {} /\ c \notin S
    /\ ~Conflict(c, S)
    /\ brands' = brands \ S
    /\ names' = {a \in names : a.brand \notin Ids(S)}
                    \cup {[key |-> k, brand |-> c.id] : k \in TakenKeys(c, S)}
    /\ domains' = {a \in domains : a.brand \notin Ids(S)}
                      \cup {[domain |-> d, brand |-> c.id] : d \in TakenDomains(c, S)}
    /\ LET L == {l \in links : l.brand \in Ids(S \cup {c})} IN
       links' = (links \ L)
                   \cup {[l EXCEPT !.brand = c.id] : l \in {m \in L : Best(L, c, m)}}
    /\ UNCHANGED <<next, tx>>

Next ==
    \/ \E r \in Runs : Begin(r)
    \/ \E n \in Names, d \in Domains, k \in Ranks : Mention(n, d, k)
    \/ Commit \/ Rollback
    \/ \E c \in brands, S \in SUBSET brands : Merge(c, S)

Spec == Init /\ [][Next]_vars

(***************************************************************************)
(* Properties                                                              *)
(***************************************************************************)
TypeOK ==
    /\ brands \subseteq Brand /\ names \subseteq NameAlias
    /\ domains \subseteq DomainAlias /\ links \subseteq RunBrand
    /\ next \in Nat
    /\ \/ tx = NoTx
       \/ tx \in [open : {TRUE}, run : Runs, brands : SUBSET Brand, links : SUBSET RunBrand]

\* Whatever the administrator merged in between, the alias of a name or a domain and
\* the brand stored under it are the same: no mention is ambiguous, so none is skipped,
\* and no lookup that expects one row finds two (_find, scalar_one_or_none).
Attributable ==
    /\ \A n \in Names : \A i, j \in ByName(n) : i = j
    /\ \A d \in Domains : \A i, j \in ByDomain(d) : i = j

\* A run links a brand once (uq_run_brand), and the brand exists (its foreign key),
\* also when a merge moves links between brands.
LinksSound ==
    /\ \A l \in links : l.brand \in Ids(brands)
    /\ \A l, m \in links : l.run = m.run /\ l.brand = m.brand => l = m

Gone == brands \ brands'

\* Outside of a persist, what a mention stands for changes only with a merge, and then
\* to the brand that the old one was merged into.  The exception: the heir's own name
\* has the same key but is one the database cannot find.
MentionsFollow ==
    [][~tx.open =>
        \E heir \in [Gone -> brands'] : \A n \in Names, d \in Domains, b \in brands :
            Candidates(n, d) = {b.id} =>
                \/ b \notin Gone /\ Candidates(n, d)' = {b.id}
                \/ b \in Gone /\ Candidates(n, d)' = {heir[b].id}
                \/ /\ b \in Gone /\ ByDomain(d) = {}
                   /\ heir[b].name \in Odd /\ Key(heir[b]) = NameKey[n]
      ]_vars

\* A merge loses no run a brand was found in and worsens no rank: the heir has a link
\* in every run of a merged brand, at least as good, and no other brand gains or loses
\* any ("keeps best rank", tests/test_admin_brand_merge.py).
LinksFollow ==
    [][Gone # {} /\ ~tx.open =>
        \E c \in brands' :
            /\ \A l \in links : \E m \in links' :
                  /\ m.run = l.run /\ m.rank <= l.rank
                  /\ m.brand = (IF l.brand \in Ids(Gone) THEN c.id ELSE l.brand)
            /\ \A m \in links' : \E l \in links :
                  /\ l.run = m.run /\ l.rank = m.rank
                  /\ l.brand = m.brand \/ (m.brand = c.id /\ l.brand \in Ids(Gone))
      ]_vars

==============================================================================
