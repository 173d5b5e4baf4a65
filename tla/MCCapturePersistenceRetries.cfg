SPECIFICATION FairSpec
CONSTANTS
    Writers = {w1, w2}
    Manifests <- MCTwoLocators
    AuthorityOf <- MCAuthorityOf
    RegimeOf <- MCOneRegime
    None = None
    listed = listed
    applicants = applicants
    id1 = id1
    id2 = id2
    page = page
    annex = annex
    elsewhere = elsewhere
    prefecture = prefecture
    id3 = id3
    bytes = bytes
    other = other
    pdf = pdf
    authority = authority
    ordinary = ordinary
    special = special
PROPERTIES
    RetriesPersist
INVARIANTS
    NoWaitCycle
