\* One boot on any of the three modules, or on none, with each slot theirs or not, a failure
\* of any read or write, and either a changed setting or a plugin reload.
CONSTANT ReloadAlone = TRUE
SPECIFICATION FairSpec
INVARIANTS OneNetwork OnlyTheirs PolicyFresh
PROPERTY GetsThere
