\* Five cards, saves that fail, and any number of menus, installs, titles, boots and power cuts.
CONSTANT Cards <- MCCards
SPECIFICATION Spec
INVARIANTS SpotPassOffered ChangeOwed
PROPERTY KeptOverBoot
