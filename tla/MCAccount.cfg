\* Three runs for one email, two polls in each, in eight configurations; the
\* configuration loaded in 96,768 others.
SPECIFICATION MCSpec
CONSTANTS
    Runs = {r1, r2, r3}
    MaxPolls = 2
    Worlds <- MCWorlds
SYMMETRY Symmetry
INVARIANTS OkMeansComplete OneUser UserIsBackedUp SettingsBelongTogether
CHECK_DEADLOCK FALSE
