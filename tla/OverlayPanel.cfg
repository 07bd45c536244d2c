SPECIFICATION Spec
CONSTANTS
    SceneList <- MCScenes
    Pages = {"p1", "p2", "p3"}
    Page <- MCPage
    MaxEdits = 2
INVARIANTS
    PanelInvariant
    SettledIsHeardOnce
PROPERTIES
    PressesRunOut
    FreshPressIsHarmless
