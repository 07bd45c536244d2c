SPECIFICATION Spec
CONSTANTS
    game = game
    again = again
    desktop = desktop
    Sources = {game, again, desktop}
    Uuid <- MCUuid
    Sizes = {1, 2}
    None = none
    MaxSelects = 3
INVARIANTS
    GrabberInvariant
    HookedOnlyWhileActive
    WatchedIsRemembered
