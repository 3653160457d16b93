SPECIFICATION Spec
CONSTANTS
    Id = {1, 2, 3}
    alice = alice
    bob = bob
    User <- MCUser
    NoUser = NoUser
    Actor = {ui, fcm}
    ui = ui
    fcm = fcm
    js = js
    Ui = ui
    To <- MCToAlice
    Text <- MCBroken
    Serial = TRUE
    MaxOps = 5
    Drawn = {0, 1}
INVARIANT
    DescriptionIsText
