SPECIFICATION Spec
CONSTANTS
    Id = {1, 2, 3}
    alice = alice
    bob = bob
    User <- MCUser
    NoUser = NoUser
    Actor = {ui, fcm}
    ui = ui
    fcm = fcm
    js = js
    Ui = ui
    To <- MCTo
    Text <- MCPlain
    Serial = TRUE
    MaxOps = 5
    Drawn = {0, 1}
INVARIANT
    CountsAgree
PROPERTY
    ImplementsMailbox
