SPECIFICATION Spec
CONSTANTS
    Id = {1, 2, 3}
    alice = alice
    bob = bob
    User <- MCUser
    NoUser = NoUser
    Actor = {ui, fcm, js}
    ui = ui
    fcm = fcm
    js = js
    Ui = ui
    To <- MCToAlice
    Text <- MCBroken
    Serial = FALSE
    MaxOps = 3
    Drawn = {0, 1}
INVARIANTS
    TypeOK
    MailboxesSeparate
    OneOfEach
