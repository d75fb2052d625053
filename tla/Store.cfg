SPECIFICATION Spec
CONSTANTS
    a = a
    b = b
    Client <- Clients
    World <- Worlds
    MaxProfile = 2
    MaxInput = 5
    MaxFan = 3
INVARIANTS
    TypeOK
    StoredValid
    ProfilesAsAsked
    UserChoiceSurvives
