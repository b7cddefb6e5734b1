SPECIFICATION Spec
CONSTANTS
    Accounts = {a1, a2, u}
    FirstAdmins = {a1, a2}
    Sessions = {s1, s2}
    Cases = {c}
    MaxInFlight = 2
    NoAccount = NoAccount
    NoSession = NoSession
    Idle = Idle
SYMMETRY Renamings
INVARIANT TypeOK AdministratorRemains NothingLeftBehind SessionsKnowPassword
PROPERTY UndoPossible LetInByAnother
