CONSTANTS
    Passwords = {p, q}
    None = none
SPECIFICATION CredentialsSpec
INVARIANTS
    CredentialsTypeOK
    GrantedByCredential
    UneditedAnswerIsRight
