SPECIFICATION FairSpec
CONSTANTS
    Urls = {u1}
    Workers = {w1}
    UI = UI
    Message = Message
    Nothing = Nothing
    MaxEvents = 1
    Settles = TRUE
PROPERTIES MessageComesBack AgreementRecovers
