CONSTANTS
    HeaderSize = 2
    Messages <- MCMessages
    Calls = {"some", "header", "write"}
    MaxFailures = 2
SPECIFICATION FairSpec
INVARIANTS WireIsMessage DoneIsAll CountsOctets EndIsSaid
PROPERTIES EveryCallIsAnswered AllIsSent
