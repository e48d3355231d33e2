CONSTANTS
    HeaderSize = 2
    Messages <- EvenMessages
    Calls = {"some", "header", "write"}
    MaxFailures = 2
SPECIFICATION Spec
INVARIANT CompleteIsAll
