SPECIFICATION Spec
CONSTANTS
  Key = {1, 2}
  Value = {1, 2}
  MaxLen = 5
INVARIANTS CanonicalOnce
PROPERTIES BindsWhatIsRead
