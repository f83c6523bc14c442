SPECIFICATION ListSpec
CONSTANTS
    Views = {"inbox", "archive"}
    MaxAwaited = 2
PROPERTY OnlyChosenShown
