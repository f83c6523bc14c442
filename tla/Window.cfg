SPECIFICATION WindowSpec
CONSTANTS
    Mailboxes = {"inbox", "drop"}
    Pop3 = {"drop"}
    Filtered <- OneEachFiltered
    NoticeCap = 1
    Platforms = {"desktop", "mac"}
    MaxMail = 2
    MaxBanners = 2
    MaxAttempts = 2
    MaxChanges = 2
    Ports = {1, 2}
    Views = {"inbox", "archive"}
    MaxAwaited = 2
INVARIANTS WindowTypeOK CountsOnce OwnCodeOnly TokensOfLastLogin LoadingAnswered
PROPERTIES StaleAnswersDropped
