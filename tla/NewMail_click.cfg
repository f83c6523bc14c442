SPECIFICATION FairNoticeSpec
CONSTANTS
    Mailboxes = {"imap"}
    Pop3 = {}
    Filtered = {}
    NoticeCap = 1
    Platforms = {"mac"}
    MaxMail = 2
    MaxBanners = 2
PROPERTIES EachClickOpens
