SPECIFICATION FairSpec
CONSTANTS
    Clients = {c1, c2, c3}
    BadHeaders = {c3}
    Fd = {1, 2}
    Files = {1}
    m_size_in_memo = 1
    max_list_size = 2
    SiginfoAtStart = {"other"}
    MaxItems = 3
    MaxStarts = 2
    Domains = {d, e}
    Sizes = {1, 3}
    MaxSize = 3
    m_error_counter = 2
    m_email_volume = 5
    m_reset_error_timeout = 2
    m_email_error_timeout = 3
    TenYears = 5
    MaxErrors = 4
    MaxTime = 4
INVARIANTS
    TypeOK
    OrderUnlessSaved
    BoxIsCounted
    MailsApart
    FirstMailIsFull
    AnsweredOnce
PROPERTIES
    UnsentIsSaved
    NobodyWaits
CHECK_DEADLOCK FALSE
