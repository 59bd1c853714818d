SPECIFICATION RemoteSpec
CONSTANTS
    Files = {1}
    m_size_in_memo = 3
    max_list_size = 2
    SiginfoAtStart = {"other"}
    MaxItems = 2
    MaxStarts = 1
PROPERTIES NothingIsLost
CHECK_DEADLOCK FALSE
