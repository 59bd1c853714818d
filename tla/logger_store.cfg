SPECIFICATION FairSpec
CONSTANTS
    File = {f, g}
    Domain = domain
    max_list_size = 2
    max_size = 1
    max_archive_count = 4
    MaxItems = 4
    SiginfoAtStart = {"other"}
INVARIANTS
    TypeOK
    WrittenInOrder
    OnePlace
PROPERTY
    Handled
