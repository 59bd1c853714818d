SPECIFICATION FairSpec
CONSTANTS
    File = {f, g}
    Domain = domain
    max_list_size = 1
    max_size = 0
    max_archive_count = 1
    MaxItems = 3
    SiginfoAtStart = {"other"}
PROPERTY
    ArchivingGoesOn
