SPECIFICATION FairSpec
CONSTANTS
    Contacts = {1, 2, 3}
    WithHistory = {1}
    Cap = 2
PROPERTY BacklogConverges
