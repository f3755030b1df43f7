SPECIFICATION MCSpec
CONSTANTS
    Contacts = {1, 2, 3}
    WithHistory = {1, 2}
    Cap = 2
PROPERTIES SweepSparesYoung TasksGoOn BacklogConverges
