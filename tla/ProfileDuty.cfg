CONSTANTS
    LoadSensor <- Loads
    Created <- DefaultProfiles
    Edit <- Edits
    Reading <- Readings
SPECIFICATION Spec
INVARIANTS TypeOK DutyFollowsInput
PROPERTIES HotterNeverSlower FreshStart PidSettles
