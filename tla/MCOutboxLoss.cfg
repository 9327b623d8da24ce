CONSTANTS
    Events = {ev1, ev2, ev3}
    Undecodable = {ev3}
    Workers = {api, bg}
    Listening = {api}
    BatchSize = 2
    MaxAttempts = 5

SPECIFICATION FairSpec
CHECK_DEADLOCK FALSE

PROPERTY
    NothingIsLost
