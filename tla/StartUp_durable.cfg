\* An orderly stop of the Writer that has made the consumer.
CONSTANTS
    Daemons = {"d1"}
    Writers = {"w1"}
    MaxFailures = 0
    MaxStops = 1
SPECIFICATION SafeSpec
PROPERTY
    DurableSurvives
