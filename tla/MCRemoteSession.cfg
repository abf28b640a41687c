SPECIFICATION MCSpec
CONSTANTS
    Owner = owner
    Vm = vm
    First = first
    Second = second
    Instance = {vm}
    User = {owner}
    Session = {first, second}
    UserOf <- MCUserOf
    InstanceOf <- MCInstanceOf
    Fresh = {owner}
    Address = {a1, a2}
    Secret = {p1, p2, p3, p4, p5}
    None = none
    MaxEvents = 1
PROPERTIES
    OpeningSecretStays
    AnswerOpensTheMachine
    UserGetsIn
CHECK_DEADLOCK FALSE
