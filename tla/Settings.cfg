SPECIFICATION Spec
CONSTANTS
    Address = {lan, any}
    Name = {desk}
    Layout = {wide}
    None = none
    MaxDepth = 2
INVARIANTS TypeOK FileIsCurrent RunsWhatIsConfigured
