SPECIFICATION Spec
CONSTANTS
    acme = acme
    other = other
    robot = robot
    kRoot = kRoot
    kAcme = kAcme
    kOther = kOther
    kRobot = kRobot
    kFake = kFake
    t1 = t1
    t2 = t2
    Nothing = Nothing
    Threads <- MCTwoThreads
    Hellos <- MCHellos
    Subjects <- MCSubjects
    Certificates <- MCFewCertificates
    RootKey <- kRoot
    Signers <- MCSigners
    HonestOrgs <- MCHonestOrgs
    OrgKey <- MCOrgKey
    DeviceKey <- MCDeviceKey
    Required = "sync"
    Ttl = 1
    MaxTime = 2
    MaxChallenges = 2
    MaxRestarts = 0
    MaxAdmissions = 3
INVARIANT SingleUse
