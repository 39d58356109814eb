SPECIFICATION Spec
CONSTANTS
    acme = acme
    other = other
    robot = robot
    kRoot = kRoot
    kAcme = kAcme
    kOther = kOther
    kRobot = kRobot
    kFake = kFake
    t1 = t1
    t2 = t2
    Nothing = Nothing
    Threads <- MCOneThread
    Hellos <- MCHellos
    Subjects <- MCSubjects
    Certificates <- MCCertificates
    RootKey <- kRoot
    Signers <- MCSigners
    HonestOrgs <- MCHonestOrgs
    OrgKey <- MCOrgKey
    DeviceKey <- MCDeviceKey
    Required = "sync"
    Ttl = 1
    MaxTime = 3
    MaxChallenges = 1
    MaxRestarts = 1
    MaxAdmissions = 3
INVARIANTS TypeOK SingleUse ConsumedExact RestartForgetsOnlyLiving RevokedStayOut AdmittedIsGenuine
