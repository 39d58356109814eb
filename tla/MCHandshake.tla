----------------------------- MODULE MCHandshake -----------------------------
(***************************************************************************)
(* Handshake with the honest organization acme and its device robot, and   *)
(* another organization the root has certified, which issues certificates  *)
(* for a device it also calls robot.                                       *)
(***************************************************************************)
EXTENDS Handshake

CONSTANTS acme, other, robot, kRoot, kAcme, kOther, kRobot, kFake, t1, t2

MCOneThread == {t1}
MCTwoThreads == {t1, t2}
MCHellos == {[organization_id |-> acme, agent_or_device_id |-> robot]}
MCSubjects == {acme, robot}
MCSigners == {kRobot, kFake}
MCHonestOrgs == {acme}
MCOrgKey == [o \in {acme} |-> kAcme]
MCDeviceKey == [o \in {acme} |-> [s \in {robot} |-> kRobot]]

Organization(o, key) == IssueCertificate(kRoot, kRoot, o, "organization", key, 0, 3, {})
Device(o, key, subjectKey, notAfter, caps) ==
    IssueCertificate(o, key, robot, "device", subjectKey, 0, notAfter, caps)

MCCertificates ==
    {Organization(acme, kAcme),
     Organization(other, kOther),
     Device(acme, kAcme, kRobot, 2, {"sync"}),
     Device(acme, kAcme, kRobot, 3, {}),
     Device(acme, kOther, kFake, 2, {"sync"}),
     Device(other, kOther, kFake, 2, {"sync"}),
     Altered(Device(acme, kAcme, kFake, 2, {"sync"}))}

MCFewCertificates == {Organization(acme, kAcme), Device(acme, kAcme, kRobot, 2, {"sync"})}
===============================================================================
