\* Two next hops and room for one: every transition, and garbage collection
\* under pressure; two packets may wait, and a third pushes
\* the oldest out.
SPECIFICATION Spec
CONSTANTS
    Address = {a1, a2}
    Mac = {m1}
    NoMac = NoMac
    MaxPackets = 3
    AgeCap = 1
    ReachableTime = 1
    DelayFirstProbeTime = 1
    RetransTimer = 1
    MaxMulticastSolicit = 2
    MaxUnicastSolicit = 2
    UnresQlen = 2
    GcThresh1 = 1
    GcThresh2 = 1
    GcThresh3 = 1
    GcStaleTime = 1
INVARIANTS ParkedOnlyWhileResolving InOrderAtMostOnce
PROPERTIES StaticEntriesStand MaintenanceKeepsParked TransientStatesEnd
