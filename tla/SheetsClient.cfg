\* Three threads and two reloads; MaxClients is never reached.
SPECIFICATION Spec
CONSTANTS
    Threads = {r1, r2, r3}
    MaxClients = 10
    MaxReloads = 2
INVARIANTS TypeOK PublishedClientBounded FailsOnlyAcrossReload ClientsPerReload
