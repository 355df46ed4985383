\* A second thread asks for the client while the first one makes it.
SPECIFICATION Spec
CONSTANTS
    Threads = {r1, r2}
    MaxClients = 4
    MaxReloads = 0
INVARIANTS EveryRequestBounded
