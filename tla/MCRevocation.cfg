\* Two handshakes and two refreshes at a time of one certificate.
CONSTANTS
    Certs = {c1}
    NoCert = NoCert
    Handshakes = {h1, h2}
    Refreshes = {f1, f2}
SPECIFICATION RevSpec
INVARIANTS
    RevTypeOK
    HerdBounded
PROPERTIES
    RefusedOnceKnown
    LearnsOfRevocation
