------------------------------ MODULE MCVirtio ------------------------------
EXTENDS Virtio

CONSTANTS c1, c2

OneClient == {c1}
TwoClients == {c1, c2}
=============================================================================
