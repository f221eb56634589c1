-------------------------- MODULE MCDurablePublish --------------------------
EXTENDS StorageTargets
CONSTANTS w1, w2, w3, w4
MCStaging == <<w1, w2, w3, w4>>
\* Publishers whose faults never fire, and ones with a fault at each boundary: the
\* replace fault hits the second replace.
FaultTable ==
  [w \in Writer |->
     IF w \in Concurrent
     THEN {NoFaults, FaultAt("fsync"), [FaultAt("dir_fsync") EXCEPT !["replace"] = 1]}
     ELSE {NoFaults}]

\* TLC keeps the value of a definition, but not of one that replaces a constant.
MCFaults == FaultTable
=============================================================================
