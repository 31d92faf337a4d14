------------------------------ MODULE MCOpening ------------------------------
(* Opening on small instances: an open beside one under accept-new, in one  *)
(* process or in two, the first of which opens other hosts as well.         *)
EXTENDS Opening, TLC

CONSTANTS o1, o2, p1, p2

\* Under off both transports do the same.  Strict does what accept-new does, but for a
\* host without a pin, which it refuses.
KindsOf == [o \in Open |->
    {kind \in Kind : \/ kind.policy = "accept-new" /\ (o = o1 => kind.process = p1)
                     \/ kind.policy = "off" /\ kind.transport = "ssh" /\ o = o1 /\ kind.process = p1}]

\* Of two opens over different transports the first is the one over netconf.
PairInit == Init /\ (Ssh(o1) => Ssh(o2))

\* Opens of other hosts only where a netconf open of this one can tell.
BesideNetconf ==
    \A p \in Elsewhere : cache'[p].held => \E o \in Open : ~Ssh(o) /\ ProcessOf(o) = p

PairSpec == PairInit /\ [][Next /\ BesideNetconf]_vars

Symmetric == Permutations(Key)
=============================================================================
