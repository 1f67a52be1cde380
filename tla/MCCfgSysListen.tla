--------------------------- MODULE MCCfgSysListen ---------------------------
EXTENDS CfgSysListen, TLC

Symmetry == Permutations(Thread) \cup Permutations(Message)
              \cup Permutations(Fn) \cup Permutations(Node)

=============================================================================
