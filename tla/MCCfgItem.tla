---------------------------- MODULE MCCfgItem ----------------------------
(* An item of which the data runs over the end of the first block.          *)
EXTENDS CfgItem

MCSpanning == {[b |-> [addr |-> 0, len |-> 4, readOnly |-> FALSE]]}

=============================================================================
