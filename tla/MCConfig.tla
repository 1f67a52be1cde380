------------------------------ MODULE MCConfig ------------------------------
(***************************************************************************)
(* The configuration library side by side: the backup write of its area,   *)
(* the system messages it serves, and the power scan, which has it flush   *)
(* before the chip goes off.  They have no variable in common: part says   *)
(* which one runs.                                                         *)
(***************************************************************************)
EXTENDS CfgBackupWrite, FiniteSets

CONSTANTS None,
          Thread, QueueSize, Worlds, U32, MaxSends,
          Arm, Hold, Byte, Filter, Delay, MaxRequests

(* Threads are finitely many.  The bound on the sends keeps the count of fast *)
(* events, which grows with each, from wrapping around.                      *)
ASSUME SysConstants ==
  /\ IsFiniteSet(Thread)
  /\ QueueSize \in Nat /\ MaxSends \in Nat /\ U32 \in Nat
  /\ MaxSends < U32

(* The key counts up to its thresholds in one byte; the delay is not 0.      *)
ASSUME PowerConstants ==
  /\ Arm \in Nat /\ Hold \in Nat \ {0} /\ Byte \in Nat /\ Arm < Byte
  /\ Filter \in Nat /\ Delay \in Nat \ {0} /\ MaxRequests \in Nat
  /\ None \notin Nat

VARIABLES part,
          queue, fast, snd, svc, heap, sends, world,
          mode, high, cnt, enabled, odd, level, batStatus, batCnt, left,
          listens, requests, scan, inPd, off, missed, short

sysVars == <<queue, fast, snd, svc, heap, sends, world>>

pwVars == <<mode, high, cnt, enabled, odd, level, batStatus, batCnt, left,
            listens, requests, scan, inPd, off, missed, short>>

SY == INSTANCE CfgSys

PW == INSTANCE Power WITH QueueSize <- MaxRequests, queue <- requests,
                          pc <- scan, lost <- missed

ConfigInit ==
  /\ part \in {"backup", "sys", "power"}
  /\ Init /\ (part # "backup" => \A b \in Block : nor[b] = CHOOSE c \in Content : TRUE)
  /\ SY!Init /\ (part # "sys" => world = {"shell"})
  /\ PW!Init /\ (part # "power" => mode = "button")

ConfigNext ==
  \/ part = "backup" /\ Next /\ UNCHANGED <<part, sysVars, pwVars>>
  \/ part = "sys" /\ SY!Next /\ UNCHANGED <<part, vars, pwVars>>
  \/ part = "power" /\ PW!Next /\ UNCHANGED <<part, vars, sysVars>>

(* The fairness of CfgBackupWrite, CfgSys and Power                          *)
ConfigSpec ==
  /\ ConfigInit /\ [][ConfigNext]_<<part, vars, sysVars, pwVars>>
  /\ WF_vars(part = "backup" /\ (FlushStep \/ RestoreStep))
  /\ <>[][~PowerLoss]_vars
  /\ WF_sysVars(part = "sys" /\ SY!Serve /\ world' = world)
  /\ \A t \in SY!Sender : WF_sysVars(part = "sys" /\ SY!Send(t) /\ world' = world)
  /\ WF_pwVars(part = "power" /\ PW!Scan)
  /\ WF_pwVars(part = "power" /\ PW!Serve)

-----------------------------------------------------------------------------

(* The type invariants: the data of cfg_cachemem.c stay well formed, the     *)
(* messages of the system service keep to the values the code gives them and *)
(* its queue to its length, and the counters of the scan to their width.     *)
ConfigTypeOK == /\ TypeOK
                /\ part = "sys" => SY!TypeOK
                /\ part = "power" => PW!TypeOK

(* Handlers and listeners see events without FAST_EVENT_MASK, if no button   *)
(* is released and no change of the count interrupted; no message is leaked, *)
(* or freed twice, but by hs_cfg_sysClearMsg.                                *)
MessagesSound == part = "sys" => SY!FastUnmasked /\ SY!HeapBalanced

(* The count of fast events grows for good only with a message that was lost.*)
CountExact == SY!CountExact

(* The chip goes off only after hs_pmu_chipPrePowerOff, unless that request  *)
(* was dropped, and one made ready to go off does, but for the moments the   *)
(* code misses.                                                              *)
GoesOff == part = "power" => PW!OrderlyOff /\ PW!ReadyGoesOff

(* A flush and the restore after it end, so that hs_cfg_unlock is reached;   *)
(* the system service never waits for itself when handlers send; and the     *)
(* countdown of an empty battery ends with the chip off or cancelled, unless *)
(* a battery at the threshold starts it over for ever.                       *)
CallsReturn == /\ []<>(part = "backup" => pc = "idle")
               /\ SY!ServiceReturns
               /\ PW!CountdownEnds

=============================================================================
