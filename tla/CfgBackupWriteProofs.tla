---------------------- MODULE CfgBackupWriteProofs ----------------------
(***************************************************************************)
(* Proofs about CfgBackupWrite, for any set of blocks and contents.        *)
(***************************************************************************)
EXTENDS CfgBackupWrite, TLAPS

(* Where the running operation is, in terms of what the flash holds.        *)
BackupInv ==
  /\ pc \in {"idle", "eraseInfo", "unlink"} /\ health = "ok" => nor[Info] \notin Block
  /\ pc \in {"eraseData", "writeData", "writeInfo", "rsZero"} => nor[Info] = Blank
  /\ pc = "writeData" => nor[Data] = Blank
  /\ pc \in {"writeInfo", "eraseTarget", "writeTarget", "zeroInfo"}
       => nor[Data] = vt[Head(list)]
  /\ pc \in {"eraseTarget", "writeTarget", "zeroInfo"} => nor[Info] = Head(list)
  /\ pc = "writeTarget" => nor[Head(list)] = Blank
  /\ pc \in {"zeroInfo", "unlink"} => nor[Head(list)] = vt[Head(list)]
  /\ pc \in {"rsErase", "rsWrite", "rsClear"}
       => nor[Info] = bkw.addr /\ nor[Data] = bkw.data
  /\ pc = "rsWrite" => nor[bkw.addr] = Blank
  /\ pc = "rsClear" => nor[bkw.addr] = bkw.data

(* What is cached, and what the next boot would find.                       *)
StoreInv ==
  /\ nor[Info] \in Block => nor[Data] \in Content
  /\ \A b \in Block : b # nor[Info] => nor[b] \in Content
  /\ health = "ok" => \A b \in Cached : vt[b] \in Content
  /\ pc \in Blockwr => health = "ok"
  /\ pc \in Restore /\ health = "pending" => list = <<>>

Inv == TypeOK /\ (health # "lost" => BackupInv /\ StoreInv)

-----------------------------------------------------------------------------
(* Taking the head off a list without duplicates.                           *)
LEMMA TailUnique ==
  ASSUME NEW S, NEW l \in Seq(S), l # <<>>,
         \A i, j \in 1..Len(l) : l[i] = l[j] => i = j
  PROVE  /\ Tail(l) \in Seq(S)
         /\ Len(Tail(l)) = Len(l) - 1
         /\ \A i \in 1..Len(Tail(l)) : Tail(l)[i] = l[i + 1]
         /\ \A i, j \in 1..Len(Tail(l)) : Tail(l)[i] = Tail(l)[j] => i = j
         /\ Head(l) = l[1] /\ Len(l) \in Nat /\ Len(l) > 0
OBVIOUS

(* Appending an element that is not in a list without duplicates.           *)
LEMMA AppendUnique ==
  ASSUME NEW S, NEW l \in Seq(S), NEW e \in S,
         \A i, j \in 1..Len(l) : l[i] = l[j] => i = j,
         e \notin {l[i] : i \in 1..Len(l)}
  PROVE  /\ Append(l, e) \in Seq(S)
         /\ \A i, j \in 1..Len(Append(l, e)) :
               Append(l, e)[i] = Append(l, e)[j] => i = j
         /\ {Append(l, e)[i] : i \in 1..Len(Append(l, e))}
              = {l[i] : i \in 1..Len(l)} \cup {e}
OBVIOUS

-----------------------------------------------------------------------------
(* The part of TypeOK about the flash.                                      *)
FlashOK(f) ==
  /\ f \in [Block \cup {Info, Data} -> Block \cup Held]
  /\ f[Info] \in Block \cup {Blank, Junk}
  /\ \A a \in Block \cup {Data} : f[a] \in Held

(* Erasing, programming or damaging a sector keeps the flash well typed.    *)
LEMMA FlashTyped ==
  ASSUME FlashOK(nor), NEW a \in Block \cup {Info, Data}
  PROVE  /\ FlashOK(Erased(a))
         /\ FlashOK(Zeroed(a))
  BY AreasDiffer DEF FlashOK, Erased, Zeroed, Held

(* So does programming a block or the backup data sector ...               *)
LEMMA DataTyped ==
  ASSUME FlashOK(nor), NEW a \in Block \cup {Data}, NEW v \in Held
  PROVE  FlashOK(Programmed(a, v))
  BY AreasDiffer DEF FlashOK, Programmed, Held

(* ... and programming a record into the backup info sector.               *)
LEMMA InfoTyped ==
  ASSUME FlashOK(nor), NEW b \in Block
  PROVE  FlashOK(Programmed(Info, b))
  BY AreasDiffer DEF FlashOK, Programmed, Held

(* What the flash holds after an operation on one sector.                   *)
LEMMA FlashAfter ==
  ASSUME FlashOK(nor), NEW a \in Block \cup {Info, Data}, NEW x \in Block \cup {Info, Data}
  PROVE  /\ Erased(a)[x] = IF x = a THEN Blank ELSE nor[x]
         /\ Zeroed(a)[x] = IF x = a THEN Junk ELSE nor[x]
         /\ \A v : Programmed(a, v)[x] = IF x # a THEN nor[x]
                                         ELSE IF nor[a] = Blank THEN v ELSE Junk
  BY DEF FlashOK, Erased, Zeroed, Programmed

(* The block a running operation works on.                                  *)
LEMMA Operand ==
  ASSUME TypeOK
  PROVE  /\ pc \in Blockwr => /\ Head(list) \in Block
                              /\ Head(list) = list[1]
                              /\ Head(list) \in Cached
                              /\ vt[Head(list)] \in Held
         /\ pc \in Restore \ {"check"} => bkw.addr \in Block /\ bkw.data \in Held
  BY TailUnique DEF TypeOK, Held, Cached

(* The initial states are well typed.                                       *)
LEMMA InitTypeOK == Init => TypeOK
  <1> SUFFICES ASSUME Init PROVE TypeOK
    OBVIOUS
  <1>1. list \in Seq(Block) /\ \A i, j \in 1..Len(list) : list[i] = list[j] => i = j
    BY DEF Init
  <1>2. nor \in [Block \cup {Info, Data} -> Block \cup Held]
    BY DEF Init, Held
  <1>3. latest \in [Block -> Held]
    BY <1>2 DEF Init, Held
  <1> QED
    BY <1>1, <1>2, <1>3 DEF Init, TypeOK, Held, Blockwr, Restore

(* Every step keeps the state well typed.                                   *)
LEMMA NextTypeOK == TypeOK /\ [Next]_vars => TypeOK'
  <1> SUFFICES ASSUME TypeOK, [Next]_vars PROVE TypeOK'
    OBVIOUS
  <1> USE AreasDiffer, ValuesDiffer, HeapReuseType
  <1>1. CASE UNCHANGED vars
    BY <1>1 DEF vars, TypeOK
  <1>2. ASSUME NEW b \in Block, NEW c \in Content, Write(b, c) PROVE TypeOK'
    <2>1. /\ list' \in Seq(Block)
          /\ \A i, j \in 1..Len(list') : list'[i] = list'[j] => i = j
      <3>1. CASE b \in Cached
        BY <1>2, <3>1 DEF Write, TypeOK
      <3>2. CASE b \notin Cached
        BY <1>2, <3>2, AppendUnique DEF Write, TypeOK, Cached
      <3> QED BY <3>1, <3>2
    <2> QED BY <1>2, <2>1 DEF Write, TypeOK, Held, Blockwr, Restore
  <1>3. ASSUME NEW t \in {"one", "all"}, Flush(t) PROVE TypeOK'
    BY <1>3 DEF Flush, TypeOK, Blockwr, Restore
  <1>4. FlashOK(nor)
    BY DEF TypeOK, FlashOK
  <1>7. CASE FlushStep
    <2>1. CASE BwEraseInfo
      <3>1. FlashOK(nor')
        BY <2>1, <1>4, FlashTyped DEF BwEraseInfo, Step, Held
      <3> QED BY <2>1, <3>1 DEF BwEraseInfo, Step, TypeOK, FlashOK, Blockwr, Restore
    <2>2. CASE BwEraseData
      <3>1. FlashOK(nor')
        BY <2>2, <1>4, FlashTyped DEF BwEraseData, Step, Held
      <3> QED BY <2>2, <3>1 DEF BwEraseData, Step, TypeOK, FlashOK, Blockwr, Restore
    <2>3. CASE BwWriteData
      <3>1. FlashOK(nor')
        BY <2>3, <1>4, DataTyped, Operand DEF BwWriteData, Step, Blockwr, Restore, Held
      <3> QED BY <2>3, <3>1 DEF BwWriteData, Step, TypeOK, FlashOK, Blockwr, Restore
    <2>4. CASE BwWriteInfo
      <3>1. FlashOK(nor')
        BY <2>4, <1>4, InfoTyped, Operand DEF BwWriteInfo, Step, Blockwr, Restore, Held
      <3> QED BY <2>4, <3>1 DEF BwWriteInfo, Step, TypeOK, FlashOK, Blockwr, Restore
    <2>5. CASE BwEraseTarget
      <3>1. FlashOK(nor')
        BY <2>5, <1>4, FlashTyped, Operand DEF BwEraseTarget, Step, Blockwr, Restore, Held
      <3> QED BY <2>5, <3>1 DEF BwEraseTarget, Step, TypeOK, FlashOK, Blockwr, Restore
    <2>6. CASE BwWriteTarget
      <3>1. FlashOK(nor')
        BY <2>6, <1>4, DataTyped, Operand DEF BwWriteTarget, Step, Blockwr, Restore, Held
      <3> QED BY <2>6, <3>1 DEF BwWriteTarget, Step, TypeOK, FlashOK, Blockwr, Restore
    <2>7. CASE BwZeroInfo
      <3>1. FlashOK(nor')
        BY <2>7, <1>4, FlashTyped DEF BwZeroInfo, Step, Held
      <3> QED BY <2>7, <3>1 DEF BwZeroInfo, Step, TypeOK, FlashOK, Blockwr, Restore
    <2>8. CASE Unlink
      <3>1. /\ list' \in Seq(Block)
            /\ \A i, j \in 1..Len(list') : list'[i] = list'[j] => i = j
        <4>1. list' = Tail(list) \/ list' = <<>>
          BY <2>8 DEF Unlink
        <4>2. list \in Seq(Block) /\ list # <<>>
          BY <2>8 DEF Unlink, TypeOK, Blockwr
        <4>3. CASE list' = Tail(list)
          BY <4>2, <4>3, TailUnique DEF TypeOK
        <4>4. CASE list' = <<>>
          BY <4>4
        <4> QED BY <4>1, <4>3, <4>4
      <3> QED BY <2>8, <3>1 DEF Unlink, TypeOK, Blockwr, Restore
    <2>9. CASE WriteFails
      BY <2>9 DEF WriteFails, TypeOK, Blockwr, Restore
    <2> QED BY <1>7, <2>1, <2>2, <2>3, <2>4, <2>5, <2>6, <2>7, <2>8, <2>9
          DEF FlushStep
  <1>9. CASE RestoreStep
    <2>1. CASE RsCheck
      BY <2>1 DEF RsCheck, RestoreReturns, TypeOK, Blockwr, Restore, Held
    <2>2. CASE RsErase
      <3>1. FlashOK(nor')
        BY <2>2, <1>4, FlashTyped, Operand DEF RsErase, Step, Blockwr, Restore, Held
      <3> QED BY <2>2, <3>1 DEF RsErase, Step, TypeOK, FlashOK, Blockwr, Restore
    <2>3. CASE RsWrite
      <3>1. FlashOK(nor')
        BY <2>3, <1>4, DataTyped, Operand DEF RsWrite, Step, Blockwr, Restore, Held
      <3> QED BY <2>3, <3>1 DEF RsWrite, Step, TypeOK, FlashOK, Blockwr, Restore
    <2>4. CASE RsClear
      <3>1. FlashOK(nor')
        BY <2>4, <1>4, FlashTyped DEF RsClear, Step, Held
      <3> QED BY <2>4, <3>1 DEF RsClear, Step, TypeOK, FlashOK, Blockwr, Restore
    <2>5. CASE RsZero
      <3>1. FlashOK(nor')
        BY <2>5, <1>4, FlashTyped DEF RsZero
      <3> QED BY <2>5, <3>1 DEF RsZero, RestoreReturns, TypeOK, FlashOK, Blockwr, Restore
    <2>6. CASE RsFails
      BY <2>6 DEF RsFails, RestoreReturns, TypeOK, Blockwr, Restore, Held
    <2> QED BY <1>9, <2>1, <2>2, <2>3, <2>4, <2>5, <2>6 DEF RestoreStep
  <1>10. CASE PowerLoss
    <2>1. InProgress \subseteq Block \cup {Info, Data}
      BY Operand DEF InProgress, Blockwr, Restore
    <2>2. FlashOK(nor')
      BY <1>4, <1>10, <2>1, FlashTyped, Zenon DEF PowerLoss, Zeroed
    <2>3. latest' \in [Block -> Held]
      BY <1>10, <2>2 DEF PowerLoss, Stable, FlashOK
    <2>4. list' \in Seq(Block) /\ \A i, j \in 1..Len(list') : list'[i] = list'[j] => i = j
      BY <1>10 DEF PowerLoss
    <2> QED BY <1>10, <2>2, <2>3, <2>4 DEF PowerLoss, TypeOK, FlashOK, Blockwr, Restore
  <1> QED BY <1>1, <1>2, <1>3, <1>7, <1>9, <1>10 DEF Next

(* The state of the cache, the flash and the running operation stays well    *)
(* formed in every behaviour; in particular no block is ever cached twice.   *)
THEOREM TypeCorrect == Spec => []TypeOK
  <1> QED BY InitTypeOK, NextTypeOK, PTL DEF Spec

-----------------------------------------------------------------------------
(* Recoverable is not inductive: it says nothing of the data sector while   *)
(* the record is not yet written, nor of where an operation stands.  Inv    *)
(* adds both.                                                               *)
LEMMA InvRecoverable == Inv => Recoverable
  BY AreasDiffer, Zenon DEF Inv, StoreInv, Recoverable, Stable, TypeOK

(* The initial states satisfy the inductive invariant.                      *)
LEMMA InitInv == Init => Inv
  <1> SUFFICES ASSUME Init PROVE Inv
    OBVIOUS
  <1>1. TypeOK
    BY InitTypeOK
  <1>2. Cached = {}
    BY DEF Init, Cached
  <1> QED BY <1>1, <1>2, ValuesDiffer
        DEF Inv, BackupInv, StoreInv, Init, Blockwr, Restore

(* Every step of a write, a flush, a restore or a power loss keeps it.      *)
LEMMA NextInv == Inv /\ [Next]_vars => Inv'
  <1> SUFFICES ASSUME Inv, [Next]_vars, health' # "lost"
               PROVE  BackupInv' /\ StoreInv'
    BY NextTypeOK DEF Inv
  <1> USE AreasDiffer, ValuesDiffer
  <1>1. TypeOK /\ TypeOK' /\ FlashOK(nor)
    BY NextTypeOK DEF Inv, TypeOK, FlashOK
  <1>2. CASE UNCHANGED vars
    <2>1. Cached' = Cached
      BY <1>2 DEF vars, Cached
    <2> QED BY <1>2, <2>1 DEF vars, Inv, BackupInv, StoreInv
  <1>3. ASSUME NEW b \in Block, NEW c \in Content, Write(b, c)
        PROVE  BackupInv' /\ StoreInv'
    <2>1. health # "lost" /\ BackupInv /\ StoreInv
      BY <1>3 DEF Inv, Write
    <2>2. Cached' = Cached \cup {b}
      <3>1. CASE b \in Cached
        BY <1>3, <3>1 DEF Write, Cached
      <3>2. CASE b \notin Cached
        BY <1>1, <1>3, <3>2, AppendUnique DEF Write, Cached, TypeOK
      <3> QED BY <3>1, <3>2
    <2>3. BackupInv'
      BY <1>3, <2>1 DEF Write, BackupInv
    <2>4. health = "ok" => ReadOf(b) \in Content
      BY <1>3, <2>1 DEF Write, BackupInv, StoreInv, ReadOf
    <2>5. health = "ok" => \A x \in Cached' : vt'[x] \in Content
      BY <1>1, <1>3, <2>1, <2>2, <2>4, SMTT(20) DEF Write, StoreInv, TypeOK
    <2> QED BY <1>3, <2>1, <2>3, <2>5 DEF Write, StoreInv, Blockwr, Restore
  <1>4. ASSUME NEW t \in {"one", "all"}, Flush(t) PROVE BackupInv' /\ StoreInv'
    <2>1. health # "lost" /\ BackupInv /\ StoreInv
      BY <1>4 DEF Inv, Flush
    <2>2. Cached' = Cached
      BY <1>4 DEF Flush, Cached
    <2> QED BY <1>1, <1>4, <2>1, <2>2
          DEF Flush, BackupInv, StoreInv, Blockwr, Restore, TypeOK
  <1>5. CASE FlushStep
    <2>1. health' = health
      BY <1>5 DEF FlushStep, BwEraseInfo, BwEraseData, BwWriteData, BwWriteInfo,
                  BwEraseTarget, BwWriteTarget, BwZeroInfo, Unlink, WriteFails, Step
    <2>2. health # "lost" /\ BackupInv /\ StoreInv
      BY <2>1 DEF Inv
    <2>3. pc \in Blockwr /\ health = "ok"
      BY <1>5, <2>2 DEF FlushStep, BwEraseInfo, BwEraseData, BwWriteData, BwWriteInfo,
                  BwEraseTarget, BwWriteTarget, BwZeroInfo, Unlink, WriteFails, Step,
                  Blockwr, StoreInv
    <2>4. /\ Head(list) \in Block /\ Head(list) \in Cached
          /\ vt[Head(list)] \in Content
      BY <1>1, <2>2, <2>3, Operand DEF StoreInv
    <2>5. CASE BwEraseInfo
      <3>1. Cached' = Cached
        BY <2>5 DEF BwEraseInfo, Step, Cached
      <3> QED BY <1>1, <2>2, <2>3, <2>4, <2>5, <3>1, FlashAfter
            DEF BwEraseInfo, Step, BackupInv, StoreInv, Blockwr, Restore
    <2>6. CASE BwEraseData
      <3>1. Cached' = Cached
        BY <2>6, SMTT(20) DEF BwEraseData, Step, Cached
      <3> QED BY <1>1, <2>2, <2>3, <2>4, <2>6, <3>1, FlashAfter
            DEF BwEraseData, Step, BackupInv, StoreInv, Blockwr, Restore
    <2>7. CASE BwWriteData
      <3>1. Cached' = Cached
        BY <2>7, SMTT(20) DEF BwWriteData, Step, Cached
      <3> QED BY <1>1, <2>2, <2>3, <2>4, <2>7, <3>1, FlashAfter
            DEF BwWriteData, Step, BackupInv, StoreInv, Blockwr, Restore
    <2>8. CASE BwWriteInfo
      <3>1. Cached' = Cached
        BY <2>8, SMTT(20) DEF BwWriteInfo, Step, Cached
      <3> QED BY <1>1, <2>2, <2>3, <2>4, <2>8, <3>1, FlashAfter
            DEF BwWriteInfo, Step, BackupInv, StoreInv, Blockwr, Restore
    <2>9. CASE BwEraseTarget
      <3>1. Cached' = Cached
        BY <2>9, SMTT(20) DEF BwEraseTarget, Step, Cached
      <3> QED BY <1>1, <2>2, <2>3, <2>4, <2>9, <3>1, FlashAfter
            DEF BwEraseTarget, Step, BackupInv, StoreInv, Blockwr, Restore
    <2>10. CASE BwWriteTarget
      <3>1. Cached' = Cached
        BY <2>10 DEF BwWriteTarget, Step, Cached
      <3> QED BY <1>1, <2>2, <2>3, <2>4, <2>10, <3>1, FlashAfter
            DEF BwWriteTarget, Step, BackupInv, StoreInv, Blockwr, Restore
    <2>11. CASE BwZeroInfo
      <3>1. Cached' = Cached
        BY <2>11 DEF BwZeroInfo, Step, Cached
      <3> QED BY <1>1, <2>2, <2>3, <2>4, <2>11, <3>1, FlashAfter
            DEF BwZeroInfo, Step, BackupInv, StoreInv, Blockwr, Restore
    <2>12. CASE Unlink
      <3>1. list' = Tail(list) \/ list' = <<>>
        BY <2>12 DEF Unlink
      <3>2. list \in Seq(Block) /\ list # <<>>
        BY <1>1, <2>3 DEF TypeOK
      <3>3. Cached' \subseteq Cached
        <4>1. CASE list' = Tail(list)
          <5>1. \A i \in 1..Len(list') : i + 1 \in 1..Len(list) /\ list'[i] = list[i + 1]
            BY <3>2, <4>1
          <5> QED BY <5>1 DEF Cached
        <4>2. CASE list' = <<>>
          BY <4>2 DEF Cached
        <4> QED BY <3>1, <4>1, <4>2
      <3> QED BY <1>1, <2>2, <2>3, <2>12, <3>3
            DEF Unlink, BackupInv, StoreInv, Blockwr, Restore
    <2>13. CASE WriteFails
      <3>1. Cached' = Cached
        BY <2>13 DEF WriteFails, Cached
      <3> QED BY <1>1, <2>2, <2>3, <2>13, <3>1
            DEF WriteFails, BackupInv, StoreInv, Blockwr, Restore
    <2> QED BY <1>5, <2>5, <2>6, <2>7, <2>8, <2>9, <2>10, <2>11, <2>12, <2>13
          DEF FlushStep
  <1>6. CASE RestoreStep
    <2>1. health # "lost" /\ BackupInv /\ StoreInv /\ pc \in Restore
      <3>1. health = "lost" => health' = "lost"
        BY <1>6 DEF RestoreStep, RsCheck, RsErase, RsWrite, RsClear, RsZero, RsFails,
                    RestoreReturns, Step
      <3>2. pc \in Restore
        BY <1>6, Zenon DEF RestoreStep, RsCheck, RsErase, RsWrite, RsClear, RsZero, RsFails,
                    Step, Restore
      <3> QED BY <3>1, <3>2 DEF Inv
    <2>2. Cached' = Cached
      BY <1>6 DEF RestoreStep, RsCheck, RsErase, RsWrite, RsClear, RsZero, RsFails,
                  RestoreReturns, Step, Cached
    <2>3. list = <<>> => Cached = {}
      BY DEF Cached
    <2>4. CASE RsCheck
      BY <1>1, <2>1, <2>2, <2>3, <2>4, SMTT(30)
         DEF RsCheck, RestoreReturns, BackupInv, StoreInv, Blockwr, Restore, TypeOK
    <2>5. CASE RsErase
      <3>1. bkw.addr \in Block
        BY <1>1, <2>5, Operand DEF RsErase, Step, Restore
      <3>2. /\ nor' = Erased(bkw.addr) /\ pc = "rsErase" /\ pc' = "rsWrite"
            /\ UNCHANGED <<list, vt, bkw, health>>
        BY <2>5 DEF RsErase, Step
      <3>3. \A x \in Block \cup {Info, Data} :
               nor'[x] = IF x = bkw.addr THEN Blank ELSE nor[x]
        BY <1>1, <3>1, <3>2, FlashAfter
      <3>4. nor[Info] = bkw.addr /\ nor[Data] = bkw.data
        BY <2>1, <3>2 DEF BackupInv
      <3>5. nor'[Info] = bkw.addr /\ nor'[Data] = bkw.data /\ nor'[bkw.addr] = Blank
        BY <3>1, <3>3, <3>4
      <3>6. BackupInv'
        BY <3>2, <3>5 DEF BackupInv
      <3>7. StoreInv'
        BY <2>1, <2>2, <3>1, <3>2, <3>3, <3>4, <3>5, SMTT(20) DEF StoreInv, Blockwr, Restore
      <3> QED BY <1>1, <3>6, <3>7, SMTT(20)
    <2>6. CASE RsWrite
      <3>1. bkw.addr \in Block
        BY <1>1, <2>6, Operand, SMTT(20) DEF RsWrite, Step, Restore
      <3> QED BY <1>1, <2>1, <2>2, <2>6, <3>1, FlashAfter, SMTT(30)
            DEF RsWrite, Step, BackupInv, StoreInv, Blockwr, Restore
    <2>7. CASE RsClear
      BY <1>1, <2>1, <2>2, <2>7, FlashAfter, SMTT(20)
         DEF RsClear, Step, BackupInv, StoreInv, Blockwr, Restore
    <2>8. CASE RsZero
      BY <1>1, <2>1, <2>2, <2>3, <2>8, FlashAfter, SMTT(30)
         DEF RsZero, RestoreReturns, BackupInv, StoreInv, Blockwr, Restore, TypeOK
    <2>9. CASE RsFails
      BY <1>1, <2>1, <2>2, <2>3, <2>9, SMTT(20)
         DEF RsFails, RestoreReturns, BackupInv, StoreInv, Blockwr, Restore, TypeOK
    <2> QED BY <1>6, <2>4, <2>5, <2>6, <2>7, <2>8, <2>9 DEF RestoreStep
  <1>7. CASE PowerLoss
    <2>1. health # "lost" /\ BackupInv /\ StoreInv
      BY <1>7 DEF PowerLoss, Inv
    <2>2. list' = <<>> /\ Cached' = {}
      BY <1>7 DEF PowerLoss, Cached
    <2>3. /\ nor'[Info] \in Block => nor'[Data] \in Content
          /\ \A b \in Block : b # nor'[Info] => nor'[b] \in Content
      <3>1. CASE nor' = nor
        BY <2>1, <3>1 DEF StoreInv
      <3>2. ASSUME NEW a \in InProgress, nor' = Zeroed(a)
            PROVE  /\ nor'[Info] \in Block => nor'[Data] \in Content
                   /\ \A b \in Block : b # nor'[Info] => nor'[b] \in Content
        BY <1>1, <2>1, <3>2, FlashAfter, Operand
           DEF InProgress, BackupInv, StoreInv, Blockwr, Restore
      <3> QED BY <1>7, <3>1, <3>2 DEF PowerLoss, Zeroed
    <2> QED BY <1>7, <2>1, <2>2, <2>3
          DEF PowerLoss, BackupInv, StoreInv, Blockwr, Restore
  <1> QED BY <1>2, <1>3, <1>4, <1>5, <1>6, <1>7 DEF Next

(* The inductive invariant of the write-back protocol holds throughout.     *)
THEOREM InvHolds == Spec => []Inv
  <1> QED BY InitInv, NextInv, PTL DEF Spec

(* Whatever the blocks, their contents and the order of writes, flushes,     *)
(* failed writes, failed restores and losses of power, every block can be    *)
(* rebuilt whole at the next boot unless a flush followed a failed restore.  *)
THEOREM AlwaysRecoverable == Spec => []Recoverable
  <1> QED BY InvHolds, InvRecoverable, PTL

-----------------------------------------------------------------------------
(* How each step changes what is stable: only the step that completes the   *)
(* backup record does.                                                      *)
LEMMA StableSteps ==
  ASSUME Inv, Inv', [Next]_vars, health' # "lost", NEW b \in Block
  PROVE  Stable(b)' = IF BwWriteInfo /\ b = Head(list) THEN vt[b] ELSE Stable(b)
  <1> USE AreasDiffer, ValuesDiffer
  <1>1. TypeOK /\ FlashOK(nor)
    BY DEF Inv, TypeOK, FlashOK
  <1>2. ASSUME pc' = pc PROVE ~BwWriteInfo
    BY <1>2 DEF BwWriteInfo, Step
  <1>3. CASE UNCHANGED vars \/ (\E x \in Block, c \in Content : Write(x, c))
             \/ (\E t \in {"one", "all"} : Flush(t)) \/ Unlink \/ WriteFails
             \/ RsCheck \/ RsFails
    <2>1. nor' = nor /\ ~BwWriteInfo
      BY <1>3 DEF vars, Write, Flush, Unlink, WriteFails, RsCheck, RsFails,
                  RestoreReturns, BwWriteInfo, Step
    <2> QED BY <2>1, SMTT(20) DEF Stable
  <1>4. CASE FlushStep /\ ~Unlink /\ ~WriteFails
    <2>1. health # "lost" /\ BackupInv /\ StoreInv /\ pc \in Blockwr /\ health = "ok"
      BY <1>4, SMTT(20) DEF FlushStep, BwEraseInfo, BwEraseData, BwWriteData, BwWriteInfo,
           BwEraseTarget, BwWriteTarget, BwZeroInfo, Step, Inv, Blockwr, StoreInv
    <2>2. Head(list) \in Block
      BY <1>1, <2>1, Operand, Zenon
    <2>3. CASE BwEraseInfo
      <3>1. nor' = Erased(Info) /\ pc = "eraseInfo" /\ ~BwWriteInfo
        BY <2>3, SMTT(20) DEF BwEraseInfo, BwWriteInfo, Step
      <3>2. nor'[Info] = Blank /\ nor'[b] = nor[b]
        BY <1>1, <3>1, FlashAfter
      <3>3. nor[Info] \notin Block
        BY <2>1, <3>1 DEF BackupInv
      <3> QED BY <3>1, <3>2, <3>3 DEF Stable
    <2>4. CASE BwEraseData
      <3>1. nor' = Erased(Data) /\ pc = "eraseData" /\ ~BwWriteInfo
        BY <2>4 DEF BwEraseData, BwWriteInfo, Step
      <3>2. nor[Info] = Blank
        BY <2>1, <3>1 DEF BackupInv
      <3>3. nor'[Info] = Blank /\ nor'[b] = nor[b]
        BY <1>1, <2>2, <3>1, <3>2, FlashAfter
      <3> QED BY <2>4, <3>1, <3>2, <3>3 DEF Stable
    <2>5. CASE BwWriteData
      <3>1. nor' = Programmed(Data, vt[Head(list)]) /\ pc = "writeData" /\ ~BwWriteInfo
        BY <2>5 DEF BwWriteData, BwWriteInfo, Step
      <3>2. nor[Info] = Blank
        BY <2>1, <3>1 DEF BackupInv
      <3>3. nor'[Info] = Blank /\ nor'[b] = nor[b]
        BY <1>1, <2>2, <3>1, <3>2, FlashAfter
      <3> QED BY <2>5, <3>1, <3>2, <3>3 DEF Stable
    <2>6. CASE BwWriteInfo
      <3>1. nor' = Programmed(Info, Head(list)) /\ pc = "writeInfo"
        BY <2>6 DEF BwWriteInfo, Step
      <3>2. nor[Info] = Blank /\ nor[Data] = vt[Head(list)]
        BY <2>1, <3>1, SMTT(20) DEF BackupInv
      <3>3. nor'[Info] = Head(list) /\ nor'[Data] = nor[Data] /\ nor'[b] = nor[b]
        BY <1>1, <2>2, <3>1, <3>2, FlashAfter
      <3> QED BY <2>6, <3>1, <3>2, <3>3 DEF Stable
    <2>7. CASE BwEraseTarget
      <3>1. nor' = Erased(Head(list)) /\ pc = "eraseTarget" /\ ~BwWriteInfo
        BY <2>7 DEF BwEraseTarget, BwWriteInfo, Step
      <3>2. nor[Info] = Head(list)
        BY <2>1, <3>1 DEF BackupInv
      <3>3. /\ nor'[Info] = nor[Info] /\ nor'[Data] = nor[Data]
            /\ b # Head(list) => nor'[b] = nor[b]
        BY <1>1, <2>2, <3>1, <3>2, FlashAfter, SMTT(20)
      <3> QED BY <2>7, <3>1, <3>2, <3>3 DEF Stable
    <2>8. CASE BwWriteTarget
      <3>1. nor' = Programmed(Head(list), vt[Head(list)]) /\ pc = "writeTarget" /\ ~BwWriteInfo
        BY <2>8 DEF BwWriteTarget, BwWriteInfo, Step
      <3>2. nor[Info] = Head(list)
        BY <2>1, <3>1, SMTT(20) DEF BackupInv
      <3>3. /\ nor'[Info] = nor[Info] /\ nor'[Data] = nor[Data]
            /\ b # Head(list) => nor'[b] = nor[b]
        BY <1>1, <2>2, <3>1, <3>2, FlashAfter
      <3> QED BY <2>8, <3>1, <3>2, <3>3 DEF Stable
    <2>9. CASE BwZeroInfo
      <3>1. nor' = Zeroed(Info) /\ pc = "zeroInfo" /\ ~BwWriteInfo
        BY <2>9 DEF BwZeroInfo, BwWriteInfo, Step
      <3>2. nor[Info] = Head(list) /\ nor[Data] = vt[Head(list)] /\ nor[Head(list)] = vt[Head(list)]
        BY <2>1, <3>1, SMTT(20) DEF BackupInv
      <3>3. nor'[Info] = Junk /\ nor'[b] = nor[b]
        BY <1>1, <2>2, <3>1, <3>2, FlashAfter
      <3> QED BY <2>9, <3>1, <3>2, <3>3 DEF Stable
    <2> QED BY <1>4, <2>3, <2>4, <2>5, <2>6, <2>7, <2>8, <2>9, SMTT(20) DEF FlushStep
  <1>5. CASE RsErase \/ RsWrite \/ RsClear \/ RsZero
    <2>1. health # "lost" /\ BackupInv /\ ~BwWriteInfo /\ pc \in Restore \ {"check"}
      BY <1>5 DEF RsErase, RsWrite, RsClear, RsZero, RestoreReturns, Step, Inv,
                  BwWriteInfo, Restore
    <2>2. bkw.addr \in Block
      BY <1>1, <2>1, Operand
    <2>3. CASE RsErase
      <3>1. nor' = Erased(bkw.addr) /\ pc = "rsErase"
        BY <2>3 DEF RsErase, Step
      <3>2. nor[Info] = bkw.addr
        BY <2>1, <3>1, SMTT(20) DEF BackupInv
      <3>3. /\ nor'[Info] = nor[Info] /\ nor'[Data] = nor[Data]
            /\ b # bkw.addr => nor'[b] = nor[b]
        BY <1>1, <2>2, <3>1, FlashAfter
      <3> QED BY <2>1, <2>2, <3>2, <3>3 DEF Stable
    <2>4. CASE RsWrite
      <3>1. nor' = Programmed(bkw.addr, bkw.data) /\ pc = "rsWrite"
        BY <2>4 DEF RsWrite, Step
      <3>2. nor[Info] = bkw.addr
        BY <2>1, <3>1 DEF BackupInv
      <3>3. /\ nor'[Info] = nor[Info] /\ nor'[Data] = nor[Data]
            /\ b # bkw.addr => nor'[b] = nor[b]
        BY <1>1, <2>2, <3>1, FlashAfter
      <3> QED BY <2>1, <2>2, <3>2, <3>3 DEF Stable
    <2>5. CASE RsClear
      <3>1. nor' = Erased(Info) /\ pc = "rsClear"
        BY <2>5 DEF RsClear, Step
      <3>2. nor[Info] = bkw.addr /\ nor[Data] = bkw.data /\ nor[bkw.addr] = bkw.data
        BY <2>1, <3>1, SMTT(20) DEF BackupInv
      <3>3. nor'[Info] = Blank /\ nor'[b] = nor[b]
        BY <1>1, <2>2, <3>1, FlashAfter
      <3> QED BY <2>1, <2>2, <3>2, <3>3 DEF Stable
    <2>6. CASE RsZero
      <3>1. nor' = Zeroed(Info) /\ pc = "rsZero"
        BY <2>6 DEF RsZero, Step
      <3>2. nor[Info] = Blank
        BY <2>1, <3>1 DEF BackupInv
      <3>3. nor'[Info] = Junk /\ nor'[b] = nor[b]
        BY <1>1, <2>2, <3>1, FlashAfter
      <3> QED BY <2>1, <2>2, <3>2, <3>3 DEF Stable
    <2> QED BY <1>5, <2>3, <2>4, <2>5, <2>6
  <1>6. CASE PowerLoss
    <2>1. health # "lost" /\ BackupInv /\ StoreInv
      BY <1>6 DEF PowerLoss, Inv
    <2>2. ~BwWriteInfo
      BY <1>6 DEF PowerLoss, BwWriteInfo, Step
    <2>3. CASE nor' = nor
      BY <2>2, <2>3 DEF Stable
    <2>4. ASSUME NEW a \in InProgress, nor' = Zeroed(a) PROVE Stable(b)' = Stable(b)
      BY <1>1, <2>1, <2>4, FlashAfter, Operand
         DEF InProgress, BackupInv, StoreInv, Blockwr, Restore, Stable
    <2> QED BY <1>6, <2>2, <2>3, <2>4 DEF PowerLoss, Zeroed
  <1> QED BY <1>3, <1>4, <1>5, <1>6 DEF Next, RestoreStep, FlushStep

-----------------------------------------------------------------------------
(* The history variable against the cache: a cached block holds what was    *)
(* last written, and a boot whose restore follows a failed one starts from  *)
(* what is stable.                                                          *)
CacheInv ==
  health # "lost" =>
    /\ \A b \in Cached : latest[b] = vt[b]
    /\ health = "pending" /\ pc \in Restore => \A b \in Block : latest[b] = Stable(b)

(* The cache is empty at first.                                             *)
LEMMA InitCacheInv == Init => CacheInv
  BY DEF Init, CacheInv, Cached

(* The list only changes by a write, an unlink or a loss of power.          *)
LEMMA ListSteps ==
  ASSUME Inv, [Next]_vars
  PROVE  \/ \E b \in Block, c \in Content : Write(b, c)
         \/ Unlink /\ Cached' \subseteq Cached /\ UNCHANGED <<vt, latest>>
         \/ PowerLoss /\ Cached' = {}
         \/ UNCHANGED <<list, vt, latest, Cached>>
  <1>1. CASE Unlink
    <2>1. list \in Seq(Block) /\ list # <<>>
      BY <1>1 DEF Unlink, Inv, TypeOK, Blockwr
    <2>2. CASE list' = Tail(list)
      <3>1. \A i \in 1..Len(list') : i + 1 \in 1..Len(list) /\ list'[i] = list[i + 1]
        BY <2>1, <2>2
      <3> QED BY <1>1, <3>1 DEF Cached, Unlink
    <2>3. CASE list' = <<>>
      BY <1>1, <2>3 DEF Cached, Unlink
    <2> QED BY <1>1, <2>2, <2>3 DEF Unlink
  <1>2. CASE PowerLoss
    BY <1>2 DEF PowerLoss, Cached
  <1>3. CASE \/ UNCHANGED vars
             \/ \E t \in {"one", "all"} : Flush(t)
             \/ FlushStep /\ ~Unlink
             \/ RestoreStep
    <2>1. UNCHANGED <<list, vt, latest>>
      BY <1>3 DEF vars, Flush, FlushStep, BwEraseInfo, BwEraseData, BwWriteData,
           BwWriteInfo, BwEraseTarget, BwWriteTarget, BwZeroInfo, WriteFails, Step,
           RestoreStep, RsCheck, RsErase, RsWrite, RsClear, RsZero, RsFails,
           RestoreReturns
    <2> QED BY <2>1, SMTT(20) DEF Cached
  <1> QED BY <1>1, <1>2, <1>3 DEF Next

(* What a write leaves in the cache.                                        *)
LEMMA WriteCaches ==
  ASSUME Inv, NEW b \in Block, NEW c \in Content, Write(b, c)
  PROVE  Cached' = Cached \cup {b}
  <1>1. CASE b \in Cached
    BY <1>1, Zenon DEF Write, Cached
  <1>2. CASE b \notin Cached
    <2>1. list' = Append(list, b)
      BY <1>2 DEF Write
    <2>2. list \in Seq(Block) /\ \A i, j \in 1..Len(list) : list[i] = list[j] => i = j
      BY DEF Inv, TypeOK
    <2>3. b \notin {list[i] : i \in 1..Len(list)}
      BY <1>2, Zenon DEF Cached
    <2>4. {Append(list, b)[i] : i \in 1..Len(Append(list, b))}
            = {list[i] : i \in 1..Len(list)} \cup {b}
      BY <2>2, <2>3, AppendUnique, SMTT(20)
    <2> QED BY <2>1, <2>4, Zenon DEF Cached
  <1> QED BY <1>1, <1>2, Zenon

(* Every step keeps the cached copies those of the last writes.             *)
LEMMA NextCacheInv == Inv /\ Inv' /\ CacheInv /\ [Next]_vars => CacheInv'
  <1> SUFFICES ASSUME Inv, Inv', CacheInv, [Next]_vars, health' # "lost"
               PROVE  CacheInv'
    BY SMTT(20) DEF CacheInv
  <1>1. health # "lost"
    BY DEF Next, vars, Write, Flush, FlushStep, BwEraseInfo, BwEraseData, BwWriteData,
           BwWriteInfo, BwEraseTarget, BwWriteTarget, BwZeroInfo, Unlink, WriteFails,
           Step, RestoreStep, RsCheck, RsErase, RsWrite, RsClear, RsZero, RsFails,
           RestoreReturns, PowerLoss
  <1>2. \A b \in Cached' : latest'[b] = vt'[b]
    <2>1. ASSUME NEW b \in Block, NEW c \in Content, Write(b, c)
          PROVE  \A x \in Cached' : latest'[x] = vt'[x]
      <3>1. Cached \subseteq Block
        BY DEF Cached, Inv, TypeOK
      <3>2. /\ vt' = [vt EXCEPT ![b] = vt'[b]]
            /\ latest' = [latest EXCEPT ![b] = vt'[b]]
            /\ DOMAIN vt = Block /\ DOMAIN latest = Block
        BY <2>1 DEF Write, Inv, TypeOK
      <3>3. Cached' = Cached \cup {b}
        BY <2>1, WriteCaches
      <3> QED BY <1>1, <3>1, <3>2, <3>3 DEF CacheInv
    <2> QED BY <1>1, <2>1, ListSteps DEF CacheInv
  <1>3. ASSUME health' = "pending", pc' \in Restore, NEW b \in Block
        PROVE  latest'[b] = Stable(b)'
    <2>1. CASE PowerLoss
      BY <2>1 DEF PowerLoss
    <2>2. CASE ~PowerLoss
      <3>1. health = "pending" /\ pc \in Restore
        BY <1>1, <1>3, <2>2
           DEF Next, vars, Write, Flush, FlushStep, BwEraseInfo, BwEraseData,
               BwWriteData, BwWriteInfo, BwEraseTarget, BwWriteTarget, BwZeroInfo,
               Unlink, WriteFails, Step, RestoreStep, RsCheck, RsErase, RsWrite,
               RsClear, RsZero, RsFails, RestoreReturns, Restore, Inv, StoreInv, Blockwr
      <3>2. ~BwWriteInfo
        BY <3>1 DEF BwWriteInfo, Step, Restore
      <3>3. UNCHANGED latest
        BY <2>2, <3>1, ListSteps DEF Write, Restore
      <3> QED BY <1>1, <3>1, <3>2, <3>3, StableSteps, SMTT(20) DEF CacheInv
    <2> QED BY <2>1, <2>2
  <1> QED BY <1>2, <1>3 DEF CacheInv

(* The steps of the store that the steps of the protocol are.               *)
LEMMA InitStore == Init => Store!Init
  <1> SUFFICES ASSUME Init PROVE Store!Init
    OBVIOUS
  <1>1. \A b \in Block : Stable(b) = nor[b]
    BY AreasDiffer, ValuesDiffer, Zenon DEF Init, Stable
  <1> QED BY <1>1 DEF Init, Store!Init

(* Every step of the protocol is a step of the store or leaves it alone.    *)
LEMMA NextStore ==
  ASSUME Inv, Inv', CacheInv, [Next]_vars
  PROVE  [Store!Next]_<<latest, [b \in Block |-> Stable(b)], health>>
  <1> DEFINE st == [b \in Block |-> Stable(b)]
  <1> USE AreasDiffer, ValuesDiffer
  <1>1. CASE health' = "lost"
    BY <1>1 DEF Store!Next, Store!GiveUp
  <1> SUFFICES ASSUME health' # "lost"
               PROVE  Store!Next \/ UNCHANGED <<latest, st, health>>
    BY <1>1, SMTT(20)
  <1>2. health # "lost"
    BY DEF Next, vars, Write, Flush, FlushStep, BwEraseInfo, BwEraseData, BwWriteData,
           BwWriteInfo, BwEraseTarget, BwWriteTarget, BwZeroInfo, Unlink, WriteFails,
           Step, RestoreStep, RsCheck, RsErase, RsWrite, RsClear, RsZero, RsFails,
           RestoreReturns, PowerLoss
  <1>3. ~BwWriteInfo => st' = st
    BY StableSteps
  <1>4. ASSUME NEW b \in Block, NEW c \in Content, Write(b, c) PROVE Store!Next
    <2>1. st' = st /\ health' = health
      BY <1>3, <1>4 DEF Write, BwWriteInfo, Step
    <2>2. CASE health = "ok"
      <3>1. ReadOf(b) \in Content
        BY <1>4, <2>2, Zenon DEF Write, ReadOf, Inv, BackupInv, StoreInv
      <3>2. latest' = [latest EXCEPT ![b] = c]
        BY <1>4, <3>1 DEF Write
      <3>3. Store!Write(b, c)
        BY <2>1, <2>2, <3>2 DEF Store!Write
      <3> QED BY <3>3, SMTT(20) DEF Store!Next
    <2>3. CASE health = "pending"
      <3>1. PICK v \in Content \cup {Junk} : latest' = [latest EXCEPT ![b] = v]
        BY <1>4, Zenon DEF Write
      <3>2. Store!WriteDamaged(b, v)
        BY <2>1, <2>3, <3>1 DEF Store!WriteDamaged
      <3> QED BY <3>2 DEF Store!Next
    <2> QED BY <1>2, <2>2, <2>3 DEF Inv, TypeOK
  <1>5. ASSUME NEW t \in {"one", "all"}, Flush(t) PROVE UNCHANGED <<latest, st, health>>
    <2>1. st' = st
      BY <1>3, <1>5 DEF Flush, BwWriteInfo, Step
    <2> QED BY <1>5, <2>1, <1>2 DEF Flush, Inv, TypeOK
  <1>6. CASE BwWriteInfo
    <2>1. pc \in Blockwr /\ health = "ok" /\ health' = health /\ latest' = latest
      BY <1>2, <1>6 DEF BwWriteInfo, Step, Blockwr, Inv, StoreInv
    <2>2. Head(list) \in Block /\ Head(list) \in Cached
      BY <2>1, Operand DEF Inv
    <2>3. \A b \in Block : Stable(b)' = IF b = Head(list) THEN latest[b] ELSE Stable(b)
      BY <1>2, <1>6, <2>2, StableSteps DEF CacheInv
    <2>4. st' = [st EXCEPT ![Head(list)] = latest[Head(list)]]
      BY <2>2, <2>3, Zenon
    <2>5. Store!Commit(Head(list))
      BY <2>1, <2>4 DEF Store!Commit
    <2> QED BY <2>2, <2>5 DEF Store!Next
  <1>7. CASE FlushStep /\ ~BwWriteInfo
    <2>1. latest' = latest /\ health' = health
      BY <1>7 DEF FlushStep, BwEraseInfo, BwEraseData, BwWriteData, BwEraseTarget,
                  BwWriteTarget, BwZeroInfo, Unlink, WriteFails, Step
    <2> QED BY <1>3, <1>7, <2>1
  <1>8. CASE RestoreStep
    <2>1. latest' = latest /\ pc \in Restore
      BY <1>8 DEF RestoreStep, RsCheck, RsErase, RsWrite, RsClear, RsZero, RsFails,
                  RestoreReturns, Step, Restore
    <2>2. st' = st
      BY <1>3, <2>1 DEF BwWriteInfo, Step, Restore
    <2>3. health \in {"ok", "pending"} /\ health' \in {"ok", "pending"}
      BY <1>2 DEF Inv, TypeOK
    <2>4. CASE health = "ok" /\ health' = "pending"
      BY <2>1, <2>2, <2>4 DEF Store!Next, Store!RestoreFails
    <2>5. CASE health = "pending" /\ health' = "ok"
      <3>1. latest = st
        <4>1. \A b \in Block : latest[b] = Stable(b)
          BY <2>1, <2>5 DEF CacheInv
        <4> QED BY <4>1 DEF Inv, TypeOK
      <3> QED BY <2>1, <2>2, <2>5, <3>1 DEF Store!Next, Store!Recover
    <2> QED BY <2>1, <2>2, <2>3, <2>4, <2>5
  <1>9. CASE PowerLoss
    <2>1. st' = st /\ health' = health /\ latest' = st'
      BY <1>3, <1>9 DEF PowerLoss, BwWriteInfo, Step
    <2> QED BY <1>2, <2>1 DEF Store!Next, Store!PowerLoss
  <1>10. CASE UNCHANGED vars
    <2>1. st' = st
      BY <1>3, <1>10 DEF vars, BwWriteInfo, Step
    <2> QED BY <1>10, <2>1 DEF vars
  <1> QED BY <1>4, <1>5, <1>6, <1>7, <1>8, <1>9, <1>10 DEF Next

(* The backup-write protocol implements the write-back store: for any blocks *)
(* and contents a write-back makes a whole block stable in one step, and     *)
(* nothing else a flush, a restore, a failure or a loss of power does        *)
(* changes what is stable.                                                   *)
THEOREM StoreImplemented == Spec => ImplementsStore
  <1>1. Spec => []CacheInv
    BY InitCacheInv, NextCacheInv, InvHolds, PTL DEF Spec
  <1>2. Spec => Store!Spec
    BY <1>1, InvHolds, InitStore, NextStore, PTL DEF Spec, Store!Spec
  <1> QED BY <1>2 DEF ImplementsStore

-----------------------------------------------------------------------------
(* When a freed list node is not reused at once, nothing is dropped from    *)
(* the cache: a block that is not cached is stable as last written, and a   *)
(* flush of all blocks leaves the list empty.                               *)
CoherentInv ==
  /\ health # "lost" => \A b \in Block : b \notin Cached => latest[b] = Stable(b)
  /\ pc \in Restore => ret # "ok"
  /\ pc = "idle" /\ ret = "ok" /\ type = "all" => list = <<>>

(* Before the first operation the flash holds what was last written.        *)
LEMMA InitCoherent == Init => CoherentInv
  <1> SUFFICES ASSUME Init PROVE CoherentInv
    OBVIOUS
  <1>1. \A b \in Block : Stable(b) = nor[b]
    BY AreasDiffer, ValuesDiffer, Zenon DEF Init, Stable
  <1> QED BY <1>1 DEF Init, CoherentInv

(* Every step keeps what is not cached equal to what was last written, when *)
(* no freed list node is reused early.                                      *)
LEMMA NextCoherent ==
  ~HeapReuse => (Inv /\ Inv' /\ CacheInv /\ CoherentInv /\ [Next]_vars => CoherentInv')
  <1> SUFFICES ASSUME ~HeapReuse, Inv, Inv', CacheInv, CoherentInv, [Next]_vars
               PROVE  CoherentInv'
    BY SMTT(20)
  <1>1. /\ pc' \in Restore => ret' # "ok"
        /\ pc' = "idle" /\ ret' = "ok" /\ type' = "all" => list' = <<>>
    BY DEF Next, vars, Write, Flush, FlushStep, BwEraseInfo, BwEraseData, BwWriteData,
           BwWriteInfo, BwEraseTarget, BwWriteTarget, BwZeroInfo, Unlink, WriteFails,
           Step, RestoreStep, RsCheck, RsErase, RsWrite, RsClear, RsZero, RsFails,
           RestoreReturns, PowerLoss, CoherentInv, Restore
  <1>2. ASSUME health' # "lost", NEW b \in Block, b \notin Cached'
        PROVE  latest'[b] = Stable(b)'
    <2>1. health # "lost"
      BY <1>2 DEF Next, vars, Write, Flush, FlushStep, BwEraseInfo, BwEraseData,
           BwWriteData, BwWriteInfo, BwEraseTarget, BwWriteTarget, BwZeroInfo, Unlink,
           WriteFails, Step, RestoreStep, RsCheck, RsErase, RsWrite, RsClear, RsZero,
           RsFails, RestoreReturns, PowerLoss
    <2>2. ASSUME NEW x \in Block, NEW c \in Content, Write(x, c)
          PROVE  latest'[b] = Stable(b)'
      <3>1. b \notin Cached /\ b # x
        BY <1>2, <2>2, WriteCaches
      <3>2. latest'[b] = latest[b]
        BY <2>2, <3>1 DEF Write
      <3>3. Stable(b)' = Stable(b)
        BY <2>2 DEF Write, Stable
      <3> QED BY <2>1, <3>1, <3>2, <3>3 DEF CoherentInv
    <2>3. CASE Unlink
      <3>1. list' = Tail(list) /\ list \in Seq(Block) /\ list # <<>>
        BY <2>3 DEF Unlink, Inv, TypeOK, Blockwr
      <3>2. b \in Cached => b = Head(list)
        <4>1. \A i \in 1..Len(list) : i = 1 \/ (i - 1 \in 1..Len(list') /\ list'[i - 1] = list[i])
          BY <3>1
        <4> QED BY <1>2, <3>1, <4>1 DEF Cached
      <3>3. Stable(b)' = Stable(b) /\ latest' = latest
        BY <2>3 DEF Unlink, Stable
      <3>4. CASE b = Head(list)
        <4>1. Stable(b) = vt[b]
          BY <2>1, <2>3, <3>4, SMTT(20) DEF Unlink, Stable, Inv, BackupInv, StoreInv, Blockwr
        <4>2. Head(list) \in Cached
          BY <2>3, Operand DEF Unlink, Inv, Blockwr
        <4> QED BY <2>1, <3>3, <3>4, <4>1, <4>2, SMTT(20) DEF CacheInv
      <3>5. CASE b \notin Cached
        BY <2>1, <3>3, <3>5 DEF CoherentInv
      <3> QED BY <3>2, <3>4, <3>5
    <2>4. CASE PowerLoss
      BY <2>4 DEF PowerLoss
    <2>5. CASE UNCHANGED <<list, vt, latest, Cached>>
      <3>1. BwWriteInfo => Head(list) \in Cached
        BY Operand DEF BwWriteInfo, Step, Inv, Blockwr
      <3> QED BY <1>2, <2>1, <2>5, <3>1, StableSteps DEF CoherentInv
    <2> QED BY <2>2, <2>3, <2>4, <2>5, ListSteps, SMTT(20)
  <1> QED BY <1>1, <1>2 DEF CoherentInv

(* In every behaviour in which a freed list node is not reused before its    *)
(* successor is read, hs_cfg_read returns what was last written whenever the *)
(* semaphore is free, and a successful hs_cfg_flush(FLUSH_TYPE_ALL) has made *)
(* every earlier write survive a loss of power.                              *)
THEOREM CacheCoherent == ~HeapReuse => (Spec => []Coherent)
  <1> SUFFICES ASSUME ~HeapReuse PROVE Spec => []Coherent
    OBVIOUS
  <1>1. Spec => []CacheInv
    BY InitCacheInv, NextCacheInv, InvHolds, PTL DEF Spec
  <1>2. Inv /\ Inv' /\ CacheInv /\ CoherentInv /\ [Next]_vars => CoherentInv'
    BY NextCoherent
  <1>3. Spec => []CoherentInv
    BY <1>1, <1>2, InitCoherent, InvHolds, PTL DEF Spec
  <1>4. Inv /\ CacheInv /\ CoherentInv => Coherent
    <2>1. Inv /\ CacheInv /\ CoherentInv => ReadsLatest
      BY AreasDiffer, Zenon DEF Inv, BackupInv, CacheInv, CoherentInv, ReadsLatest, ReadOf, Stable
    <2>2. CoherentInv => FlushAllDurable
      <3>1. list = <<>> => Cached = {}
        BY DEF Cached
      <3> QED BY <3>1, Zenon DEF CoherentInv, FlushAllDurable
    <2> QED BY <2>1, <2>2 DEF Coherent
  <1> QED BY <1>1, <1>3, <1>4, InvHolds, PTL

=============================================================================
