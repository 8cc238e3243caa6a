--------------------------- MODULE StorageProofs ----------------------------
(***************************************************************************)
(* Proofs about Storage, for every disk size, every set of buffers, every  *)
(* length of a transfer and every pattern of calls, timeouts and errors;   *)
(* and about its choice of the runtime disk, for every device path the     *)
(* firmware may report, every arrangement of bridges and controllers, and  *)
(* every set of drives that start.                                         *)
(***************************************************************************)
EXTENDS Storage, TLAPS, Numbers, SequenceTheorems

-----------------------------------------------------------------------------
(* The AHCI driver.                                                        *)

\* The first n sectors of a transfer are where they belong.
Moved(r, n) ==
    \A i \in 0 .. n - 1 : disk[r.lba + i] = mem[r.buf][i]

AhciTypes ==
    /\ disk \in [0 .. AddressSpace - 1 -> Data]
    /\ mem \in [Buffers -> [0 .. MaxCount - 1 -> Data]]
    /\ pc \in {"idle", "ready", "build", "clear", "issue", "poll"}
    /\ IF pc = "idle" THEN call = None
       ELSE call \in AhciDriver!Requests /\ call.count > 0
    /\ outcome \in {None} \cup [req : AhciDriver!Requests, ok : BOOLEAN]
    /\ table \in {None} \cup {r \in AhciDriver!Requests : r.count > 0}
    /\ ci \in BOOLEAN
    /\ tfes \in BOOLEAN
    /\ engine \in {None} \cup {r \in AhciDriver!Requests : r.count > 0}
    /\ moved \in 0 .. MaxCount
    /\ halted \in BOOLEAN

\* What the registers and the driver's place say of each other: the controller
\* executes only the table, with CI set; an error halts it with CI set; a
\* command waits to be fetched only while the driver polls; and the table is
\* rewritten only when nothing is executed.
AhciControl ==
    /\ AhciDriver!TableStable
    /\ engine # None => ci /\ ~halted /\ moved <= engine.count
    /\ tfes => halted
    /\ halted => ci
    /\ ci /\ engine = None /\ ~halted => pc = "poll"
    /\ pc \in {"build", "clear", "issue"} => engine = None
    /\ pc \in {"clear", "issue", "poll"} => table = call
    /\ outcome # None => pc = "idle"

\* Where the data is: what a call at work has moved, and what a finished one
\* has.
AhciData ==
    /\ pc = "poll" /\ engine # None => Moved(call, moved)
    /\ pc = "poll" /\ ~ci => Moved(call, call.count)
    /\ outcome # None /\ outcome.ok /\ outcome.req.count > 0 =>
           ~ci /\ Moved(outcome.req, outcome.req.count)

AhciInv == AhciTypes /\ AhciControl /\ AhciData

\* ahci_configure_port leaves a state that satisfies the invariant.
LEMMA AhciInit == AhciDriver!Init => AhciInv
<1> SUFFICES ASSUME AhciDriver!Init PROVE AhciInv OBVIOUS
<1> USE StorageAssumption
<1>1. AhciTypes
  <2>1. disk \in [0 .. AddressSpace - 1 -> Data]
    BY DEF AhciDriver!Init
  <2>2. mem \in [Buffers -> [0 .. MaxCount - 1 -> Data]]
    BY DEF AhciDriver!Init, AhciDriver!Slots
  <2>3. moved \in 0 .. MaxCount
    BY DEF AhciDriver!Init
  <2> QED BY <2>1, <2>2, <2>3 DEF AhciDriver!Init, AhciTypes
<1>2. AhciControl /\ AhciData
  BY DEF AhciDriver!Init, AhciControl, AhciData, AhciDriver!TableStable
<1> QED BY <1>1, <1>2 DEF AhciInv

\* The fields of a request, in the form the provers use.
LEMMA RequestFacts ==
  ASSUME NEW r \in AhciDriver!Requests
  PROVE  /\ r # None
         /\ r.lba \in 0 .. AddressSpace - 1
         /\ r.count \in 0 .. MaxCount
         /\ r.buf \in Buffers
         /\ r.write \in BOOLEAN
         /\ \A i \in 0 .. r.count - 1 :
                r.lba + i \in 0 .. AddressSpace - 1 /\ i \in 0 .. MaxCount - 1
<1>1. r # None BY StorageAssumption
<1>2. /\ r.lba \in 0 .. AddressSpace - 1
      /\ r.count \in 0 .. MaxCount
      /\ r.buf \in Buffers
      /\ r.write \in BOOLEAN
      /\ \A i \in 0 .. r.count - 1 : r.lba + i \in 0 .. AddressSpace - 1
  BY DEF AhciDriver!Requests
<1>3. \A i \in 0 .. r.count - 1 : i \in 0 .. MaxCount - 1
  BY <1>2, StorageAssumption
<1> QED BY <1>1, <1>2, <1>3

\* Every step of ahci_issue_io keeps the types.
LEMMA AhciDriverKeepsTypes ==
  ASSUME AhciTypes, AhciControl,
         AhciDriver!DriverStep \/ \E r \in AhciDriver!Requests : AhciDriver!IssueIo(r)
  PROVE  AhciTypes'
<1> USE DEF AhciTypes
<1>1. ASSUME NEW r \in AhciDriver!Requests, AhciDriver!IssueIo(r) PROVE AhciTypes'
  <2>1. CASE r.count = 0 \/ r.buf \in HighBuffers
    <3>1. outcome' = [req |-> r, ok |-> r.count = 0]
      BY <1>1, <2>1, Zenon DEF AhciDriver!IssueIo
    <3>2. outcome' \in [req : AhciDriver!Requests, ok : BOOLEAN]
      BY <3>1, Zenon
    <3>3. UNCHANGED <<disk, mem, pc, call, table, ci, tfes, engine, moved, halted>>
      BY <1>1, <2>1 DEF AhciDriver!IssueIo, AhciDriver!data, AhciDriver!hba
    <3> QED BY <3>2, <3>3
  <2>2. CASE ~(r.count = 0 \/ r.buf \in HighBuffers)
    BY <1>1, <2>2, RequestFacts
    DEF AhciDriver!IssueIo, AhciDriver!data, AhciDriver!hba
  <2> QED BY <2>1, <2>2
<1>2. ASSUME NEW ok \in BOOLEAN, pc # "idle", AhciDriver!Return(ok),
             UNCHANGED <<disk, mem, table, ci, tfes, engine, moved, halted>>
      PROVE  AhciTypes'
  BY <1>2 DEF AhciDriver!Return
<1>3. CASE AhciDriver!WaitReady
  BY <1>3 DEF AhciDriver!WaitReady, AhciDriver!data, AhciDriver!hba
<1>4. CASE AhciDriver!ReadyTimeout
  BY <1>4, <1>2 DEF AhciDriver!ReadyTimeout, AhciDriver!data, AhciDriver!hba
<1>5. CASE AhciDriver!BuildCommand
  BY <1>5 DEF AhciDriver!BuildCommand, AhciDriver!data, AhciDriver!hba
<1>6. CASE AhciDriver!ClearStatus
  BY <1>6 DEF AhciDriver!ClearStatus, AhciDriver!data
<1>7. CASE AhciDriver!SetCi
  BY <1>7 DEF AhciDriver!SetCi, AhciDriver!data
<1>8. CASE AhciDriver!PollDone
  <2>1. (~tfes) \in BOOLEAN OBVIOUS
  <2> QED BY <1>8, <1>2, <2>1 DEF AhciDriver!PollDone, AhciDriver!data, AhciDriver!hba
<1>9. CASE AhciDriver!PollError
  BY <1>9, <1>2 DEF AhciDriver!PollError, AhciDriver!data, AhciDriver!hba
<1>10. CASE AhciDriver!PollTimeout
  BY <1>10, <1>2 DEF AhciDriver!PollTimeout, AhciDriver!data, AhciDriver!hba
<1> QED
  BY <1>1, <1>3, <1>4, <1>5, <1>6, <1>7, <1>8, <1>9, <1>10
  DEF AhciDriver!DriverStep

\* Every step of the controller keeps the types.
LEMMA AhciControllerKeepsTypes ==
  ASSUME AhciTypes, AhciControl, AhciDriver!Controller \/ AhciDriver!Fill
  PROVE  AhciTypes'
<1> USE DEF AhciTypes
<1>1. CASE AhciDriver!Fetch
  BY <1>1, StorageAssumption DEF AhciDriver!Fetch, AhciDriver!data, AhciDriver!driver
<1>2. CASE AhciDriver!Dma
  <2>1. engine \in AhciDriver!Requests /\ engine # None /\ moved \in Nat
    BY <1>2 DEF AhciDriver!Dma
  <2>2. /\ engine.count \in 0 .. MaxCount
        /\ engine.buf \in Buffers
        /\ \A i \in 0 .. engine.count - 1 :
               engine.lba + i \in 0 .. AddressSpace - 1 /\ i \in 0 .. MaxCount - 1
    BY <2>1, RequestFacts
  <2>3. /\ moved \in 0 .. engine.count - 1
        /\ moved' \in 0 .. MaxCount
    BY <1>2, <2>1, <2>2, StorageAssumption DEF AhciDriver!Dma
  <2>4. engine.lba + moved \in 0 .. AddressSpace - 1 /\ moved \in 0 .. MaxCount - 1
    BY <2>2, <2>3
  <2>5. /\ mem[engine.buf] \in [0 .. MaxCount - 1 -> Data]
        /\ mem[engine.buf][moved] \in Data
        /\ disk[engine.lba + moved] \in Data
    BY <2>2, <2>4
  <2>6. disk' \in [0 .. AddressSpace - 1 -> Data]
    <3>1. [disk EXCEPT ![engine.lba + moved] = mem[engine.buf][moved]]
            \in [0 .. AddressSpace - 1 -> Data]
      BY <2>5
    <3> QED BY <1>2, <3>1 DEF AhciDriver!Dma
  <2>7. mem' \in [Buffers -> [0 .. MaxCount - 1 -> Data]]
    <3>1. [mem[engine.buf] EXCEPT ![moved] = disk[engine.lba + moved]]
            \in [0 .. MaxCount - 1 -> Data]
      BY <2>5
    <3>2. [mem EXCEPT ![engine.buf][moved] = disk[engine.lba + moved]]
            \in [Buffers -> [0 .. MaxCount - 1 -> Data]]
      BY <2>2, <3>1
    <3> QED BY <1>2, <3>2 DEF AhciDriver!Dma
  <2> QED BY <1>2, <2>3, <2>6, <2>7 DEF AhciDriver!Dma, AhciDriver!driver
<1>3. CASE AhciDriver!Complete
  <2>1. /\ engine' = None /\ moved' = 0 /\ ci' = FALSE
        /\ UNCHANGED <<disk, mem, pc, call, outcome, table, tfes, halted>>
    BY <1>3 DEF AhciDriver!Complete, AhciDriver!data, AhciDriver!driver
  <2>2. 0 \in 0 .. MaxCount
    BY StorageAssumption
  <2> QED BY <2>1, <2>2
<1>4. CASE AhciDriver!DeviceError
  BY <1>4, StorageAssumption
  DEF AhciDriver!DeviceError, AhciDriver!data, AhciDriver!driver
<1>5. CASE AhciDriver!Fill
  BY <1>5 DEF AhciDriver!Fill, AhciDriver!Slots, AhciDriver!hba
<1> QED
  BY <1>1, <1>2, <1>3, <1>4, <1>5 DEF AhciDriver!Controller

\* Every step of the driver and the controller keeps the registers and the
\* driver's place in agreement.
LEMMA AhciStepKeepsControl ==
  ASSUME AhciTypes, AhciTypes', AhciControl, AhciDriver!Next
  PROVE  AhciControl'
<1> USE DEF AhciControl, AhciDriver!TableStable
<1>1. ASSUME NEW r \in AhciDriver!Requests, AhciDriver!IssueIo(r) PROVE AhciControl'
  BY <1>1 DEF AhciDriver!IssueIo, AhciDriver!data, AhciDriver!hba
<1>2. ASSUME NEW ok \in BOOLEAN, AhciDriver!Return(ok),
             pc = "ready" \/ ~ci \/ halted \/ engine # None,
             UNCHANGED <<disk, mem, table, ci, tfes, engine, moved, halted>>
      PROVE  AhciControl'
  BY <1>2 DEF AhciDriver!Return
<1>3. CASE AhciDriver!WaitReady
  BY <1>3 DEF AhciDriver!WaitReady, AhciDriver!data, AhciDriver!hba, AhciDriver!Busy
<1>4. CASE AhciDriver!ReadyTimeout
  BY <1>4, <1>2 DEF AhciDriver!ReadyTimeout, AhciDriver!data, AhciDriver!hba
<1>5. CASE AhciDriver!BuildCommand
  BY <1>5 DEF AhciDriver!BuildCommand, AhciDriver!data, AhciDriver!hba
<1>6. CASE AhciDriver!ClearStatus
  BY <1>6 DEF AhciDriver!ClearStatus, AhciDriver!data
<1>7. CASE AhciDriver!SetCi
  BY <1>7 DEF AhciDriver!SetCi, AhciDriver!data
<1>8. CASE AhciDriver!PollDone
  <2>1. (~tfes) \in BOOLEAN OBVIOUS
  <2> QED BY <1>8, <1>2, <2>1 DEF AhciDriver!PollDone, AhciDriver!data, AhciDriver!hba
<1>9. CASE AhciDriver!PollError
  BY <1>9, <1>2 DEF AhciDriver!PollError, AhciDriver!data, AhciDriver!hba
<1>10. CASE AhciDriver!PollTimeout
  BY <1>10, <1>2
  DEF AhciDriver!PollTimeout, AhciDriver!data, AhciDriver!hba, AhciDriver!Busy
<1>11. CASE AhciDriver!Fetch
  <2>1. pc = "poll" /\ table = call
    BY <1>11 DEF AhciDriver!Fetch
  <2>2. call # None /\ call.count > 0 /\ call.count \in Nat
    BY <2>1, RequestFacts DEF AhciTypes
  <2> QED
    BY <1>11, <2>1, <2>2 DEF AhciDriver!Fetch, AhciDriver!data, AhciDriver!driver
<1>12. CASE AhciDriver!Dma
  <2>1. engine.count \in Nat /\ moved \in Nat
    BY <1>12, RequestFacts DEF AhciDriver!Dma, AhciTypes
  <2> QED BY <1>12, <2>1 DEF AhciDriver!Dma, AhciDriver!driver
<1>13. CASE AhciDriver!Complete
  BY <1>13 DEF AhciDriver!Complete, AhciDriver!data, AhciDriver!driver
<1>14. CASE AhciDriver!DeviceError
  BY <1>14 DEF AhciDriver!DeviceError, AhciDriver!data, AhciDriver!driver
<1>15. CASE AhciDriver!Fill
  BY <1>15 DEF AhciDriver!Fill, AhciDriver!hba
<1> QED
  BY <1>1, <1>3, <1>4, <1>5, <1>6, <1>7, <1>8, <1>9, <1>10, <1>11, <1>12,
     <1>13, <1>14, <1>15
  DEF AhciDriver!Next, AhciDriver!DriverStep, AhciDriver!Controller

\* Every step of the driver and the controller keeps what was said to be moved
\* moved.
LEMMA AhciStepKeepsData ==
  ASSUME AhciInv, AhciTypes', AhciControl', AhciDriver!Next
  PROVE  AhciData'
<1> USE DEF AhciInv, AhciData, Moved
<1>1. ASSUME NEW r \in AhciDriver!Requests, AhciDriver!IssueIo(r) PROVE AhciData'
  <2>1. pc' # "poll" /\ (outcome' # None /\ outcome'.ok => outcome'.req.count = 0)
    <3>1. CASE r.count = 0 \/ r.buf \in HighBuffers
      <4>1. outcome' = [req |-> r, ok |-> r.count = 0] /\ pc' = "idle"
        BY <1>1, <3>1, Zenon DEF AhciDriver!IssueIo
      <4>2. outcome'.req = r /\ outcome'.ok = (r.count = 0)
        BY <4>1, Zenon
      <4> QED BY <4>1, <4>2
    <3>2. CASE ~(r.count = 0 \/ r.buf \in HighBuffers)
      BY <1>1, <3>2 DEF AhciDriver!IssueIo
    <3> QED BY <3>1, <3>2
  <2> QED BY <2>1
<1>2. ASSUME AhciDriver!Return(FALSE) PROVE AhciData'
  BY <1>2 DEF AhciDriver!Return
<1>3. CASE AhciDriver!WaitReady
  BY <1>3 DEF AhciDriver!WaitReady, AhciControl
<1>4. CASE AhciDriver!ReadyTimeout
  BY <1>4, <1>2 DEF AhciDriver!ReadyTimeout
<1>5. CASE AhciDriver!BuildCommand
  BY <1>5 DEF AhciDriver!BuildCommand, AhciControl
<1>6. CASE AhciDriver!ClearStatus
  BY <1>6 DEF AhciDriver!ClearStatus, AhciControl
<1>7. CASE AhciDriver!SetCi
  BY <1>7 DEF AhciDriver!SetCi, AhciControl
<1>8. CASE AhciDriver!PollDone
  <2>1. tfes = FALSE
    BY <1>8 DEF AhciDriver!PollDone, AhciControl, AhciTypes
  <2>2. /\ pc' = "idle" /\ outcome' = [req |-> call, ok |-> TRUE]
        /\ ~ci /\ UNCHANGED <<disk, mem, ci>>
        /\ Moved(call, call.count)
    BY <1>8, <2>1
    DEF AhciDriver!PollDone, AhciDriver!Return, AhciDriver!data, AhciDriver!hba
  <2> QED BY <2>2
<1>9. CASE AhciDriver!PollError
  BY <1>9, <1>2 DEF AhciDriver!PollError
<1>10. CASE AhciDriver!PollTimeout
  BY <1>10, <1>2 DEF AhciDriver!PollTimeout
<1>11. CASE AhciDriver!Fetch
  BY <1>11 DEF AhciDriver!Fetch, AhciDriver!data, AhciDriver!driver, AhciControl
<1>12. CASE AhciDriver!Dma
  <2>1. ci /\ ci' = ci /\ outcome' = outcome /\ pc' = pc /\ call' = call /\ engine' = engine
    BY <1>12 DEF AhciDriver!Dma, AhciDriver!driver, AhciControl
  <2>2. ASSUME pc = "poll" PROVE Moved(call, moved)'
    <3>1. engine = call /\ engine # None /\ call \in AhciDriver!Requests
      BY <1>12, <2>2 DEF AhciDriver!Dma, AhciControl, AhciDriver!TableStable, AhciTypes
    <3>2. /\ call.count \in 0 .. MaxCount /\ call.buf \in Buffers
          /\ call.lba \in Nat
          /\ \A i \in 0 .. call.count - 1 :
               call.lba + i \in 0 .. AddressSpace - 1 /\ i \in 0 .. MaxCount - 1
      BY <3>1, RequestFacts
    <3>3. moved \in Nat /\ moved < call.count /\ moved' = moved + 1
      BY <1>12, <3>1 DEF AhciDriver!Dma, AhciTypes
    <3>4. \A i \in 0 .. moved - 1 : disk[call.lba + i] = mem[call.buf][i]
      BY <2>2, <3>1
    <3>5. SUFFICES ASSUME NEW i \in 0 .. moved
                   PROVE  disk'[call.lba + i] = mem'[call.buf][i]
      BY <3>3, <2>1
    <3>6. /\ i \in 0 .. call.count - 1 /\ moved \in 0 .. call.count - 1
      BY <3>2, <3>3
    <3>7. /\ call.lba + i \in 0 .. AddressSpace - 1 /\ i \in 0 .. MaxCount - 1
          /\ call.lba + moved \in 0 .. AddressSpace - 1 /\ moved \in 0 .. MaxCount - 1
      BY <3>2, <3>6
    <3>8. mem[call.buf] \in [0 .. MaxCount - 1 -> Data]
      BY <3>2 DEF AhciTypes
    <3>9. CASE call.write
      <4>1. disk' = [disk EXCEPT ![call.lba + moved] = mem[call.buf][moved]] /\ mem' = mem
        BY <1>12, <3>1, <3>9 DEF AhciDriver!Dma
      <4>2. CASE i = moved
        BY <4>1, <4>2, <3>7 DEF AhciTypes
      <4>3. CASE i # moved
        <5>1. disk[call.lba + i] = mem[call.buf][i]
          BY <4>3, <3>3, <3>4
        <5>2. call.lba + i # call.lba + moved
          BY <4>3, <3>2, <3>3
        <5> QED BY <4>1, <5>1, <5>2, <3>7 DEF AhciTypes
      <4> QED BY <4>2, <4>3
    <3>10. CASE ~call.write
      <4>1. mem' = [mem EXCEPT ![call.buf][moved] = disk[call.lba + moved]] /\ disk' = disk
        BY <1>12, <3>1, <3>10 DEF AhciDriver!Dma
      <4>2. mem'[call.buf] = [mem[call.buf] EXCEPT ![moved] = disk[call.lba + moved]]
        BY <4>1, <3>2 DEF AhciTypes
      <4>3. CASE i = moved
        <5>1. mem'[call.buf][moved] = disk[call.lba + moved]
          BY <4>2, <3>7, <3>8
        <5> QED BY <4>1, <4>3, <5>1
      <4>4. CASE i # moved
        <5>1. disk[call.lba + i] = mem[call.buf][i]
          BY <4>4, <3>3, <3>4
        <5> QED BY <4>1, <4>2, <4>4, <5>1, <3>7, <3>8
      <4> QED BY <4>3, <4>4
    <3> QED BY <3>9, <3>10
  <2> QED BY <2>1, <2>2
<1>13. CASE AhciDriver!Complete
  <2>1. /\ engine # None /\ engine' = None /\ moved = engine.count /\ ci
        /\ UNCHANGED <<disk, mem, pc, call, outcome>>
    BY <1>13 DEF AhciDriver!Complete, AhciDriver!data, AhciDriver!driver, AhciControl
  <2>2. pc = "poll" => engine = call
    BY <2>1 DEF AhciControl, AhciDriver!TableStable
  <2> QED BY <2>1, <2>2
<1>14. CASE AhciDriver!DeviceError
  BY <1>14 DEF AhciDriver!DeviceError, AhciDriver!data, AhciDriver!driver, AhciControl
<1>15. CASE AhciDriver!Fill
  BY <1>15 DEF AhciDriver!Fill, AhciDriver!hba
<1> QED
  BY <1>1, <1>3, <1>4, <1>5, <1>6, <1>7, <1>8, <1>9, <1>10, <1>11, <1>12,
     <1>13, <1>14, <1>15
  DEF AhciDriver!Next, AhciDriver!DriverStep, AhciDriver!Controller

\* Every step of Storage keeps the invariant of the AHCI driver.
LEMMA AhciStep ==
  ASSUME AhciInv, [Next]_vars
  PROVE  AhciInv'
<1>1. CASE UNCHANGED ahci
  BY <1>1 DEF ahci, AhciInv, AhciTypes, AhciControl, AhciData, Moved,
              AhciDriver!TableStable
<1>2. CASE AhciDriver!Next
  <2>1. AhciTypes'
    BY <1>2, AhciDriverKeepsTypes, AhciControllerKeepsTypes
    DEF AhciInv, AhciDriver!Next
  <2>2. AhciControl'
    BY <1>2, <2>1, AhciStepKeepsControl DEF AhciInv
  <2>3. AhciData'
    BY <1>2, <2>1, <2>2, AhciStepKeepsData
  <2> QED BY <2>1, <2>2, <2>3 DEF AhciInv
<1> QED
  BY <1>1, <1>2 DEF Next, vars, BlockInit, Bind, ServeAhci, ServeAta

\* A transfer that ahci_issue_io reported done is done.
LEMMA AhciInvImplies ==
  AhciInv => AhciDriver!SuccessMeansDone /\ AhciDriver!TableStable
<1> SUFFICES ASSUME AhciInv PROVE AhciDriver!SuccessMeansDone
  BY DEF AhciInv, AhciControl
<1> SUFFICES ASSUME outcome # None, outcome.ok, NEW i \in 0 .. outcome.req.count - 1
             PROVE  disk[outcome.req.lba + i] = mem[outcome.req.buf][i]
  BY DEF AhciDriver!SuccessMeansDone
<1>1. outcome.req.count \in Nat
  BY RequestFacts DEF AhciInv, AhciTypes
<1>2. outcome.req.count > 0
  BY <1>1
<1> QED BY <1>2 DEF AhciInv, AhciData, Moved

-----------------------------------------------------------------------------
(* The refinement: the AHCI driver is a SectorStore.                       *)

\* The history of one call in terms of SectorStore: what it has moved, what
\* an earlier call left behind, what the last one returned.
smoved ==
    IF pc = "poll" /\ ~ci THEN (IF tfes THEN 0 ELSE call.count)
    ELSE IF pc = "poll" /\ engine # None THEN moved ELSE 0
slate == IF engine # None /\ pc # "poll" THEN engine ELSE None
sresult ==
    IF outcome = None THEN "none" ELSE IF outcome.ok THEN "true" ELSE "false"

\* Every step of ahci_issue_io is a step of SectorStore or leaves it alone.
LEMMA DriverRefines ==
  ASSUME AhciInv, AhciInv',
         AhciDriver!DriverStep \/ \E r \in AhciDriver!Requests : AhciDriver!IssueIo(r)
  PROVE  [Store!Next]_(Store!vars)
<1> USE DEF AhciInv, AhciTypes, AhciControl
<1>0. call = None <=> pc = "idle"
  BY StorageAssumption
<1>a. ASSUME NEW ok \in BOOLEAN, pc # "idle", AhciDriver!Return(ok),
             UNCHANGED <<disk, mem, table, ci, tfes, engine, moved, halted>>
      PROVE  /\ call # None /\ call' = None
             /\ smoved' = 0
             /\ slate' = engine
             /\ sresult' = IF ok THEN "true" ELSE "false"
  <2>1. outcome' = [req |-> call, ok |-> ok] /\ call \in AhciDriver!Requests
    BY <1>a DEF AhciDriver!Return
  <2>2. outcome' # None /\ outcome'.ok = ok
    BY <2>1, StorageAssumption
  <2>3. pc' = "idle" /\ call' = None /\ engine' = engine
    BY <1>a DEF AhciDriver!Return
  <2> QED BY <1>a, <1>0, <2>2, <2>3 DEF smoved, slate, sresult
<1>b. ASSUME pc # "idle", AhciDriver!Return(FALSE),
             UNCHANGED <<disk, mem, table, ci, tfes, engine, moved, halted>>
      PROVE  Store!Fail
  <2>1. slate' \in {slate, call, None}
    BY <1>b, <1>a DEF slate, AhciDriver!TableStable
  <2>2. call # None /\ call' = None /\ smoved' = 0 /\ sresult' = "false"
    BY <1>b, <1>a
  <2> QED BY <1>b, <2>1, <2>2 DEF Store!Fail, smoved, slate, sresult
<1>1. ASSUME NEW r \in AhciDriver!Requests, AhciDriver!IssueIo(r)
      PROVE  Store!Answer \/ Store!Invoke
  <2>0. pc = "idle" /\ UNCHANGED <<disk, mem, table, ci, tfes, engine, moved, halted>>
    BY <1>1 DEF AhciDriver!IssueIo, AhciDriver!data, AhciDriver!hba
  <2>1. CASE r.count = 0 \/ r.buf \in HighBuffers
    <3>1. outcome' = [req |-> r, ok |-> r.count = 0] /\ pc' = pc /\ call' = call
      BY <1>1, <2>1, Zenon DEF AhciDriver!IssueIo
    <3>2. outcome' \in [req : AhciDriver!Requests, ok : BOOLEAN]
      BY <3>1, Zenon
    <3>3. outcome' # None
      BY <3>2, StorageAssumption
    <3>4. sresult' \in {"true", "false"}
      BY <3>3 DEF sresult
    <3> QED BY <2>0, <1>0, <3>1, <3>4 DEF Store!Answer, smoved, slate, sresult
  <2>2. CASE ~(r.count = 0 \/ r.buf \in HighBuffers)
    <3>1. r \in Store!Requests
      BY <2>2, RequestFacts DEF AhciDriver!Requests, Store!Requests
    <3> QED
      BY <1>1, <2>0, <2>2, <3>1 DEF AhciDriver!IssueIo, Store!Invoke
  <2> QED BY <2>1, <2>2
<1>2. CASE AhciDriver!WaitReady
  BY <1>2 DEF AhciDriver!WaitReady, Store!vars, AhciDriver!data, AhciDriver!hba
<1>3. CASE AhciDriver!ReadyTimeout
  BY <1>3, <1>b DEF AhciDriver!ReadyTimeout, AhciDriver!data, AhciDriver!hba, Store!Next
<1>4. CASE AhciDriver!BuildCommand
  BY <1>4 DEF AhciDriver!BuildCommand, Store!vars, AhciDriver!data, AhciDriver!hba
<1>5. CASE AhciDriver!ClearStatus
  BY <1>5 DEF AhciDriver!ClearStatus, Store!vars, AhciDriver!data
<1>6. CASE AhciDriver!SetCi
  BY <1>6 DEF AhciDriver!SetCi, Store!vars, AhciDriver!data
<1>7. CASE AhciDriver!PollDone
  <2>1. /\ pc = "poll" /\ ~ci /\ tfes = FALSE /\ engine = None
        /\ AhciDriver!Return(TRUE)
        /\ UNCHANGED <<disk, mem, table, ci, tfes, engine, moved, halted>>
    BY <1>7 DEF AhciDriver!PollDone, AhciDriver!data, AhciDriver!hba
  <2>2. smoved = call.count /\ slate = None
    BY <2>1 DEF smoved, slate
  <2>3. call # None /\ call' = None /\ smoved' = 0 /\ slate' = None /\ sresult' = "true"
    BY <2>1, <1>a
  <2> QED BY <2>1, <2>2, <2>3 DEF Store!Succeed, Store!Next, smoved, slate, sresult
<1>8. CASE AhciDriver!PollError
  BY <1>8, <1>b DEF AhciDriver!PollError, AhciDriver!data, AhciDriver!hba, Store!Next
<1>9. CASE AhciDriver!PollTimeout
  BY <1>9, <1>b DEF AhciDriver!PollTimeout, AhciDriver!data, AhciDriver!hba, Store!Next
<1> QED
  BY <1>1, <1>2, <1>3, <1>4, <1>5, <1>6, <1>7, <1>8, <1>9
  DEF AhciDriver!DriverStep, Store!Next

\* Every step of the controller, and every change of a buffer, is a step of
\* SectorStore or leaves it alone.
LEMMA ControllerRefines ==
  ASSUME AhciInv, AhciInv', AhciDriver!Controller \/ AhciDriver!Fill
  PROVE  [Store!Next]_(Store!vars)
<1> USE DEF AhciInv, AhciTypes, AhciControl
<1>1. CASE AhciDriver!Fetch
  <2>1. pc = "poll" /\ ci /\ engine = None /\ moved' = 0
        /\ UNCHANGED <<disk, mem, pc, call, outcome, table, ci, tfes, halted>>
    BY <1>1 DEF AhciDriver!Fetch, AhciDriver!data, AhciDriver!driver
  <2>2. smoved' = smoved /\ slate' = slate /\ sresult' = sresult
    BY <2>1 DEF smoved, slate, sresult
  <2> QED BY <2>1, <2>2 DEF Store!vars, smoved, slate, sresult
<1>2. CASE AhciDriver!Dma
  <2>1. /\ engine # None /\ engine \in AhciDriver!Requests /\ ci
        /\ moved \in Nat /\ moved < engine.count /\ moved' = moved + 1
        /\ UNCHANGED <<pc, call, outcome, table, ci, tfes, engine, halted>>
        /\ Store!Move(engine, moved)
    BY <1>2 DEF AhciDriver!Dma, AhciDriver!driver, Store!Move
  <2>2. CASE pc = "poll"
    <3>1. engine = call
      BY <2>1, <2>2 DEF AhciDriver!TableStable
    <3>2. smoved = moved /\ smoved' = moved + 1 /\ slate = None /\ slate' = None
          /\ sresult' = sresult
      BY <2>1, <2>2 DEF smoved, slate, sresult
    <3> QED BY <2>1, <3>1, <3>2 DEF Store!Transfer, Store!Next, Store!Move, smoved, slate, sresult
  <2>3. CASE pc # "poll"
    <3>1. smoved = 0 /\ smoved' = 0 /\ slate = engine /\ slate' = engine
          /\ sresult' = sresult
      BY <2>1, <2>3 DEF smoved, slate, sresult
    <3>2. moved \in 0 .. engine.count - 1
      BY <2>1, RequestFacts
    <3> QED BY <2>1, <3>1, <3>2 DEF Store!LateTransfer, Store!Next, Store!Move, smoved, slate, sresult
  <2> QED BY <2>2, <2>3
<1>3. CASE AhciDriver!Complete
  <2>1. /\ engine # None /\ ci /\ ~tfes /\ moved = engine.count
        /\ engine' = None /\ moved' = 0 /\ ci' = FALSE
        /\ UNCHANGED <<disk, mem, pc, call, outcome, table, tfes, halted>>
    BY <1>3 DEF AhciDriver!Complete, AhciDriver!data, AhciDriver!driver
  <2>2. CASE pc = "poll"
    <3>1. engine = call
      BY <2>1, <2>2 DEF AhciDriver!TableStable
    <3>2. smoved' = smoved /\ slate' = slate /\ sresult' = sresult
      BY <2>1, <2>2, <3>1 DEF smoved, slate, sresult
    <3> QED BY <2>1, <3>2 DEF Store!vars, smoved, slate, sresult
  <2>3. CASE pc # "poll"
    <3>1. smoved' = smoved /\ slate' = None /\ sresult' = sresult
      BY <2>1, <2>3 DEF smoved, slate, sresult
    <3> QED BY <2>1, <3>1 DEF Store!Settle, Store!Next, smoved, slate, sresult
  <2> QED BY <2>2, <2>3
<1>4. CASE AhciDriver!DeviceError
  <2>1. /\ engine # None /\ ci
        /\ engine' = None /\ moved' = 0
        /\ UNCHANGED <<disk, mem, pc, call, outcome, table, ci>>
    BY <1>4 DEF AhciDriver!DeviceError, AhciDriver!data, AhciDriver!driver
  <2>2. CASE pc = "poll"
    <3>1. smoved' = 0 /\ slate' = slate /\ sresult' = sresult /\ call # None
      BY <2>1, <2>2, StorageAssumption DEF smoved, slate, sresult
    <3> QED BY <2>1, <3>1 DEF Store!Break, Store!Next, smoved, slate, sresult
  <2>3. CASE pc # "poll"
    <3>1. smoved' = smoved /\ slate' = None /\ sresult' = sresult
      BY <2>1, <2>3 DEF smoved, slate, sresult
    <3> QED BY <2>1, <3>1 DEF Store!Settle, Store!Next, smoved, slate, sresult
  <2> QED BY <2>2, <2>3
<1>5. CASE AhciDriver!Fill
  <2>1. pc = "idle" /\ outcome' = None
        /\ UNCHANGED <<disk, pc, call, table, ci, tfes, engine, moved, halted>>
    BY <1>5 DEF AhciDriver!Fill, AhciDriver!hba
  <2>2. smoved' = smoved /\ slate' = slate /\ sresult' = "none" /\ call = None
    BY <2>1 DEF smoved, slate, sresult
  <2>3. \E b \in Buffers, i \in 0 .. MaxCount - 1, d \in Data :
            mem' = [mem EXCEPT ![b][i] = d]
    BY <1>5 DEF AhciDriver!Fill, AhciDriver!Slots
  <2> QED BY <2>1, <2>2, <2>3 DEF Store!Fill, Store!Slots, Store!Next, smoved, slate, sresult
<1> QED
  BY <1>1, <1>2, <1>3, <1>4, <1>5 DEF AhciDriver!Controller

\* AhciRefines: whatever the disk does, every behaviour of the AHCI driver
\* is one of SectorStore (ahci.c, ahci_issue_io).
THEOREM AhciRefines == Spec => StoreSpec
<1>1. Init => AhciInv /\ Store!Init
  <2> SUFFICES ASSUME Init PROVE AhciInv /\ Store!Init OBVIOUS
  <2>1. AhciInv
    BY AhciInit DEF Init
  <2> QED
    BY <2>1 DEF Init, AhciInv, AhciTypes, AhciDriver!Init, Store!Init, Store!Slots
<1>2. AhciInv /\ [Next]_vars => AhciInv'
  BY AhciStep
<1>3. AhciInv /\ AhciInv' /\ [Next]_vars => [Store!Next]_(Store!vars)
  <2> SUFFICES ASSUME AhciInv, AhciInv', [Next]_vars
               PROVE  [Store!Next]_(Store!vars)
    OBVIOUS
  <2>1. CASE UNCHANGED ahci
    BY <2>1 DEF ahci, Store!vars
  <2>2. CASE AhciDriver!Next
    BY <2>2, DriverRefines, ControllerRefines DEF AhciDriver!Next
  <2> QED
    BY <2>1, <2>2 DEF Next, vars, BlockInit, Bind, ServeAhci, ServeAta
<1> QED
  BY <1>1, <1>2, <1>3, PTL DEF Spec, StoreSpec, Store!Spec

-----------------------------------------------------------------------------
(* The ATA driver.                                                         *)

\* The first n sectors of an ATA transfer are where they belong.
PioMoved(r, n) == \A i \in 0 .. n - 1 : pdisk[r.lba + i] = pmem[i]

AtaTypes ==
    /\ pdisk \in [0 .. AddressSpace - 1 -> Data]
    /\ pmem \in [0 .. MaxCount - 1 -> Data]
    /\ ppc \in {"idle", "select", "drq", "data", "settle"}
    /\ IF ppc = "idle" THEN pcall = None /\ psector = 0
       ELSE /\ pcall \in AtaDriver!Requests
            /\ pcall.lba < AddressSpace
            /\ psector \in 0 .. pcall.count - 1
    /\ poutcome \in {None} \cup [req : AtaDriver!Requests, ok : BOOLEAN]
    /\ poutcome # None => ppc = "idle"
    /\ pending \in {None} \cup AtaDriver!Commands
    /\ phase \in {"idle", "busy", "drq", "flush"}
    /\ cmd \in {None} \cup AtaDriver!Commands
    /\ phase # "idle" => cmd # None
    /\ latch \in Data
    /\ err \in BOOLEAN
    /\ abandoned \in BOOLEAN
    /\ lost \in BOOLEAN

\* Without an abandoned command the drive and the driver are in step: a command
\* is alive only between its writing and its end, and it is the one of the
\* sector at hand.
AtaControl ==
    ~abandoned =>
        /\ ppc \in {"idle", "select"} => pending = None /\ phase = "idle"
        /\ ppc = "drq" => phase # "flush"
        /\ ppc = "data" => pending = None /\ phase = "drq"
        /\ ppc = "settle" => pending = None /\ phase \in {"flush", "idle"} /\ pcall.write
        /\ pending # None => /\ phase = "idle"
                             /\ pending.lba = AtaDriver!Address
                             /\ pending.write = pcall.write
        /\ phase # "idle" => /\ cmd.lba = AtaDriver!Address
                             /\ cmd.write = pcall.write

\* Where the data of the sector at hand is, and of the sectors before it.
AtaData ==
    /\ phase = "drq" /\ ~cmd.write => latch = pdisk[cmd.lba]
    /\ ~abandoned /\ ppc = "settle" /\ phase = "flush" => latch = pmem[psector]
    /\ ~abandoned /\ ~lost /\ ppc = "settle" /\ phase = "idle" =>
           pdisk[AtaDriver!Address] = pmem[psector]
    /\ ~abandoned /\ ~lost /\ ppc # "idle" /\ AtaDriver!Fits(pcall) =>
           PioMoved(pcall, psector)
    /\ ~abandoned /\ ~lost /\ poutcome # None /\ poutcome.ok
           /\ AtaDriver!Fits(poutcome.req) =>
           PioMoved(poutcome.req, poutcome.req.count)

AtaInv == AtaTypes /\ AtaControl /\ AtaData

\* The drive at the start satisfies the invariant.
LEMMA AtaInit == AtaDriver!Init => AtaInv
<1> SUFFICES ASSUME AtaDriver!Init PROVE AtaInv OBVIOUS
<1>1. AtaTypes
  <2>1. pdisk \in [0 .. AddressSpace - 1 -> Data]
    BY StorageAssumption DEF AtaDriver!Init, AtaDriver!Lbas
  <2>2. pmem \in [0 .. MaxCount - 1 -> Data]
    BY StorageAssumption DEF AtaDriver!Init, AtaDriver!Slots
  <2> QED BY <2>1, <2>2, StorageAssumption DEF AtaDriver!Init, AtaTypes
<1>2. AtaControl /\ AtaData
  BY DEF AtaDriver!Init, AtaControl, AtaData
<1> QED BY <1>1, <1>2 DEF AtaInv

\* The address registers hold a sector number, and the right one when the
\* transfer fits.
LEMMA AddressFacts ==
  ASSUME AtaTypes, ppc # "idle"
  PROVE  /\ AtaDriver!Address \in 0 .. AddressSpace - 1
         /\ AtaDriver!Fits(pcall) => AtaDriver!Address = pcall.lba + psector
         /\ pcall # None
         /\ pcall.lba \in 0 .. AddressSpace - 1
         /\ pcall.count \in 1 .. MaxCount
         /\ pcall.write \in BOOLEAN
         /\ psector \in 0 .. pcall.count - 1
         /\ psector \in 0 .. MaxCount - 1
<1>1. /\ pcall # None
      /\ pcall.lba \in Nat /\ pcall.lba < AddressSpace
      /\ pcall.count \in 0 .. MaxCount
      /\ pcall.write \in BOOLEAN
      /\ psector \in 0 .. pcall.count - 1
      /\ AddressSpace \in Nat \ {0} /\ MaxCount \in Nat
  BY StorageAssumption DEF AtaTypes, AtaDriver!Requests
<1>2. pcall.lba + psector \in Nat
  BY <1>1
<1>3. \A x \in Nat : x % AddressSpace \in 0 .. AddressSpace - 1
  BY <1>1
<1>4. \A x \in 0 .. AddressSpace - 1 : x % AddressSpace = x
  BY <1>1
<1>5. AtaDriver!Address \in 0 .. AddressSpace - 1
  BY <1>2, <1>3 DEF AtaDriver!Address
<1>6. ASSUME AtaDriver!Fits(pcall) PROVE AtaDriver!Address = pcall.lba + psector
  <2>1. pcall.lba + psector \in 0 .. AddressSpace - 1
    BY <1>1, <1>6 DEF AtaDriver!Fits
  <2> QED BY <1>4, <2>1 DEF AtaDriver!Address
<1> QED BY <1>1, <1>5, <1>6

\* Every step keeps the types.
LEMMA AtaStepKeepsTypes ==
  ASSUME AtaTypes, AtaDriver!Next
  PROVE  AtaTypes'
<1> USE DEF AtaTypes
<1>1. ASSUME NEW r \in AtaDriver!Requests, AtaDriver!IoSectors(r) PROVE AtaTypes'
  <2>0. ppc = "idle" /\ UNCHANGED <<pdisk, pmem, psector, pending, phase, cmd, latch, err,
                                    abandoned, lost>>
    BY <1>1 DEF AtaDriver!IoSectors, AtaDriver!drive
  <2>1. CASE r.count = 0 \/ r.lba >= AddressSpace
    <3>1. poutcome' = [req |-> r, ok |-> r.count = 0] /\ ppc' = ppc /\ pcall' = pcall
      BY <1>1, <2>1, Zenon DEF AtaDriver!IoSectors
    <3>2. poutcome' \in [req : AtaDriver!Requests, ok : BOOLEAN]
      BY <3>1, Zenon
    <3> QED BY <2>0, <3>1, <3>2
  <2>2. CASE ~(r.count = 0 \/ r.lba >= AddressSpace)
    <3>1. ppc' = "select" /\ pcall' = r /\ poutcome' = None
      BY <1>1, <2>2 DEF AtaDriver!IoSectors
    <3>2. r.lba < AddressSpace /\ 0 \in 0 .. r.count - 1
      BY <2>2, StorageAssumption DEF AtaDriver!Requests
    <3> QED BY <2>0, <3>1, <3>2
  <2> QED BY <2>1, <2>2
<1>2. ASSUME NEW ok \in BOOLEAN, ppc # "idle", AtaDriver!Return(ok)
      PROVE  /\ ppc' = "idle" /\ pcall' = None /\ psector' = 0
             /\ poutcome' \in [req : AtaDriver!Requests, ok : BOOLEAN]
             /\ abandoned' \in BOOLEAN
  BY <1>2 DEF AtaDriver!Return
<1>3. ASSUME ppc # "idle", AtaDriver!NextSector
      PROVE  /\ ppc' \in {"idle", "select"}
             /\ IF ppc' = "idle" THEN pcall' = None /\ psector' = 0
                ELSE /\ pcall' \in AtaDriver!Requests
                     /\ pcall'.lba < AddressSpace
                     /\ psector' \in 0 .. pcall'.count - 1
             /\ poutcome' \in {None} \cup [req : AtaDriver!Requests, ok : BOOLEAN]
             /\ poutcome' # None => ppc' = "idle"
             /\ abandoned' \in BOOLEAN
  <2>1. CASE psector + 1 < pcall.count
    BY <1>3, <2>1, AddressFacts DEF AtaDriver!NextSector
  <2>2. CASE ~(psector + 1 < pcall.count)
    BY <1>3, <1>2, <2>2 DEF AtaDriver!NextSector
  <2> QED BY <2>1, <2>2
<1>4. CASE AtaDriver!Command
  <2>1. [lba |-> AtaDriver!Address, write |-> pcall.write] \in AtaDriver!Commands
    BY <1>4, AddressFacts DEF AtaDriver!Command, AtaDriver!Commands, AtaDriver!Lbas
  <2> QED BY <1>4, <2>1 DEF AtaDriver!Command
<1>5. CASE AtaDriver!BusyTimeout
  BY <1>5, <1>2 DEF AtaDriver!BusyTimeout, AtaDriver!drive
<1>6. CASE AtaDriver!DrqError
  BY <1>6, <1>2 DEF AtaDriver!DrqError, AtaDriver!drive
<1>7. CASE AtaDriver!DrqTimeout
  BY <1>7, <1>2 DEF AtaDriver!DrqTimeout, AtaDriver!drive
<1>8. CASE AtaDriver!DrqReady
  BY <1>8 DEF AtaDriver!DrqReady, AtaDriver!drive
<1>9. CASE AtaDriver!ReadData
  <2>1. ppc # "idle" /\ AtaDriver!NextSector /\ UNCHANGED <<pdisk, pending, cmd, latch, err, lost>>
    BY <1>9 DEF AtaDriver!ReadData
  <2>2. phase' \in {phase, "idle"} /\ pmem' \in [0 .. MaxCount - 1 -> Data]
    BY <1>9 DEF AtaDriver!ReadData
  <2> QED BY <1>3, <2>1, <2>2
<1>10. CASE AtaDriver!WriteData
  <2>1. latch' \in Data /\ phase' \in {phase, "flush"} /\ (phase' # "idle" => cmd # None)
    BY <1>10, AddressFacts DEF AtaDriver!WriteData
  <2> QED BY <1>10, <2>1 DEF AtaDriver!WriteData
<1>11. CASE AtaDriver!WriteSettled
  BY <1>11, <1>3 DEF AtaDriver!WriteSettled, AtaDriver!drive
<1>12. CASE AtaDriver!Start
  BY <1>12, StorageAssumption DEF AtaDriver!Start, AtaDriver!program
<1>13. CASE AtaDriver!Ignore
  BY <1>13 DEF AtaDriver!Ignore, AtaDriver!program
<1>14. CASE AtaDriver!RaiseDrq
  <2>1. cmd \in AtaDriver!Commands
    BY <1>14 DEF AtaDriver!RaiseDrq
  <2>2. pdisk[cmd.lba] \in Data
    BY <2>1 DEF AtaDriver!Commands, AtaDriver!Lbas
  <2>3. latch' \in Data
    BY <1>14, <2>2 DEF AtaDriver!RaiseDrq
  <2> QED BY <1>14, <2>3 DEF AtaDriver!RaiseDrq, AtaDriver!program
<1>15. CASE AtaDriver!Store
  BY <1>15 DEF AtaDriver!Store, AtaDriver!program
<1>16. CASE AtaDriver!DeviceError
  BY <1>16 DEF AtaDriver!DeviceError, AtaDriver!program
<1>17. CASE AtaDriver!Fill
  BY <1>17 DEF AtaDriver!Fill, AtaDriver!Slots, AtaDriver!drive
<1> QED
  BY <1>1, <1>4, <1>5, <1>6, <1>7, <1>8, <1>9, <1>10, <1>11, <1>12, <1>13, <1>14,
     <1>15, <1>16, <1>17
  DEF AtaDriver!Next, AtaDriver!DriverStep, AtaDriver!Drive

\* Every step keeps the drive and the driver in step.
LEMMA AtaStepKeepsControl ==
  ASSUME AtaTypes, AtaTypes', AtaControl, AtaDriver!Next
  PROVE  AtaControl'
<1> SUFFICES ASSUME abandoned' = FALSE PROVE AtaControl'
  BY DEF AtaControl, AtaTypes
<1> USE DEF AtaTypes, AtaControl
<1>1. ASSUME NEW r \in AtaDriver!Requests, AtaDriver!IoSectors(r) PROVE AtaControl'
  <2>1. /\ ppc = "idle" /\ ppc' \in {"idle", "select"}
        /\ UNCHANGED <<pending, phase, cmd, abandoned>>
    BY <1>1 DEF AtaDriver!IoSectors, AtaDriver!drive
  <2> QED BY <2>1
<1>2. ASSUME NEW ok \in BOOLEAN, ppc # "idle", AtaDriver!Return(ok),
             ok => pending' = None /\ phase' = "idle",
             ~ok => UNCHANGED <<pending, phase>>
      PROVE  ~abandoned /\ AtaControl'
  <2>1. ~abandoned /\ ppc' = "idle" /\ (ok \/ ~AtaDriver!Alive)
    BY <1>2 DEF AtaDriver!Return
  <2>2. pending' = None /\ phase' = "idle"
    BY <1>2, <2>1 DEF AtaDriver!Alive
  <2> QED BY <2>1, <2>2
<1>3. ASSUME ppc # "idle", AtaDriver!NextSector,
             ~abandoned => pending' = None /\ phase' = "idle"
      PROVE  AtaControl'
  <2>1. CASE psector + 1 < pcall.count
    BY <1>3, <2>1 DEF AtaDriver!NextSector
  <2>2. CASE ~(psector + 1 < pcall.count)
    <3>1. AtaDriver!Return(TRUE)
      BY <1>3, <2>2 DEF AtaDriver!NextSector
    <3>2. abandoned = FALSE
      BY <3>1 DEF AtaDriver!Return
    <3> QED BY <1>3, <1>2, <3>1, <3>2
  <2> QED BY <2>1, <2>2
<1>4. CASE AtaDriver!Command
  <2>1. /\ pending' = [lba |-> AtaDriver!Address, write |-> pcall.write]
        /\ ppc = "select" /\ ppc' = "drq"
        /\ UNCHANGED <<pcall, psector, phase, cmd, abandoned>>
    BY <1>4 DEF AtaDriver!Command
  <2>2. AtaDriver!Address' = AtaDriver!Address
    BY <2>1 DEF AtaDriver!Address
  <2> QED BY <2>1, <2>2
<1>5. CASE AtaDriver!BusyTimeout
  BY <1>5, <1>2 DEF AtaDriver!BusyTimeout, AtaDriver!drive
<1>6. CASE AtaDriver!DrqError
  BY <1>6, <1>2 DEF AtaDriver!DrqError, AtaDriver!drive
<1>7. CASE AtaDriver!DrqTimeout
  BY <1>7, <1>2 DEF AtaDriver!DrqTimeout, AtaDriver!drive
<1>8. CASE AtaDriver!DrqReady
  <2>1. UNCHANGED <<pcall, psector, pending, phase, cmd, abandoned>> /\ ppc = "drq"
        /\ phase = "drq" /\ ppc' = "data"
    BY <1>8 DEF AtaDriver!DrqReady, AtaDriver!drive
  <2>2. AtaDriver!Address' = AtaDriver!Address
    BY <2>1 DEF AtaDriver!Address
  <2> QED BY <2>1, <2>2
<1>9. CASE AtaDriver!ReadData
  <2>1. ~abandoned => pending' = None /\ phase' = "idle"
    BY <1>9 DEF AtaDriver!ReadData
  <2> QED BY <1>9, <1>3, <2>1 DEF AtaDriver!ReadData
<1>10. CASE AtaDriver!WriteData
  <2>1. /\ ppc = "data" /\ ppc' = "settle" /\ pcall.write
        /\ UNCHANGED <<pcall, psector, pending, cmd, abandoned>>
    BY <1>10 DEF AtaDriver!WriteData
  <2>2. pcall.write = TRUE /\ abandoned = FALSE
    BY <2>1, AddressFacts
  <2>3. phase = "drq" /\ pending = None /\ cmd.write = TRUE
    BY <2>1, <2>2
  <2>4. phase' = "flush"
    BY <1>10, <2>3 DEF AtaDriver!WriteData
  <2>5. AtaDriver!Address' = AtaDriver!Address
    BY <2>1 DEF AtaDriver!Address
  <2> QED BY <2>1, <2>2, <2>3, <2>4, <2>5
<1>11. CASE AtaDriver!WriteSettled
  <2>1. ~abandoned => pending' = None /\ phase' = "idle"
    BY <1>11 DEF AtaDriver!WriteSettled, AtaDriver!drive, AtaDriver!Busy
  <2> QED BY <1>11, <1>3, <2>1 DEF AtaDriver!WriteSettled
<1>12. CASE AtaDriver!Start \/ AtaDriver!Ignore
  <2>1. UNCHANGED <<ppc, pcall, psector, abandoned>> /\ pending # None /\ pending' = None
    BY <1>12 DEF AtaDriver!Start, AtaDriver!Ignore, AtaDriver!program
  <2>2. AtaDriver!Address' = AtaDriver!Address
    BY <2>1 DEF AtaDriver!Address
  <2>3. phase' = "busy" /\ cmd' = pending
    BY <1>12, <2>1 DEF AtaDriver!Start, AtaDriver!Ignore
  <2> QED BY <2>1, <2>2, <2>3
<1>13. CASE AtaDriver!RaiseDrq \/ AtaDriver!Store \/ AtaDriver!DeviceError
  <2>1. UNCHANGED <<ppc, pcall, psector, abandoned, pending, cmd>>
    BY <1>13 DEF AtaDriver!RaiseDrq, AtaDriver!Store, AtaDriver!DeviceError, AtaDriver!program
  <2>2. AtaDriver!Address' = AtaDriver!Address
    BY <2>1 DEF AtaDriver!Address
  <2>3. \/ phase = "busy" /\ phase' = "drq"
        \/ phase \in {"flush", "busy"} /\ phase' = "idle"
    BY <1>13 DEF AtaDriver!RaiseDrq, AtaDriver!Store, AtaDriver!DeviceError, AtaDriver!Busy
  <2> QED BY <2>1, <2>2, <2>3
<1>14. CASE AtaDriver!Fill
  <2>1. UNCHANGED <<ppc, pcall, psector, abandoned, pending, phase, cmd>>
    BY <1>14 DEF AtaDriver!Fill, AtaDriver!drive
  <2>2. AtaDriver!Address' = AtaDriver!Address
    BY <2>1 DEF AtaDriver!Address
  <2> QED BY <2>1, <2>2
<1> QED
  BY <1>1, <1>4, <1>5, <1>6, <1>7, <1>8, <1>9, <1>10, <1>11, <1>12, <1>13, <1>14
  DEF AtaDriver!Next, AtaDriver!DriverStep, AtaDriver!Drive

\* Every step keeps the data of the sectors that are done where it belongs.
LEMMA AtaStepKeepsData ==
  ASSUME AtaInv, AtaTypes', AtaControl', AtaDriver!Next
  PROVE  AtaData'
<1> USE DEF AtaInv
<1>1. ASSUME NEW r \in AtaDriver!Requests, AtaDriver!IoSectors(r) PROVE AtaData'
  <2>0. /\ ppc = "idle" /\ ppc' \in {"idle", "select"} /\ psector' = 0
        /\ UNCHANGED <<pdisk, pmem, phase, cmd, latch, abandoned, lost>>
    BY <1>1 DEF AtaDriver!IoSectors, AtaDriver!drive, AtaTypes
  <2>1. poutcome' # None /\ poutcome'.ok => poutcome'.req.count = 0
    <3>1. CASE r.count = 0 \/ r.lba >= AddressSpace
      <4>1. poutcome' = [req |-> r, ok |-> r.count = 0]
        BY <1>1, <3>1, Zenon DEF AtaDriver!IoSectors
      <4>2. poutcome'.req = r /\ poutcome'.ok = (r.count = 0)
        BY <4>1, Zenon
      <4> QED BY <4>2
    <3>2. CASE ~(r.count = 0 \/ r.lba >= AddressSpace)
      BY <1>1, <3>2 DEF AtaDriver!IoSectors
    <3> QED BY <3>1, <3>2
  <2>2. PioMoved(pcall, psector)'
    BY <2>0 DEF PioMoved
  <2>3. poutcome' # None /\ poutcome'.ok => PioMoved(poutcome.req, poutcome.req.count)'
    BY <2>1 DEF PioMoved
  <2>4. (phase = "drq" /\ ~cmd.write => latch = pdisk[cmd.lba])'
    BY <2>0 DEF AtaData
  <2> QED BY <2>0, <2>2, <2>3, <2>4 DEF AtaData
\* The five parts of AtaData, for a step that fails the call.
<1>2. ASSUME AtaDriver!Return(FALSE), UNCHANGED <<pdisk, phase, cmd, latch>>
      PROVE  AtaData'
  <2>1. poutcome' = [req |-> pcall, ok |-> FALSE] /\ ppc' = "idle"
    BY <1>2 DEF AtaDriver!Return
  <2> QED BY <1>2, <2>1 DEF AtaData
\* The sector at hand is where it belongs, and the loop goes on.
<1>3. ASSUME ppc # "idle", AtaDriver!NextSector, UNCHANGED <<pdisk, cmd, latch, lost>>,
             phase' \in {phase, "idle"},
             ~abandoned /\ ~lost /\ AtaDriver!Fits(pcall) =>
                 \A i \in 0 .. psector : pdisk'[pcall.lba + i] = pmem'[i]
      PROVE  AtaData'
  <2>1. (phase = "drq" /\ ~cmd.write => latch = pdisk[cmd.lba])'
    BY <1>3 DEF AtaData
  <2>2. CASE psector + 1 < pcall.count
    <3>1. /\ ppc' = "select" /\ psector' = psector + 1 /\ poutcome' = None
          /\ UNCHANGED <<pcall, abandoned>>
      BY <1>3, <2>2 DEF AtaDriver!NextSector, AtaTypes
    <3>2. (AtaDriver!Fits(pcall))' = AtaDriver!Fits(pcall) /\ psector \in Nat
      BY <1>3, <3>1, AddressFacts DEF AtaDriver!Fits
    <3>3. ~abandoned' /\ ~lost' /\ (AtaDriver!Fits(pcall))' => PioMoved(pcall, psector)'
      BY <1>3, <3>1, <3>2 DEF PioMoved
    <3> QED BY <2>1, <3>1, <3>3 DEF AtaData
  <2>3. CASE ~(psector + 1 < pcall.count)
    <3>1. /\ ppc' = "idle" /\ poutcome' = [req |-> pcall, ok |-> TRUE]
          /\ abandoned' = abandoned
      BY <1>3, <2>3 DEF AtaDriver!NextSector, AtaDriver!Return, AtaTypes
    <3>2. poutcome'.req = pcall /\ pcall.count - 1 = psector
      BY <1>3, <2>3, <3>1, AddressFacts
    <3>3. (AtaDriver!Fits(poutcome.req))' = AtaDriver!Fits(pcall)
      BY <3>2 DEF AtaDriver!Fits
    <3>4. ~abandoned' /\ ~lost' /\ (AtaDriver!Fits(poutcome.req))'
              => PioMoved(poutcome.req, poutcome.req.count)'
      BY <1>3, <3>1, <3>2, <3>3 DEF PioMoved
    <3> QED BY <2>1, <3>1, <3>4 DEF AtaData
  <2> QED BY <2>2, <2>3
\* A step that leaves the data and the call alone.
<1>4. ASSUME UNCHANGED <<pdisk, pmem, pcall, psector, poutcome, abandoned, lost>>,
             ppc' = "idle" <=> ppc = "idle"
      PROVE  /\ ~abandoned' /\ ~lost' /\ ppc' # "idle" /\ (AtaDriver!Fits(pcall))' =>
                    PioMoved(pcall, psector)'
             /\ ~abandoned' /\ ~lost' /\ poutcome' # None /\ poutcome'.ok
                    /\ (AtaDriver!Fits(poutcome.req))' =>
                    PioMoved(poutcome.req, poutcome.req.count)'
             /\ AtaDriver!Address' = AtaDriver!Address
  BY <1>4 DEF AtaData, AtaDriver!Fits, AtaDriver!Address, PioMoved
<1>5. CASE AtaDriver!Command
  <2>1. /\ UNCHANGED <<pdisk, pmem, pcall, psector, poutcome, abandoned, lost, phase, cmd, latch>>
        /\ ppc = "select" /\ ppc' = "drq"
    BY <1>5 DEF AtaDriver!Command
  <2> QED BY <1>4, <2>1 DEF AtaData
<1>6. CASE AtaDriver!BusyTimeout \/ AtaDriver!DrqError \/ AtaDriver!DrqTimeout
  BY <1>6, <1>2
  DEF AtaDriver!BusyTimeout, AtaDriver!DrqError, AtaDriver!DrqTimeout, AtaDriver!drive
<1>7. CASE AtaDriver!DrqReady
  <2>1. /\ UNCHANGED <<pdisk, pmem, pcall, psector, poutcome, abandoned, lost, phase, cmd, latch>>
        /\ ppc = "drq" /\ ppc' = "data"
    BY <1>7 DEF AtaDriver!DrqReady, AtaDriver!drive
  <2> QED BY <1>4, <2>1 DEF AtaData
<1>8. CASE AtaDriver!ReadData
  <2>1. /\ ppc = "data" /\ ~pcall.write /\ AtaDriver!NextSector
        /\ UNCHANGED <<pdisk, cmd, latch, lost>> /\ phase' \in {phase, "idle"}
    BY <1>8 DEF AtaDriver!ReadData
  <2>2. ASSUME ~abandoned, ~lost, AtaDriver!Fits(pcall), NEW i \in 0 .. psector
        PROVE  pdisk'[pcall.lba + i] = pmem'[i]
    <3>1. /\ psector \in 0 .. MaxCount - 1 /\ pcall.write \in BOOLEAN
          /\ AtaDriver!Address = pcall.lba + psector
      BY <2>1, <2>2, AddressFacts
    <3>2. phase = "drq" /\ cmd.lba = AtaDriver!Address /\ cmd.write = FALSE
      BY <2>1, <2>2, <3>1 DEF AtaControl
    <3>3. latch = pdisk[pcall.lba + psector]
      BY <3>1, <3>2 DEF AtaData
    <3>4. pmem' = [pmem EXCEPT ![psector] = latch]
      BY <1>8, <3>2 DEF AtaDriver!ReadData
    <3>5. CASE i = psector
      BY <2>1, <3>1, <3>3, <3>4, <3>5 DEF AtaTypes
    <3>6. CASE i # psector
      <4>1. i \in 0 .. psector - 1 /\ i \in 0 .. MaxCount - 1
        BY <3>1, <3>6, StorageAssumption
      <4>2. pdisk[pcall.lba + i] = pmem[i]
        BY <2>1, <2>2, <4>1 DEF AtaData, PioMoved
      <4> QED BY <2>1, <3>1, <3>4, <3>6, <4>1, <4>2 DEF AtaTypes
    <3> QED BY <3>5, <3>6
  <2> QED BY <1>3, <2>1, <2>2
<1>9. CASE AtaDriver!WriteData
  <2>1. /\ UNCHANGED <<pdisk, pmem, pcall, psector, poutcome, abandoned, lost, cmd>>
        /\ ppc = "data" /\ ppc' = "settle" /\ pcall.write
    BY <1>9 DEF AtaDriver!WriteData
  <2>2. ~abandoned => phase = "drq" /\ cmd.write = TRUE
    BY <2>1, AddressFacts DEF AtaControl
  <2>3. ~abandoned => phase' = "flush" /\ latch' = pmem[psector]
    BY <1>9, <2>2 DEF AtaDriver!WriteData
  <2>4. (phase = "drq" /\ ~cmd.write => latch = pdisk[cmd.lba])'
    BY <1>9, <2>1 DEF AtaDriver!WriteData, AtaData
  <2> QED BY <1>4, <2>1, <2>3, <2>4 DEF AtaData
<1>10. CASE AtaDriver!WriteSettled
  <2>1. /\ ppc = "settle" /\ AtaDriver!NextSector
        /\ UNCHANGED <<pdisk, pmem, phase, cmd, latch, lost>>
    BY <1>10 DEF AtaDriver!WriteSettled, AtaDriver!drive
  <2>2. ASSUME ~abandoned, ~lost, AtaDriver!Fits(pcall), NEW i \in 0 .. psector
        PROVE  pdisk'[pcall.lba + i] = pmem'[i]
    <3>1. psector \in Nat /\ AtaDriver!Address = pcall.lba + psector
      BY <2>1, <2>2, AddressFacts
    <3>2. phase = "idle"
      BY <1>10, <2>1, <2>2 DEF AtaDriver!WriteSettled, AtaDriver!Busy, AtaControl
    <3>3. pdisk[pcall.lba + psector] = pmem[psector]
      BY <2>1, <2>2, <3>1, <3>2 DEF AtaData
    <3>4. i # psector => pdisk[pcall.lba + i] = pmem[i]
      BY <2>1, <2>2, <3>1 DEF AtaData, PioMoved
    <3> QED BY <2>1, <3>3, <3>4
  <2> QED BY <1>3, <2>1, <2>2
<1>11. CASE AtaDriver!Start \/ AtaDriver!Ignore \/ AtaDriver!RaiseDrq
  <2>1. UNCHANGED <<pdisk, pmem, ppc, pcall, psector, poutcome, abandoned, lost>>
    BY <1>11 DEF AtaDriver!Start, AtaDriver!Ignore, AtaDriver!RaiseDrq, AtaDriver!program
  <2>2. \/ UNCHANGED <<phase, cmd, latch>>
        \/ phase' = "busy" /\ pending # None
        \/ phase = "busy" /\ phase' = "drq" /\ cmd' = cmd
              /\ latch' = (IF cmd.write THEN latch ELSE pdisk[cmd.lba])
    BY <1>11 DEF AtaDriver!Start, AtaDriver!Ignore, AtaDriver!RaiseDrq
  <2>3. (phase = "drq" /\ ~cmd.write => latch = pdisk[cmd.lba])'
    BY <2>1, <2>2 DEF AtaData
  <2>4. ~abandoned /\ ppc = "settle" => UNCHANGED <<phase, latch>>
    BY <2>2 DEF AtaControl
  <2> QED BY <1>4, <2>1, <2>3, <2>4 DEF AtaData
<1>12. CASE AtaDriver!Store
  <2>1. /\ phase = "flush" /\ phase' = "idle" /\ pdisk' = [pdisk EXCEPT ![cmd.lba] = latch]
        /\ UNCHANGED <<pmem, ppc, pcall, psector, poutcome, cmd, latch, abandoned, lost>>
    BY <1>12 DEF AtaDriver!Store, AtaDriver!program
  <2>2. CASE abandoned
    BY <2>1, <2>2 DEF AtaData
  <2>3. CASE ~abandoned
    <3>1. ppc = "settle" /\ cmd.lba = AtaDriver!Address /\ poutcome = None
      BY <2>1, <2>3 DEF AtaControl, AtaTypes
    <3>2. /\ AtaDriver!Address' = AtaDriver!Address
          /\ (AtaDriver!Fits(pcall))' = AtaDriver!Fits(pcall)
      BY <2>1 DEF AtaDriver!Address, AtaDriver!Fits
    <3>3. latch = pmem[psector] /\ AtaDriver!Address \in 0 .. AddressSpace - 1
      BY <2>1, <2>3, <3>1, AddressFacts DEF AtaData
    <3>4. pdisk'[AtaDriver!Address] = pmem[psector]
      BY <2>1, <3>1, <3>3 DEF AtaTypes
    <3>5. ASSUME ~lost, AtaDriver!Fits(pcall) PROVE PioMoved(pcall, psector)'
      <4>1. SUFFICES ASSUME NEW i \in 0 .. psector - 1
                     PROVE  pdisk'[pcall.lba + i] = pmem[i]
        BY <2>1 DEF PioMoved
      <4>2. pdisk[pcall.lba + i] = pmem[i]
        BY <2>3, <3>1, <3>5 DEF AtaData, PioMoved
      <4>3. /\ cmd.lba = pcall.lba + psector /\ pcall.lba \in Nat /\ psector \in Nat
        BY <3>1, <3>5, AddressFacts
      <4>4. pcall.lba + i \in 0 .. AddressSpace - 1 /\ pcall.lba + i # cmd.lba
        BY <3>1, <3>3, <4>3, StorageAssumption
      <4> QED BY <2>1, <4>2, <4>4 DEF AtaTypes
    <3> QED BY <2>1, <3>1, <3>2, <3>4, <3>5 DEF AtaData
  <2> QED BY <2>2, <2>3
<1>13. CASE AtaDriver!DeviceError
  <2>1. /\ UNCHANGED <<pdisk, pmem, ppc, pcall, psector, poutcome, cmd, latch, abandoned>>
        /\ phase' = "idle" /\ lost' = (lost \/ phase = "flush") /\ phase \in {"busy", "flush"}
    BY <1>13 DEF AtaDriver!DeviceError, AtaDriver!program, AtaDriver!Busy
  <2>2. AtaDriver!Address' = AtaDriver!Address
    BY <2>1 DEF AtaDriver!Address
  <2>3. CASE phase = "flush"
    BY <2>1, <2>3 DEF AtaData
  <2>4. CASE phase = "busy"
    <3>1. lost' = lost /\ (~abandoned => ppc # "settle")
      BY <2>1, <2>4 DEF AtaControl, AtaTypes
    <3> QED BY <1>4, <2>1, <3>1 DEF AtaData
  <2> QED BY <2>1, <2>3, <2>4
<1>14. CASE AtaDriver!Fill
  <2>1. /\ ppc = "idle" /\ poutcome' = None
        /\ UNCHANGED <<pdisk, ppc, phase, cmd, latch>>
    BY <1>14 DEF AtaDriver!Fill, AtaDriver!drive
  <2> QED BY <2>1 DEF AtaData
<1> QED
  BY <1>1, <1>5, <1>6, <1>7, <1>8, <1>9, <1>10, <1>11, <1>12, <1>13, <1>14
  DEF AtaDriver!Next, AtaDriver!DriverStep, AtaDriver!Drive

\* Every step of Storage keeps the invariant of the ATA driver.
LEMMA AtaStep ==
  ASSUME AtaInv, [Next]_vars
  PROVE  AtaInv'
<1>1. CASE UNCHANGED pio
  BY <1>1 DEF pio, AtaInv, AtaTypes, AtaControl, AtaData, PioMoved,
              AtaDriver!Address, AtaDriver!Fits
<1>2. CASE AtaDriver!Next
  <2>1. AtaTypes'
    BY <1>2, AtaStepKeepsTypes DEF AtaInv
  <2>2. AtaControl'
    BY <1>2, <2>1, AtaStepKeepsControl DEF AtaInv
  <2>3. AtaData'
    BY <1>2, <2>1, <2>2, AtaStepKeepsData
  <2> QED BY <2>1, <2>2, <2>3 DEF AtaInv
<1> QED
  BY <1>1, <1>2 DEF Next, vars, BlockInit, Bind, ServeAhci, ServeAta

\* A transfer the ATA driver reported done is done, and one command is alive
\* at a time.
LEMMA AtaInvImplies ==
  AtaInv => AtaDriver!SuccessMeansDone /\ AtaDriver!OneCommandAtATime
<1> SUFFICES ASSUME AtaInv
             PROVE  AtaDriver!SuccessMeansDone /\ AtaDriver!OneCommandAtATime
  OBVIOUS
<1>1. AtaDriver!SuccessMeansDone
  BY DEF AtaInv, AtaData, PioMoved, AtaDriver!SuccessMeansDone
<1>2. AtaDriver!OneCommandAtATime
  BY DEF AtaInv, AtaTypes, AtaControl, AtaDriver!OneCommandAtATime, AtaDriver!Alive
<1> QED BY <1>1, <1>2

\* TransfersDone: whichever driver serves, and however commands time out, fail
\* or finish late, a transfer that was reported done is done.
THEOREM TransfersAreDone == Spec => []TransfersDone
<1>1. Init => AhciInv /\ AtaInv
  BY AhciInit, AtaInit DEF Init
<1>2. AhciInv /\ AtaInv /\ [Next]_vars => AhciInv' /\ AtaInv'
  BY AhciStep, AtaStep
<1>3. AhciInv /\ AtaInv => TransfersDone
  BY AhciInvImplies, AtaInvImplies DEF TransfersDone
<1> QED BY <1>1, <1>2, <1>3, PTL DEF Spec

-----------------------------------------------------------------------------
(* The device path.                                                        *)

\* A scan for the first node of a kind stops somewhere: at such a node or one
\* past the end, with no such node before.
LEMMA FirstExists ==
  ASSUME NEW N, NEW p \in Seq(N), NEW kinds
  PROVE  /\ Choice!First(p, kinds) \in 1 .. Len(p) + 1
         /\ Choice!First(p, kinds) <= Len(p) => p[Choice!First(p, kinds)].kind \in kinds
         /\ \A j \in 1 .. Choice!First(p, kinds) - 1 : p[j].kind \notin kinds
<1> DEFINE IsFirst(i) == /\ i <= Len(p) => p[i].kind \in kinds
                         /\ \A j \in 1 .. i - 1 : p[j].kind \notin kinds
           T == {i \in 1 .. Len(p) : p[i].kind \in kinds}
<1>1. Len(p) \in Nat
  OBVIOUS
<1>2. \E i \in 1 .. Len(p) + 1 : IsFirst(i)
  <2>1. CASE T = {}
    <3>1. IsFirst(Len(p) + 1)
      BY <1>1, <2>1
    <3> QED BY <1>1, <3>1
  <2>2. CASE T # {}
    <3>1. T \in SUBSET Nat
      BY <1>1
    <3>2. PICK x \in T : \A y \in T : x <= y
      BY <2>2, <3>1, LeastElement
    <3>3. \A j \in 1 .. x - 1 : j \notin T /\ j \in 1 .. Len(p)
      BY <1>1, <3>2
    <3>4. IsFirst(x)
      BY <3>2, <3>3
    <3> QED BY <1>1, <3>4
  <2> QED BY <2>1, <2>2
<1> QED BY <1>2 DEF Choice!First

\* What a scan collects is a sequence of nodes of the kind.
LEMMA TakenType ==
  ASSUME NEW N, NEW nodes \in Seq(N), NEW kind
  PROVE  Choice!Taken(nodes, kind) \in Seq({n \in N : n.kind = kind})
<1> DEFINE K == {n \in N : n.kind = kind}
           V == Seq(K)
           Def(f) == [i \in 0 .. Len(nodes) |->
                         IF i = 0 THEN <<>>
                         ELSE IF nodes[i].kind = kind THEN Append(f[i - 1], nodes[i])
                         ELSE f[i - 1]]
           F == [k \in Nat |-> [s \in V |->
                    IF k + 1 \in 1 .. Len(nodes) /\ nodes[k + 1].kind = kind
                    THEN Append(s, nodes[k + 1]) ELSE s]]
           take == CHOOSE f : f = Def(f)
<1>1. Len(nodes) \in Nat /\ <<>> \in V
  OBVIOUS
<1>2. F \in [Nat -> [V -> V]]
  <2> SUFFICES ASSUME NEW k \in Nat, NEW s \in V PROVE F[k][s] \in V
    OBVIOUS
  <2>1. CASE k + 1 \in 1 .. Len(nodes) /\ nodes[k + 1].kind = kind
    <3>1. nodes[k + 1] \in K
      BY <2>1
    <3> QED BY <2>1, <3>1
  <2>2. CASE ~(k + 1 \in 1 .. Len(nodes) /\ nodes[k + 1].kind = kind)
    BY <2>2
  <2> QED BY <2>1, <2>2
<1>3. PICK f \in [0 .. Len(nodes) -> V] : Follows(f, <<>>, F, Len(nodes))
  <2> HIDE DEF F, V
  <2> QED BY <1>1, <1>2, FiniteRecursion
<1>4. ASSUME NEW i \in 0 .. Len(nodes) PROVE f[i] = Def(f)[i]
  <2>1. CASE i = 0
    BY <1>3, <2>1 DEF Follows
  <2>2. CASE i # 0
    <3>1. i - 1 \in 0 .. Len(nodes) - 1 /\ (i - 1) + 1 = i /\ f[i - 1] \in V
      BY <1>1, <2>2
    <3>2. f[i] = F[i - 1][f[i - 1]]
      BY <1>3, <3>1 DEF Follows
    <3> QED BY <2>2, <3>1, <3>2
  <2> QED BY <2>1, <2>2
<1>5. f = Def(f)
  BY <1>4
<1>6. take = Def(take)
  BY <1>5
<1> HIDE DEF take
<1>7. 0 .. Len(nodes) \subseteq {i \in 0 .. Len(nodes) : take[i] \in V}
  <2> DEFINE S == {i \in 0 .. Len(nodes) : take[i] \in V}
  <2>1. 0 \in S
    BY <1>1, <1>6
  <2>2. ASSUME NEW i \in 0 .. Len(nodes) - 1, i \in S PROVE i + 1 \in S
    <3>1. i + 1 \in 1 .. Len(nodes) /\ (i + 1) - 1 = i /\ take[i] \in V
      BY <1>1, <2>2
    <3>2. take[i + 1] = IF nodes[i + 1].kind = kind THEN Append(take[i], nodes[i + 1])
                        ELSE take[i]
      <4>1. \A j \in 1 .. Len(nodes) : 
               Def(take)[j] = IF nodes[j].kind = kind THEN Append(take[j - 1], nodes[j])
                              ELSE take[j - 1]
        BY <1>1
      <4>2. take[i + 1] = Def(take)[i + 1]
        BY <1>6
      <4> HIDE DEF Def
      <4> QED BY <3>1, <4>1, <4>2
    <3>3. nodes[i + 1].kind = kind => nodes[i + 1] \in K
      BY <3>1
    <3>4. take[i + 1] \in V
      BY <3>1, <3>2, <3>3
    <3> QED BY <3>1, <3>4
  <2> HIDE DEF S
  <2>3. 0 .. Len(nodes) \subseteq S
    BY <1>1, <2>1, <2>2, InductUpTo
  <2> QED BY <2>3 DEF S
<1>8. take[Len(nodes)] \in V
  BY <1>1, <1>7
<1> QED BY <1>8 DEF Choice!Taken, take

\* The nodes of a path that are of a kind.
NodesOf(p, kind) == {n \in {p[i] : i \in DOMAIN p} : n.kind = kind}

\* What a scan of a device path visits and collects.
LEMMA PathFacts ==
  ASSUME NEW p \in DevicePaths
  PROVE  /\ Len(p) \in Nat
         /\ p \in Seq({p[i] : i \in DOMAIN p})
         /\ Len(Choice!Visited(p)) = Choice!First(p, {"end"}) - 1
         /\ Len(Choice!Visited(p)) \in 0 .. Len(p)
         /\ DOMAIN Choice!Visited(p) = 1 .. Len(Choice!Visited(p))
         /\ \A i \in 1 .. Len(Choice!Visited(p)) : Choice!Visited(p)[i] = p[i]
         /\ Choice!Hops(p) \in Seq(NodesOf(p, "pci"))
         /\ Choice!Satas(p) \in Seq(NodesOf(p, "sata"))
         /\ \A n \in NodesOf(p, "pci") : n.slot \in PciSlots
<1> DEFINE N == {p[i] : i \in DOMAIN p}
           e == Choice!First(p, {"end"})
<1>1. p \in Seq(N)
  BY StorageAssumption
<1> HIDE DEF N
<1>2. Len(p) \in Nat
  BY <1>1
<1>3. e \in 1 .. Len(p) + 1
  BY <1>1, FirstExists
<1> HIDE DEF e
<1>4. /\ SubSeq(p, 1, e - 1) \in Seq(N)
      /\ Len(SubSeq(p, 1, e - 1)) = e - 1
      /\ DOMAIN SubSeq(p, 1, e - 1) = 1 .. e - 1
      /\ \A i \in 1 .. e - 1 : SubSeq(p, 1, e - 1)[i] = p[i]
  BY <1>1, <1>2, <1>3
<1>5. Choice!Visited(p) = SubSeq(p, 1, e - 1)
  BY DEF Choice!Visited, e
<1>6. Choice!Visited(p) \in Seq(N)
  BY <1>4, <1>5
<1>7. /\ Choice!Hops(p) \in Seq({n \in N : n.kind = "pci"})
      /\ Choice!Satas(p) \in Seq({n \in N : n.kind = "sata"})
  BY <1>6, TakenType DEF Choice!Hops, Choice!Satas
<1>8. /\ Choice!Hops(p) \in Seq(NodesOf(p, "pci"))
      /\ Choice!Satas(p) \in Seq(NodesOf(p, "sata"))
  BY <1>7 DEF NodesOf, N
<1>9. \A n \in NodesOf(p, "pci") : n.slot \in PciSlots
  BY StorageAssumption DEF NodesOf
<1> QED BY <1>1, <1>2, <1>3, <1>4, <1>5, <1>8, <1>9 DEF N, e

\* The buses of a walk: bus 0 first, then whatever bus each bridge leads to.
LEMMA WalkBusFacts ==
  ASSUME pci \in Topologies, NEW N, NEW hops \in Seq(N), Len(hops) > 0,
         \A n \in N : n.slot \in PciSlots
  PROVE  /\ Choice!WalkBus(hops) \in [1 .. Len(hops) -> Buses \cup {NoBus}]
         /\ Choice!WalkBus(hops)[1] = 0
         /\ \A i \in 1 .. Len(hops) - 1 :
               Choice!WalkBus(hops)[i + 1] =
                   IF Choice!WalkBus(hops)[i] = NoBus THEN NoBus
                   ELSE LET at == pci[<<Choice!WalkBus(hops)[i], hops[i].slot>>] IN
                        IF at.class = "bridge" THEN at.secondary ELSE NoBus
<1> DEFINE V == Buses \cup {NoBus}
           Ahead(b, h) == IF b = NoBus THEN NoBus
                          ELSE LET at == pci[<<b, h.slot>>] IN
                               IF at.class = "bridge" THEN at.secondary ELSE NoBus
           Def(f) == [i \in 1 .. Len(hops) |->
                         IF i = 1 THEN 0
                         ELSE IF f[i - 1] = NoBus THEN NoBus
                         ELSE LET at == pci[<<f[i - 1], hops[i - 1].slot>>] IN
                              IF at.class = "bridge" THEN at.secondary ELSE NoBus]
           F == [k \in Nat |-> [b \in V |->
                    IF k + 1 \in 1 .. Len(hops) THEN Ahead(b, hops[k + 1]) ELSE NoBus]]
           walk == CHOOSE f : f = Def(f)
<1>1. Len(hops) \in Nat \ {0} /\ 0 \in V /\ NoBus \in V
  BY StorageAssumption
<1>2. ASSUME NEW b \in V, NEW h \in N PROVE Ahead(b, h) \in V
  <2>1. b # NoBus => <<b, h.slot>> \in Buses \X PciSlots
    OBVIOUS
  <2> QED BY <2>1, StorageAssumption
<1>3. F \in [Nat -> [V -> V]]
  <2> SUFFICES ASSUME NEW k \in Nat, NEW b \in V PROVE F[k][b] \in V
    OBVIOUS
  <2>1. k + 1 \in 1 .. Len(hops) => hops[k + 1] \in N
    OBVIOUS
  <2> HIDE DEF Ahead, V
  <2> QED BY <1>1, <1>2, <2>1
<1>4. PICK f \in [0 .. Len(hops) - 1 -> V] : Follows(f, 0, F, Len(hops) - 1)
  <2> DEFINE m == Len(hops) - 1
  <2>1. m \in Nat
    BY <1>1
  <2> HIDE DEF F, V, m
  <2>2. \E f \in [0 .. m -> V] : Follows(f, 0, F, m)
    BY <1>1, <1>3, <2>1, FiniteRecursion
  <2> QED BY <2>2 DEF m
<1> DEFINE g == [i \in 1 .. Len(hops) |-> f[i - 1]]
<1>5. g = Def(g)
  <2>1. ASSUME NEW i \in 1 .. Len(hops) PROVE g[i] = Def(g)[i]
    <3>1. CASE i = 1
      <4>1. g[1] = f[0] /\ f[0] = 0
        <5>1. f[0] = 0
          <6> HIDE DEF F
          <6> QED BY <1>4 DEF Follows
        <5> QED BY <1>1, <5>1
      <4>2. Def(g)[1] = 0
        BY <1>1
      <4> QED BY <3>1, <4>1, <4>2
    <3>2. CASE i # 1
      <4>1. /\ i - 2 \in 0 .. (Len(hops) - 1) - 1 /\ (i - 2) + 1 = i - 1
            /\ i - 1 \in 1 .. Len(hops) /\ (i - 1) - 1 = i - 2
        BY <1>1, <3>2
      <4>2. f[i - 1] = F[i - 2][f[i - 2]] /\ f[i - 2] \in V
        <5>1. i - 2 \in 0 .. Len(hops) - 1
          BY <4>1
        <5>2. f[(i - 2) + 1] = F[i - 2][f[i - 2]]
          <6> HIDE DEF F, V
          <6> QED BY <1>4, <4>1 DEF Follows
        <5> HIDE DEF F, V
        <5> QED BY <1>4, <4>1, <5>1, <5>2
      <4>3. F[i - 2][f[i - 2]] = Ahead(f[i - 2], hops[i - 1])
        BY <4>1, <4>2
      <4>4. g[i] = f[i - 1] /\ g[i - 1] = f[i - 2]
        BY <4>1
      <4> QED BY <3>2, <4>2, <4>3, <4>4
    <3> QED BY <3>1, <3>2
  <2> QED BY <2>1
<1>6. walk = Def(walk)
  BY <1>5
<1>7. Choice!WalkBus(hops) = walk
  BY DEF Choice!WalkBus
<1> HIDE DEF walk
<1>8. walk[1] = 0
  BY <1>1, <1>6
<1>9. ASSUME NEW i \in 1 .. Len(hops) - 1
      PROVE  walk[i + 1] = Ahead(walk[i], hops[i])
  <2>1. \A j \in 2 .. Len(hops) : Def(walk)[j] = Ahead(walk[j - 1], hops[j - 1])
    BY <1>1
  <2>2. i + 1 \in 2 .. Len(hops) /\ (i + 1) - 1 = i
    BY <1>1
  <2>3. walk[i + 1] = Def(walk)[i + 1]
    BY <1>6
  <2> HIDE DEF Def, Ahead
  <2> QED BY <2>1, <2>2, <2>3
<1>10. 1 .. Len(hops) \subseteq {i \in 1 .. Len(hops) : walk[i] \in V}
  <2> DEFINE S == {i \in 1 .. Len(hops) : walk[i] \in V}
  <2>1. 1 \in S
    BY <1>1, <1>8
  <2>2. ASSUME NEW i \in 1 .. Len(hops) - 1, i \in S PROVE i + 1 \in S
    <3>1. walk[i] \in V /\ hops[i] \in N /\ i + 1 \in 1 .. Len(hops)
      BY <1>1, <2>2
    <3> HIDE DEF V, Ahead
    <3> QED BY <1>2, <1>9, <3>1
  <2> HIDE DEF S
  <2>3. 1 .. Len(hops) \subseteq S
    BY <1>1, <2>1, <2>2, InductUpTo
  <2> QED BY <2>3 DEF S
<1>11. walk \in [1 .. Len(hops) -> V]
  <2>1. walk = [i \in 1 .. Len(hops) |-> walk[i]]
    BY <1>6
  <2> QED BY <1>10, <2>1
<1> QED BY <1>7, <1>8, <1>9, <1>11

\* The controller block_resolve_pci_path yields is the one the bridges of the
\* path lead to, and there is at most one.
LEMMA ResolvedIsReached ==
  ASSUME path \in DevicePaths, pci \in Topologies,
         NEW a \in Choice!block_resolve_pci_path(Choice!Hops(path))
  PROVE  /\ a \in Buses \X PciSlots
         /\ Choice!Reaches(path, 0, a)
         /\ Choice!block_resolve_pci_path(Choice!Hops(path)) = {a}
<1> DEFINE hops == Choice!Hops(path)
           N == NodesOf(path, "pci")
           bus == Choice!WalkBus(hops)
<1>1. hops \in Seq(N) /\ \A n \in N : n.slot \in PciSlots
  BY PathFacts
<1>2. /\ a \in Buses \X PciSlots
      /\ hops # <<>>
      /\ a = <<bus[Len(hops)], hops[Len(hops)].slot>>
  BY DEF Choice!block_resolve_pci_path, Choice!Addresses
<1>3. Choice!block_resolve_pci_path(Choice!Hops(path)) = {a}
  BY <1>2 DEF Choice!block_resolve_pci_path
<1> HIDE DEF hops, N
<1>4. Len(hops) \in Nat /\ Len(hops) > 0
  BY <1>1, <1>2
<1>5. /\ bus \in [1 .. Len(hops) -> Buses \cup {NoBus}]
      /\ bus[1] = 0
      /\ \A i \in 1 .. Len(hops) - 1 :
               bus[i + 1] = IF bus[i] = NoBus THEN NoBus
                            ELSE LET at == pci[<<bus[i], hops[i].slot>>] IN
                                 IF at.class = "bridge" THEN at.secondary ELSE NoBus
  BY <1>1, <1>4, WalkBusFacts
<1> HIDE DEF bus
<1>6. bus[Len(hops)] \in Buses
  <2>1. <<bus[Len(hops)], hops[Len(hops)].slot>> \in Buses \X PciSlots
    BY <1>2
  <2> QED BY <2>1
\* A bus that is not there stays away: going back from the last hop, every
\* bus is there.
<1>7. \A i \in 1 .. Len(hops) : bus[i] # NoBus
  <2> DEFINE m == Len(hops) - 1
             S == {k \in 0 .. m : bus[Len(hops) - k] # NoBus}
  <2>0. m \in Nat
    BY <1>4
  <2>1. 0 \in S
    BY <1>4, <1>6, StorageAssumption
  <2>2. ASSUME NEW k \in 0 .. m - 1, k \in S PROVE k + 1 \in S
    <3>1. /\ Len(hops) - (k + 1) \in 1 .. Len(hops) - 1
          /\ (Len(hops) - (k + 1)) + 1 = Len(hops) - k
          /\ bus[Len(hops) - k] # NoBus
      BY <1>4, <2>2
    <3>2. bus[Len(hops) - (k + 1)] # NoBus
      BY <1>5, <3>1
    <3> QED BY <1>4, <3>2
  <2> HIDE DEF S, m
  <2>3. 0 .. m \subseteq S
    BY <2>0, <2>1, <2>2, InductUpTo
  <2>4. ASSUME NEW i \in 1 .. Len(hops) PROVE bus[i] # NoBus
    <3>1. Len(hops) - i \in 0 .. m /\ Len(hops) - (Len(hops) - i) = i
      BY <1>4 DEF m
    <3>2. Len(hops) - i \in S
      BY <2>3, <3>1
    <3> QED BY <3>1, <3>2 DEF S
  <2> QED BY <2>4
<1>8. bus \in [1 .. Len(hops) -> Buses]
  BY <1>5, <1>7
<1>9. ASSUME NEW i \in 1 .. Len(hops) - 1
      PROVE  LET at == pci[<<bus[i], hops[i].slot>>] IN
             at.class = "bridge" /\ at.secondary = bus[i + 1]
  <2>1. bus[i] # NoBus /\ bus[i + 1] # NoBus
    BY <1>4, <1>7
  <2> QED BY <1>5, <2>1
<1>10. Choice!Reaches(path, 0, a)
  BY <1>2, <1>5, <1>8, <1>9 DEF Choice!Reaches, hops
<1> QED BY <1>2, <1>3, <1>10

\* The disks the two scans of the path yield are disks the path stands for.
LEMMA AhciCandidate ==
  ASSUME path \in DevicePaths, pci \in Topologies,
         NEW d \in Choice!block_boot_path_to_ahci(path)
  PROVE  /\ d \in Choice!BootDisks
         /\ d.backend = "ahci"
         /\ Choice!block_boot_path_to_ahci(path) = {d}
<1> DEFINE s == Choice!Satas(path)
           Ok(b) == /\ \A i \in DOMAIN Choice!Visited(path) : Choice!Visited(path)[i].kind # "bad"
                    /\ s # <<>>
                    /\ \A i \in DOMAIN s : s[i].valid
                    /\ Len(Choice!Hops(path)) <= MaxHops
<1>1. PICK a \in Choice!block_resolve_pci_path(Choice!Hops(path)) :
          Ok(a) /\ d = Choice!AhciDisk(a, s[Len(s)].port)
  BY DEF Choice!block_boot_path_to_ahci
<1>2. /\ a \in Buses \X PciSlots
      /\ Choice!Reaches(path, 0, a)
      /\ Choice!block_resolve_pci_path(Choice!Hops(path)) = {a}
  BY ResolvedIsReached
<1>3. Len(s) \in DOMAIN s
  <2>1. s \in Seq(NodesOf(path, "sata"))
    BY PathFacts
  <2> HIDE DEF s
  <2> QED BY <1>1, <2>1
<1>4. d \in Choice!BootDisks
  BY <1>1, <1>2, <1>3 DEF Choice!BootDisks, Choice!Addresses
<1>5. d.backend = "ahci"
  BY <1>1 DEF Choice!AhciDisk
<1>6. Choice!block_boot_path_to_ahci(path) = {d}
  BY <1>1, <1>2 DEF Choice!block_boot_path_to_ahci
<1> QED BY <1>4, <1>5, <1>6

\* If the path names an ATA drive before its end, the scan for one finds it or
\* calls the path invalid.
LEMMA AtaCandidate ==
  ASSUME path \in DevicePaths
  PROVE  LET ata == Choice!block_boot_path_to_ata(path) IN
         /\ ata.result = "FOUND" =>
               ata.disk \in Choice!BootDisks /\ ata.disk.backend = "ata"
         /\ ata.result \notin {"FOUND", "INVALID"} =>
               \A i \in DOMAIN Choice!Visited(path) : Choice!Visited(path)[i].kind # "atapi"
<1> DEFINE kinds == {"atapi", "bad", "end"}
           f == Choice!First(path, kinds)
           e == Choice!First(path, {"end"})
           v == Choice!Visited(path)
           ata == Choice!block_boot_path_to_ata(path)
<1>1. /\ f \in 1 .. Len(path) + 1 /\ (f <= Len(path) => path[f].kind \in kinds)
      /\ \A j \in 1 .. f - 1 : path[j].kind \notin kinds
      /\ e \in 1 .. Len(path) + 1 /\ (e <= Len(path) => path[e].kind \in {"end"})
      /\ \A j \in 1 .. e - 1 : path[j].kind \notin {"end"}
  BY PathFacts, FirstExists
<1>2. Len(path) \in Nat /\ DOMAIN v = 1 .. e - 1 /\ \A i \in 1 .. e - 1 : v[i] = path[i]
  BY PathFacts
<1>3. ata = IF f > Len(path) \/ path[f].kind = "end" THEN [result |-> "ABSENT"]
            ELSE IF path[f].kind = "bad" \/ path[f].channel > 1 \/ path[f].drive > 1
            THEN [result |-> "INVALID"]
            ELSE [result |-> "FOUND",
                  disk |-> Choice!AtaDisk(path[f].channel, path[f].drive)]
  BY DEF Choice!block_boot_path_to_ata
<1> HIDE DEF ata, f, e, v
<1>4. ASSUME ata.result = "FOUND"
      PROVE  ata.disk \in Choice!BootDisks /\ ata.disk.backend = "ata"
  <2>1. /\ f <= Len(path) /\ path[f].kind = "atapi"
        /\ ata.disk = Choice!AtaDisk(path[f].channel, path[f].drive)
    BY <1>1, <1>2, <1>3, <1>4
  <2>2. f < e
    BY <1>1, <1>2, <2>1
  <2>3. f \in DOMAIN v /\ v[f] = path[f]
    BY <1>1, <1>2, <2>2
  <2> QED BY <2>1, <2>3 DEF Choice!BootDisks, Choice!AtaDisk, v
<1>5. ASSUME ata.result \notin {"FOUND", "INVALID"}, NEW i \in DOMAIN v
      PROVE  v[i].kind # "atapi"
  <2>1. f > Len(path) \/ path[f].kind = "end"
    BY <1>3, <1>5
  <2>2. e <= f
    BY <1>1, <1>2, <2>1
  <2> QED BY <1>1, <1>2, <1>5, <2>2
<1> QED BY <1>4, <1>5 DEF ata, v

-----------------------------------------------------------------------------
(* block_init.                                                             *)

AhciDisks == Choice!block_boot_path_to_ahci(path)
AtaChoice ==
    LET ata == Choice!block_boot_path_to_ata(path) IN
    IF ata.result = "FOUND" THEN ata.disk ELSE Choice!AtaDisk(0, 0)
Starts(d) == <<d.controller, d.port>> \in drives

\* The candidates: the SATA disk of the path, if it names one, and an ATA drive.
Collected ==
    /\ Choice!block_boot_path_to_ata(path).result # "INVALID"
    /\ \/ AhciDisks = {} /\ candidates = <<AtaChoice>>
       \/ \E d \in AhciDisks : candidates = <<d, AtaChoice>>

\* driver_core_probe goes past the SATA disk only if it does not start.
Probing ==
    /\ target = <<>>
    /\ next \in {<<1, 1>>, <<1, 2>>, <<2, 1>>, <<2, 2>>}
    /\ next[1] = 2 => AhciDisks # {}
    /\ next # <<1, 1>> => \A d \in AhciDisks : ~Starts(d)

Bound ==
    \/ \E d \in AhciDisks : target = <<d>> /\ gport = <<d>> /\ Starts(d)
    \/ target = <<AtaChoice>> /\ \A d \in AhciDisks : ~Starts(d)

BlockInv ==
    \/ bpc = "returned"
    \/ /\ bpc \in {"start", "collect", "probe", "bound", "failed"}
       /\ path \in DevicePaths
       /\ pci \in Topologies
       /\ bpc \in {"start", "collect", "failed"} => target = <<>>
       /\ bpc \in {"start", "collect"} => next = <<1, 1>>
       /\ bpc # "start" => registered = <<"ahci", "ata">>
       /\ bpc \in {"probe", "bound"} => Collected
       /\ bpc = "probe" => Probing
       /\ bpc = "bound" => Bound

\* A sequence of one element, extended.
LEMMA AppendToOne ==
  ASSUME NEW d, NEW a
  PROVE  Append(<<d>>, a) = <<d, a>>
<1> DEFINE V == {d, a}
           s == Append(<<d>>, a)
           t == <<d, a>>
<1>1. <<d>> \in Seq(V) /\ t \in Seq(V) /\ a \in V /\ Len(<<d>>) = 1
  OBVIOUS
<1>2. Len(t) = 2 /\ t[1] = d /\ t[2] = a
  OBVIOUS
<1>3. s \in Seq(V) /\ Len(s) = 2 /\ s[1] = d /\ s[2] = a
  BY <1>1, AppendProperties
<1> HIDE DEF s, t, V
<1>4. \A i \in 1 .. Len(s) : s[i] = t[i]
  BY <1>2, <1>3
<1>5. s = t
  BY <1>1, <1>2, <1>3, <1>4, SeqEqual
<1> QED BY <1>5 DEF s, t

\* The backend of the ATA candidate.
LEMMA AtaChoiceBackend ==
  ASSUME path \in DevicePaths PROVE AtaChoice.backend = "ata"
BY AtaCandidate DEF AtaChoice, Choice!AtaDisk

\* Every step keeps the invariant of block_init.
LEMMA BlockStep ==
  ASSUME BlockInv, [Next]_vars
  PROVE  BlockInv'
<1> USE DEF BlockInv
<1> DEFINE Same == UNCHANGED <<path, pci, drives>>
<1>1. ASSUME Same
      PROVE  AhciDisks' = AhciDisks /\ AtaChoice' = AtaChoice
             /\ Choice!block_boot_path_to_ata(path)' = Choice!block_boot_path_to_ata(path)
             /\ \A d : Starts(d)' = Starts(d)
  BY <1>1 DEF AhciDisks, AtaChoice, Starts,
              Choice!block_boot_path_to_ahci, Choice!block_boot_path_to_ata,
              Choice!block_resolve_pci_path, Choice!WalkBus
<1>2. CASE UNCHANGED search
  <2>1. Same /\ UNCHANGED <<bpc, registered, candidates, next, gport, target>>
    BY <1>2 DEF search
  <2>2. Collected' = Collected /\ Probing' = Probing /\ Bound' = Bound
    BY <1>1, <2>1 DEF Collected, Probing, Bound
  <2> QED BY <2>1, <2>2
<1>3. CASE Bind
  BY <1>3 DEF Bind
<1>4. CASE Choice!Register
  BY <1>4 DEF Choice!Register
<1>5. CASE Choice!Collect
  <2>1. /\ Same /\ bpc = "collect" /\ bpc' = "probe"
        /\ UNCHANGED <<registered, next, gport, target>>
        /\ Choice!block_boot_path_to_ata(path).result # "INVALID"
    BY <1>5 DEF Choice!Collect
  <2>2. PICK sata \in {<<>>} \cup {<<d>> : d \in AhciDisks} :
            /\ sata = <<>> <=> AhciDisks = {}
            /\ candidates' = Append(sata, AtaChoice)
    BY <1>5 DEF Choice!Collect, AhciDisks, AtaChoice
  <2>3. \/ AhciDisks = {} /\ candidates' = <<AtaChoice>>
        \/ \E d \in AhciDisks : candidates' = <<d, AtaChoice>>
    <3>1. CASE sata = <<>>
      BY <2>2, <3>1
    <3>2. ASSUME NEW d \in AhciDisks, sata = <<d>> PROVE candidates' = <<d, AtaChoice>>
      BY <2>2, <3>2, AppendToOne
    <3> QED BY <2>2, <3>1, <3>2
  <2> QED BY <1>1, <2>1, <2>3 DEF Collected, Probing
<1>6. CASE Choice!CollectInvalid
  BY <1>6 DEF Choice!CollectInvalid
<1>7. CASE Choice!Mismatch \/ Choice!ProbeAhci \/ Choice!ProbeAta
  <2>1. /\ Same /\ bpc = "probe" /\ UNCHANGED <<registered, candidates>>
        /\ next[1] <= Len(candidates)
        /\ registered = <<"ahci", "ata">> /\ Collected /\ Probing
        /\ path \in DevicePaths /\ pci \in Topologies
    BY <1>7 DEF Choice!Mismatch, Choice!ProbeAhci, Choice!ProbeAta
  <2>2. AtaChoice.backend = "ata" /\ \A d \in AhciDisks : d.backend = "ahci" /\ AhciDisks = {d}
    BY <2>1, AtaChoiceBackend, AhciCandidate DEF AhciDisks
  <2>3. \/ /\ next = <<1, 1>> /\ AhciDisks = {} /\ Choice!Device = AtaChoice /\ ~Choice!Matches
        \/ /\ next = <<1, 2>> /\ AhciDisks = {} /\ Choice!Device = AtaChoice /\ Choice!Matches
        \/ /\ next = <<1, 1>> /\ Choice!Device \in AhciDisks /\ Choice!Matches
        \/ /\ next = <<1, 2>> /\ Choice!Device \in AhciDisks /\ ~Choice!Matches
        \/ /\ next = <<2, 1>> /\ Choice!Device = AtaChoice /\ ~Choice!Matches /\ AhciDisks # {}
        \/ /\ next = <<2, 2>> /\ Choice!Device = AtaChoice /\ Choice!Matches /\ AhciDisks # {}
    BY <2>1, <2>2 DEF Collected, Probing, Choice!Device, Choice!Matches
  <2>4. Collected'
    BY <1>1, <2>1 DEF Collected
  <2>5. CASE Choice!Mismatch
    <3>1. bpc' = bpc /\ target' = target /\ Choice!Advance /\ ~Choice!Matches
      BY <2>5 DEF Choice!Mismatch
    <3>2. \/ next = <<1, 1>> /\ next' = <<1, 2>> /\ AhciDisks = {}
          \/ next = <<1, 2>> /\ next' = <<2, 1>> /\ AhciDisks # {}
          \/ next = <<2, 1>> /\ next' = <<2, 2>> /\ AhciDisks # {}
      BY <2>1, <2>3, <3>1 DEF Choice!Advance
    <3>3. Probing'
      BY <1>1, <2>1, <3>1, <3>2 DEF Probing
    <3> QED BY <2>1, <2>4, <3>1, <3>3
  <2>6. CASE Choice!ProbeAhci
    <3>1. /\ Choice!Matches /\ Choice!Device.backend = "ahci" /\ Choice!ahci_init
          /\ IF Starts(Choice!Device)
             THEN target' = <<Choice!Device>> /\ bpc' = "bound"
             ELSE Choice!Advance /\ UNCHANGED <<bpc, target>>
      BY <2>6 DEF Choice!ProbeAhci, Choice!ahci_configure_port, Starts
    <3>2. next = <<1, 1>> /\ Choice!Device \in AhciDisks
      BY <2>2, <2>3, <3>1
    <3>3. CASE Starts(Choice!Device)
      <4>1. gport' = <<Choice!Device>>
        BY <3>1, <3>3 DEF Choice!ahci_init, Choice!ahci_configure_port, Starts
      <4>2. Bound'
        BY <1>1, <2>1, <3>1, <3>2, <3>3, <4>1 DEF Bound
      <4> QED BY <2>1, <2>4, <3>1, <3>3, <4>2
    <3>4. CASE ~Starts(Choice!Device)
      <4>1. next' = <<1, 2>>
        BY <2>1, <3>1, <3>2, <3>4 DEF Choice!Advance
      <4>2. Probing'
        BY <1>1, <2>1, <2>2, <3>1, <3>2, <3>4, <4>1 DEF Probing
      <4> QED BY <2>1, <2>4, <3>1, <3>4, <4>2
    <3> QED BY <3>3, <3>4
  <2>7. CASE Choice!ProbeAta
    <3>1. /\ Choice!Matches /\ Choice!Device.backend = "ata"
          /\ target' = <<Choice!Device>> /\ bpc' = "bound"
      BY <2>7 DEF Choice!ProbeAta
    <3>2. Choice!Device = AtaChoice /\ next # <<1, 1>>
      BY <2>2, <2>3, <3>1
    <3>3. Bound'
      BY <1>1, <2>1, <3>1, <3>2 DEF Bound, Probing
    <3> QED BY <2>1, <2>4, <3>1, <3>3
  <2> QED BY <1>7, <2>5, <2>6, <2>7
<1> QED
  BY <1>2, <1>3, <1>4, <1>5, <1>6, <1>7
  DEF Next, vars, BlockInit, Choice!Next, ServeAhci, ServeAta

\* The disk that is bound is the boot disk, if the path leads to one that works.
LEMMA BlockInvImplies == BlockInv => BindsBootDisk
<1> SUFFICES ASSUME BlockInv, bpc # "returned"
             PROVE  Choice!AhciIsBootDisk /\ Choice!NamedDiskWins
  BY DEF BindsBootDisk
<1> USE DEF BlockInv
<1>1. CASE bpc # "bound"
  BY <1>1 DEF Choice!AhciIsBootDisk, Choice!NamedDiskWins, Probing
<1>2. CASE bpc = "bound"
  <2>1. path \in DevicePaths /\ pci \in Topologies /\ Bound /\ Collected
    BY <1>2
  <2>2. \A d \in AhciDisks : d \in Choice!BootDisks /\ d.backend = "ahci" /\ AhciDisks = {d}
    BY <2>1, AhciCandidate DEF AhciDisks
  <2>3. AtaChoice.backend = "ata"
    BY <2>1, AtaChoiceBackend
  <2>4. (\E i \in DOMAIN Choice!Visited(path) : Choice!Visited(path)[i].kind = "atapi")
          => AtaChoice \in Choice!BootDisks
    BY <2>1, AtaCandidate DEF AtaChoice, Collected
  <2>5. Choice!AhciIsBootDisk
    <3>1. ASSUME NEW d \in AhciDisks, target = <<d>>, gport = <<d>>, Starts(d)
          PROVE  Choice!AhciIsBootDisk
      <4>1. target[1] = d /\ d \in Choice!BootDisks
        BY <2>2, <3>1
      <4> QED BY <3>1, <4>1 DEF Choice!AhciIsBootDisk, Starts
    <3>2. ASSUME target = <<AtaChoice>> PROVE Choice!AhciIsBootDisk
      <4>1. target[1].backend = "ata"
        BY <2>3, <3>2
      <4> QED BY <4>1 DEF Choice!AhciIsBootDisk
    <3> QED BY <2>1, <3>1, <3>2 DEF Bound
  <2>6. \A d \in AhciDisks : Starts(d) => target = <<d>>
    BY <2>1, <2>2 DEF Bound
  <2>7. target[1].backend = "ata" => target[1] = AtaChoice
    BY <2>1, <2>2 DEF Bound
  <2>8. Choice!NamedDiskWins
    BY <2>4, <2>6, <2>7 DEF Choice!NamedDiskWins, AhciDisks, Starts
  <2> QED BY <2>5, <2>8
<1> QED BY <1>1, <1>2

\* BindsBootDisk: whatever path the firmware reports, the disk that is bound
\* is the one the firmware booted from, if the path leads to one that works.
THEOREM BootDiskIsBound == Spec => []BindsBootDisk
<1>1. Init => BlockInv
  BY DEF Init, Choice!Init, BlockInv
<1>2. BlockInv /\ [Next]_vars => BlockInv'
  BY BlockStep
<1> QED BY <1>1, <1>2, BlockInvImplies, PTL DEF Spec

=============================================================================
