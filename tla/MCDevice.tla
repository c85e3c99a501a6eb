------------------------------ MODULE MCDevice ------------------------------
(* The parts of a device that share no variable, for TLC: one run explores   *)
(* the state spaces of several components side by side.  part tells which    *)
(* one a behaviour belongs to; the others keep their initial state.          *)
EXTENDS Button, HealthMonitor, ConnectTransfer, DurableQueue, MqttSession,
    MCPartition, FirmwareSlot, TLC

CONSTANTS
    Parts,          \* the components that are explored
    t1, t2

VARIABLE part

TaskDeadline == t1 :> 2 @@ t2 :> 1

(* Two files of one length and one that is the beginning of none.           *)
SmallFiles == {<<1, 2, 1>>, <<1, 1, 2>>, <<2, 1>>}

(* Images of one and two blocks of two bits.                                *)
SmallImages == {<<{1}>>, <<{2}, {1}>>, <<{2}, {1, 2}>>, <<{1, 2}, {1}>>}

(* Messages in one direction only, where an identifier comes round again,   *)
(* and in both.                                                             *)
SmallBudgets == {<<4, 0>>, <<0, 3>>, <<1, 1>>}

deviceVars == <<part, buttonVars, healthVars, transferVars, vars, mqttVars,
                partitionVars, slotVars>>

DeviceInit ==
    /\ part \in Parts
    /\ ButtonInit /\ (part = "button" \/ ~pin)
    /\ HealthInit /\ (part = "health" \/ clock = 0)
    /\ TransferInit
    /\ Init
    /\ MqttInit /\ (part = "mqtt" \/ budget = [out |-> 4, in |-> 0])
    /\ PartitionInit
    /\ SlotInit

ButtonPart == part = "button" /\ UNCHANGED <<part, healthVars, transferVars, vars, mqttVars, partitionVars, slotVars>>
HealthPart == part = "health" /\ UNCHANGED <<part, buttonVars, transferVars, vars, mqttVars, partitionVars, slotVars>>
TransferPart == part = "transfer" /\ UNCHANGED <<part, buttonVars, healthVars, vars, mqttVars, partitionVars, slotVars>>
QueuePart == part = "queue" /\ UNCHANGED <<part, buttonVars, healthVars, transferVars, mqttVars, partitionVars, slotVars>>
MqttPart == part = "mqtt" /\ UNCHANGED <<part, buttonVars, healthVars, transferVars, vars, partitionVars, slotVars>>
FlashPart == part = "flash" /\ UNCHANGED <<part, buttonVars, healthVars, transferVars, vars, mqttVars, slotVars>>
SlotPart == part = "slot" /\ UNCHANGED <<part, buttonVars, healthVars, transferVars, vars, mqttVars, partitionVars>>

DeviceNext ==
    \/ ButtonPart /\ ButtonNext
    \/ HealthPart /\ HealthNext
    \/ TransferPart /\ TransferNext
    \/ QueuePart /\ Next
    \/ MqttPart /\ MqttNext
    \/ FlashPart /\ PartitionNext
    \/ SlotPart /\ SlotNext

DeviceSpec == DeviceInit /\ [][DeviceNext]_deviceVars
=============================================================================
