------------------------------ MODULE MCStorage -----------------------------
(* Two PCI buses with two places each, one bridge at most, AHCI controllers on
   either bus, and device paths of up to four nodes.  Two sectors and transfers
   of up to two: a transfer can stay on the disk, run over the last address of
   the ATA registers, or start behind it; two commands can differ in sector,
   length and direction.  One buffer lies above 4 GiB. *)
EXTENDS Storage

CONSTANTS s1, s2

MCTopologies ==
    LET classes == {[class |-> "absent"], [class |-> "ahci"],
                    [class |-> "other"]}
        bridges == {[class |-> "bridge", secondary |-> b] : b \in {1, NoBus}}
    IN  {t \in [Buses \X PciSlots -> classes \cup bridges] :
            /\ t[<<0, s1>>].class \in {"ahci", "absent"}
            /\ t[<<0, s2>>].class \in {"bridge", "other"}
            /\ t[<<1, s1>>].class = "ahci"
            /\ t[<<1, s2>>].class = "absent"}

MCNodes ==
    {[kind |-> "pci", slot |-> s1], [kind |-> "pci", slot |-> s2],
     [kind |-> "sata", port |-> 0, valid |-> TRUE],
     [kind |-> "sata", port |-> 1, valid |-> FALSE],
     [kind |-> "atapi", channel |-> 1, drive |-> 0],
     [kind |-> "atapi", channel |-> 2, drive |-> 0],
     [kind |-> "bad"], [kind |-> "end"]}

MCDevicePaths ==
    UNION {[1 .. n -> MCNodes] : n \in 0 .. 3}
    \cup {p \in [1 .. 4 -> MCNodes] : p[1].kind = "pci"}
=============================================================================
