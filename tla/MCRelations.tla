----------------------------- MODULE MCRelations -----------------------------
(* One collector that asserts edges (hardware's disks back block devices, one
   of them asserting the same edge twice), the one that publishes their far
   end, and one whose declaration claims the same kind and which declines every
   round: it sweeps the host as the others do. *)
EXTENDS Relations

CONSTANTS Contender   \* the contending collectors: {} or {"contender"}

MCCollectors == {"hardware", "storage"} \union Contender
MCNames == {"disk", "twice", "sda"}
MCPrefix == [c \in MCCollectors |-> IF c = "hardware" THEN "scsi" ELSE "block-device"]
MCAnswers ==
  [c \in MCCollectors |-> CASE c = "hardware" -> {Declined, {}, {"disk"}, {"twice"}}
                            [] c = "storage" -> {Declined, {}, {"sda"}}
                            [] OTHER -> {Declined}]
MCLinks ==
  [c \in MCCollectors |-> [n \in MCNames |->
     CASE c = "hardware" /\ n = "disk"  -> <<<<"block-device", "sda">>>>
       [] c = "hardware" /\ n = "twice" -> <<<<"block-device", "sda">>, <<"block-device", "sda">>>>
       [] OTHER -> <<>>]]
=============================================================================
