---------------------------- MODULE MCInstances -----------------------------
(***************************************************************************)
(* Small instances of Instances: machine m1 of Node n1 shares its name     *)
(* after the customer prefix with a foreign one, m2 of n2 has no prefix.   *)
(***************************************************************************)
EXTENDS InstancesInv, TLC

Names == "m1" :> <<"cust", "n1">> @@ "m2" :> <<"n2">> @@ "foreign" :> <<"other", "n1">>
NodeNames == "n1" :> <<"n1">> @@ "n2" :> <<"n2">>
Machines == "n1" :> "m1" @@ "n2" :> "m2"

Net(v4, v6) == [IPv4 |-> v4, IPv6 |-> v6]
Nets == "m1" :> <<Net({"a1"}, {"a6"}), Net({"a2"}, {})>> @@ "m2" :> <<Net({"b1"}, {})>>
        @@ "foreign" :> <<Net({"f1"}, {})>>

Disk(t, gb) == [type |-> t, gb |-> gb]
HW(disks) == [cpu |-> 4, ram |-> 5000, disks |-> disks]
Machinery == "m1" :> HW(<<Disk("STD", 10), Disk("ENT", 40), Disk(None, 90)>>)
             @@ "m2" :> HW(<<Disk(None, 10)>>) @@ "foreign" :> HW(<<Disk("HPC", 5)>>)

\* n1 announces one or two addresses and may know its machine, n2 neither.
SingleIPs == "n1" :> {"a1"} @@ "n2" :> {}
DualIPs == "n1" :> {"a1", "a6"} @@ "n2" :> {}
Presets == "n1" :> {None, [scheme |-> TRUE, id |-> "m1"]} @@ "n2" :> {None}

\* The theorems of InstancesProofs apply to these instances.
ASSUME FoundByName /\ OwnAddresses
=============================================================================
