------------------------------ MODULE MCAnswers ------------------------------
(***************************************************************************)
(* Answers for TLC: a border router and two devices, one of which may have *)
(* become a router that its old parent still lists.  Of "kitchen", "kitchen*)
(* lamp" and "kitchen lamp hall" each contains the one before.             *)
(***************************************************************************)
EXTENDS Answers

CONSTANTS br, d1, d2, f1, kitchen, lamp, hall, c1, c2

ThreeDevices == {br, d1, d2}
Numbers == (br :> 2) @@ (d1 :> 1) @@ (d2 :> 3)
KitchenAndLamp == (br :> NoName) @@ (d1 :> lamp) @@ (d2 :> kitchen)
NoSourceNames == [d \in Devices |-> NoName]

Children(ds) == [d \in ds |-> 0]
NoLinks == [d \in ThreeDevices |-> {}]
OneRouter == [routers |-> {br}, links |-> NoLinks,
              children |-> (br :> Children({d1, d2}))]
Promoted == [routers |-> {br, d1},
             links |-> [NoLinks EXCEPT ![br] = {1}, ![d1] = {2}],
             children |-> (br :> Children({d1})) @@ (d1 :> Children({d2}))]
APromotedChild == {Promoted}
OneReading == {OneRouter}
LampAlone == [d \in Devices |-> IF d = d2 THEN lamp ELSE NoName]
EachContainsTheLast == {<<lamp, kitchen>>, <<hall, kitchen>>, <<hall, lamp>>}
LampContainsKitchen == {<<lamp, kitchen>>}

AnyAndARoute == (c1 :> Kinds) @@ (c2 :> {"GET devices"})
Renames == [c \in {c1, c2} |-> {"set_device_name"}]

NoneOrFabricLabelled == {NoLabels, [NoLabels EXCEPT ![f1] = lamp]}
DevicesLabelled == {KitchenAndLamp @@ NoLabels}
=============================================================================
