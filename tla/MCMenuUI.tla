------------------------------ MODULE MCMenuUI ------------------------------
(* Instances of MenuUI: two computers, both paired or none, and the home   *)
(* surface or the overlay, which the user opened before, with or without a  *)
(* live probe under way.  The user gives two inputs, or one while there is   *)
(* a change at the computers or a failed answer.                           *)
EXTENDS MenuUI

CONSTANTS a, b

MCNames == <<a, b>>

(* The second computer is in range, or none. *)
MCNearby == {{}, {b}}

(* The first home tile and the overlay's second row; "del" of its first    *)
(* row; yes and no, which are also on the scan button; close; a result.    *)
MCPoints == {<<100, 200>>, <<430, 130>>, <<100, 456>>, <<300, 456>>, <<450, 30>>,
             <<100, 560>>}

Home == visible = FALSE /\ screen = HomeView(hosts, "none")
        /\ ppc = "none" /\ targets = {}

Opened ==
  /\ visible = TRUE
  /\ screen = [overlay |-> TRUE, hosts |-> hosts, scanning |-> FALSE,
               results |-> <<>>, banner |-> "none", confirm |-> NoMac]
  /\ \/ ppc = "none" /\ targets = {}
     \/ ppc = "scan" /\ targets = paired /\ paired # {}

MCInit ==
  /\ Started /\ (Home \/ Opened)
  /\ paired \in {{}, Macs} /\ linked = {}
  /\ inputs \in 0..MaxInputs /\ changes \in 0..MaxChanges
  /\ inputs + changes = MaxChanges

MCSpec == MCInit /\ [][Next]_vars /\ Fairness
=============================================================================
