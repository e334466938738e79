----------------------------- MODULE MCCarriers -----------------------------
(* A fleet of three, which starts with a habitat, a habitat and a shuttle, or *)
(* a shuttle and a factory.                                                   *)
EXTENDS Carriers

Design(hold, bay, hull, lands, flies, by) ==
  [hold |-> hold, bay |-> bay, hull |-> hull, lands |-> lands, flies |-> flies, by |-> by]

MCTemplate ==
  [t \in {"habitat", "factory", "shuttle", "canister", "fighter", "mirror"} |->
     CASE t = "habitat"  -> Design(4, 3, 9, FALSE, TRUE, {"shuttle", "habitat"})
       [] t = "factory"  -> Design(0, 0, 2, TRUE, FALSE, {"planet", "habitat"})
       [] t = "shuttle"  -> Design(1, 1, 0, TRUE, TRUE, {"factory"})
       [] t = "canister" -> Design(0, 0, 1, TRUE, TRUE, {"planet"})
       [] t = "fighter"  -> Design(1, 0, 0, TRUE, TRUE, {"factory"})
       [] t = "mirror"   -> Design(0, 0, 1, FALSE, TRUE, {"shuttle", "habitat"})]

MCStart == {<<"habitat", Nil, Nil>>, <<"habitat", "shuttle", Nil>>,
            <<"shuttle", "factory", Nil>>}
=============================================================================
